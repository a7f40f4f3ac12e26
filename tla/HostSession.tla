---------------------------- MODULE HostSession ----------------------------
(* The local Lead Agent host between the Owner and the Lead.  The host       *)
(* writes Owner turns to the Lead's input one at a time, reads lines of the  *)
(* Lead that acknowledge and answer "the" turn and hardly ever name it,      *)
(* gives up on deadlines, and ends with a stop, a shutdown or the exit of    *)
(* the Lead (local-host; the Lead is runScriptableConversation).             *)
(*                                                                           *)
(* The host is one event loop.  The lines of a chunk are read one after the  *)
(* other, with no event between them, and the continuations of its promises  *)
(* run after the last one, before the next event.                            *)
EXTENDS Naturals, Sequences

CONSTANTS
    Turn,       \* Owner turns
    Project,
    ScopeOf,    \* Turn -> Project: the scope of a turn
    MaxRefusals, \* bound: refused stops
    None

ASSUME TurnsAreScoped == ScopeOf \in [Turn -> Project] /\ None \notin Turn
ASSUME RefusalsAreBounded == MaxRefusals \in Nat

VARIABLES
    host,       \* the variables of hostLocalLead
    stdin,      \* lines written and not read by the Lead
    stdout,     \* lines of the Lead not read by the host
    lead,       \* the Lead: its queue, its turn, the turns it has answered for
    refusals,   \* bound: stops refused
    gaveUp      \* history: a deadline has passed for a turn

vars == <<host, stdin, stdout, lead, refusals, gaveUp>>

\* phase is the await at which the active turn is: of writeLine, of the
\* acknowledgement, of its completion.
Host == [queue : Seq(Turn), active : Turn \cup {None},
         phase : {"idle", "writing", "acking", "completing"},
         acked : BOOLEAN, id : Turn \cup {None},
         response : Turn \cup {None}, error : BOOLEAN, done : {"no", "answered", "failed"},
         turn : [Turn -> {"new", "sent", "answered", "failed"}],
         answer : [Turn -> Turn \cup {None}],
         accepting : BOOLEAN, reading : BOOLEAN,
         stop : {"none", "asking", "draining", "closing"},
         shutdown : {"none", "draining", "closing"},
         closed : BOOLEAN,
         exit : {"none", "explicit-stop", "graceful-shutdown", "unexpected-child-exit",
                 "crash"}]

Lead == [alive : BOOLEAN, queue : Seq(Turn), turn : Turn \cup {None},
         step : {"waiting", "started", "recorded"},
         heard : SUBSET Turn, aborted : BOOLEAN]

Line(kind, t) == [kind |-> kind, turn |-> t]

Init ==
    /\ host = [queue |-> <<>>, active |-> None, phase |-> "idle", acked |-> FALSE, id |-> None,
               response |-> None, error |-> FALSE, done |-> "no",
               turn |-> [t \in Turn |-> "new"], answer |-> [t \in Turn |-> None],
               accepting |-> TRUE, reading |-> FALSE, stop |-> "none", shutdown |-> "none",
               closed |-> FALSE, exit |-> "none"]
    /\ lead = [alive |-> TRUE, queue |-> <<>>, turn |-> None,
               step |-> "waiting", heard |-> {}, aborted |-> FALSE]
    /\ stdin = <<>> /\ stdout = <<>>
    /\ refusals = 0 /\ gaveUp = FALSE

-----------------------------------------------------------------------------
(* What runs after an event, in the order of the promises.                   *)

\* Mutant of Acknowledged: the turn goes on once its line is written.
AcknowledgedUnheard(s) ==
    IF s.phase = "acking" THEN [s EXCEPT !.phase = "completing"] ELSE s

\* writeOwnerLine goes on after the acknowledgement.
Acknowledged(s) ==
    IF s.phase = "acking" /\ s.acked
    THEN [s EXCEPT !.phase = "completing"] ELSE s

\* Mutant of Over: a rejected turn keeps the outcome of its completion.
OverUndecided(s, outcome) ==
    [s EXCEPT !.turn[s.active] = s.done, !.active = None, !.phase = "idle"]

\* The end of completeOwnerTurn, whatever its outcome.
Over(s, outcome) ==
    [s EXCEPT !.turn[s.active] = outcome,
              !.answer[s.active] = IF outcome = "answered" THEN s.response ELSE None,
              !.active = None, !.phase = "idle", !.acked = FALSE, !.id = None,
              !.response = None, !.error = FALSE, !.done = "no"]

Completed(s) ==
    IF s.phase = "completing" /\ s.done # "no" THEN Over(s, s.done) ELSE s

\* finalize: there is one exit; each client rejects what it waits for, also when
\* the connection goes with a host that crashes.
Finalized(s, kind) ==
    IF s.exit # "none" THEN s
    ELSE [s EXCEPT !.exit = kind, !.accepting = FALSE,
                   !.turn = [t \in Turn |-> IF @[t] = "sent" THEN "failed" ELSE @[t]]]

\* requestStop and requestShutdown await the write queue, then end the input
\* of the Lead if it is still there.
Writing(s) == s.phase \in {"writing", "acking"}
Drained(s) ==
    IF Writing(s) \/ "draining" \notin {s.stop, s.shutdown} THEN s
    ELSE IF s.closed THEN Finalized(s, "unexpected-child-exit")
    ELSE [s EXCEPT !.stop     = IF @ = "draining" THEN "closing" ELSE @,
                   !.shutdown = IF @ = "draining" THEN "closing" ELSE @]

\* Mutant of MayBegin: turns do not wait for the turn before them.
MayBeginBeside(s) == s.queue # <<>>

\* semanticTurnQueue: the next turn begins, and writeOwnerLine refuses it when
\* the host stops or the Lead is gone; so it does each one behind it.
MayBegin(s) == s.active = None /\ s.queue # <<>>
Refuses(s)  == ~s.accepting \/ s.closed
Begun(s) ==
    IF ~MayBegin(s) THEN s
    ELSE IF Refuses(s)
    THEN [s EXCEPT !.queue = <<>>,
                   !.turn = [t \in Turn |-> IF \E i \in 1 .. Len(s.queue) : t = s.queue[i]
                                            THEN "failed" ELSE @[t]]]
    ELSE [s EXCEPT !.queue = Tail(@), !.active = Head(s.queue), !.phase = "writing"]

\* The event leaves s, and one continuation runs after the other; a turn that
\* begins writes its line.
Becomes(s) ==
    \E a \in {Acknowledged(s)} : \E c \in {Completed(a)} :
    \E d \in {Drained(c)} : \E n \in {Begun(d)} :
       /\ host' = n
       /\ stdin' = IF n.active \notin {None, host.active}
                   THEN Append(stdin, Line("input", n.active)) ELSE stdin

-----------------------------------------------------------------------------
(* Events of the host.                                                       *)

Up == host.exit = "none"

\* The loop takes the next event: it is not within a chunk of lines.
Ready == Up /\ ~host.reading

\* A turn of the scope of the active one interrupts it, by its identity when
\* that is known, and waits in the queue like any other.
Interrupts(t) == host.active # None /\ ScopeOf[t] = ScopeOf[host.active]

\* stdin.end() has been called.
InputEnded == "closing" \in {host.stop, host.shutdown}

SendTurn(t) ==
    /\ Ready /\ host.turn[t] = "new"
    /\ LET sent == [host EXCEPT !.turn[t] = "sent", !.queue = Append(@, t)] IN
       \/ ~Interrupts(t) /\ Becomes(sent)
       \/ /\ Interrupts(t) /\ ~InputEnded
          /\ host' = sent
          /\ stdin' = Append(stdin, [kind |-> "interrupt", turn |-> host.id, scope |-> ScopeOf[t]])
       \* A write after the end: nobody awaits it, and nobody listens for the
       \* error of the input, unless that is destroyed by now and has none.
       \/ /\ Interrupts(t) /\ InputEnded
          /\ host' \in {sent, Finalized(sent, "crash")}
          /\ UNCHANGED stdin
    /\ UNCHANGED <<stdout, lead, refusals, gaveUp>>

\* The write of the line has been answered; the input of a Lead whose exit has
\* been seen is destroyed, and takes none.
Written ==
    /\ Ready /\ host.phase = "writing"
    /\ Becomes(IF lead.alive THEN [host EXCEPT !.phase = "acking"] ELSE Over(host, "failed"))
    /\ UNCHANGED <<stdout, lead, refusals, gaveUp>>

\* A write fails because the Lead is gone, before its exit has been seen: the
\* input of the Lead has no listener for errors, and the host crashes.
InputFails ==
    /\ Ready /\ ~lead.alive /\ ~host.closed
    /\ host.phase = "writing" \/ stdin # <<>>
    /\ host' = Finalized(host, "crash")
    /\ UNCHANGED <<stdin, stdout, lead, refusals, gaveUp>>

\* One line of the Lead.  It is the active turn's, whichever that is; an
\* acknowledgement is the one that is waited for.
Read(s, line) ==
    CASE line.kind = "recorded" ->
           [s EXCEPT !.id = IF s.active # None THEN line.turn ELSE @, !.acked = @ \/ Writing(s)]
      [] line.kind = "handled"  -> [s EXCEPT !.acked = @ \/ Writing(s)]
      [] line.kind = "response" -> [s EXCEPT !.response = IF s.active # None THEN line.turn ELSE @]
      [] line.kind = "error"    -> [s EXCEPT !.error = @ \/ s.active # None]
      [] line.kind = "complete" ->
           [s EXCEPT !.done = IF s.active = None \/ @ # "no" THEN @
                             ELSE IF s.error \/ s.response = None THEN "failed" ELSE "answered"]

ReadLine ==
    /\ Up /\ stdout # <<>>
    /\ host' = [Read(host, Head(stdout)) EXCEPT !.reading = TRUE]
    /\ stdout' = Tail(stdout)
    /\ UNCHANGED <<stdin, lead, refusals, gaveUp>>

\* A chunk may end after any line.
EndChunk ==
    /\ Up /\ host.reading
    /\ Becomes([host EXCEPT !.reading = FALSE])
    /\ UNCHANGED <<stdout, lead, refusals, gaveUp>>

\* Mutant of AckTimeout: the deadline is that of the write alone.
AckTimeoutOfWrite ==
    /\ Ready /\ host.phase = "writing"
    /\ Becomes(Over(host, "failed"))
    /\ gaveUp' = TRUE
    /\ UNCHANGED <<stdout, lead, refusals>>

\* No acknowledgement within fifteen seconds.
AckTimeout ==
    /\ Ready /\ host.phase = "acking"
    /\ Becomes(Over(host, "failed"))
    /\ gaveUp' = TRUE
    /\ UNCHANGED <<stdout, lead, refusals>>

\* No end of the turn within one hour.
TurnTimeout ==
    /\ Ready /\ host.phase = "completing"
    /\ Becomes([host EXCEPT !.done = "failed"])
    /\ gaveUp' = TRUE
    /\ UNCHANGED <<stdout, lead, refusals>>

\* The close event, after the last output of the Lead: what waits for it is
\* rejected, and a host that was not asked to end ends.
Asked(s) == s.stop # "none" \/ s.shutdown = "closing"
Rejected(s) == IF s.phase = "acking" \/ s.phase = "completing" THEN Over(s, "failed") ELSE s
LeadCloses ==
    /\ Ready /\ ~lead.alive /\ stdout = <<>> /\ ~host.closed
    /\ LET closed == [Rejected(host) EXCEPT !.closed = TRUE] IN
       Becomes(IF Asked(host) THEN closed ELSE Finalized(closed, "unexpected-child-exit"))
    /\ UNCHANGED <<stdout, lead, refusals, gaveUp>>

\* A client asks for the stop; the durable stop intent is looked up.
RequestStop ==
    /\ Ready /\ host.stop = "none"
    /\ Becomes([host EXCEPT !.stop = "asking", !.accepting = FALSE])
    /\ UNCHANGED <<stdout, lead, refusals, gaveUp>>

StopAllowed ==
    /\ Ready /\ host.stop = "asking"
    /\ Becomes([host EXCEPT !.stop = "draining"])
    /\ UNCHANGED <<stdout, lead, refusals, gaveUp>>

\* Without the intent the host goes on as before.
StopRefused ==
    /\ Ready /\ host.stop = "asking" /\ refusals < MaxRefusals
    /\ Becomes(IF host.closed THEN Finalized(host, "unexpected-child-exit")
               ELSE [host EXCEPT !.stop = "none", !.accepting = TRUE])
    /\ refusals' = refusals + 1
    /\ UNCHANGED <<stdout, lead, gaveUp>>

\* A signal of the system, or a failure of the process around the host.
RequestShutdown ==
    /\ Ready /\ host.stop = "none" /\ host.shutdown = "none"
    /\ Becomes([host EXCEPT !.shutdown = "draining", !.accepting = FALSE])
    /\ UNCHANGED <<stdout, lead, refusals, gaveUp>>

\* waitForChildClose: the Lead is gone after its input has ended ...
Gone ==
    /\ Ready /\ ~lead.alive
    /\ \/ host.stop = "closing" /\ Becomes(Finalized(host, "explicit-stop"))
       \/ host.shutdown = "closing" /\ Becomes(Finalized(host, "graceful-shutdown"))
    /\ UNCHANGED <<stdout, lead, refusals, gaveUp>>

\* Mutant of Kill: only a shutdown has a grace.
KillOnShutdown ==
    /\ Ready /\ lead.alive /\ host.shutdown = "closing"
    /\ lead' = [lead EXCEPT !.alive = FALSE] /\ stdin' = <<>>
    /\ UNCHANGED <<host, stdout, refusals, gaveUp>>

\* ... or is killed after its grace; what it had not read goes with it.
Kill ==
    /\ Ready /\ lead.alive /\ InputEnded
    /\ lead' = [lead EXCEPT !.alive = FALSE] /\ stdin' = <<>>
    /\ UNCHANGED <<host, stdout, refusals, gaveUp>>

-----------------------------------------------------------------------------
(* The Lead.                                                                 *)

Running == lead.alive /\ Up
Says(lines) == stdout' = stdout \o lines

\* A line of input is submitted to the scheduler, or refused for its scope; one
\* that is blank is dropped, and nothing is said of it.
LeadTakes ==
    /\ Running /\ stdin # <<>> /\ Head(stdin).kind = "input"
    /\ LET t == Head(stdin).turn IN
       \/ lead' = [lead EXCEPT !.queue = Append(@, t)] /\ UNCHANGED stdout
       \/ /\ Says(<<Line("handled", t), Line("error", t), Line("complete", t)>>)
          /\ lead' = [lead EXCEPT !.heard = @ \cup {t}]
       \/ UNCHANGED <<lead, stdout>>
    /\ stdin' = Tail(stdin)
    /\ UNCHANGED <<host, refusals, gaveUp>>

\* An interruption aborts the turn of its scope, if it is the one it names.
Fits(t, interrupt) ==
    /\ t # None /\ ScopeOf[t] = interrupt.scope
    /\ interrupt.turn \in {None, t}

LeadInterrupted ==
    /\ Running /\ stdin # <<>> /\ Head(stdin).kind = "interrupt"
    /\ lead' = [lead EXCEPT !.aborted = @ \/ Fits(lead.turn, Head(stdin))]
    /\ stdin' = Tail(stdin)
    /\ UNCHANGED <<host, stdout, refusals, gaveUp>>

\* The scheduler takes the first Owner turn.
LeadStarts ==
    /\ Running /\ lead.turn = None /\ lead.queue # <<>>
    /\ lead' = [lead EXCEPT !.turn = Head(lead.queue), !.queue = Tail(@), !.step = "started"]
    /\ UNCHANGED <<host, stdin, stdout, refusals, gaveUp>>

\* The input is durable before it is acknowledged.
LeadRecords ==
    /\ Running /\ lead.step = "started"
    /\ lead' = [lead EXCEPT !.step = "recorded", !.heard = @ \cup {lead.turn}]
    /\ Says(<<Line("recorded", lead.turn)>>)
    /\ UNCHANGED <<host, stdin, refusals, gaveUp>>

\* The end of a turn: an answer or an error (of an aborted one an error), then
\* the marker.  A turn that recorded nothing is acknowledged as handled.
LeadEnds ==
    /\ Running /\ lead.step \in {"started", "recorded"}
    /\ \E result \in IF lead.aborted THEN {"error"} ELSE {"response", "error"} :
         Says((IF lead.step = "started" THEN <<Line("handled", lead.turn)>> ELSE <<>>)
              \o <<Line(result, lead.turn), Line("complete", lead.turn)>>)
    /\ lead' = [lead EXCEPT !.turn = None, !.step = "waiting", !.aborted = FALSE,
                            !.heard = @ \cup {lead.turn}]
    /\ UNCHANGED <<host, stdin, refusals, gaveUp>>

\* The end of its input, or any other end.
LeadExits ==
    /\ Running
    /\ lead' = [lead EXCEPT !.alive = FALSE] /\ stdin' = <<>>
    /\ UNCHANGED <<host, stdout, refusals, gaveUp>>

-----------------------------------------------------------------------------
HostStep ==
    \/ Written \/ InputFails \/ ReadLine \/ EndChunk \/ AckTimeout \/ TurnTimeout \/ LeadCloses
    \/ StopAllowed \/ StopRefused \/ Gone \/ Kill
LeadStep == LeadTakes \/ LeadInterrupted \/ LeadStarts \/ LeadRecords \/ LeadEnds

Next ==
    \/ \E t \in Turn : SendTurn(t)
    \/ RequestStop \/ RequestShutdown
    \/ HostStep \/ LeadStep \/ LeadExits

Spec == Init /\ [][Next]_vars

\* The event loop goes on and its timers go off.  Nothing is asked of the Lead,
\* which may hang, but this: a write to it is answered, hung or not.  The code has
\* no deadline for that; a line is small beside the buffer of the pipe.
FairSpec == Spec /\ WF_vars(HostStep)

-----------------------------------------------------------------------------
TypeOK ==
    /\ host \in Host /\ lead \in Lead
    /\ refusals \in 0 .. MaxRefusals /\ gaveUp \in BOOLEAN

(* The answer a client gets is the answer to its turn.  The lines of the     *)
(* Lead name no turn, and two turns of one client follow each other in one   *)
(* chunk: what makes it true is that completeOwnerTurn waits for its turn    *)
(* before it begins the next one.                                            *)
AnswersAreOwn == \A t \in Turn : host.turn[t] = "answered" => host.answer[t] = t

(* ... for as long as no deadline has passed: a turn that is given up stays  *)
(* with the Lead, whose late lines the next turn takes for its own.          *)
AnswersAreOwnInTime == ~gaveUp => AnswersAreOwn

(* A turn that the host takes for acknowledged has been heard: the Lead has  *)
(* made it durable, or has answered for it.                                  *)
AckIsTruthful == ~gaveUp /\ host.phase = "completing" => host.active \in lead.heard

(* A turn that was sent is answered or fails, also when the Lead hangs, dies *)
(* or drops it, and whichever turn it waits behind: a deadline, the close of *)
(* the Lead or the exit of the host ends each await of completeOwnerTurn,    *)
(* and that of the write, which has no deadline, is taken to end (FairSpec). *)
TurnsSettle == \A t \in Turn : host.turn[t] = "sent" ~> host.turn[t] # "sent"

(* A stop that is allowed and a shutdown end the host, although they await   *)
(* the write queue and the Lead, and although a refused stop opens the host  *)
(* again while a shutdown is on its way.                                     *)
StopEnds == host.stop = "draining" \/ host.shutdown # "none" ~> ~Up
=============================================================================
