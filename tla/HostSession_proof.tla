------------------------- MODULE HostSession_proof -------------------------
(* Proofs about HostSession: that its state is well-typed, and that until a  *)
(* deadline passes every line that is on its way belongs to the turn that    *)
(* the host has active, so that acknowledgements and answers are its own.    *)
EXTENDS HostSession, SequenceTheorems, TLAPS

Status == {"new", "sent", "answered", "failed"}
Ended  == {"explicit-stop", "graceful-shutdown", "unexpected-child-exit", "crash"}

-----------------------------------------------------------------------------
(* The stages of Becomes: what each one leaves of the host.                  *)

\* The turn that is active, as far as it has come.
Keeps(s, n) ==
    /\ n.active = s.active /\ n.phase = s.phase
    /\ n.acked = s.acked /\ n.response = s.response /\ n.done = s.done

\* Turns that wait may fail, and no other turn changes.
FailsSome(s, n) ==
    /\ n.answer = s.answer
    /\ \A t \in Turn : n.turn[t] = s.turn[t] \/ (s.turn[t] = "sent" /\ n.turn[t] = "failed")

\* The host goes on, or has ended and rejected what was waited for.
Ends(s, n) ==
    \/ n.exit = s.exit /\ n.turn = s.turn
    \/ s.exit = "none" /\ n.exit # "none" /\ \A t \in Turn : n.turn[t] # "sent"

LEMMA AcknowledgedStep ==
    ASSUME NEW s \in Host
    PROVE  LET n == Acknowledged(s) IN
           /\ n \in Host
           /\ n.queue = s.queue /\ n.turn = s.turn /\ n.answer = s.answer /\ n.exit = s.exit
           /\ n.active = s.active /\ n.acked = s.acked
           /\ n.response = s.response /\ n.done = s.done
           /\ \/ n.phase = s.phase
              \/ s.phase = "acking" /\ s.acked /\ n.phase = "completing"
<1> DEFINE n == [s EXCEPT !.phase = "completing"]
<1>1. n \in Host
  BY DEF Host
<1>2. /\ n.queue = s.queue /\ n.turn = s.turn /\ n.answer = s.answer /\ n.exit = s.exit
      /\ n.active = s.active /\ n.acked = s.acked
      /\ n.response = s.response /\ n.done = s.done
      /\ n.phase = "completing"
  BY DEF Host
<1>3. \/ Acknowledged(s) = s
      \/ s.phase = "acking" /\ s.acked /\ Acknowledged(s) = n
  BY DEF Acknowledged
<1> HIDE DEF n
<1> QED  BY <1>1, <1>2, <1>3

LEMMA OverStep ==
    ASSUME NEW s \in Host, NEW outcome \in {"answered", "failed"}
    PROVE  LET n == Over(s, outcome) IN
           /\ n \in Host
           /\ n.active = None /\ n.phase = "idle" /\ n.queue = s.queue
           /\ n.turn = [s.turn EXCEPT ![s.active] = outcome]
           /\ n.answer = [s.answer EXCEPT ![s.active] = IF outcome = "answered" THEN s.response ELSE None]
           /\ n.acked = FALSE /\ n.response = None /\ n.done = "no"
           /\ n.closed = s.closed /\ n.exit = s.exit
<1> DEFINE tu == [s.turn EXCEPT ![s.active] = outcome]
           an == [s.answer EXCEPT ![s.active] = IF outcome = "answered" THEN s.response ELSE None]
           n  == [s EXCEPT !.turn = tu, !.answer = an, !.active = None, !.phase = "idle",
                           !.acked = FALSE, !.id = None, !.response = None, !.error = FALSE,
                           !.done = "no"]
<1>1. tu \in [Turn -> Status] /\ an \in [Turn -> Turn \cup {None}]
  BY DEF Host, Status
<1>2. [s EXCEPT !.turn = tu].answer = s.answer
  BY DEF Host
<1>3. Over(s, outcome) = n
  BY <1>2, Zenon DEF Over
<1> HIDE DEF tu, an
<1>4. n \in Host
  BY <1>1 DEF Host, Status
<1>5. /\ n.active = None /\ n.phase = "idle" /\ n.queue = s.queue
      /\ n.turn = tu /\ n.answer = an
      /\ n.acked = FALSE /\ n.response = None /\ n.done = "no"
      /\ n.closed = s.closed /\ n.exit = s.exit
  BY DEF Host
<1> HIDE DEF n
<1>6. /\ Over(s, outcome).turn = [s.turn EXCEPT ![s.active] = outcome]
      /\ Over(s, outcome).answer
           = [s.answer EXCEPT ![s.active] = IF outcome = "answered" THEN s.response ELSE None]
  BY <1>3, <1>5, Zenon DEF tu, an
<1> QED  BY <1>3, <1>4, <1>5, <1>6, Zenon

LEMMA CompletedStep ==
    ASSUME NEW s \in Host
    PROVE  LET n == Completed(s) IN
           /\ n \in Host
           /\ \/ n = s /\ ~(s.phase = "completing" /\ s.done # "no")
              \/ /\ s.phase = "completing" /\ s.done \in {"answered", "failed"}
                 /\ n = Over(s, s.done)
<1>1. s.done # "no" => s.done \in {"answered", "failed"}
  BY DEF Host
<1>2. s.done # "no" => Over(s, s.done) \in Host
  BY <1>1, OverStep
<1> QED  BY <1>1, <1>2, Zenon DEF Completed

LEMMA FinalizedStep ==
    ASSUME NEW s \in Host, NEW kind \in Ended
    PROVE  LET n == Finalized(s, kind) IN
           /\ n \in Host /\ n.exit # "none"
           /\ Keeps(s, n) /\ FailsSome(s, n) /\ Ends(s, n) /\ n.queue = s.queue
<1> DEFINE tu == [t \in Turn |-> IF s.turn[t] = "sent" THEN "failed" ELSE s.turn[t]]
           n  == [s EXCEPT !.exit = kind, !.accepting = FALSE, !.turn = tu]
<1>1. tu \in [Turn -> Status]
  BY DEF Host, Status
<1>2. \A t \in Turn : /\ tu[t] = s.turn[t] \/ (s.turn[t] = "sent" /\ tu[t] = "failed")
                     /\ tu[t] # "sent"
  OBVIOUS
<1>3. [s EXCEPT !.exit = kind, !.accepting = FALSE].turn = s.turn
  BY DEF Host
<1>4. Finalized(s, kind) = IF s.exit # "none" THEN s ELSE n
  BY <1>3, Zenon DEF Finalized
<1> HIDE DEF tu
<1>5. n \in Host
  BY ZenonT(60), <1>1 DEF Host, Status, Ended
<1>6. n.exit = kind /\ n.turn = tu /\ n.answer = s.answer /\ n.queue = s.queue /\ Keeps(s, n)
  BY DEF Host, Keeps
<1>7. kind # "none"
  BY DEF Ended
<1> HIDE DEF n
<1>8. CASE s.exit # "none"
  BY <1>4, <1>8 DEF Keeps, FailsSome, Ends
<1>9. CASE s.exit = "none"
  BY <1>2, <1>4, <1>5, <1>6, <1>7, <1>9 DEF FailsSome, Ends
<1> QED  BY <1>8, <1>9

LEMMA DrainedStep ==
    ASSUME NEW s \in Host
    PROVE  LET n == Drained(s) IN
           /\ n \in Host
           /\ Keeps(s, n) /\ FailsSome(s, n) /\ Ends(s, n) /\ n.queue = s.queue
<1> DEFINE so == IF s.stop = "draining" THEN "closing" ELSE s.stop
           sh == IF s.shutdown = "draining" THEN "closing" ELSE s.shutdown
           n  == [s EXCEPT !.stop = so, !.shutdown = sh]
<1>1. /\ so \in {"none", "asking", "draining", "closing"}
      /\ sh \in {"none", "draining", "closing"}
  BY DEF Host
<1>2. [s EXCEPT !.stop = so].shutdown = s.shutdown
  BY DEF Host
<1>3. Drained(s) \in {s, Finalized(s, "unexpected-child-exit"), n}
  BY <1>2, Zenon DEF Drained
<1> HIDE DEF so, sh
<1>4. n \in Host
  <2>1. [s EXCEPT !.stop = so] \in Host
    BY <1>1 DEF Host
  <2>2. \A r \in Host : [r EXCEPT !.shutdown = sh] \in Host
    BY ZenonT(60), <1>1 DEF Host
  <2> QED  BY <2>1, <2>2
<1>5. /\ n.turn = s.turn /\ n.answer = s.answer /\ n.queue = s.queue
      /\ n.exit = s.exit /\ Keeps(s, n)
  BY DEF Host, Keeps
<1> HIDE DEF n
<1>6. "unexpected-child-exit" \in Ended
  BY DEF Ended
<1> QED  BY <1>3, <1>4, <1>5, <1>6, FinalizedStep DEF Keeps, FailsSome, Ends

\* The first of the queue begins, or the whole queue is refused.
LEMMA BegunStep ==
    ASSUME NEW s \in Host
    PROVE  LET n == Begun(s) IN
           /\ n \in Host
           /\ n.answer = s.answer /\ n.exit = s.exit
           /\ n.acked = s.acked /\ n.response = s.response /\ n.done = s.done
           /\ \/ n = s /\ ~MayBegin(s)
              \/ /\ n.active = s.active /\ n.phase = s.phase /\ n.queue = <<>>
                 /\ n.turn = [t \in Turn |-> IF \E i \in 1 .. Len(s.queue) : t = s.queue[i]
                                             THEN "failed" ELSE s.turn[t]]
              \/ /\ MayBegin(s) /\ n.phase = "writing" /\ n.turn = s.turn
                 /\ n.active = Head(s.queue) /\ n.queue = Tail(s.queue) /\ n.active \in Turn
<1> DEFINE tu == [t \in Turn |-> IF \E i \in 1 .. Len(s.queue) : t = s.queue[i]
                                 THEN "failed" ELSE s.turn[t]]
           r  == [s EXCEPT !.queue = <<>>, !.turn = tu]
           n  == [s EXCEPT !.queue = Tail(s.queue), !.active = Head(s.queue), !.phase = "writing"]
<1>1. tu \in [Turn -> Status]
  BY DEF Host, Status
<1>2. [s EXCEPT !.queue = <<>>].turn = s.turn
  BY DEF Host
<1>3. IF ~MayBegin(s) THEN Begun(s) = s
      ELSE IF Refuses(s) THEN Begun(s) = r ELSE Begun(s) = n
  BY <1>2, Zenon DEF Begun
<1>4. r.turn = tu
  BY DEF Host
<1> HIDE DEF tu
<1>5. r \in Host
  <2>1. <<>> \in Seq(Turn)
    OBVIOUS
  <2>2. \A x \in Host, q \in Seq(Turn), v \in [Turn -> Status] : [x EXCEPT !.queue = q, !.turn = v] \in Host
    BY ZenonT(60) DEF Host, Status
  <2> QED  BY <1>1, <2>1, <2>2
<1>6. /\ r.active = s.active /\ r.phase = s.phase /\ r.answer = s.answer /\ r.queue = <<>>
      /\ r.acked = s.acked /\ r.response = s.response /\ r.done = s.done /\ r.exit = s.exit
  BY DEF Host
<1>7. s.queue # <<>> => Tail(s.queue) \in Seq(Turn) /\ Head(s.queue) \in Turn
  BY DEF Host
<1>8. s.queue # <<>> => n \in Host
  BY <1>7 DEF Host
<1>9. /\ n.active = Head(s.queue) /\ n.queue = Tail(s.queue)
      /\ n.phase = "writing" /\ n.answer = s.answer
      /\ n.acked = s.acked /\ n.response = s.response /\ n.done = s.done /\ n.exit = s.exit
      /\ n.turn = s.turn
  BY DEF Host
<1>10. MayBegin(s) => s.queue # <<>>
  BY DEF MayBegin
<1> HIDE DEF n
<1>11. CASE ~MayBegin(s)
  BY <1>3, <1>11
<1>12. CASE MayBegin(s) /\ Refuses(s)
  <2> HIDE DEF r
  <2>1. Begun(s) = r
    BY <1>3, <1>12
  <2> QED  BY <2>1, <1>4, <1>5, <1>6 DEF tu
<1>13. CASE MayBegin(s) /\ ~Refuses(s)
  BY <1>3, <1>7, <1>8, <1>9, <1>10, <1>13
<1> QED  BY <1>11, <1>12, <1>13

\* Becomes, with its stages one after the other.
LEMMA BecomesIs ==
    ASSUME NEW s, Becomes(s)
    PROVE  /\ host' = Begun(Drained(Completed(Acknowledged(s))))
           /\ stdin' = IF host'.active \notin {None, host.active}
                       THEN Append(stdin, Line("input", host'.active)) ELSE stdin
  BY DEF Becomes

-----------------------------------------------------------------------------
(* Types.                                                                    *)

Lines  == [kind : {"recorded", "handled", "response", "error", "complete"}, turn : Turn]
Inputs == [kind : {"input"}, turn : Turn]
            \cup [kind : {"interrupt"}, turn : Turn \cup {None}, scope : Project]

\* What is in the pipes, and that the Lead is at a step of a turn when it has one.
PipesOK == stdin \in Seq(Inputs) /\ stdout \in Seq(Lines)
LeadSteps == lead.turn = None <=> lead.step = "waiting"

TInv == TypeOK /\ PipesOK /\ LeadSteps

LEMMA LineTypes ==
    ASSUME NEW t \in Turn
    PROVE  /\ Line("input", t) \in Inputs
           /\ Line("input", t).kind = "input" /\ Line("input", t).turn = t
           /\ \A k \in {"recorded", "handled", "response", "error", "complete"} :
                Line(k, t) \in Lines /\ Line(k, t).kind = k /\ Line(k, t).turn = t
  BY DEF Line, Inputs, Lines

LEMMA InterruptType ==
    ASSUME NEW i \in Turn \cup {None}, NEW p \in Project
    PROVE  /\ [kind |-> "interrupt", turn |-> i, scope |-> p] \in Inputs
           /\ [kind |-> "interrupt", turn |-> i, scope |-> p].kind # "input"
  BY DEF Inputs

LEMMA BecomesType ==
    ASSUME NEW s \in Host, Becomes(s), stdin \in Seq(Inputs)
    PROVE  host' \in Host /\ stdin' \in Seq(Inputs)
<1> DEFINE a == Acknowledged(s)
           c == Completed(a)
           d == Drained(c)
<1>1. a \in Host
  BY AcknowledgedStep
<1> HIDE DEF a
<1>2. c \in Host
  BY <1>1, CompletedStep
<1> HIDE DEF c
<1>3. d \in Host
  BY <1>2, DrainedStep
<1> HIDE DEF d
<1>4. Begun(d) \in Host
  BY <1>3, BegunStep
<1>5. host' \in Host
  BY <1>4, BecomesIs DEF a, c, d
<1>6. host'.active \in Turn \cup {None}
  BY <1>5 DEF Host
<1>7. stdin' \in Seq(Inputs)
  BY <1>6, BecomesIs, LineTypes
<1> QED  BY <1>5, <1>7

\* One line that is read.
LEMMA ReadStep ==
    ASSUME NEW s \in Host, NEW line \in Lines
    PROVE  LET n == [Read(s, line) EXCEPT !.reading = TRUE] IN
           /\ n \in Host
           /\ n.active = s.active /\ n.phase = s.phase /\ n.queue = s.queue
           /\ n.turn = s.turn /\ n.answer = s.answer /\ n.exit = s.exit
           /\ n.reading = TRUE
           /\ n.acked = (s.acked \/ (Writing(s) /\ line.kind \in {"recorded", "handled"}))
           /\ n.response = IF s.active # None /\ line.kind = "response" THEN line.turn ELSE s.response
           /\ \/ n.done = s.done
              \/ /\ line.kind = "complete" /\ s.active # None /\ s.done = "no"
                 /\ n.done = IF s.error \/ s.response = None THEN "failed" ELSE "answered"
<1> DEFINE id == IF s.active # None THEN line.turn ELSE s.id
           ak == s.acked \/ Writing(s)
           re == IF s.active # None THEN line.turn ELSE s.response
           er == s.error \/ s.active # None
           do == IF s.active = None \/ s.done # "no" THEN s.done
                 ELSE IF s.error \/ s.response = None THEN "failed" ELSE "answered"
           n1 == [s EXCEPT !.id = id, !.acked = ak]
           n2 == [s EXCEPT !.acked = ak]
           n3 == [s EXCEPT !.response = re]
           n4 == [s EXCEPT !.error = er]
           n5 == [s EXCEPT !.done = do]
<1>1. /\ id \in Turn \cup {None} /\ re \in Turn \cup {None}
      /\ ak \in BOOLEAN /\ er \in BOOLEAN /\ do \in {"no", "answered", "failed"}
  BY DEF Host, Lines
<1>2. [s EXCEPT !.id = id].acked = s.acked
  BY DEF Host
<1>3. /\ line.kind = "recorded" => Read(s, line) = n1
      /\ line.kind = "handled"  => Read(s, line) = n2
      /\ line.kind = "response" => Read(s, line) = n3
      /\ line.kind = "error"    => Read(s, line) = n4
      /\ line.kind = "complete" => Read(s, line) = n5
  BY <1>2 DEF Read
<1>4. line.kind \in {"recorded", "handled", "response", "error", "complete"} /\ s.acked \in BOOLEAN
  BY DEF Lines, Host
<1> HIDE DEF id, ak, re, er, do
<1>5. n1 \in Host /\ n2 \in Host /\ n3 \in Host /\ n4 \in Host /\ n5 \in Host
  <2>1. n2 \in Host
    BY <1>1 DEF Host
  <2>2. n1 \in Host
    <3>1. [s EXCEPT !.id = id] \in Host
      BY <1>1 DEF Host
    <3>2. \A x \in Host : [x EXCEPT !.acked = ak] \in Host
      BY ZenonT(60), <1>1 DEF Host
    <3> QED  BY <3>1, <3>2
  <2>3. n3 \in Host
    BY <1>1 DEF Host
  <2>4. n4 \in Host
    BY <1>1 DEF Host
  <2>5. n5 \in Host
    BY <1>1 DEF Host
  <2> QED  BY <2>1, <2>2, <2>3, <2>4, <2>5
<1> DEFINE Same(n) == /\ n.active = s.active /\ n.phase = s.phase /\ n.queue = s.queue
                      /\ n.turn = s.turn /\ n.answer = s.answer /\ n.exit = s.exit
<1>6. /\ Same(n1) /\ n1.acked = ak /\ n1.response = s.response /\ n1.done = s.done
      /\ Same(n2) /\ n2.acked = ak /\ n2.response = s.response /\ n2.done = s.done
      /\ Same(n3) /\ n3.acked = s.acked /\ n3.response = re /\ n3.done = s.done
      /\ Same(n4) /\ n4.acked = s.acked /\ n4.response = s.response /\ n4.done = s.done
      /\ Same(n5) /\ n5.acked = s.acked /\ n5.response = s.response /\ n5.done = do
  BY DEF Host
<1>7. \A x \in Host : LET n == [x EXCEPT !.reading = TRUE] IN
        /\ n \in Host
        /\ n.active = x.active /\ n.phase = x.phase /\ n.queue = x.queue
        /\ n.turn = x.turn /\ n.answer = x.answer /\ n.exit = x.exit
        /\ n.acked = x.acked /\ n.response = x.response /\ n.done = x.done
        /\ n.reading = TRUE
  BY ZenonT(60) DEF Host
<1> HIDE DEF n1, n2, n3, n4, n5
<1> QED  BY <1>3, <1>4, <1>5, <1>6, <1>7 DEF id, ak, re, er, do

-----------------------------------------------------------------------------
(* The events of the host: what each one makes of the host before its        *)
(* continuations run.                                                        *)

\* Nothing of a turn changes.
Minor(s, n) ==
    /\ n \in Host /\ Keeps(s, n)
    /\ n.turn = s.turn /\ n.answer = s.answer /\ n.queue = s.queue /\ n.exit = s.exit

LEMMA MinorSteps ==
    ASSUME NEW s \in Host
    PROVE  /\ Minor(s, [s EXCEPT !.reading = FALSE])
           /\ Minor(s, [s EXCEPT !.closed = TRUE])
           /\ Minor(s, [s EXCEPT !.stop = "asking", !.accepting = FALSE])
           /\ Minor(s, [s EXCEPT !.stop = "draining"])
           /\ Minor(s, [s EXCEPT !.stop = "none", !.accepting = TRUE])
           /\ Minor(s, [s EXCEPT !.shutdown = "draining", !.accepting = FALSE])
<1>1. Minor(s, [s EXCEPT !.reading = FALSE])
  BY DEF Minor, Keeps, Host
<1>2. Minor(s, [s EXCEPT !.closed = TRUE])
  BY DEF Minor, Keeps, Host
<1>3. Minor(s, [s EXCEPT !.stop = "asking", !.accepting = FALSE])
  BY DEF Minor, Keeps, Host
<1>4. Minor(s, [s EXCEPT !.stop = "draining"])
  BY DEF Minor, Keeps, Host
<1>5. Minor(s, [s EXCEPT !.stop = "none", !.accepting = TRUE])
  BY DEF Minor, Keeps, Host
<1>6. Minor(s, [s EXCEPT !.shutdown = "draining", !.accepting = FALSE])
  BY DEF Minor, Keeps, Host
<1> QED  BY <1>1, <1>2, <1>3, <1>4, <1>5, <1>6

\* The event leaves s of the host r: nothing changes, or the host has ended.
Leaves(r, s) ==
    /\ s \in Host /\ Keeps(r, s) /\ s.queue = r.queue
    /\ \/ s.turn = r.turn /\ s.answer = r.answer /\ s.exit = r.exit
       \/ FailsSome(r, s) /\ Ends(r, s) /\ s.exit # "none"

LEMMA MinorLeaves ==
    ASSUME NEW r, NEW s, Minor(r, s)
    PROVE  Leaves(r, s)
  BY DEF Minor, Leaves

LEMMA FinalizedLeaves ==
    ASSUME NEW r \in Host, NEW s, Minor(r, s), NEW kind \in Ended
    PROVE  Leaves(r, Finalized(s, kind))
<1>1. s \in Host
  BY DEF Minor
<1> QED  BY <1>1, FinalizedStep DEF Minor, Leaves, Keeps, FailsSome, Ends

LEMMA MinorSelf ==
    ASSUME NEW s \in Host
    PROVE  Minor(s, s)
  BY DEF Minor, Keeps

\* An event that ends no turn itself.
Quietly == EndChunk \/ RequestStop \/ StopAllowed \/ StopRefused \/ RequestShutdown \/ Gone

LEMMA QuietEvent ==
    ASSUME TInv, Quietly
    PROVE  /\ UNCHANGED <<stdout, lead, gaveUp>>
           /\ \E s \in Host : Leaves(host, s) /\ Becomes(s)
<1> DEFINE Goal == /\ UNCHANGED <<stdout, lead, gaveUp>>
                   /\ \E s \in Host : Leaves(host, s) /\ Becomes(s)
<1>h. host \in Host
  BY DEF TInv, TypeOK
<1>1. \A s : Leaves(host, s) => s \in Host
  BY DEF Leaves
<1>e. {"unexpected-child-exit", "explicit-stop", "graceful-shutdown"} \subseteq Ended
  BY DEF Ended
<1>2. CASE EndChunk
  BY <1>h, <1>1, <1>2, MinorSteps, MinorLeaves DEF EndChunk
<1>3. CASE RequestStop
  BY <1>h, <1>1, <1>3, MinorSteps, MinorLeaves DEF RequestStop
<1>4. CASE StopAllowed
  BY <1>h, <1>1, <1>4, MinorSteps, MinorLeaves DEF StopAllowed
<1>5. CASE StopRefused
  <2>1. Leaves(host, Finalized(host, "unexpected-child-exit"))
    BY <1>h, <1>e, MinorSelf, FinalizedLeaves
  <2>2. Leaves(host, [host EXCEPT !.stop = "none", !.accepting = TRUE])
    BY <1>h, MinorSteps, MinorLeaves
  <2> QED  BY <1>1, <1>5, <2>1, <2>2 DEF StopRefused
<1>6. CASE RequestShutdown
  BY <1>h, <1>1, <1>6, MinorSteps, MinorLeaves DEF RequestShutdown
<1>7. CASE Gone
  <2>1. /\ Leaves(host, Finalized(host, "explicit-stop"))
        /\ Leaves(host, Finalized(host, "graceful-shutdown"))
    BY <1>h, <1>e, MinorSelf, FinalizedLeaves
  <2> QED  BY <1>1, <1>7, <2>1 DEF Gone
<1> QED  BY <1>2, <1>3, <1>4, <1>5, <1>6, <1>7 DEF Quietly

LEMMA LeadClosesEvent ==
    ASSUME TInv, LeadCloses
    PROVE  /\ UNCHANGED <<stdout, lead, gaveUp>> /\ ~lead.alive
           /\ \E s \in Host :
                /\ Becomes(s)
                /\ \/ Leaves(host, s)
                   \/ host.phase # "idle" /\ Leaves(Over(host, "failed"), s)
<1>1. host \in Host
  BY DEF TInv, TypeOK
<1> DEFINE r == Rejected(host)
           closed == [r EXCEPT !.closed = TRUE]
<1>2. r \in Host /\ (r = host \/ (host.phase # "idle" /\ r = Over(host, "failed")))
  BY <1>1, OverStep DEF Rejected
<1>3. "unexpected-child-exit" \in Ended
  BY DEF Ended
<1>4. Becomes(IF Asked(host) THEN closed ELSE Finalized(closed, "unexpected-child-exit"))
  BY DEF LeadCloses
<1> HIDE DEF r
<1>5. Minor(r, closed)
  BY <1>2, MinorSteps
<1> HIDE DEF closed
<1>6. Leaves(r, closed) /\ Leaves(r, Finalized(closed, "unexpected-child-exit"))
  BY <1>2, <1>3, <1>5, MinorLeaves, FinalizedLeaves
<1>7. \E s \in Host : Becomes(s) /\ Leaves(r, s)
  BY <1>4, <1>6 DEF Leaves
<1> QED  BY <1>2, <1>7 DEF LeadCloses

LEMMA WrittenEvent ==
    ASSUME TInv, Written
    PROVE  /\ UNCHANGED <<stdout, lead, gaveUp>>
           /\ host.phase = "writing"
           /\ \E s \in Host :
                /\ Becomes(s)
                /\ \/ ~lead.alive /\ s = Over(host, "failed")
                   \/ /\ lead.alive /\ s.phase = "acking" /\ s.active = host.active
                      /\ s.acked = host.acked /\ s.response = host.response /\ s.done = host.done
                      /\ s.turn = host.turn /\ s.answer = host.answer /\ s.queue = host.queue
                      /\ s.exit = host.exit
<1>1. host \in Host
  BY DEF TInv, TypeOK
<1> DEFINE n == [host EXCEPT !.phase = "acking"]
<1>2. /\ n \in Host
      /\ n.phase = "acking" /\ n.active = host.active
      /\ n.acked = host.acked /\ n.response = host.response /\ n.done = host.done
      /\ n.turn = host.turn /\ n.answer = host.answer /\ n.queue = host.queue
      /\ n.exit = host.exit
  BY <1>1 DEF Host
<1>3. Over(host, "failed") \in Host
  BY <1>1, OverStep
<1>4. Becomes(IF lead.alive THEN n ELSE Over(host, "failed"))
  BY DEF Written
<1> HIDE DEF n
<1> QED  BY <1>2, <1>3, <1>4 DEF Written

LEMMA TimeoutEvent ==
    ASSUME TInv, AckTimeout \/ TurnTimeout
    PROVE  /\ UNCHANGED <<stdout, lead>> /\ gaveUp' = TRUE
           /\ \E s \in Host :
                /\ Becomes(s)
                /\ \/ host.phase = "acking" /\ s = Over(host, "failed")
                   \/ /\ host.phase = "completing" /\ s.phase = "completing"
                      /\ s.active = host.active
                      /\ s.acked = host.acked /\ s.response = host.response /\ s.done = "failed"
                      /\ s.turn = host.turn /\ s.answer = host.answer /\ s.queue = host.queue
                      /\ s.exit = host.exit
<1>1. host \in Host
  BY DEF TInv, TypeOK
<1> DEFINE n == [host EXCEPT !.done = "failed"]
<1>2. /\ n \in Host
      /\ n.phase = host.phase /\ n.active = host.active
      /\ n.acked = host.acked /\ n.response = host.response /\ n.done = "failed"
      /\ n.turn = host.turn /\ n.answer = host.answer /\ n.queue = host.queue
      /\ n.exit = host.exit
  BY <1>1 DEF Host
<1>3. Over(host, "failed") \in Host
  BY <1>1, OverStep
<1>4. CASE AckTimeout
  BY <1>3, <1>4 DEF AckTimeout
<1>5. CASE TurnTimeout
  <2>1. Becomes(n) /\ host.phase = "completing"
    BY <1>5 DEF TurnTimeout
  <2> HIDE DEF n
  <2> QED  BY <1>2, <1>5, <2>1 DEF TurnTimeout
<1> QED  BY <1>4, <1>5

\* A turn that is sent waits, and interrupts the active one or is the next; the
\* interruption of an input that has ended may be the end of the host.
LEMMA SendEvent ==
    ASSUME TInv, NEW t \in Turn, SendTurn(t)
    PROVE  /\ UNCHANGED <<stdout, lead, gaveUp>> /\ host.turn[t] = "new"
           /\ \E s \in Host :
                /\ Keeps(host, s) /\ s.queue = Append(host.queue, t)
                /\ s.turn = [host.turn EXCEPT ![t] = "sent"]
                /\ s.answer = host.answer /\ s.exit = host.exit
                /\ \/ Becomes(s)
                   \/ /\ host.active # None /\ host' = s
                      /\ \E i \in Inputs : i.kind # "input" /\ stdin' = Append(stdin, i)
                   \/ Leaves(s, host') /\ UNCHANGED stdin
<1>1. host \in Host /\ host.turn \in [Turn -> Status]
  BY DEF TInv, TypeOK, Host, Status
<1> DEFINE tu == [host.turn EXCEPT ![t] = "sent"]
           n  == [host EXCEPT !.turn = tu, !.queue = Append(host.queue, t)]
           i  == [kind |-> "interrupt", turn |-> host.id, scope |-> ScopeOf[t]]
<1>2. [host EXCEPT !.turn = tu].queue = host.queue
  BY <1>1 DEF Host
<1>3. \/ Becomes(n)
      \/ Interrupts(t) /\ host' = n /\ stdin' = Append(stdin, i)
      \/ host' \in {n, Finalized(n, "crash")} /\ UNCHANGED stdin
  BY <1>2, Zenon DEF SendTurn
<1>4. Interrupts(t) => host.active # None
  BY DEF Interrupts
<1>5. tu \in [Turn -> Status] /\ Append(host.queue, t) \in Seq(Turn)
  BY <1>1 DEF Host, Status
<1>6. i \in Inputs /\ i.kind # "input"
  <2>1. host.id \in Turn \cup {None} /\ ScopeOf[t] \in Project
    BY <1>1, TurnsAreScoped DEF Host
  <2> QED  BY <2>1, InterruptType
<1>8. n.turn = tu /\ n.queue = Append(host.queue, t)
  BY <1>1 DEF Host
<1>9. n.answer = host.answer /\ n.exit = host.exit /\ Keeps(host, n)
  BY <1>1 DEF Host, Keeps
<1> HIDE DEF i, tu
<1>7. n \in Host
  BY <1>1, <1>5 DEF Host, Status
<1> HIDE DEF n
<1>10. UNCHANGED <<stdout, lead, gaveUp>> /\ host.turn[t] = "new"
  BY DEF SendTurn
<1>11. Leaves(n, n) /\ Leaves(n, Finalized(n, "crash"))
  BY <1>7, MinorSelf, MinorLeaves, FinalizedLeaves DEF Ended
<1> QED  BY <1>3, <1>4, <1>6, <1>7, <1>8, <1>9, <1>10, <1>11 DEF tu

\* A host whose write fails ends.
LEMMA FailsEvent ==
    ASSUME TInv, InputFails
    PROVE  UNCHANGED <<stdin, stdout, lead, gaveUp>> /\ Leaves(host, host')
<1>1. host \in Host
  BY DEF TInv, TypeOK
<1>2. Leaves(host, Finalized(host, "crash"))
  BY <1>1, MinorSelf, FinalizedLeaves DEF Ended
<1> QED  BY <1>2 DEF InputFails

-----------------------------------------------------------------------------
(* Every reachable state is well-typed.                                      *)

LEMMA TypeInit == Init => TInv
<1> SUFFICES ASSUME Init PROVE TInv
  OBVIOUS
<1>1. host \in Host
  BY DEF Init, Host
<1>2. lead \in Lead /\ LeadSteps
  BY DEF Init, Lead, LeadSteps
<1>3. refusals \in 0 .. MaxRefusals /\ gaveUp \in BOOLEAN
  <2>1. refusals = 0 /\ gaveUp = FALSE /\ MaxRefusals \in Nat
    BY RefusalsAreBounded DEF Init
  <2>2. refusals \in 0 .. MaxRefusals
    BY <2>1
  <2>3. gaveUp \in BOOLEAN
    BY <2>1
  <2> QED  BY <2>2, <2>3
<1>4. PipesOK
  BY DEF Init, PipesOK
<1> QED  BY <1>1, <1>2, <1>3, <1>4 DEF TInv, TypeOK

LEMMA RefusalType ==
    ASSUME TInv, [Next]_vars
    PROVE  refusals' \in 0 .. MaxRefusals /\ gaveUp' \in BOOLEAN
<1>1. refusals \in 0 .. MaxRefusals /\ gaveUp \in BOOLEAN
  BY DEF TInv, TypeOK
<1>2. refusals' = refusals \/ (StopRefused /\ refusals' = refusals + 1)
  BY DEF Next, HostStep, LeadStep, vars, SendTurn, RequestStop, RequestShutdown, Written, InputFails, ReadLine,
         EndChunk, AckTimeout, TurnTimeout, LeadCloses, StopAllowed, StopRefused, Gone, Kill,
         LeadTakes, LeadInterrupted, LeadStarts, LeadRecords, LeadEnds, LeadExits
<1>3. gaveUp' = gaveUp \/ gaveUp' = TRUE
  BY DEF Next, HostStep, LeadStep, vars, SendTurn, RequestStop, RequestShutdown, Written, InputFails, ReadLine,
         EndChunk, AckTimeout, TurnTimeout, LeadCloses, StopAllowed, StopRefused, Gone, Kill,
         LeadTakes, LeadInterrupted, LeadStarts, LeadRecords, LeadEnds, LeadExits
<1>4. StopRefused => refusals < MaxRefusals
  BY DEF StopRefused
<1>5. MaxRefusals \in Nat
  BY RefusalsAreBounded
<1>6. refusals' \in 0 .. MaxRefusals
  BY <1>1, <1>2, <1>4, <1>5
<1> QED  BY <1>1, <1>3, <1>6

\* The Lead's own types, over its four kinds of change.
LEMMA LeadFields ==
    ASSUME NEW l \in Lead, NEW q \in Seq(Turn), NEW t \in Turn, NEW b \in BOOLEAN
    PROVE  /\ l.queue \in Seq(Turn) /\ l.turn \in Turn \cup {None} /\ l.heard \subseteq Turn
           /\ [l EXCEPT !.queue = q] \in Lead
           /\ [l EXCEPT !.heard = l.heard \cup {t}] \in Lead
           /\ [l EXCEPT !.aborted = b] \in Lead
           /\ [l EXCEPT !.turn = t, !.queue = q, !.step = "started"] \in Lead
           /\ [l EXCEPT !.step = "recorded", !.heard = l.heard \cup {t}] \in Lead
           /\ [l EXCEPT !.turn = None, !.step = "waiting", !.aborted = FALSE,
                        !.heard = l.heard \cup {t}] \in Lead
           /\ [l EXCEPT !.alive = FALSE] \in Lead
<1>1. /\ l.queue \in Seq(Turn) /\ l.turn \in Turn \cup {None} /\ l.heard \subseteq Turn
      /\ [l EXCEPT !.queue = q] \in Lead /\ [l EXCEPT !.aborted = b] \in Lead
      /\ [l EXCEPT !.alive = FALSE] \in Lead
  BY DEF Lead
<1> DEFINE h == l.heard \cup {t}
<1>2. h \in SUBSET Turn
  BY <1>1
<1> HIDE DEF h
<1>3. [l EXCEPT !.heard = h] \in Lead /\ [l EXCEPT !.step = "recorded", !.heard = h] \in Lead
  BY <1>2 DEF Lead
<1>4. [l EXCEPT !.turn = t, !.queue = q, !.step = "started"] \in Lead
  BY DEF Lead
<1>5. [l EXCEPT !.turn = None, !.step = "waiting", !.aborted = FALSE, !.heard = h] \in Lead
  BY <1>2 DEF Lead
<1> QED  BY <1>1, <1>3, <1>4, <1>5 DEF h

\* What the Lead says of one turn at once.
SaysOf(t, lines) ==
    /\ lines \in Seq(Lines)
    /\ \A i \in 1 .. Len(lines) :
         /\ lines[i].turn = t
         /\ lines[i].kind = "complete" => i = Len(lines)

LEMMA Said ==
    ASSUME NEW t \in Turn, NEW k \in {"response", "error"}
    PROVE  /\ SaysOf(t, <<Line("recorded", t)>>)
           /\ SaysOf(t, <<Line("handled", t), Line("error", t), Line("complete", t)>>)
           /\ SaysOf(t, <<Line("handled", t)>> \o <<Line(k, t), Line("complete", t)>>)
           /\ SaysOf(t, <<>> \o <<Line(k, t), Line("complete", t)>>)
<1> DEFINE r == Line("recorded", t)
           h == Line("handled", t)
           a == Line(k, t)
           e == Line("error", t)
           c == Line("complete", t)
<1>1. /\ r \in Lines /\ r.turn = t /\ r.kind = "recorded"
      /\ h \in Lines /\ h.turn = t /\ h.kind = "handled"
      /\ e \in Lines /\ e.turn = t /\ e.kind = "error"
      /\ c \in Lines /\ c.turn = t /\ c.kind = "complete"
      /\ a \in Lines /\ a.turn = t /\ a.kind # "complete"
  BY LineTypes
<1> HIDE DEF r, h, a, e, c
<1>2. SaysOf(t, <<r>>)
  BY <1>1 DEF SaysOf
<1>3. \A x, y \in Lines : x.turn = t /\ y.turn = t /\ x.kind # "complete" /\ y.kind # "complete"
        => SaysOf(t, <<x, y, c>>) /\ SaysOf(t, <<y, c>>)
  BY <1>1 DEF SaysOf
<1>4. <<h>> \in Seq(Lines) /\ <<a, c>> \in Seq(Lines) /\ <<>> \in Seq(Lines)
  BY <1>1
<1>5. SaysOf(t, <<h>> \o <<a, c>>)
  BY <1>1, <1>4 DEF SaysOf
<1>6. SaysOf(t, <<>> \o <<a, c>>)
  BY <1>1, <1>4 DEF SaysOf
<1> QED  BY <1>1, <1>2, <1>3, <1>5, <1>6 DEF r, h, a, e, c

LEMMA LeadTakesStep ==
    ASSUME TInv, LeadTakes
    PROVE  /\ UNCHANGED <<host, gaveUp>> /\ stdin # <<>> /\ stdin' = Tail(stdin) /\ lead.alive
           /\ lead' \in Lead /\ lead'.turn = lead.turn /\ lead'.step = lead.step
           /\ lead'.alive = lead.alive
           /\ \E t \in Turn :
                /\ Head(stdin).kind = "input" /\ Head(stdin).turn = t
                /\ \/ /\ lead'.queue = Append(lead.queue, t) /\ lead'.heard = lead.heard
                      /\ stdout' = stdout
                   \/ /\ lead'.queue = lead.queue /\ lead'.heard = lead.heard \cup {t}
                      /\ \E lines : SaysOf(t, lines) /\ stdout' = stdout \o lines
                   \/ UNCHANGED <<lead, stdout>>
<1> DEFINE t == Head(stdin).turn
           q == Append(lead.queue, t)
           h == lead.heard \cup {t}
<1>1. lead \in Lead /\ stdin \in Seq(Inputs)
  BY DEF TInv, TypeOK, PipesOK
<1>2. /\ UNCHANGED <<host, gaveUp>> /\ stdin # <<>> /\ stdin' = Tail(stdin) /\ lead.alive
      /\ Head(stdin).kind = "input"
  BY DEF LeadTakes, Running
<1>3. Head(stdin) \in Inputs
  BY <1>1, <1>2
<1>4. t \in Turn
  BY <1>2, <1>3 DEF Inputs
<1>5. \/ lead' = [lead EXCEPT !.queue = q] /\ stdout' = stdout
      \/ /\ lead' = [lead EXCEPT !.heard = h]
         /\ stdout' = stdout \o <<Line("handled", t), Line("error", t), Line("complete", t)>>
      \/ UNCHANGED <<lead, stdout>>
  BY DEF LeadTakes, Says
<1> HIDE DEF t
<1>6. lead.queue \in Seq(Turn) /\ q \in Seq(Turn)
  BY <1>1, <1>4 DEF Lead
<1>7. [lead EXCEPT !.queue = q] \in Lead /\ [lead EXCEPT !.heard = h] \in Lead
  BY <1>1, <1>4, <1>6, LeadFields
<1>8. SaysOf(t, <<Line("handled", t), Line("error", t), Line("complete", t)>>)
  BY <1>4, Said
<1>9. ASSUME NEW x, NEW y
      PROVE  /\ [lead EXCEPT !.queue = x].turn = lead.turn /\ [lead EXCEPT !.queue = x].step = lead.step
             /\ [lead EXCEPT !.queue = x].heard = lead.heard /\ [lead EXCEPT !.queue = x].queue = x
             /\ [lead EXCEPT !.queue = x].alive = lead.alive
             /\ [lead EXCEPT !.heard = y].turn = lead.turn /\ [lead EXCEPT !.heard = y].step = lead.step
             /\ [lead EXCEPT !.heard = y].queue = lead.queue /\ [lead EXCEPT !.heard = y].heard = y
             /\ [lead EXCEPT !.heard = y].alive = lead.alive
  BY <1>1 DEF Lead
<1> HIDE DEF q, h
<1>10. /\ lead' \in Lead /\ lead'.turn = lead.turn /\ lead'.step = lead.step
       /\ lead'.alive = lead.alive
  <2>1. CASE lead' = [lead EXCEPT !.queue = q]
    BY <2>1, <1>7, <1>9
  <2>2. CASE lead' = [lead EXCEPT !.heard = h]
    BY <2>2, <1>7, <1>9
  <2>3. CASE UNCHANGED lead
    BY <1>1, <2>3
  <2> QED  BY <1>5, <2>1, <2>2, <2>3
<1>11. \/ lead'.queue = q /\ lead'.heard = lead.heard /\ stdout' = stdout
       \/ /\ lead'.queue = lead.queue /\ lead'.heard = h
          /\ \E lines : SaysOf(t, lines) /\ stdout' = stdout \o lines
       \/ UNCHANGED <<lead, stdout>>
  <2>1. CASE lead' = [lead EXCEPT !.queue = q] /\ stdout' = stdout
    <3>1. lead'.queue = q /\ lead'.heard = lead.heard
      BY <2>1, <1>9, Zenon
    <3> QED  BY <2>1, <3>1
  <2>2. CASE /\ lead' = [lead EXCEPT !.heard = h]
             /\ stdout' = stdout \o <<Line("handled", t), Line("error", t), Line("complete", t)>>
    <3>1. lead'.queue = lead.queue /\ lead'.heard = h
      BY <2>2, <1>9, Zenon
    <3> QED  BY <2>2, <1>8, <3>1, Zenon
  <2>3. CASE UNCHANGED <<lead, stdout>>
    BY <2>3
  <2> QED  BY <1>5, <2>1, <2>2, <2>3
<1> QED  BY <1>2, <1>4, <1>10, <1>11 DEF q, h, t

LEMMA LeadInterruptedStep ==
    ASSUME TInv, LeadInterrupted
    PROVE  /\ UNCHANGED <<host, stdout, gaveUp>> /\ stdin # <<>> /\ stdin' = Tail(stdin)
           /\ Head(stdin).kind # "input" /\ lead.alive /\ lead'.alive = lead.alive
           /\ lead' \in Lead /\ lead'.turn = lead.turn /\ lead'.step = lead.step
           /\ lead'.queue = lead.queue /\ lead'.heard = lead.heard
<1> DEFINE b == lead.aborted \/ Fits(lead.turn, Head(stdin))
<1>1. lead \in Lead
  BY DEF TInv, TypeOK
<1>2. b \in BOOLEAN
  OBVIOUS
<1>3. lead' = [lead EXCEPT !.aborted = b]
  BY DEF LeadInterrupted
<1> HIDE DEF b
<1>4. \A l \in Lead, x \in BOOLEAN : LET n == [l EXCEPT !.aborted = x] IN
        /\ n \in Lead /\ n.turn = l.turn /\ n.step = l.step
        /\ n.queue = l.queue /\ n.heard = l.heard /\ n.alive = l.alive
  BY DEF Lead
<1> QED  BY ZenonT(60), <1>1, <1>2, <1>3, <1>4 DEF LeadInterrupted, Running

LEMMA LeadStartsStep ==
    ASSUME TInv, LeadStarts
    PROVE  /\ UNCHANGED <<host, stdin, stdout, gaveUp>> /\ lead.alive /\ lead'.alive = lead.alive
           /\ lead.turn = None /\ lead.queue # <<>>
           /\ lead' \in Lead /\ lead'.turn = Head(lead.queue) /\ lead'.queue = Tail(lead.queue)
           /\ lead'.turn \in Turn /\ lead'.step = "started" /\ lead'.heard = lead.heard
<1>1. lead \in Lead
  BY DEF TInv, TypeOK
<1>2. /\ lead.turn = None /\ lead.queue # <<>> /\ lead.alive /\ UNCHANGED <<host, stdin, stdout, gaveUp>>
      /\ lead' = [lead EXCEPT !.turn = Head(lead.queue), !.queue = Tail(lead.queue), !.step = "started"]
  <2>1. [lead EXCEPT !.turn = Head(lead.queue)].queue = lead.queue
    BY <1>1 DEF Lead
  <2> QED  BY <2>1 DEF LeadStarts, Running
<1>3. lead.queue \in Seq(Turn)
  BY <1>1 DEF Lead
<1>4. Head(lead.queue) \in Turn /\ Tail(lead.queue) \in Seq(Turn)
  BY <1>2, <1>3
<1>5. \A q \in Seq(Turn), t \in Turn : LET n == [lead EXCEPT !.turn = t, !.queue = q, !.step = "started"] IN
        /\ n.turn = t /\ n.queue = q /\ n.step = "started"
        /\ n.heard = lead.heard /\ n.alive = lead.alive
  BY <1>1 DEF Lead
<1>6. lead' \in Lead
  BY <1>1, <1>2, <1>4, LeadFields
<1> QED  BY <1>2, <1>4, <1>5, <1>6

LEMMA LeadRecordsStep ==
    ASSUME TInv, LeadRecords
    PROVE  /\ UNCHANGED <<host, stdin, gaveUp>> /\ lead.alive /\ lead'.alive = lead.alive
           /\ lead.turn \in Turn /\ lead' \in Lead
           /\ lead'.turn = lead.turn /\ lead'.queue = lead.queue /\ lead'.step = "recorded"
           /\ lead'.heard = lead.heard \cup {lead.turn}
           /\ stdout' = stdout \o <<Line("recorded", lead.turn)>>
<1>1. lead \in Lead /\ LeadSteps
  BY DEF TInv, TypeOK
<1>2. /\ lead.step = "started" /\ lead.alive /\ UNCHANGED <<host, stdin, gaveUp>>
      /\ stdout' = stdout \o <<Line("recorded", lead.turn)>>
      /\ lead' = [lead EXCEPT !.step = "recorded", !.heard = lead.heard \cup {lead.turn}]
  <2>1. [lead EXCEPT !.step = "recorded"].heard = lead.heard
    BY <1>1 DEF Lead
  <2> QED  BY <2>1 DEF LeadRecords, Running, Says
<1>3. lead.turn \in Turn
  BY <1>1, <1>2 DEF Lead, LeadSteps
<1>4. \A h : LET n == [lead EXCEPT !.step = "recorded", !.heard = h] IN
        /\ n.turn = lead.turn /\ n.queue = lead.queue /\ n.step = "recorded"
        /\ n.heard = h /\ n.alive = lead.alive
  BY <1>1 DEF Lead
<1>5. lead' \in Lead
  <2>1. <<>> \in Seq(Turn)
    OBVIOUS
  <2> QED  BY <1>1, <1>2, <1>3, <2>1, LeadFields
<1> QED  BY <1>2, <1>3, <1>4, <1>5

LEMMA LeadEndsStep ==
    ASSUME TInv, LeadEnds
    PROVE  /\ UNCHANGED <<host, stdin, gaveUp>> /\ lead.alive /\ lead'.alive = lead.alive
           /\ lead.turn \in Turn /\ lead' \in Lead
           /\ lead'.turn = None /\ lead'.queue = lead.queue /\ lead'.step = "waiting"
           /\ lead'.heard = lead.heard \cup {lead.turn}
           /\ \E lines : SaysOf(lead.turn, lines) /\ stdout' = stdout \o lines
<1>1. lead \in Lead /\ LeadSteps
  BY DEF TInv, TypeOK
<1>2. /\ lead.step \in {"started", "recorded"} /\ lead.alive /\ UNCHANGED <<host, stdin, gaveUp>>
      /\ \E k \in {"response", "error"} :
           stdout' = stdout \o ((IF lead.step = "started" THEN <<Line("handled", lead.turn)>> ELSE <<>>)
                                \o <<Line(k, lead.turn), Line("complete", lead.turn)>>)
      /\ lead' = [lead EXCEPT !.turn = None, !.step = "waiting", !.aborted = FALSE,
                              !.heard = lead.heard \cup {lead.turn}]
  <2>1. [lead EXCEPT !.turn = None, !.step = "waiting", !.aborted = FALSE].heard = lead.heard
    BY <1>1 DEF Lead
  <2> QED  BY <2>1 DEF LeadEnds, Running, Says
<1>3. lead.turn \in Turn
  BY <1>1, <1>2 DEF Lead, LeadSteps
<1>4. \A h : LET n == [lead EXCEPT !.turn = None, !.step = "waiting", !.aborted = FALSE, !.heard = h] IN
        /\ n.turn = None /\ n.queue = lead.queue /\ n.step = "waiting"
        /\ n.heard = h /\ n.alive = lead.alive
  BY <1>1 DEF Lead
<1>5. lead' \in Lead
  <2>1. <<>> \in Seq(Turn)
    OBVIOUS
  <2> QED  BY <1>1, <1>2, <1>3, <2>1, LeadFields
<1>6. \E lines : SaysOf(lead.turn, lines) /\ stdout' = stdout \o lines
  BY <1>2, <1>3, Said
<1> QED  BY <1>2, <1>3, <1>4, <1>5, <1>6

LEMMA SaysType ==
    ASSUME NEW t, NEW lines, SaysOf(t, lines), stdout \in Seq(Lines), stdout' = stdout \o lines
    PROVE  stdout' \in Seq(Lines)
  BY DEF SaysOf

\* Kill and LeadExits are the end of the Lead.
Dies ==
    /\ lead' = [lead EXCEPT !.alive = FALSE] /\ stdin' = <<>>
    /\ UNCHANGED <<host, stdout, gaveUp>>

LEMMA DiesStep ==
    ASSUME TInv, Dies
    PROVE  /\ lead' \in Lead /\ lead'.turn = lead.turn /\ lead'.step = lead.step
           /\ lead'.queue = lead.queue /\ lead'.heard = lead.heard /\ lead'.alive = FALSE
  BY DEF TInv, TypeOK, Dies, Lead

LEMMA ReadLineStep ==
    ASSUME TInv, ReadLine
    PROVE  /\ UNCHANGED <<stdin, lead, gaveUp>> /\ stdout # <<>> /\ stdout' = Tail(stdout)
           /\ Head(stdout) \in Lines
           /\ host \in Host /\ host' = [Read(host, Head(stdout)) EXCEPT !.reading = TRUE]
           /\ stdout' \in Seq(Lines)
<1>1. host \in Host /\ stdout \in Seq(Lines)
  BY DEF TInv, TypeOK, PipesOK
<1> QED  BY <1>1 DEF ReadLine

HostEvent == \/ \E t \in Turn : SendTurn(t)
             \/ Quietly \/ LeadCloses \/ Written \/ InputFails \/ AckTimeout \/ TurnTimeout

LEMMA NextIs ==
    ASSUME [Next]_vars
    PROVE  \/ HostEvent \/ ReadLine \/ LeadTakes \/ LeadInterrupted \/ LeadStarts
           \/ LeadRecords \/ LeadEnds \/ Dies \/ UNCHANGED vars
  BY DEF Next, HostStep, LeadStep, HostEvent, Quietly, Kill, LeadExits, Dies

LEMMA HostEventType ==
    ASSUME TInv, HostEvent
    PROVE  /\ host' \in Host /\ stdin' \in Seq(Inputs)
           /\ UNCHANGED <<stdout, lead>>
<1>1. stdin \in Seq(Inputs)
  BY DEF TInv, PipesOK
<1>2. ASSUME NEW t \in Turn, SendTurn(t)
      PROVE  /\ host' \in Host /\ stdin' \in Seq(Inputs)
             /\ UNCHANGED <<stdout, lead>>
  <2>1. PICK s \in Host :
          \/ Becomes(s)
          \/ host' = s /\ \E i \in Inputs : stdin' = Append(stdin, i)
          \/ Leaves(s, host') /\ UNCHANGED stdin
    BY <1>2, SendEvent, Zenon
  <2>2. UNCHANGED <<stdout, lead>>
    BY <1>2, SendEvent, Zenon
  <2>3. CASE Becomes(s)
    BY <1>1, <2>2, <2>3, BecomesType
  <2>4. CASE host' = s /\ \E i \in Inputs : stdin' = Append(stdin, i)
    BY <1>1, <2>2, <2>4
  <2>5. CASE Leaves(s, host') /\ UNCHANGED stdin
    BY <1>1, <2>2, <2>5 DEF Leaves
  <2> QED  BY <2>1, <2>3, <2>4, <2>5
<1>3. CASE Quietly
  BY <1>1, <1>3, QuietEvent, BecomesType
<1>4. CASE LeadCloses
  BY <1>1, <1>4, LeadClosesEvent, BecomesType
<1>5. CASE Written
  BY <1>1, <1>5, WrittenEvent, BecomesType
<1>6. CASE AckTimeout \/ TurnTimeout
  BY <1>1, <1>6, TimeoutEvent, BecomesType
<1>7. CASE InputFails
  BY <1>1, <1>7, FailsEvent DEF Leaves
<1> QED  BY <1>2, <1>3, <1>4, <1>5, <1>6, <1>7 DEF HostEvent

LEMMA TypeStep == TInv /\ [Next]_vars => TInv'
<1> SUFFICES ASSUME TInv, [Next]_vars PROVE TInv'
  OBVIOUS
<1>1. /\ host \in Host /\ lead \in Lead /\ stdin \in Seq(Inputs) /\ stdout \in Seq(Lines) /\ LeadSteps
      /\ lead.turn = None <=> lead.step = "waiting"
  BY DEF TInv, TypeOK, PipesOK, LeadSteps
<1>2. ASSUME host' \in Host, lead' \in Lead, stdin' \in Seq(Inputs), stdout' \in Seq(Lines),
             lead'.turn = None <=> lead'.step = "waiting"
      PROVE  TInv'
  BY <1>2, RefusalType DEF TInv, TypeOK, PipesOK, LeadSteps
<1>3. CASE HostEvent
  BY <1>1, <1>2, <1>3, HostEventType
<1>4. CASE ReadLine
  <2>1. host' \in Host
    BY <1>4, ReadLineStep, ReadStep
  <2> QED  BY <1>1, <1>2, <1>4, <2>1, ReadLineStep
<1>5. CASE LeadTakes
  <2>1. stdin' \in Seq(Inputs) /\ host' = host /\ lead' \in Lead
        /\ lead'.turn = lead.turn /\ lead'.step = lead.step
    BY SMTT(30), <1>1, <1>5, LeadTakesStep
  <2>2. stdout' \in Seq(Lines)
    BY <1>1, <1>5, LeadTakesStep, SaysType
  <2> QED  BY <1>1, <1>2, <2>1, <2>2
<1>6. CASE LeadInterrupted
  <2>1. stdin' \in Seq(Inputs)
    BY <1>1, <1>6, LeadInterruptedStep
  <2> QED  BY <1>1, <1>2, <1>6, <2>1, LeadInterruptedStep
<1>7. CASE LeadStarts
  <2>1. lead'.turn # None
    BY <1>7, LeadStartsStep, TurnsAreScoped
  <2> QED  BY <1>1, <1>2, <1>7, <2>1, LeadStartsStep
<1>8. CASE LeadRecords
  <2>1. lead'.turn # None
    BY <1>8, LeadRecordsStep, TurnsAreScoped
  <2>2. stdout' \in Seq(Lines)
    BY <1>1, <1>8, LeadRecordsStep, Said, SaysType
  <2> QED  BY <1>1, <1>2, <1>8, <2>1, <2>2, LeadRecordsStep
<1>9. CASE LeadEnds
  <2>1. stdout' \in Seq(Lines)
    BY <1>1, <1>9, LeadEndsStep, SaysType
  <2> QED  BY <1>1, <1>2, <1>9, <2>1, LeadEndsStep
<1>10. CASE Dies
  <2>1. stdin' \in Seq(Inputs)
    BY <1>10 DEF Dies
  <2> QED  BY <1>1, <1>2, <1>10, <2>1, DiesStep DEF Dies
<1>11. CASE UNCHANGED vars
  BY <1>1, <1>2, <1>11 DEF vars
<1> QED  BY <1>3, <1>4, <1>5, <1>6, <1>7, <1>8, <1>9, <1>10, <1>11, NextIs

\* The variables keep their types, the Lead has a step when it has a turn and the
\* pipes hold lines: hostLocalLead and runScriptableConversation.
THEOREM TypeCorrect == Spec => []TypeOK
<1>1. Spec => []TInv
  BY TypeInit, TypeStep, PTL DEF Spec
<1>2. TInv => TypeOK
  BY DEF TInv
<1> QED  BY <1>1, <1>2, PTL

-----------------------------------------------------------------------------
(* Until a deadline passes, what is on its way is the active turn's.  s is   *)
(* the host, in and out the pipes, ld the Lead.                              *)

IsInput(line) == line.kind = "input"

\* The Lead has no turn, and none is on its way.
Quiet(in, ld) ==
    /\ \A i \in 1 .. Len(in) : ~IsInput(in[i])
    /\ ld.queue = <<>> /\ ld.turn = None

\* The turn is in the pipe, or in the Lead's queue, or with the Lead, or nowhere.
OneToken(in, ld) ==
    /\ \A i, j \in 1 .. Len(in) : IsInput(in[i]) /\ IsInput(in[j]) => i = j
    /\ (\E i \in 1 .. Len(in) : IsInput(in[i])) => ld.queue = <<>> /\ ld.turn = None
    /\ Len(ld.queue) <= 1
    /\ ld.queue # <<>> => ld.turn = None

TokensOf(t, in, ld) ==
    /\ \A i \in 1 .. Len(in) : IsInput(in[i]) => in[i].turn = t
    /\ \A i \in 1 .. Len(ld.queue) : ld.queue[i] = t
    /\ ld.turn \in {None, t}

\* What the Lead has said is of t, and it has heard what it acknowledged.
LinesOf(t, out, ld) ==
    \A i \in 1 .. Len(out) :
       /\ out[i].turn = t
       /\ out[i].kind \in {"recorded", "handled"} => t \in ld.heard

\* The end of a turn is the last that is said of it.
LastWord(done, in, out, ld) ==
    /\ \A i \in 1 .. Len(out) : out[i].kind = "complete" => i = Len(out) /\ Quiet(in, ld)
    /\ done # "no" => out = <<>> /\ Quiet(in, ld)

Own(s, in, out, ld) ==
    /\ TokensOf(s.active, in, ld) /\ OneToken(in, ld)
    /\ LinesOf(s.active, out, ld) /\ LastWord(s.done, in, out, ld)
    /\ s.response \in {None, s.active}
    /\ s.acked => s.active \in ld.heard

\* The variables of the host agree about the active turn.
Shape(s) ==
    /\ s.active = None <=> s.phase = "idle"
    /\ s.active = None => ~s.acked /\ s.response = None /\ s.done = "no"
    /\ s.done = "answered" => s.response # None
    /\ s.phase = "completing" => s.acked

Honest(s) == \A t \in Turn : s.turn[t] = "answered" => s.answer[t] = t

\* A turn whose line went to a Lead that is gone fails, whatever is read.
Heard(s, ld) == s.phase \in {"acking", "completing"} \/ (s.phase = "writing" /\ ld.alive)

Sound(s, in, out, ld) ==
    /\ Shape(s) /\ Honest(s)
    /\ s.active = None /\ ld.alive => Quiet(in, ld) /\ out = <<>>
    /\ Heard(s, ld) => Own(s, in, out, ld)

SInv == ~gaveUp => Sound(host, stdin, stdout, lead)

\* Own depends on the host by five variables only.
LEMMA OwnKeeps ==
    ASSUME NEW s, NEW n, NEW in, NEW out, NEW ld,
           n.active = s.active, n.acked = s.acked, n.response = s.response, n.done = s.done,
           Own(s, in, out, ld)
    PROVE  Own(n, in, out, ld)
  BY DEF Own

LEMMA SoundKeeps ==
    ASSUME NEW s, NEW n, NEW in, NEW out, NEW ld, Keeps(s, n), Sound(s, in, out, ld), Honest(n)
    PROVE  Sound(n, in, out, ld)
<1>1. /\ n.active = s.active /\ n.phase = s.phase
      /\ n.acked = s.acked /\ n.response = s.response /\ n.done = s.done
  BY DEF Keeps
<1>2. Shape(n) /\ (Heard(n, ld) <=> Heard(s, ld))
  BY <1>1 DEF Sound, Shape, Heard
<1>3. Heard(s, ld) => Own(n, in, out, ld)
  BY <1>1, OwnKeeps DEF Sound
<1> QED  BY <1>1, <1>2, <1>3 DEF Sound

LEMMA HonestFails ==
    ASSUME NEW s, NEW n, Honest(s), FailsSome(s, n)
    PROVE  Honest(n)
  BY DEF Honest, FailsSome

LEMMA HonestOver ==
    ASSUME NEW s \in Host, NEW outcome \in {"answered", "failed"}, Honest(s),
           outcome = "answered" => s.response = s.active
    PROVE  Honest(Over(s, outcome))
<1> DEFINE n == Over(s, outcome)
<1>1. /\ n.turn = [s.turn EXCEPT ![s.active] = outcome]
      /\ n.answer = [s.answer EXCEPT ![s.active] = IF outcome = "answered" THEN s.response ELSE None]
  BY OverStep
<1>2. s.turn \in [Turn -> Status] /\ s.answer \in [Turn -> Turn \cup {None}]
  BY DEF Host, Status
<1> HIDE DEF n
<1>3. ASSUME NEW t \in Turn, n.turn[t] = "answered"
      PROVE  n.answer[t] = t
  <2>1. CASE t = s.active
    BY <1>1, <1>2, <1>3, <2>1
  <2>2. CASE t # s.active
    BY <1>1, <1>2, <1>3, <2>2 DEF Honest
  <2> QED  BY <2>1, <2>2
<1> QED  BY <1>3 DEF Honest, n

-----------------------------------------------------------------------------
(* The stages of Becomes keep it.                                            *)

LEMMA AcknowledgedSound ==
    ASSUME NEW s \in Host, NEW in, NEW out, NEW ld, Sound(s, in, out, ld)
    PROVE  Sound(Acknowledged(s), in, out, ld)
<1> DEFINE n == Acknowledged(s)
<1>1. /\ n.turn = s.turn /\ n.answer = s.answer
      /\ n.active = s.active /\ n.acked = s.acked
      /\ n.response = s.response /\ n.done = s.done
      /\ \/ n.phase = s.phase
         \/ s.phase = "acking" /\ s.acked /\ n.phase = "completing"
  BY AcknowledgedStep
<1> HIDE DEF n
<1>2. Shape(n) /\ Honest(n) /\ (Heard(n, ld) => Heard(s, ld))
  BY <1>1 DEF Sound, Shape, Honest, Heard
<1>3. Heard(n, ld) => Own(n, in, out, ld)
  BY <1>1, <1>2, OwnKeeps DEF Sound
<1>4. Sound(n, in, out, ld)
  BY <1>1, <1>2, <1>3 DEF Sound
<1> QED  BY <1>4 DEF n

\* A turn that is over leaves the host idle; the Lead is quiet, or gone.
LEMMA OverSound ==
    ASSUME NEW s \in Host, NEW outcome \in {"answered", "failed"}, NEW in, NEW out, NEW ld,
           Sound(s, in, out, ld), outcome = "answered" => s.response = s.active,
           ld.alive => Quiet(in, ld) /\ out = <<>>
    PROVE  Sound(Over(s, outcome), in, out, ld)
<1> DEFINE n == Over(s, outcome)
<1>1. /\ n.active = None /\ n.phase = "idle"
      /\ n.acked = FALSE /\ n.response = None /\ n.done = "no"
  BY OverStep
<1>2. Honest(n)
  BY HonestOver DEF Sound
<1> HIDE DEF n
<1>3. Shape(n) /\ ~Heard(n, ld)
  BY <1>1 DEF Shape, Heard
<1>4. Sound(n, in, out, ld)
  BY <1>2, <1>3 DEF Sound
<1> QED  BY <1>4 DEF n

LEMMA CompletedSound ==
    ASSUME NEW s \in Host, NEW in, NEW out, NEW ld, Sound(s, in, out, ld)
    PROVE  Sound(Completed(s), in, out, ld)
<1>1. CASE Completed(s) = s
  BY <1>1
<1>2. CASE /\ s.phase = "completing" /\ s.done \in {"answered", "failed"}
           /\ Completed(s) = Over(s, s.done)
  <2>1. Own(s, in, out, ld)
    BY <1>2 DEF Sound, Heard
  <2>2. Quiet(in, ld) /\ out = <<>>
    BY <1>2, <2>1 DEF Own, LastWord
  <2>3. s.done = "answered" => s.response = s.active
    BY <2>1 DEF Own, Sound, Shape
  <2> QED  BY <1>2, <2>2, <2>3, OverSound
<1> QED  BY <1>1, <1>2, CompletedStep

LEMMA DrainedSound ==
    ASSUME NEW s \in Host, NEW in, NEW out, NEW ld, Sound(s, in, out, ld)
    PROVE  Sound(Drained(s), in, out, ld)
<1>1. Keeps(s, Drained(s)) /\ FailsSome(s, Drained(s))
  BY DrainedStep
<1>2. Honest(Drained(s))
  BY <1>1, HonestFails DEF Sound
<1> QED  BY <1>1, <1>2, SoundKeeps

\* The turn that begins finds the Lead quiet, and its line is the only one.
LEMMA BegunSound ==
    ASSUME NEW s \in Host, NEW in \in Seq(Inputs), NEW out, NEW ld, Sound(s, in, out, ld)
    PROVE  LET n == Begun(s) IN
           /\ n.active = s.active => Sound(n, in, out, ld)
           /\ n.active # s.active =>
                /\ n.active \in Turn /\ s.active = None
                /\ Sound(n, in, out, ld)
                /\ Sound(n, Append(in, Line("input", n.active)), out, ld)
<1> DEFINE n == Begun(s)
<1>1. /\ n.answer = s.answer
      /\ n.acked = s.acked /\ n.response = s.response /\ n.done = s.done
      /\ \/ /\ n.active = s.active /\ n.phase = s.phase
            /\ \A t \in Turn : n.turn[t] = s.turn[t] \/ n.turn[t] = "failed"
         \/ /\ s.active = None /\ n.phase = "writing" /\ n.turn = s.turn
            /\ n.active \in Turn
  <2> DEFINE tu == [t \in Turn |-> IF \E i \in 1 .. Len(s.queue) : t = s.queue[i]
                                   THEN "failed" ELSE s.turn[t]]
  <2>1. /\ n.answer = s.answer
        /\ n.acked = s.acked /\ n.response = s.response /\ n.done = s.done
        /\ \/ n.active = s.active /\ n.phase = s.phase /\ n.turn \in {s.turn, tu}
           \/ /\ s.active = None /\ n.phase = "writing" /\ n.turn = s.turn
              /\ n.active \in Turn
    BY BegunStep, Zenon DEF MayBegin
  <2>2. \A t \in Turn : tu[t] = s.turn[t] \/ tu[t] = "failed"
    OBVIOUS
  <2> HIDE DEF n, tu
  <2> QED  BY <2>1, <2>2
<1> HIDE DEF n
<1>2. Honest(n)
  BY <1>1 DEF Sound, Honest
<1>3. CASE n.active = s.active /\ n.phase = s.phase
  <2>1. Sound(n, in, out, ld)
    BY <1>1, <1>2, <1>3, SoundKeeps DEF Keeps
  <2> QED  BY <1>3, <2>1 DEF n
<1>4. CASE s.active = None /\ n.phase = "writing" /\ n.active \in Turn
  <2>1. n.active # None
    BY <1>4, TurnsAreScoped
  <2>2. Shape(n) /\ ~n.acked /\ n.response = None /\ n.done = "no"
    BY <1>1, <1>4, <2>1 DEF Sound, Shape
  <2>3. ASSUME ld.alive
        PROVE  /\ Own(n, in, out, ld)
               /\ Own(n, Append(in, Line("input", n.active)), out, ld)
    <3>1. Quiet(in, ld) /\ out = <<>>
      BY <1>4, <2>3 DEF Sound
    <3>2. Own(n, in, out, ld)
      BY <2>2, <3>1 DEF Own, Quiet, TokensOf, OneToken, LinesOf, LastWord
    <3> DEFINE in2 == Append(in, Line("input", n.active))
    <3>3. /\ Len(in2) = Len(in) + 1 /\ Len(in) \in Nat /\ Len(in2) \in Nat
          /\ \A i \in 1 .. Len(in) : in2[i] = in[i]
          /\ in2[Len(in) + 1] = Line("input", n.active)
      BY <1>4, LineTypes
    <3>4. IsInput(in2[Len(in) + 1]) /\ in2[Len(in) + 1].turn = n.active
      BY <1>4, <3>3, LineTypes DEF IsInput
    <3> HIDE DEF in2
    <3>5. \A i \in 1 .. Len(in2) : IsInput(in2[i]) => i = Len(in) + 1
      BY <3>1, <3>3 DEF Quiet
    <3>6. TokensOf(n.active, in2, ld) /\ OneToken(in2, ld)
      BY <3>1, <3>4, <3>5 DEF Quiet, TokensOf, OneToken
    <3>7. Own(n, in2, out, ld)
      BY <2>2, <3>1, <3>6 DEF Own, LinesOf, LastWord
    <3> QED  BY <3>2, <3>7 DEF in2
  <2>4. Heard(n, ld) => ld.alive
    BY <1>4 DEF Heard
  <2>5. Sound(n, in, out, ld) /\ Sound(n, Append(in, Line("input", n.active)), out, ld)
    BY <1>2, <2>1, <2>2, <2>3, <2>4 DEF Sound
  <2> QED  BY <1>4, <2>1, <2>5 DEF n
<1> QED  BY <1>1, <1>3, <1>4

LEMMA BecomesSound ==
    ASSUME NEW s \in Host, NEW out, NEW ld, Becomes(s), stdin \in Seq(Inputs),
           s.active \in {None, host.active}, Sound(s, stdin, out, ld)
    PROVE  Sound(host', stdin', out, ld)
<1> DEFINE a == Acknowledged(s)
           c == Completed(a)
           d == Drained(c)
           n == Begun(d)
<1>1. a \in Host /\ a.active = s.active /\ Sound(a, stdin, out, ld)
  BY AcknowledgedStep, AcknowledgedSound
<1>2. host' = n
  BY BecomesIs
<1>3. stdin' = IF n.active \notin {None, host.active}
               THEN Append(stdin, Line("input", n.active)) ELSE stdin
  BY <1>2, BecomesIs
<1> HIDE DEF a
<1>4. c \in Host /\ c.active \in {None, s.active} /\ Sound(c, stdin, out, ld)
  <2>1. c \in Host /\ Sound(c, stdin, out, ld)
    BY <1>1, CompletedStep, CompletedSound
  <2>2. c = a \/ \E o \in {"answered", "failed"} : c = Over(a, o)
    BY <1>1, CompletedStep
  <2>3. \A o \in {"answered", "failed"} : Over(a, o).active = None
    BY <1>1, OverStep
  <2> QED  BY <1>1, <2>1, <2>2, <2>3
<1> HIDE DEF c
<1>5. d \in Host /\ d.active \in {None, host.active} /\ Sound(d, stdin, out, ld)
  BY <1>4, DrainedStep, DrainedSound DEF Keeps
<1> HIDE DEF d
<1>6. /\ n.active = d.active => Sound(n, stdin, out, ld)
      /\ n.active # d.active =>
           /\ n.active \in Turn
           /\ Sound(n, stdin, out, ld)
           /\ Sound(n, Append(stdin, Line("input", n.active)), out, ld)
  BY <1>5, BegunSound
<1> HIDE DEF n
<1> QED  BY <1>2, <1>3, <1>5, <1>6

-----------------------------------------------------------------------------
(* Every step keeps it.                                                      *)

\* An interruption is no input.
LEMMA InterruptSound ==
    ASSUME NEW s, NEW i \in Inputs, ~IsInput(i), stdin \in Seq(Inputs), NEW out, NEW ld,
           Sound(s, stdin, out, ld)
    PROVE  Sound(s, Append(stdin, i), out, ld)
<1> DEFINE in2 == Append(stdin, i)
<1>1. /\ Len(in2) = Len(stdin) + 1 /\ Len(stdin) \in Nat /\ Len(in2) \in Nat
      /\ \A k \in 1 .. Len(stdin) : in2[k] = stdin[k]
      /\ in2[Len(stdin) + 1] = i
  OBVIOUS
<1> HIDE DEF in2
<1>2. \A k \in 1 .. Len(in2) : IsInput(in2[k]) => k \in 1 .. Len(stdin) /\ in2[k] = stdin[k]
  BY <1>1
<1>3. Quiet(stdin, ld) => Quiet(in2, ld)
  BY <1>2 DEF Quiet
<1>4. ASSUME Own(s, stdin, out, ld)
      PROVE  Own(s, in2, out, ld)
  <2>1. TokensOf(s.active, in2, ld) /\ OneToken(in2, ld)
    BY <1>2, <1>4 DEF Own, TokensOf, OneToken
  <2>2. LastWord(s.done, in2, out, ld)
    BY <1>3, <1>4 DEF Own, LastWord
  <2> QED  BY <1>4, <2>1, <2>2 DEF Own
<1>5. Sound(s, in2, out, ld)
  BY <1>3, <1>4 DEF Sound
<1> QED  BY <1>5 DEF in2

LEMMA LeavesSound ==
    ASSUME NEW r, NEW s, Leaves(r, s), NEW in, NEW out, NEW ld, Sound(r, in, out, ld)
    PROVE  Sound(s, in, out, ld)
<1>1. Honest(s)
  BY HonestFails DEF Leaves, Sound, Honest
<1> QED  BY <1>1, SoundKeeps DEF Leaves

LEMMA HostEventSound ==
    ASSUME TInv, SInv, HostEvent, ~gaveUp'
    PROVE  Sound(host', stdin', stdout', lead')
<1>1. host \in Host /\ stdin \in Seq(Inputs)
  BY DEF TInv, TypeOK, PipesOK
<1>2. UNCHANGED <<stdout, lead>>
  BY HostEventType
<1>3. gaveUp = FALSE => Sound(host, stdin, stdout, lead)
  BY DEF SInv
<1>4. ASSUME NEW s \in Host, Becomes(s), s.active \in {None, host.active},
             Sound(s, stdin, stdout, lead)
      PROVE  Sound(host', stdin', stdout', lead')
  BY <1>1, <1>2, <1>4, BecomesSound
<1>5. CASE \E t \in Turn : SendTurn(t)
  <2>1. PICK t \in Turn : SendTurn(t)
    BY <1>5
  <2>2. UNCHANGED gaveUp /\ host.turn[t] = "new"
    BY <2>1, SendEvent
  <2>3. PICK s \in Host :
          /\ Keeps(host, s) /\ s.turn = [host.turn EXCEPT ![t] = "sent"] /\ s.answer = host.answer
          /\ \/ Becomes(s)
             \/ host' = s /\ \E i \in Inputs : i.kind # "input" /\ stdin' = Append(stdin, i)
             \/ Leaves(s, host') /\ UNCHANGED stdin
    BY <2>1, SendEvent, Zenon
  <2>4. Sound(host, stdin, stdout, lead)
    BY <2>2 DEF SInv
  <2>5. Honest(s)
    <3>1. \A u \in Turn : s.turn[u] = "answered" => host.turn[u] = "answered"
      BY <1>1, <2>3 DEF Host
    <3> QED  BY <2>3, <2>4, <3>1 DEF Sound, Honest
  <2>6. Sound(s, stdin, stdout, lead)
    BY <2>3, <2>4, <2>5, SoundKeeps
  <2>7. CASE Becomes(s)
    BY <1>4, <2>3, <2>6, <2>7 DEF Keeps
  <2>8. CASE host' = s /\ \E i \in Inputs : i.kind # "input" /\ stdin' = Append(stdin, i)
    BY <1>1, <1>2, <2>6, <2>8, InterruptSound DEF IsInput
  <2>9. CASE Leaves(s, host') /\ UNCHANGED stdin
    BY <1>2, <2>6, <2>9, LeavesSound
  <2> QED  BY <2>3, <2>7, <2>8, <2>9
<1>6. CASE Quietly
  <2>1. UNCHANGED gaveUp /\ \E s \in Host : Leaves(host, s) /\ Becomes(s)
    BY <1>6, QuietEvent
  <2>2. PICK s \in Host : Leaves(host, s) /\ Becomes(s)
    BY <2>1
  <2>3. Sound(s, stdin, stdout, lead)
    BY <2>1, <2>2, LeavesSound DEF SInv
  <2> QED  BY <1>4, <2>2, <2>3 DEF Leaves, Keeps
<1>7. CASE LeadCloses
  <2>1. /\ UNCHANGED gaveUp /\ ~lead.alive
        /\ \E s \in Host : Becomes(s) /\ (Leaves(host, s) \/ Leaves(Over(host, "failed"), s))
    BY <1>7, LeadClosesEvent
  <2>2. PICK s \in Host : Becomes(s) /\ (Leaves(host, s) \/ Leaves(Over(host, "failed"), s))
    BY <2>1
  <2>3. Sound(host, stdin, stdout, lead) /\ Sound(Over(host, "failed"), stdin, stdout, lead)
    BY <1>1, <2>1, OverSound DEF SInv
  <2>4. Sound(s, stdin, stdout, lead)
    BY <2>2, <2>3, LeavesSound
  <2>5. s.active \in {None, host.active}
    BY <1>1, <2>2, OverStep DEF Leaves, Keeps
  <2> QED  BY <1>4, <2>2, <2>4, <2>5
<1>8. CASE Written
  <2>1. /\ UNCHANGED gaveUp /\ host.phase = "writing"
        /\ \E s \in Host :
             /\ Becomes(s)
             /\ \/ ~lead.alive /\ s = Over(host, "failed")
                \/ /\ lead.alive /\ s.phase = "acking" /\ s.active = host.active
                   /\ s.acked = host.acked /\ s.response = host.response /\ s.done = host.done
                   /\ s.turn = host.turn /\ s.answer = host.answer
    BY <1>8, WrittenEvent, Zenon
  <2>2. PICK s \in Host :
             /\ Becomes(s)
             /\ \/ ~lead.alive /\ s = Over(host, "failed")
                \/ /\ lead.alive /\ s.phase = "acking" /\ s.active = host.active
                   /\ s.acked = host.acked /\ s.response = host.response /\ s.done = host.done
                   /\ s.turn = host.turn /\ s.answer = host.answer
    BY <2>1, Zenon
  <2>3. Sound(host, stdin, stdout, lead)
    BY <2>1 DEF SInv
  <2>4. CASE ~lead.alive /\ s = Over(host, "failed")
    <3>1. Sound(s, stdin, stdout, lead)
      BY <1>1, <2>3, <2>4, OverSound
    <3> QED  BY <1>1, <1>4, <2>2, <2>4, <3>1, OverStep
  <2>5. CASE /\ lead.alive /\ s.phase = "acking" /\ s.active = host.active
             /\ s.acked = host.acked /\ s.response = host.response /\ s.done = host.done
             /\ s.turn = host.turn /\ s.answer = host.answer
    <3>1. Own(host, stdin, stdout, lead)
      BY <2>1, <2>3, <2>5 DEF Sound, Heard
    <3>2. Own(s, stdin, stdout, lead)
      BY <2>5, <3>1, OwnKeeps
    <3>3. Shape(s) /\ Honest(s) /\ s.active # None
      BY <2>1, <2>3, <2>5 DEF Sound, Shape, Honest
    <3>4. Sound(s, stdin, stdout, lead)
      BY <3>2, <3>3 DEF Sound
    <3> QED  BY <1>4, <2>2, <2>5, <3>4
  <2> QED  BY <2>2, <2>4, <2>5
<1>9. CASE AckTimeout \/ TurnTimeout
  BY <1>9, TimeoutEvent
<1>10. CASE InputFails
  <2>1. UNCHANGED <<stdin, gaveUp>> /\ Leaves(host, host')
    BY <1>10, FailsEvent
  <2>2. Sound(host, stdin, stdout, lead)
    BY <2>1 DEF SInv
  <2> QED  BY <1>2, <2>1, <2>2, LeavesSound
<1> QED  BY <1>5, <1>6, <1>7, <1>8, <1>9, <1>10 DEF HostEvent

\* A line that is read was said of the active turn, or the Lead is gone.
LEMMA ReadLineSound ==
    ASSUME TInv, ReadLine, Sound(host, stdin, stdout, lead)
    PROVE  Sound(host', stdin', stdout', lead')
<1> DEFINE line == Head(stdout)
<1>1. /\ host \in Host /\ stdout \in Seq(Lines) /\ line \in Lines /\ stdout # <<>>
      /\ stdout' = Tail(stdout) /\ UNCHANGED <<stdin, lead>>
      /\ host' = [Read(host, line) EXCEPT !.reading = TRUE]
  BY ReadLineStep DEF TInv, PipesOK
<1>2. /\ line.kind \in {"recorded", "handled", "response", "error", "complete"}
      /\ line.turn \in Turn
  BY <1>1 DEF Lines
<1>3. /\ host'.active = host.active /\ host'.phase = host.phase
      /\ host'.turn = host.turn /\ host'.answer = host.answer
      /\ host'.acked = (host.acked \/ (Writing(host) /\ line.kind \in {"recorded", "handled"}))
      /\ host'.response = IF host.active # None /\ line.kind = "response" THEN line.turn ELSE host.response
      /\ \/ host'.done = host.done
         \/ /\ line.kind = "complete" /\ host.active # None /\ host.done = "no"
            /\ host'.done = IF host.error \/ host.response = None THEN "failed" ELSE "answered"
  BY <1>1, ReadStep
<1>4. /\ line = stdout[1] /\ Len(stdout) \in Nat /\ 1 <= Len(stdout)
      /\ Len(stdout') = Len(stdout) - 1
      /\ \A i \in 1 .. Len(stdout') : stdout'[i] = stdout[i + 1] /\ i + 1 \in 1 .. Len(stdout)
      /\ Len(stdout) = 1 => stdout' = <<>>
  BY <1>1
<1> HIDE DEF line
<1>5. Honest(host')
  BY <1>3 DEF Sound, Honest
<1>6. Shape(host')
  <2>1. host'.active = None => ~host'.acked /\ host'.response = None /\ host'.done = "no"
    BY <1>3 DEF Sound, Shape, Writing
  <2>2. host'.done = "answered" => host'.response # None
    BY <1>2, <1>3, TurnsAreScoped DEF Sound, Shape
  <2> QED  BY <1>3, <2>1, <2>2 DEF Sound, Shape
<1>7. host'.active = None /\ lead'.alive => Quiet(stdin', lead') /\ stdout' = <<>>
  BY <1>1, <1>3 DEF Sound
<1>8. ASSUME Heard(host', lead')
      PROVE  Own(host', stdin', stdout', lead')
  <2>1. Own(host, stdin, stdout, lead)
    BY <1>1, <1>3, <1>8 DEF Sound, Heard
  <2>2. line.turn = host.active /\ (line.kind \in {"recorded", "handled"} => host.active \in lead.heard)
    BY <1>4, <2>1 DEF Own, LinesOf
  <2>3. host.done = "no"
    BY <1>1, <2>1 DEF Own, LastWord
  <2>4. line.kind = "complete" => stdout' = <<>> /\ Quiet(stdin, lead)
    BY <1>4, <2>1 DEF Own, LastWord
  <2>5. TokensOf(host'.active, stdin', lead') /\ OneToken(stdin', lead')
    BY <1>1, <1>3, <2>1 DEF Own
  <2>6. LinesOf(host'.active, stdout', lead')
    BY <1>1, <1>3, <1>4, <2>1 DEF Own, LinesOf
  <2>7. LastWord(host'.done, stdin', stdout', lead')
    BY <1>1, <1>3, <1>4, <2>1, <2>3, <2>4 DEF Own, LastWord
  <2>8. host'.response \in {None, host'.active}
    BY <1>3, <2>1, <2>2 DEF Own
  <2>9. host'.acked => host'.active \in lead'.heard
    BY <1>1, <1>3, <2>1, <2>2 DEF Own
  <2> QED  BY <2>5, <2>6, <2>7, <2>8, <2>9 DEF Own
<1> QED  BY <1>5, <1>6, <1>7, <1>8 DEF Sound

\* Lines of the turn after lines of the turn, of which none was its end.
LEMMA SaysOwn ==
    ASSUME NEW t, NEW lines, SaysOf(t, lines), stdout \in Seq(Lines), stdout' = stdout \o lines,
           NEW ld, LinesOf(t, stdout, ld), ld.heard \subseteq lead'.heard, t \in lead'.heard,
           \A i \in 1 .. Len(stdout) : stdout[i].kind # "complete"
    PROVE  /\ LinesOf(t, stdout', lead')
           /\ \A i \in 1 .. Len(stdout') : stdout'[i].kind = "complete" => i = Len(stdout')
<1>1. /\ Len(stdout') = Len(stdout) + Len(lines) /\ Len(stdout) \in Nat /\ Len(lines) \in Nat
      /\ \A i \in 1 .. Len(stdout) : stdout'[i] = stdout[i]
      /\ \A i \in 1 .. Len(stdout') : i \notin 1 .. Len(stdout) =>
           i - Len(stdout) \in 1 .. Len(lines) /\ stdout'[i] = lines[i - Len(stdout)]
  BY DEF SaysOf
<1>2. ASSUME NEW i \in 1 .. Len(stdout')
      PROVE  /\ stdout'[i].turn = t
             /\ stdout'[i].kind = "complete" => i = Len(stdout')
  <2>1. CASE i \in 1 .. Len(stdout)
    BY <1>1, <2>1 DEF LinesOf
  <2>2. CASE i \notin 1 .. Len(stdout)
    <3>1. i - Len(stdout) \in 1 .. Len(lines) /\ stdout'[i] = lines[i - Len(stdout)]
      BY <1>1, <2>2
    <3> QED  BY <1>1, <3>1 DEF SaysOf
  <2> QED  BY <2>1, <2>2
<1> QED  BY <1>2 DEF LinesOf

\* The Lead acts for the active turn: with none it is quiet.
LEMMA LeadOwn ==
    ASSUME TInv, lead.alive, Sound(host, stdin, stdout, lead)
    PROVE  \/ host.active = None /\ Quiet(stdin, lead)
           \/ /\ host.active # None /\ Own(host, stdin, stdout, lead)
              /\ ~Quiet(stdin, lead) => /\ host.done = "no"
                                        /\ \A i \in 1 .. Len(stdout) : stdout[i].kind # "complete"
<1>1. host.phase \in {"idle", "writing", "acking", "completing"}
  BY DEF TInv, TypeOK, Host
<1>2. host.active # None => Own(host, stdin, stdout, lead)
  BY <1>1 DEF Sound, Shape, Heard
<1> QED  BY <1>2 DEF Sound, Own, LastWord

LEMMA LeadSound ==
    ASSUME TInv, UNCHANGED host, lead.alive, Sound(host, stdin, stdout, lead),
           host.active = None => Quiet(stdin', lead') /\ stdout' = stdout,
           host.active # None => Own(host, stdin', stdout', lead'), lead'.alive
    PROVE  Sound(host', stdin', stdout', lead')
<1>1. Heard(host', lead') => host.active # None
  BY DEF Sound, Shape, Heard
<1>2. Own(host, stdin', stdout', lead') => Own(host', stdin', stdout', lead')
  BY OwnKeeps
<1> QED  BY <1>1, <1>2 DEF Sound, Shape, Honest

LEMMA LeadTakesSound ==
    ASSUME TInv, LeadTakes, Sound(host, stdin, stdout, lead)
    PROVE  Sound(host', stdin', stdout', lead')
<1>1. stdin \in Seq(Inputs) /\ stdout \in Seq(Lines) /\ lead \in Lead /\ lead.queue \in Seq(Turn)
  BY DEF TInv, TypeOK, PipesOK, Lead
<1>2. /\ UNCHANGED host /\ stdin # <<>> /\ stdin' = Tail(stdin) /\ lead.alive /\ lead'.alive
      /\ lead'.turn = lead.turn
  BY LeadTakesStep
<1>3. PICK t \in Turn :
        /\ Head(stdin).kind = "input" /\ Head(stdin).turn = t
        /\ \/ /\ lead'.queue = Append(lead.queue, t) /\ lead'.heard = lead.heard
              /\ stdout' = stdout
           \/ /\ lead'.queue = lead.queue /\ lead'.heard = lead.heard \cup {t}
              /\ \E lines : SaysOf(t, lines) /\ stdout' = stdout \o lines
           \/ UNCHANGED <<lead, stdout>>
  BY LeadTakesStep, Zenon
<1>4. /\ Len(stdin) \in Nat /\ 1 \in 1 .. Len(stdin) /\ stdin[1].turn = t /\ IsInput(stdin[1])
      /\ Len(stdin') = Len(stdin) - 1
      /\ \A i \in 1 .. Len(stdin') : stdin'[i] = stdin[i + 1] /\ i + 1 \in 1 .. Len(stdin) /\ i + 1 # 1
  BY <1>1, <1>2, <1>3 DEF IsInput
<1>5. ~Quiet(stdin, lead)
  BY <1>4 DEF Quiet
<1>6. /\ host.active # None /\ Own(host, stdin, stdout, lead) /\ host.done = "no"
      /\ \A i \in 1 .. Len(stdout) : stdout[i].kind # "complete"
  BY <1>2, <1>5, LeadOwn
<1>7. host.active = t /\ lead.queue = <<>> /\ lead.turn = None
  BY <1>4, <1>6 DEF Own, TokensOf, OneToken
<1>8. \A i \in 1 .. Len(stdin') : ~IsInput(stdin'[i])
  BY <1>4, <1>6 DEF Own, OneToken
<1>9. Own(host, stdin', stdout', lead')
  <2>1. CASE lead'.queue = Append(lead.queue, t) /\ lead'.heard = lead.heard /\ stdout' = stdout
    <3>1. Len(lead'.queue) = 1 /\ lead'.queue[1] = t
      BY <1>7, <2>1
    <3>2. TokensOf(t, stdin', lead') /\ OneToken(stdin', lead')
      BY <1>2, <1>7, <1>8, <3>1 DEF TokensOf, OneToken
    <3>3. LinesOf(t, stdout', lead') /\ LastWord(host.done, stdin', stdout', lead')
      BY <1>6, <1>7, <2>1 DEF Own, LinesOf, LastWord
    <3> QED  BY <1>6, <1>7, <2>1, <3>2, <3>3 DEF Own
  <2>2. CASE /\ lead'.queue = lead.queue /\ lead'.heard = lead.heard \cup {t}
             /\ \E lines : SaysOf(t, lines) /\ stdout' = stdout \o lines
    <3>1. PICK lines : SaysOf(t, lines) /\ stdout' = stdout \o lines
      BY <2>2
    <3>2. /\ LinesOf(t, stdout', lead')
          /\ \A i \in 1 .. Len(stdout') : stdout'[i].kind = "complete" => i = Len(stdout')
      BY <1>1, <1>6, <1>7, <2>2, <3>1, SaysOwn DEF Own
    <3>3. Quiet(stdin', lead')
      BY <1>2, <1>7, <1>8, <2>2 DEF Quiet
    <3>4. TokensOf(t, stdin', lead') /\ OneToken(stdin', lead')
      BY <3>3 DEF Quiet, TokensOf, OneToken
    <3>5. LastWord(host.done, stdin', stdout', lead')
      BY <1>6, <3>2, <3>3 DEF LastWord
    <3> QED  BY <1>6, <1>7, <2>2, <3>2, <3>4, <3>5 DEF Own
  <2>3. CASE UNCHANGED <<lead, stdout>>
    <3>1. TokensOf(t, stdin', lead') /\ OneToken(stdin', lead')
      BY <1>7, <1>8, <2>3 DEF TokensOf, OneToken
    <3>2. LinesOf(t, stdout', lead') /\ LastWord(host.done, stdin', stdout', lead')
      BY <1>6, <1>7, <2>3 DEF Own, LinesOf, LastWord
    <3> QED  BY <1>6, <1>7, <2>3, <3>1, <3>2 DEF Own
  <2> QED  BY <1>3, <2>1, <2>2, <2>3
<1> QED  BY <1>2, <1>6, <1>9, LeadSound

LEMMA LeadInterruptedSound ==
    ASSUME TInv, LeadInterrupted, Sound(host, stdin, stdout, lead)
    PROVE  Sound(host', stdin', stdout', lead')
<1>1. stdin \in Seq(Inputs)
  BY DEF TInv, PipesOK
<1>2. /\ UNCHANGED <<host, stdout>> /\ stdin # <<>> /\ stdin' = Tail(stdin) /\ lead.alive /\ lead'.alive
      /\ lead'.turn = lead.turn /\ lead'.queue = lead.queue /\ lead'.heard = lead.heard
  BY LeadInterruptedStep
<1>3. /\ Len(stdin) \in Nat
      /\ Len(stdin') = Len(stdin) - 1
      /\ \A i \in 1 .. Len(stdin') : stdin'[i] = stdin[i + 1] /\ i + 1 \in 1 .. Len(stdin)
  BY <1>1, <1>2
<1>4. Quiet(stdin, lead) => Quiet(stdin', lead')
  BY <1>2, <1>3 DEF Quiet
<1>5. ASSUME Own(host, stdin, stdout, lead)
      PROVE  Own(host, stdin', stdout', lead')
  <2>1. TokensOf(host.active, stdin', lead')
    BY <1>2, <1>3, <1>5 DEF Own, TokensOf
  <2>2. OneToken(stdin', lead')
    <3>1. /\ \A i, j \in 1 .. Len(stdin) : IsInput(stdin[i]) /\ IsInput(stdin[j]) => i = j
          /\ (\E i \in 1 .. Len(stdin) : IsInput(stdin[i])) => lead.queue = <<>> /\ lead.turn = None
          /\ Len(lead.queue) <= 1
          /\ lead.queue # <<>> => lead.turn = None
      BY <1>5 DEF Own, OneToken
    <3>2. ASSUME NEW i \in 1 .. Len(stdin'), NEW j \in 1 .. Len(stdin'),
                 IsInput(stdin'[i]), IsInput(stdin'[j])
          PROVE  i = j
      <4>1. i + 1 = j + 1
        BY <1>3, <3>1, <3>2
      <4> QED  BY <1>3, <4>1
    <3>3. (\E i \in 1 .. Len(stdin') : IsInput(stdin'[i])) => \E i \in 1 .. Len(stdin) : IsInput(stdin[i])
      BY <1>3
    <3> QED  BY <1>2, <3>1, <3>2, <3>3 DEF OneToken
  <2>3. LinesOf(host.active, stdout', lead') /\ LastWord(host.done, stdin', stdout', lead')
    BY <1>2, <1>4, <1>5 DEF Own, LinesOf, LastWord
  <2> QED  BY <1>2, <1>5, <2>1, <2>2, <2>3 DEF Own
<1> QED  BY <1>2, <1>4, <1>5, LeadOwn, LeadSound

LEMMA OnlyElement ==
    ASSUME NEW q \in Seq(Turn), q # <<>>, Len(q) <= 1
    PROVE  1 \in 1 .. Len(q) /\ Head(q) = q[1] /\ Tail(q) = <<>>
<1>1. Len(q) \in Nat \ {0}
  BY EmptySeq
<1>2. \A n \in Nat \ {0} : n <= 1 => n = 1
  OBVIOUS
<1>3. Len(q) = 1
  BY <1>1, <1>2, Zenon
<1>4. Tail(q) \in Seq(Turn) /\ Len(Tail(q)) = 0
  BY <1>3, HeadTailProperties
<1>5. Tail(q) = <<>>
  BY <1>4, EmptySeq
<1> QED  BY <1>3, <1>5

LEMMA OneMore ==
    ASSUME NEW x \in Seq(Lines), NEW l \in Lines
    PROVE  /\ Len(x) \in Nat /\ Len(x \o <<l>>) = Len(x) + 1
           /\ \A i \in 1 .. Len(x) : (x \o <<l>>)[i] = x[i]
           /\ (x \o <<l>>)[Len(x) + 1] = l
<1>1. x \o <<l>> = Append(x, l)
  BY AppendIsConcat
<1>2. /\ Len(x) \in Nat /\ Len(Append(x, l)) = Len(x) + 1
      /\ \A i \in 1 .. Len(x) : Append(x, l)[i] = x[i]
      /\ Append(x, l)[Len(x) + 1] = l
  BY AppendProperties, LenProperties
<1> QED  BY <1>1, <1>2, Zenon

LEMMA LeadStartsSound ==
    ASSUME TInv, LeadStarts, Sound(host, stdin, stdout, lead)
    PROVE  Sound(host', stdin', stdout', lead')
<1>1. lead \in Lead /\ lead.queue \in Seq(Turn)
  BY DEF TInv, TypeOK, Lead
<1>2. /\ UNCHANGED <<host, stdin, stdout>> /\ lead.alive /\ lead'.alive
      /\ lead.turn = None /\ lead.queue # <<>>
      /\ lead'.turn = Head(lead.queue) /\ lead'.queue = Tail(lead.queue)
      /\ lead'.heard = lead.heard
  BY LeadStartsStep
<1>3. ~Quiet(stdin, lead)
  BY <1>2 DEF Quiet
<1>4. /\ host.active # None /\ Own(host, stdin, stdout, lead) /\ host.done = "no"
      /\ \A i \in 1 .. Len(stdout) : stdout[i].kind # "complete"
  BY <1>2, <1>3, LeadOwn
<1>5. Len(lead.queue) <= 1 /\ (1 \in 1 .. Len(lead.queue) => lead.queue[1] = host.active)
  BY <1>4 DEF Own, TokensOf, OneToken
<1>6. lead'.queue = <<>> /\ lead'.turn = host.active
  BY <1>1, <1>2, <1>5, OnlyElement
<1>7. TokensOf(host.active, stdin', lead') /\ OneToken(stdin', lead')
  BY <1>2, <1>4, <1>6 DEF Own, TokensOf, OneToken
<1>8. LinesOf(host.active, stdout', lead') /\ LastWord(host.done, stdin', stdout', lead')
  BY <1>2, <1>4 DEF Own, LinesOf, LastWord
<1>9. Own(host, stdin', stdout', lead')
  BY <1>2, <1>4, <1>7, <1>8 DEF Own
<1> QED  BY <1>2, <1>4, <1>9, LeadSound

\* With a turn the Lead is not quiet, and no input is on its way.
LEMMA LeadHasTurn ==
    ASSUME TInv, lead.alive, lead.turn # None, Sound(host, stdin, stdout, lead)
    PROVE  /\ host.active = lead.turn /\ host.active # None
           /\ Own(host, stdin, stdout, lead) /\ host.done = "no"
           /\ \A i \in 1 .. Len(stdout) : stdout[i].kind # "complete"
           /\ \A i \in 1 .. Len(stdin) : ~IsInput(stdin[i])
           /\ lead.queue = <<>>
<1>1. ~Quiet(stdin, lead)
  BY DEF Quiet
<1> QED  BY <1>1, LeadOwn DEF Own, TokensOf, OneToken

LEMMA LeadRecordsSound ==
    ASSUME TInv, LeadRecords, Sound(host, stdin, stdout, lead)
    PROVE  Sound(host', stdin', stdout', lead')
<1> DEFINE t == lead.turn
           lines == <<Line("recorded", t)>>
<1>1. /\ UNCHANGED <<host, stdin>> /\ lead.alive /\ lead'.alive /\ t \in Turn
      /\ lead'.turn = t /\ lead'.queue = lead.queue /\ lead'.heard = lead.heard \cup {t}
      /\ stdout' = stdout \o lines
  BY LeadRecordsStep
<1>2. stdout \in Seq(Lines) /\ t # None /\ SaysOf(t, lines)
  BY <1>1, TurnsAreScoped, Said DEF TInv, PipesOK
<1>3. /\ host.active = t /\ host.active # None
      /\ Own(host, stdin, stdout, lead) /\ host.done = "no"
      /\ \A i \in 1 .. Len(stdout) : stdout[i].kind # "complete"
  BY <1>1, <1>2, LeadHasTurn
<1>4. LinesOf(t, stdout', lead')
  BY <1>1, <1>2, <1>3, SaysOwn DEF Own
<1>5. \A i \in 1 .. Len(stdout') : stdout'[i].kind # "complete"
  <2>1. Line("recorded", t) \in Lines /\ Line("recorded", t).kind = "recorded"
    BY <1>1, LineTypes
  <2>2. /\ Len(stdout) \in Nat /\ Len(stdout') = Len(stdout) + 1
        /\ \A i \in 1 .. Len(stdout) : stdout'[i] = stdout[i]
        /\ stdout'[Len(stdout) + 1] = Line("recorded", t)
    BY <1>1, <1>2, <2>1, OneMore
  <2> QED  BY <1>3, <2>1, <2>2
<1>6. TokensOf(t, stdin', lead') /\ OneToken(stdin', lead')
  BY <1>1, <1>3 DEF Own, TokensOf, OneToken
<1>7. Own(host, stdin', stdout', lead')
  BY <1>1, <1>3, <1>4, <1>5, <1>6 DEF Own, LastWord
<1> QED  BY <1>1, <1>3, <1>7, LeadSound

LEMMA LeadEndsSound ==
    ASSUME TInv, LeadEnds, Sound(host, stdin, stdout, lead)
    PROVE  Sound(host', stdin', stdout', lead')
<1> DEFINE t == lead.turn
<1>1. /\ UNCHANGED <<host, stdin>> /\ lead.alive /\ lead'.alive /\ t \in Turn
      /\ lead'.turn = None /\ lead'.queue = lead.queue /\ lead'.heard = lead.heard \cup {t}
      /\ \E lines : SaysOf(t, lines) /\ stdout' = stdout \o lines
  BY LeadEndsStep
<1>2. stdout \in Seq(Lines) /\ t # None
  BY <1>1, TurnsAreScoped DEF TInv, PipesOK
<1>3. /\ host.active = t /\ host.active # None
      /\ Own(host, stdin, stdout, lead) /\ host.done = "no"
      /\ \A i \in 1 .. Len(stdout) : stdout[i].kind # "complete"
      /\ \A i \in 1 .. Len(stdin) : ~IsInput(stdin[i])
      /\ lead.queue = <<>>
  BY <1>1, <1>2, LeadHasTurn
<1>4. /\ LinesOf(t, stdout', lead')
      /\ \A i \in 1 .. Len(stdout') : stdout'[i].kind = "complete" => i = Len(stdout')
  BY <1>1, <1>2, <1>3, SaysOwn DEF Own
<1>5. Quiet(stdin', lead')
  BY <1>1, <1>3 DEF Quiet
<1>6. TokensOf(t, stdin', lead') /\ OneToken(stdin', lead')
  BY <1>5 DEF Quiet, TokensOf, OneToken
<1>7. LastWord(host.done, stdin', stdout', lead')
  BY <1>3, <1>4, <1>5 DEF LastWord
<1>8. Own(host, stdin', stdout', lead')
  BY <1>1, <1>3, <1>4, <1>6, <1>7 DEF Own
<1> QED  BY <1>1, <1>3, <1>8, LeadSound

LEMMA DiesSound ==
    ASSUME TInv, Dies, Sound(host, stdin, stdout, lead)
    PROVE  Sound(host', stdin', stdout', lead')
<1>1. /\ UNCHANGED <<host, stdout>> /\ stdin' = <<>> /\ lead'.turn = lead.turn
      /\ lead'.queue = lead.queue /\ lead'.heard = lead.heard /\ lead'.alive = FALSE
  BY DiesStep DEF Dies
<1>3. 1 .. Len(stdin') = {}
  BY <1>1
<1>4. Quiet(stdin, lead) => Quiet(stdin', lead')
  BY <1>1, <1>3 DEF Quiet
<1>2. Own(host, stdin, stdout, lead) => Own(host', stdin', stdout', lead')
  BY <1>1, <1>3, <1>4 DEF Own, TokensOf, OneToken, LinesOf, LastWord
<1> QED  BY <1>1, <1>2 DEF Sound, Heard, Shape, Honest

LEMMA SoundInit == Init => SInv
<1> SUFFICES ASSUME Init PROVE Sound(host, stdin, stdout, lead)
  BY DEF SInv
<1>1. Quiet(stdin, lead) /\ stdout = <<>>
  BY DEF Init, Quiet
<1>2. Shape(host) /\ Honest(host) /\ ~Heard(host, lead)
  BY DEF Init, Shape, Honest, Heard
<1> QED  BY <1>1, <1>2 DEF Sound

LEMMA SoundStep == TInv /\ SInv /\ [Next]_vars => SInv'
<1> SUFFICES ASSUME TInv, SInv, [Next]_vars, ~gaveUp' PROVE Sound(host', stdin', stdout', lead')
  BY DEF SInv
<1>1. gaveUp' = gaveUp \/ gaveUp' = TRUE
  BY DEF Next, HostStep, LeadStep, vars, SendTurn, RequestStop, RequestShutdown, Written, InputFails, ReadLine,
         EndChunk, AckTimeout, TurnTimeout, LeadCloses, StopAllowed, StopRefused, Gone, Kill,
         LeadTakes, LeadInterrupted, LeadStarts, LeadRecords, LeadEnds, LeadExits
<1>2. Sound(host, stdin, stdout, lead)
  BY <1>1 DEF SInv
<1>3. CASE UNCHANGED vars
  BY <1>2, <1>3 DEF vars, Sound, Heard, Shape, Honest, Own, TokensOf, OneToken, LinesOf, LastWord, Quiet
<1> QED  BY <1>2, <1>3, NextIs, HostEventSound, ReadLineSound, LeadTakesSound, LeadInterruptedSound,
            LeadStartsSound, LeadRecordsSound, LeadEndsSound, DiesSound

LEMMA Inductive == Spec => [](TInv /\ SInv)
<1>1. Init => TInv /\ SInv
  BY TypeInit, SoundInit
<1>2. TInv /\ SInv /\ [Next]_vars => (TInv /\ SInv)'
  BY TypeStep, SoundStep
<1> QED  BY <1>1, <1>2, PTL DEF Spec

\* Until a deadline passes, the turn that completeOwnerTurn goes on with after its
\* acknowledgement is one the Lead has made durable or has answered for.
THEOREM AcknowledgementsAreTrue == Spec => []AckIsTruthful
<1>1. TInv /\ SInv => AckIsTruthful
  <2> SUFFICES ASSUME TInv, SInv, ~gaveUp, host.phase = "completing"
               PROVE  host.active \in lead.heard
    BY DEF AckIsTruthful
  <2>1. Shape(host) /\ Own(host, stdin, stdout, lead)
    BY DEF SInv, Sound, Heard
  <2> QED  BY <2>1 DEF Shape, Own
<1> QED  BY <1>1, Inductive, PTL

\* Until a deadline passes, the answer completeOwnerTurn resolves a turn with is
\* the Lead's answer to that turn.
THEOREM AnswersBelong == Spec => []AnswersAreOwnInTime
<1>1. SInv => AnswersAreOwnInTime
  BY DEF SInv, Sound, Honest, AnswersAreOwnInTime, AnswersAreOwn
<1> QED  BY <1>1, Inductive, PTL

-----------------------------------------------------------------------------
(* Turns are settled once, and none is lost: whatever deadlines pass.        *)

\* What a turn that is waited for is in the rows of its client.
Fate(s) == IF s.exit = "none" THEN "sent" ELSE "failed"

\* A turn that was sent is the active one or waits once; the others are over.
Orderly(s) ==
    /\ s.phase = "idle" <=> s.active = None
    /\ \A i \in 1 .. Len(s.queue) : s.turn[s.queue[i]] = Fate(s) /\ s.queue[i] # s.active
    /\ \A i, j \in 1 .. Len(s.queue) : s.queue[i] = s.queue[j] => i = j
    /\ s.active # None => s.turn[s.active] = Fate(s)
    /\ \A t \in Turn : s.turn[t] = "sent" =>
         s.exit = "none" /\ (t = s.active \/ \E i \in 1 .. Len(s.queue) : t = s.queue[i])

\* No continuation is left to run.
Rests(s) ==
    /\ ~(s.phase = "acking" /\ s.acked)
    /\ ~(s.phase = "completing" /\ s.done # "no")

\* What a turn was settled with stays.
Later(s, n) ==
    \A t \in Turn : s.turn[t] \in {"answered", "failed"} =>
        n.turn[t] = s.turn[t] /\ n.answer[t] = s.answer[t]

OInv == Orderly(host) /\ (~host.reading => Rests(host))

LEMMA OverOrderly ==
    ASSUME NEW s \in Host, NEW o \in {"answered", "failed"}, Orderly(s),
           s.exit = "none", s.active # None
    PROVE  Orderly(Over(s, o)) /\ Later(s, Over(s, o)) /\ Rests(Over(s, o))
<1> DEFINE n == Over(s, o)
<1>1. /\ n \in Host /\ n.active = None /\ n.phase = "idle" /\ n.queue = s.queue
      /\ n.turn = [s.turn EXCEPT ![s.active] = o]
      /\ n.answer = [s.answer EXCEPT ![s.active] = IF o = "answered" THEN s.response ELSE None]
      /\ n.exit = s.exit
  BY OverStep
<1>2. /\ s.turn \in [Turn -> Status] /\ s.answer \in [Turn -> Turn \cup {None}]
      /\ s.active \in Turn /\ s.queue \in Seq(Turn)
  BY DEF Host, Status
<1> HIDE DEF n
<1>3. /\ \A t \in Turn \ {s.active} : n.turn[t] = s.turn[t] /\ n.answer[t] = s.answer[t]
      /\ n.turn[s.active] = o /\ s.turn[s.active] = "sent"
  BY <1>1, <1>2 DEF Orderly, Fate
<1>4. \A i \in 1 .. Len(s.queue) : s.queue[i] \in Turn \ {s.active}
  BY <1>2 DEF Orderly
<1>5. Later(s, n)
  BY <1>3 DEF Later
<1>6. \A t \in Turn : n.turn[t] = "sent" => s.turn[t] = "sent" /\ t # s.active
  BY <1>3
<1>7. None \notin Turn
  BY TurnsAreScoped
<1>8. Orderly(n)
  BY <1>1, <1>3, <1>4, <1>6, <1>7 DEF Orderly, Fate
<1> QED  BY <1>1, <1>5, <1>8 DEF Rests, n

LEMMA EndsOrderly ==
    ASSUME NEW s \in Host, NEW n \in Host, Orderly(s),
           Keeps(s, n), FailsSome(s, n), Ends(s, n), n.queue = s.queue
    PROVE  Orderly(n) /\ Later(s, n)
<1>1. Later(s, n)
  BY DEF FailsSome, Later
<1>2. s.queue \in Seq(Turn) /\ s.active \in Turn \cup {None}
  BY DEF Host
<1>3. \A i \in 1 .. Len(s.queue) : s.queue[i] \in Turn
  BY <1>2
<1>4. CASE n.exit = s.exit /\ n.turn = s.turn
  BY <1>1, <1>4 DEF Orderly, Keeps, Fate
<1>5. CASE s.exit = "none" /\ n.exit # "none" /\ \A t \in Turn : n.turn[t] # "sent"
  <2>1. \A t \in Turn : s.turn[t] = "sent" => n.turn[t] = "failed"
    BY <1>5 DEF FailsSome
  <2>2. Fate(s) = "sent" /\ Fate(n) = "failed"
    BY <1>5 DEF Fate
  <2> QED  BY <1>1, <1>2, <1>3, <1>5, <2>1, <2>2 DEF Orderly, Keeps
<1> QED  BY <1>4, <1>5 DEF Ends

LEMMA BegunOrderly ==
    ASSUME NEW s \in Host, Orderly(s)
    PROVE  Orderly(Begun(s)) /\ Later(s, Begun(s))
<1> DEFINE n == Begun(s)
<1>1. /\ n \in Host /\ n.answer = s.answer /\ n.exit = s.exit
      /\ \/ n = s /\ ~MayBegin(s)
         \/ /\ n.active = s.active /\ n.phase = s.phase /\ n.queue = <<>>
            /\ n.turn = [t \in Turn |-> IF \E i \in 1 .. Len(s.queue) : t = s.queue[i]
                                        THEN "failed" ELSE s.turn[t]]
         \/ /\ MayBegin(s) /\ n.phase = "writing" /\ n.turn = s.turn
            /\ n.active = Head(s.queue) /\ n.queue = Tail(s.queue) /\ n.active \in Turn
  BY BegunStep
<1>2. s.queue \in Seq(Turn) /\ s.active \in Turn \cup {None}
  BY DEF Host
<1>3. None \notin Turn
  BY TurnsAreScoped
<1> HIDE DEF n
<1>4. CASE n = s
  BY <1>4 DEF Later, n
<1>5. CASE /\ n.active = s.active /\ n.phase = s.phase /\ n.queue = <<>>
           /\ n.turn = [t \in Turn |-> IF \E i \in 1 .. Len(s.queue) : t = s.queue[i]
                                       THEN "failed" ELSE s.turn[t]]
  <2>1. \A t \in Turn : \/ n.turn[t] = s.turn[t] /\ ~\E i \in 1 .. Len(s.queue) : t = s.queue[i]
                        \/ s.turn[t] = Fate(s) /\ n.turn[t] = "failed"
    BY ZenonT(60), <1>5 DEF Orderly
  <2>2. s.active # None => n.turn[s.active] = s.turn[s.active]
    BY <1>2, <1>5 DEF Orderly
  <2>3. Fate(s) \in {"sent", "failed"} /\ Fate(n) = Fate(s)
    BY <1>1 DEF Fate
  <2>4. Later(s, n)
    BY <1>1, <2>1, <2>3 DEF Later
  <2>5. Len(n.queue) = 0
    BY <1>5
  <2>6. \A t \in Turn : n.turn[t] = "sent" => s.turn[t] = "sent" /\ s.exit = "none" /\ t = s.active
    BY <2>1 DEF Orderly
  <2>7. Orderly(n)
    BY <1>1, <1>5, <2>2, <2>3, <2>5, <2>6 DEF Orderly
  <2> QED  BY <2>4, <2>7 DEF n
<1>6. CASE /\ MayBegin(s) /\ n.phase = "writing" /\ n.turn = s.turn
           /\ n.active = Head(s.queue) /\ n.queue = Tail(s.queue) /\ n.active \in Turn
  <2>1. s.queue # <<>> /\ s.active = None
    BY <1>6 DEF MayBegin
  <2>2. /\ Len(s.queue) \in Nat /\ Len(s.queue) >= 1 /\ Len(n.queue) = Len(s.queue) - 1
        /\ \A i \in 1 .. Len(n.queue) : n.queue[i] = s.queue[i + 1] /\ i + 1 \in 2 .. Len(s.queue)
        /\ \A i \in 2 .. Len(s.queue) : i - 1 \in 1 .. Len(n.queue) /\ s.queue[i] = n.queue[i - 1]
        /\ n.active = s.queue[1]
    BY <1>2, <1>6, <2>1
  <2>3. Fate(n) = Fate(s)
    BY <1>1 DEF Fate
  <2>4. \A i \in 1 .. Len(n.queue) : n.turn[n.queue[i]] = Fate(n) /\ n.queue[i] # n.active
    BY <1>6, <2>2, <2>3 DEF Orderly
  <2>5. ASSUME NEW i \in 1 .. Len(n.queue), NEW j \in 1 .. Len(n.queue), n.queue[i] = n.queue[j]
        PROVE  i = j
    <3>1. i + 1 \in 1 .. Len(s.queue) /\ j + 1 \in 1 .. Len(s.queue) /\ s.queue[i + 1] = s.queue[j + 1]
      BY <2>2, <2>5
    <3>2. i + 1 = j + 1
      BY <3>1 DEF Orderly
    <3> QED  BY <2>2, <3>2
  <2>6. n.turn[n.active] = Fate(n)
    BY <1>6, <2>2, <2>3 DEF Orderly
  <2>7. ASSUME NEW t \in Turn, n.turn[t] = "sent"
        PROVE  n.exit = "none" /\ (t = n.active \/ \E i \in 1 .. Len(n.queue) : t = n.queue[i])
    <3>1. n.exit = "none" /\ \E i \in 1 .. Len(s.queue) : t = s.queue[i]
      BY <1>1, <1>3, <1>6, <2>1, <2>7 DEF Orderly
    <3>2. PICK i \in 1 .. Len(s.queue) : t = s.queue[i]
      BY <3>1
    <3>3. i = 1 \/ i \in 2 .. Len(s.queue)
      BY <2>2
    <3> QED  BY <2>2, <3>1, <3>2, <3>3
  <2>8. n.phase # "idle" /\ n.active # None
    BY <1>3, <1>6
  <2>9. Orderly(n)
    BY <2>4, <2>5, <2>6, <2>7, <2>8 DEF Orderly
  <2> QED  BY <1>1, <1>6, <2>9 DEF Later, n
<1> QED  BY <1>1, <1>4, <1>5, <1>6

LEMMA LaterTwice ==
    ASSUME NEW r, NEW s, NEW n, Later(r, s), Later(s, n)
    PROVE  Later(r, n)
  BY DEF Later

\* The continuations keep the order, and leave none behind.  A host that has
\* ended had none to run.
LEMMA BecomesOrderly ==
    ASSUME NEW s \in Host, Becomes(s), Orderly(s), s.exit # "none" => Rests(s)
    PROVE  Orderly(host') /\ Later(s, host') /\ Rests(host')
<1> DEFINE a == Acknowledged(s)
           c == Completed(a)
           d == Drained(c)
           n == Begun(d)
<1>1. a \in Host /\ Orderly(a) /\ Later(s, a) /\ a.exit = s.exit
  <2>1. /\ a \in Host
        /\ a.queue = s.queue /\ a.turn = s.turn /\ a.answer = s.answer /\ a.exit = s.exit
        /\ a.active = s.active
        /\ a.phase = s.phase \/ (s.phase = "acking" /\ s.acked /\ a.phase = "completing")
    BY AcknowledgedStep
  <2>2. a.phase = "idle" <=> s.phase = "idle"
    BY <2>1
  <2> HIDE DEF a
  <2> QED  BY <2>1, <2>2 DEF Orderly, Later, Fate
<1>2. ~(a.phase = "acking" /\ a.acked)
  <2>1. s.phase = "acking" /\ s.acked => a.phase = "completing"
    BY DEF Acknowledged, Host
  <2>2. a.phase = "acking" => s.phase = "acking"
    BY AcknowledgedStep
  <2>3. a.acked = s.acked
    BY AcknowledgedStep
  <2> QED  BY <2>1, <2>2, <2>3
<1>3. a.exit # "none" => Rests(a)
  <2>1. s.exit # "none" => a = s
    BY DEF Acknowledged, Rests
  <2> QED  BY <1>1, <2>1
<1>4. host' = n
  BY BecomesIs
<1> HIDE DEF a
<1>5. c \in Host /\ Orderly(c) /\ Later(a, c) /\ Rests(c)
  <2>1. \/ c = a /\ ~(a.phase = "completing" /\ a.done # "no")
        \/ a.phase = "completing" /\ a.done \in {"answered", "failed"} /\ c = Over(a, a.done)
    BY <1>1, CompletedStep
  <2>2. c \in Host
    BY <1>1, CompletedStep
  <2>3. CASE c = a /\ ~(a.phase = "completing" /\ a.done # "no")
    BY <1>1, <1>2, <2>3 DEF Rests, Later
  <2>4. CASE a.phase = "completing" /\ a.done \in {"answered", "failed"} /\ c = Over(a, a.done)
    <3>1. a.exit = "none" /\ a.active # None
      BY <1>1, <1>3, <2>4 DEF Rests, Orderly
    <3> QED  BY <1>1, <2>2, <2>4, <3>1, OverOrderly
  <2> QED  BY <2>1, <2>3, <2>4
<1> HIDE DEF c
<1>6. d \in Host /\ Orderly(d) /\ Later(c, d) /\ Rests(d)
  <2>1. /\ d \in Host /\ Keeps(c, d) /\ FailsSome(c, d) /\ Ends(c, d) /\ d.queue = c.queue
    BY <1>5, DrainedStep
  <2> HIDE DEF d
  <2> QED  BY <1>5, <2>1, EndsOrderly DEF Rests, Keeps
<1> HIDE DEF d
<1>7. Orderly(n) /\ Later(d, n)
  BY <1>6, BegunOrderly
<1>8. Rests(n)
  <2>1. /\ n.acked = d.acked /\ n.done = d.done
        /\ n.phase = d.phase \/ n.phase = "writing"
    BY <1>6, BegunStep
  <2> HIDE DEF n
  <2> QED  BY <1>6, <2>1 DEF Rests
<1> HIDE DEF n
<1>9. Later(s, n)
  BY <1>1, <1>5, <1>6, <1>7, LaterTwice
<1> QED  BY <1>4, <1>7, <1>8, <1>9

LEMMA LeavesOrderly ==
    ASSUME NEW r \in Host, NEW s, Leaves(r, s), Orderly(r)
    PROVE  Orderly(s) /\ Later(r, s) /\ (Rests(r) => Rests(s))
<1>1. s \in Host /\ Keeps(r, s) /\ FailsSome(r, s) /\ Ends(r, s) /\ s.queue = r.queue
  BY DEF Leaves, FailsSome, Ends
<1> QED  BY <1>1, EndsOrderly DEF Keeps, Rests

\* A turn that is sent is behind the others.
LEMMA SendOrderly ==
    ASSUME NEW r \in Host, NEW s, NEW t \in Turn, Orderly(r), r.exit = "none",
           r.turn[t] = "new", Keeps(r, s), s.queue = Append(r.queue, t),
           s.turn = [r.turn EXCEPT ![t] = "sent"], s.answer = r.answer, s.exit = r.exit
    PROVE  Orderly(s) /\ Later(r, s)
<1>1. /\ r.turn \in [Turn -> Status] /\ r.queue \in Seq(Turn) /\ r.active \in Turn \cup {None}
      /\ None \notin Turn
  BY TurnsAreScoped DEF Host, Status
<1>2. /\ Len(r.queue) \in Nat /\ Len(s.queue) = Len(r.queue) + 1
      /\ \A i \in 1 .. Len(r.queue) : s.queue[i] = r.queue[i] /\ r.queue[i] \in Turn
                                      /\ i \in 1 .. Len(s.queue)
      /\ s.queue[Len(r.queue) + 1] = t
      /\ Len(r.queue) + 1 \in 1 .. Len(s.queue)
      /\ \A i \in 1 .. Len(s.queue) : i \in 1 .. Len(r.queue) \/ i = Len(r.queue) + 1
  BY <1>1
<1>3. /\ s.turn[t] = "sent" /\ \A u \in Turn \ {t} : s.turn[u] = r.turn[u]
      /\ Fate(r) = "sent" /\ Fate(s) = "sent" /\ s.active = r.active /\ s.phase = r.phase
  BY <1>1 DEF Fate, Keeps
<1>4. t # r.active /\ \A i \in 1 .. Len(r.queue) : r.queue[i] # t
  BY <1>1, <1>3 DEF Orderly
<1>5. Later(r, s)
  BY <1>3 DEF Later
<1>6. \A i \in 1 .. Len(s.queue) : s.turn[s.queue[i]] = "sent" /\ s.queue[i] # s.active
  BY <1>2, <1>3, <1>4 DEF Orderly
<1>7. \A i, j \in 1 .. Len(s.queue) : s.queue[i] = s.queue[j] => i = j
  <2>1. \A i, j \in 1 .. Len(r.queue) : s.queue[i] = s.queue[j] => i = j
    BY <1>2 DEF Orderly
  <2>2. \A i \in 1 .. Len(r.queue) : s.queue[i] # s.queue[Len(r.queue) + 1]
    BY <1>2, <1>4
  <2> HIDE DEF Orderly
  <2> QED  BY <1>2, <2>1, <2>2
<1>8. s.active # None => s.turn[s.active] = "sent"
  BY <1>1, <1>3, <1>4 DEF Orderly
<1>9. \A u \in Turn : s.turn[u] = "sent" =>
        s.exit = "none" /\ (u = s.active \/ \E i \in 1 .. Len(s.queue) : u = s.queue[i])
  <2> SUFFICES ASSUME NEW u \in Turn, s.turn[u] = "sent", u # t, u # s.active
               PROVE  \E i \in 1 .. Len(s.queue) : u = s.queue[i]
    BY <1>2
  <2>1. PICK i \in 1 .. Len(r.queue) : u = r.queue[i]
    BY <1>3 DEF Orderly
  <2> QED  BY <1>2, <2>1
<1>10. s.phase = "idle" <=> s.active = None
  BY <1>3 DEF Orderly
<1> QED  BY <1>3, <1>5, <1>6, <1>7, <1>8, <1>9, <1>10 DEF Orderly

LEMMA ReadyEvent ==
    ASSUME HostEvent
    PROVE  host.exit = "none" /\ (EndChunk \/ ~host.reading)
  BY DEF HostEvent, Quietly, Ready, Up, SendTurn, EndChunk, RequestStop, StopAllowed, StopRefused,
         RequestShutdown, Gone, LeadCloses, Written, InputFails, AckTimeout, TurnTimeout

LEMMA HostEventOrderly ==
    ASSUME TInv, OInv, HostEvent
    PROVE  Orderly(host') /\ Later(host, host') /\ (~host'.reading => Rests(host'))
<1>1. host \in Host /\ Orderly(host) /\ host.exit = "none"
  BY ReadyEvent DEF TInv, TypeOK, OInv
<1>2. ~EndChunk => Rests(host)
  BY ReadyEvent DEF OInv
<1>3. ASSUME NEW s \in Host, Becomes(s), Orderly(s), Later(host, s), s.exit # "none" => Rests(s)
      PROVE  Orderly(host') /\ Later(host, host') /\ Rests(host')
  BY <1>3, BecomesOrderly, LaterTwice
<1>4. host.phase # "idle" => /\ Orderly(Over(host, "failed")) /\ Later(host, Over(host, "failed"))
                             /\ Rests(Over(host, "failed")) /\ Over(host, "failed") \in Host
  BY <1>1, OverOrderly, OverStep DEF Orderly
<1>5. ASSUME NEW s \in Host, s.phase # "idle", host.phase # "idle", s.active = host.active,
             s.turn = host.turn, s.answer = host.answer, s.queue = host.queue, s.exit = host.exit
      PROVE  Orderly(s) /\ Later(host, s)
  BY <1>1, <1>5 DEF Orderly, Later, Fate
<1>6. CASE \E t \in Turn : SendTurn(t)
  <2>1. PICK t \in Turn : SendTurn(t)
    BY <1>6
  <2>2. host.turn[t] = "new" /\ ~EndChunk
    <3>1. ~host.reading
      BY <2>1 DEF SendTurn, Ready
    <3>2. ~EndChunk
      BY <3>1 DEF EndChunk
    <3> QED  BY <2>1, <3>2, SendEvent, Zenon
  <2>3. PICK s \in Host :
          /\ Keeps(host, s) /\ s.queue = Append(host.queue, t)
          /\ s.turn = [host.turn EXCEPT ![t] = "sent"]
          /\ s.answer = host.answer /\ s.exit = host.exit
          /\ Becomes(s) \/ Leaves(s, host')
    <3>1. \A s \in Host : Leaves(s, s)
      BY MinorSelf, MinorLeaves
    <3> QED  BY <2>1, <3>1, SendEvent, Zenon
  <2>4. Orderly(s) /\ Later(host, s)
    BY <1>1, <2>2, <2>3, SendOrderly
  <2>5. Rests(s)
    BY <1>2, <2>2, <2>3 DEF Keeps, Rests
  <2>6. CASE Leaves(s, host')
    <3>1. Orderly(host') /\ Later(s, host') /\ Rests(host')
      BY <2>4, <2>5, <2>6, LeavesOrderly
    <3> QED  BY <2>4, <3>1, LaterTwice
  <2> QED  BY <1>3, <2>3, <2>4, <2>5, <2>6
<1>7. CASE EndChunk
  <2> DEFINE n == [host EXCEPT !.reading = FALSE]
  <2>1. Minor(host, n) /\ Becomes(n)
    BY <1>1, <1>7, MinorSteps DEF EndChunk
  <2> HIDE DEF n
  <2>2. n \in Host /\ Leaves(host, n) /\ n.exit = "none"
    BY <1>1, <2>1, MinorLeaves DEF Minor
  <2> QED  BY <1>1, <1>3, <2>1, <2>2, LeavesOrderly
<1>8. CASE Quietly /\ ~EndChunk
  <2>1. PICK s \in Host : Leaves(host, s) /\ Becomes(s)
    BY <1>8, QuietEvent
  <2> QED  BY <1>1, <1>2, <1>3, <1>8, <2>1, LeavesOrderly
<1>9. CASE LeadCloses
  <2>1. ~EndChunk
    BY <1>9 DEF LeadCloses, Ready, EndChunk
  <2>2. PICK s \in Host :
          /\ Becomes(s)
          /\ \/ Leaves(host, s)
             \/ host.phase # "idle" /\ Leaves(Over(host, "failed"), s)
    BY <1>9, LeadClosesEvent
  <2>3. CASE Leaves(host, s)
    BY <1>1, <1>2, <1>3, <2>1, <2>2, <2>3, LeavesOrderly
  <2>4. CASE host.phase # "idle" /\ Leaves(Over(host, "failed"), s)
    <3>1. Orderly(s) /\ Later(Over(host, "failed"), s) /\ Rests(s)
      BY <1>4, <2>4, LeavesOrderly
    <3> QED  BY <1>3, <1>4, <2>2, <2>4, <3>1, LaterTwice
  <2> QED  BY <2>2, <2>3, <2>4
<1>10. CASE Written
  <2>1. PICK s \in Host :
          /\ Becomes(s)
          /\ \/ s = Over(host, "failed")
             \/ /\ s.phase = "acking" /\ s.active = host.active
                /\ s.turn = host.turn /\ s.answer = host.answer /\ s.queue = host.queue
                /\ s.exit = host.exit
    BY <1>10, WrittenEvent, Zenon
  <2>2. host.phase # "idle"
    BY <1>10, WrittenEvent, Zenon
  <2>3. CASE s = Over(host, "failed")
    BY <1>3, <1>4, <2>1, <2>2, <2>3
  <2>4. CASE /\ s.phase = "acking" /\ s.active = host.active
             /\ s.turn = host.turn /\ s.answer = host.answer /\ s.queue = host.queue
             /\ s.exit = host.exit
    BY <1>1, <1>3, <1>5, <2>1, <2>2, <2>4
  <2> QED  BY <2>1, <2>3, <2>4
<1>11. CASE AckTimeout \/ TurnTimeout
  <2>1. PICK s \in Host :
          /\ Becomes(s)
          /\ \/ host.phase = "acking" /\ s = Over(host, "failed")
             \/ /\ host.phase = "completing" /\ s.phase = "completing" /\ s.active = host.active
                /\ s.turn = host.turn /\ s.answer = host.answer /\ s.queue = host.queue
                /\ s.exit = host.exit
    BY <1>11, TimeoutEvent, Zenon
  <2>2. CASE host.phase = "acking" /\ s = Over(host, "failed")
    BY <1>3, <1>4, <2>1, <2>2
  <2>3. CASE /\ host.phase = "completing" /\ s.phase = "completing" /\ s.active = host.active
             /\ s.turn = host.turn /\ s.answer = host.answer /\ s.queue = host.queue
             /\ s.exit = host.exit
    BY <1>1, <1>3, <1>5, <2>1, <2>3
  <2> QED  BY <2>1, <2>2, <2>3
<1>12. CASE InputFails
  <2>1. ~EndChunk /\ Leaves(host, host')
    BY <1>12, FailsEvent DEF InputFails, Ready, EndChunk
  <2> QED  BY <1>1, <1>2, <2>1, LeavesOrderly
<1> QED  BY <1>6, <1>7, <1>8, <1>9, <1>10, <1>11, <1>12 DEF HostEvent, Quietly

LEMMA OrderlyStep ==
    ASSUME TInv, OInv, [Next]_vars
    PROVE  OInv' /\ Later(host, host')
<1>1. CASE HostEvent
  BY <1>1, HostEventOrderly DEF OInv
<1>2. CASE ReadLine
  <2>1. /\ host \in Host /\ Head(stdout) \in Lines
        /\ host' = [Read(host, Head(stdout)) EXCEPT !.reading = TRUE]
    BY <1>2, ReadLineStep
  <2>2. /\ host'.active = host.active /\ host'.phase = host.phase /\ host'.queue = host.queue
        /\ host'.turn = host.turn /\ host'.answer = host.answer /\ host'.exit = host.exit
        /\ host'.reading = TRUE
    BY <2>1, ReadStep
  <2> QED  BY <2>2 DEF OInv, Orderly, Later, Fate
<1>3. CASE UNCHANGED host
  BY <1>3 DEF OInv, Orderly, Rests, Later, Fate
<1>4. UNCHANGED host \/ HostEvent \/ ReadLine
  BY NextIs, LeadTakesStep, LeadInterruptedStep, LeadStartsStep, LeadRecordsStep, LeadEndsStep
     DEF vars, Dies
<1> QED  BY <1>1, <1>2, <1>3, <1>4

LEMMA OrderlyInit == Init => OInv
<1> SUFFICES ASSUME Init PROVE OInv
  OBVIOUS
<1>1. Len(<<>>) = 0
  OBVIOUS
<1> QED  BY <1>1 DEF Init, OInv, Orderly, Rests

LEMMA AlwaysOrderly == Spec => [](TInv /\ OInv)
<1>1. Init => TInv /\ OInv
  BY TypeInit, OrderlyInit
<1>2. TInv /\ OInv /\ [Next]_vars => (TInv /\ OInv)'
  BY TypeStep, OrderlyStep
<1> QED  BY <1>1, <1>2, PTL DEF Spec

(* A turn that was sent is the active one or is in the queue of a host that  *)
(* goes on: completeOwnerTurn and finalize leave no client without an answer *)
(* or an error, and none of them behind a turn that is not there.            *)
SentTurnsAreAwaited ==
    \A t \in Turn : host.turn[t] = "sent" =>
        Up /\ (t = host.active \/ \E i \in 1 .. Len(host.queue) : t = host.queue[i])

\* No turn is lost, also after deadlines, refused stops and the close of the Lead.
THEOREM NoTurnIsLost == Spec => []SentTurnsAreAwaited
<1>1. OInv => SentTurnsAreAwaited
  BY DEF OInv, Orderly, SentTurnsAreAwaited, Up
<1> QED  BY <1>1, AlwaysOrderly, PTL

\* What a client was told of its turn is never told otherwise: a late line, a
\* deadline, the close of the Lead and the exit of the host find it settled.
THEOREM SettledOnce ==
    Spec => [][\A t \in Turn : host.turn[t] \in {"answered", "failed"} =>
                 host'.turn[t] = host.turn[t] /\ host'.answer[t] = host.answer[t]]_vars
<1>1. TInv /\ OInv /\ [Next]_vars =>
        [\A t \in Turn : host.turn[t] \in {"answered", "failed"} =>
           host'.turn[t] = host.turn[t] /\ host'.answer[t] = host.answer[t]]_vars
  BY OrderlyStep DEF Later
<1> QED  BY <1>1, AlwaysOrderly, PTL DEF Spec
=============================================================================
