------------------------------ MODULE LeadTurns ------------------------------
(***************************************************************************)
(* The turns of the Lead: Owner inputs and continuations.  An observation  *)
(* of a Worker (a question, a terminal, an uncertain effect) that waits    *)
(* for the Lead drives one continuation, claimed durably before inference. *)
(* The scheduler runs one turn at a time in a drain loop, Owner inputs     *)
(* first, and is woken by the supervisors' callbacks.                      *)
(*                                                                         *)
(* row, receipt, attempt and response are rows of the store and survive a  *)
(* crash; queue, step, aborted, draining, top, exiting, wake and closed    *)
(* are the scheduler of one host process.                                  *)
(***************************************************************************)
EXTENDS Naturals, Sequences

CONSTANTS Input,       \* Owner inputs
          Event,       \* observations of Workers, by their event key
          Candidates,  \* the Lead model and its fallbacks: how many
          MaxLives     \* bound on the deaths of the host

ASSUME TurnAssumption ==
    /\ Input \cap Event = {}
    /\ Candidates \in Nat \ {0}
    /\ MaxLives \in Nat

Turn == Input \cup Event

VARIABLES
    row,       \* of an observation: not there, waiting for the Lead, or no more
    receipt,   \* of its claim: the Lead Continuation
    attempt,   \* the latest Lead turn attempt of a turn
    response,  \* the turns with a recorded Lead response
    queue,     \* owners: Owner inputs not yet begun
    step,      \* the continuation of the turn's run()
    tries,     \* model candidates the run has been through
    aborted,   \* turns whose AbortController has fired
    draining,  \* the scheduler's draining promise is pending
    top,       \* drain loops about to select a turn
    exiting,   \* drain loops that have left and not yet run finally
    wake,      \* wakeRequested
    closed, host, lives

rows      == <<row, receipt, attempt, response>>
scheduler == <<queue, step, tries, aborted, draining, top, exiting, wake, closed>>
vars      == <<row, receipt, attempt, response, queue, step, tries, aborted,
               draining, top, exiting, wake, closed, host, lives>>

Steps == {"idle", "queued", "recorded", "inferring", "responded", "answered",
          "failing", "done", "rejected"}
Working == {"recorded", "inferring", "responded", "answered", "failing"}

Busy(t) == step[t] \in Working

\* pendingLeadContinuations: the rows are the queue, receipts make each
\* observation single-use.
Pending(e) == row[e] = "waiting" /\ receipt[e] = "none"

-----------------------------------------------------------------------------
(* The scheduler.                                                          *)

\* Mutant of Woken: a loop is started beside the one that drains.
WokenTwice == wake' = TRUE /\ draining' = TRUE /\ top' = top + 1

\* wake(): one loop drains, and is told.
Woken ==
    /\ wake' = TRUE
    /\ draining' = TRUE
    /\ top' = IF draining THEN top ELSE top + 1

\* Mutant of Yield: the continuation goes on beside the input.
YieldNone == {}

\* submitOwner aborts a continuation that is at work.
Yield == {e \in Event : Busy(e)}

\* The world before any host: nothing observed, nothing asked.
Init ==
    /\ row = [e \in Event |-> "none"]
    /\ receipt = [e \in Event |-> "none"]
    /\ attempt = [t \in Turn |-> "none"]
    /\ response = {}
    /\ queue = <<>> /\ aborted = {}
    /\ step = [t \in Turn |-> "idle"]
    /\ tries = [t \in Turn |-> 0]
    /\ draining = TRUE /\ top = 1 /\ exiting = 0 /\ wake = TRUE
    /\ closed = FALSE /\ host = "up" /\ lives = 0

\* submitOwner; a closed scheduler rejects the input.
Submit(i) ==
    /\ host = "up" /\ step[i] = "idle"
    /\ IF closed
       THEN /\ step' = [step EXCEPT ![i] = "rejected"]
            /\ UNCHANGED <<queue, aborted, draining, top, wake>>
       ELSE /\ step' = [step EXCEPT ![i] = "queued"]
            /\ queue' = Append(queue, i)
            /\ aborted' = aborted \cup Yield
            /\ Woken
    /\ UNCHANGED <<rows, tries, exiting, closed, host, lives>>

\* interrupt(scope): "/interrupt" of the Owner, for the turn in front of them.
Interrupt(t) ==
    /\ host = "up" /\ Busy(t)
    /\ aborted' = aborted \cup {t}
    /\ UNCHANGED <<rows, queue, step, tries, draining, top, exiting, wake,
                   closed, host, lives>>

\* while (!closed)
MaySelect == host = "up" /\ top > 0 /\ ~closed

\* appendOwnerMessage, before the first await of the turn.
MessageRecorded(i) == step' = [step EXCEPT ![i] = "recorded"]

\* The loop takes the first Owner input.
SelectOwner ==
    /\ MaySelect
    /\ queue # <<>>
    /\ MessageRecorded(Head(queue))
    /\ queue' = Tail(queue)
    /\ top' = top - 1
    /\ UNCHANGED <<row, receipt, attempt, response, tries, aborted, draining,
                   exiting, wake, closed, host, lives>>

\* Without Owner input, the loop takes an observation: claimLeadContinuation
\* records its receipt before any inference.
SelectContinuation(e) ==
    /\ MaySelect
    /\ queue = <<>>
    /\ wake /\ Pending(e)
    /\ receipt' = [receipt EXCEPT ![e] = "started"]
    /\ step' = [step EXCEPT ![e] = "recorded"]
    /\ tries' = [tries EXCEPT ![e] = 0]
    /\ top' = top - 1
    /\ UNCHANGED <<row, attempt, response, queue, aborted, draining, exiting, wake,
                   closed, host, lives>>

\* The loop finds no work, or the scheduler closed, and leaves.
Leave ==
    /\ host = "up" /\ top > 0
    /\ closed \/ (queue = <<>> /\ ~(wake /\ \E e \in Event : Pending(e)))
    /\ wake' = (wake /\ closed)
    /\ top' = top - 1
    /\ exiting' = exiting + 1
    /\ UNCHANGED <<rows, queue, step, tries, aborted, draining, closed, host, lives>>

\* Mutant of Again: what came in while the loop left is not looked for.
AgainNever == FALSE

Again == ~closed /\ (queue # <<>> \/ wake)

\* finally: the drain is over, unless somebody asked for it meanwhile.
Finally ==
    /\ host = "up" /\ exiting > 0
    /\ exiting' = exiting - 1
    /\ IF Again THEN wake' = TRUE /\ draining' = TRUE /\ top' = top + 1
                ELSE draining' = FALSE /\ UNCHANGED <<wake, top>>
    /\ UNCHANGED <<rows, queue, step, tries, aborted, closed, host, lives>>

\* Mutant of Over: a turn that throws takes the loop with it.
OverIfAnswered(t) ==
    /\ step' = [step EXCEPT ![t] = "done"]
    /\ top' = IF step[t] = "answered" THEN top + 1 ELSE top
    /\ wake' = TRUE

\* The run of a turn is over; the loop looks again for any work.
Over(t) ==
    /\ step' = [step EXCEPT ![t] = "done"]
    /\ top' = top + 1
    /\ wake' = TRUE

-----------------------------------------------------------------------------
(* One turn: completeOwnerTurn, and completeContinuation around it.        *)

\* appendLeadTurnAttemptSnapshots; a turn's attempts come one after the other.
AttemptBecomes(t, status) == attempt' = [attempt EXCEPT ![t] = status]

\* startLeadTurnAttempt, for a candidate whose validation passed.
Infer(t) ==
    /\ host = "up" /\ step[t] = "recorded"
    /\ t \notin aborted /\ tries[t] < Candidates
    /\ AttemptBecomes(t, "started")
    /\ tries' = [tries EXCEPT ![t] = @ + 1]
    /\ step' = [step EXCEPT ![t] = "inferring"]
    /\ UNCHANGED <<row, receipt, response, queue, aborted, draining, top,
                   exiting, wake, closed, host, lives>>

\* modelCandidateDecision: the candidate is not eligible or not available.
SkipCandidate(t) ==
    /\ host = "up" /\ step[t] = "recorded"
    /\ t \notin aborted /\ tries[t] < Candidates
    /\ tries' = [tries EXCEPT ![t] = @ + 1]
    /\ UNCHANGED <<rows, queue, step, aborted, draining, top, exiting, wake,
                   closed, host, lives>>

\* Aborted before inference, or no candidate is left.
Exhaust(t) ==
    /\ host = "up" /\ step[t] = "recorded"
    /\ t \in aborted \/ tries[t] = Candidates
    /\ step' = [step EXCEPT ![t] = "failing"]
    /\ UNCHANGED <<rows, queue, tries, aborted, draining, top, exiting, wake,
                   closed, host, lives>>

\* appendLeadAgentMessageWithAccounts, once for a turn, and for a
\* continuation under its active receipt.
Respond(t) ==
    /\ host = "up" /\ step[t] = "inferring"
    /\ t \notin response
    /\ t \in Event => receipt[t] = "started"
    /\ response' = response \cup {t}
    /\ step' = [step EXCEPT ![t] = "responded"]
    /\ UNCHANGED <<row, receipt, attempt, queue, tries, aborted, draining,
                   top, exiting, wake, closed, host, lives>>

\* settleLeadTurnAttempt(.., "completed")
Settle(t) ==
    /\ host = "up" /\ step[t] = "responded"
    /\ AttemptBecomes(t, "completed")
    /\ step' = [step EXCEPT ![t] = "answered"]
    /\ UNCHANGED <<row, receipt, response, queue, tries, aborted, draining,
                   top, exiting, wake, closed, host, lives>>

\* The model failed or the turn was aborted; a provider that is unavailable
\* is replaced by the next candidate.
FailAttempt(t, fallback) ==
    /\ host = "up" /\ step[t] = "inferring"
    /\ fallback => t \notin aborted
    /\ AttemptBecomes(t, "failed")
    /\ step' = [step EXCEPT ![t] = IF fallback THEN "recorded" ELSE "failing"]
    /\ UNCHANGED <<row, receipt, response, queue, tries, aborted, draining,
                   top, exiting, wake, closed, host, lives>>

\* Mutant of Settled: the cause is taken for the status.
SettledWithCause(t) ==
    [receipt EXCEPT ![t] = IF step[t] = "answered" THEN "completed" ELSE "aborted"]

\* settleLeadContinuation, from the try or the catch of completeContinuation.
Settled(t) ==
    [receipt EXCEPT ![t] = IF step[t] = "answered" THEN "completed" ELSE "failed"]

EndTurn(t) ==
    /\ host = "up" /\ step[t] \in {"answered", "failing"}
    /\ receipt' = IF t \in Event THEN Settled(t) ELSE receipt
    /\ Over(t)
    /\ UNCHANGED <<row, attempt, response, queue, tries, aborted, draining,
                   exiting, closed, host, lives>>

-----------------------------------------------------------------------------
(* The rows of the Workers.                                                *)

\* The row of an observation is written; a supervisor calls changed(), which
\* reaches the scheduler of a host that serves.  The terminals that
\* deadlines write are not followed by that call.
Observe(e, told) ==
    /\ host # "down" /\ row[e] = "none"
    /\ row' = [row EXCEPT ![e] = "waiting"]
    /\ IF told /\ host = "up" /\ ~closed THEN Woken ELSE UNCHANGED <<draining, top, wake>>
    /\ UNCHANGED <<receipt, attempt, response, queue, step, tries, aborted,
                   exiting, closed, host, lives>>

\* The Owner pauses, cancels or reserves; a question is answered or cancelled.
Withdraw(e) ==
    /\ host # "down" /\ row[e] = "waiting"
    /\ row' = [row EXCEPT ![e] = "withdrawn"]
    /\ UNCHANGED <<receipt, attempt, response, scheduler, host, lives>>

\* A turn resumes the work, and the observation waits again.
Resume(e) ==
    /\ host = "up" /\ row[e] = "withdrawn"
    /\ \E t \in Turn : step[t] = "inferring"
    /\ row' = [row EXCEPT ![e] = "waiting"]
    /\ UNCHANGED <<receipt, attempt, response, scheduler, host, lives>>

-----------------------------------------------------------------------------
(* The host closes, dies and starts again.                                 *)

\* close(): the running turn is aborted, waiting inputs are rejected.
Close ==
    /\ host = "up" /\ ~closed /\ lives < MaxLives
    /\ closed' = TRUE
    /\ aborted' = aborted \cup {t \in Turn : Busy(t)}
    /\ step' = [t \in Turn |-> IF step[t] = "queued" THEN "rejected" ELSE step[t]]
    /\ queue' = <<>>
    /\ UNCHANGED <<rows, tries, draining, top, exiting, wake, host, lives>>

\* What a death of the process leaves of the scheduler.
Forget ==
    /\ queue' = <<>> /\ aborted' = {}
    /\ step' = [t \in Turn |-> IF step[t] = "idle" THEN "idle" ELSE "rejected"]
    /\ draining' = FALSE /\ top' = 0 /\ exiting' = 0 /\ wake' = FALSE
    /\ UNCHANGED <<tries, closed>>

Die ==
    /\ host' = "down"
    /\ lives' = lives + 1
    /\ Forget
    /\ UNCHANGED rows

\* The process ends once close() has awaited the drain.
Stop == host = "up" /\ closed /\ ~draining /\ Die

Crash == host # "down" /\ lives < MaxLives /\ Die

Restart ==
    /\ host = "down"
    /\ host' = "recovering"
    /\ closed' = FALSE
    /\ UNCHANGED <<rows, queue, step, tries, aborted, draining, top, exiting, wake, lives>>

\* reconcileInterruptedCommitments: an attempt whose turn has its response is
\* completed, any other is not replayed.
RecoverAttempt(t) ==
    /\ host = "recovering" /\ attempt[t] = "started"
    /\ AttemptBecomes(t, IF t \in response THEN "completed" ELSE "failed")
    /\ UNCHANGED <<row, receipt, response, scheduler, host, lives>>

\* Mutant of Recovered: the response is not looked for.
RecoveredUnread(e) == "failed"

Recovered(e) == IF e \in response THEN "completed" ELSE "failed"

\* reconcileLeadContinuations
RecoverReceipt(e) ==
    /\ host = "recovering" /\ receipt[e] = "started"
    /\ \A t \in Turn : attempt[t] # "started"
    /\ receipt' = [receipt EXCEPT ![e] = Recovered(e)]
    /\ UNCHANGED <<row, attempt, response, scheduler, host, lives>>

\* The supervisors have recovered; a new scheduler is woken.
Serve ==
    /\ host = "recovering"
    /\ \A t \in Turn : attempt[t] # "started"
    /\ \A e \in Event : receipt[e] # "started"
    /\ host' = "up"
    /\ wake' = TRUE /\ draining' = TRUE /\ top' = 1
    /\ UNCHANGED <<rows, queue, step, tries, aborted, exiting, closed, lives>>

-----------------------------------------------------------------------------
Loop == \/ SelectOwner \/ Leave \/ Finally
        \/ \E e \in Event : SelectContinuation(e)

Work(t) == \/ Infer(t) \/ SkipCandidate(t) \/ Exhaust(t) \/ Respond(t) \/ Settle(t)
           \/ \E fallback \in BOOLEAN : FailAttempt(t, fallback)
           \/ EndTurn(t)

Recovery == \/ Restart \/ Serve
            \/ \E t \in Turn : RecoverAttempt(t)
            \/ \E e \in Event : RecoverReceipt(e)

Next ==
    \/ \E i \in Input : Submit(i)
    \/ \E t \in Turn : Interrupt(t) \/ Work(t)
    \/ \E e \in Event : \/ Withdraw(e) \/ Resume(e)
                        \/ \E told \in BOOLEAN : Observe(e, told)
    \/ Loop \/ Close \/ Stop \/ Crash \/ Recovery

Spec == Init /\ [][Next]_vars

\* The event loop goes on; a continuation ends by its deadline; a host that
\* is down is started again.  An Owner turn has no deadline.
Fairness == /\ WF_vars(Loop) /\ WF_vars(Stop) /\ WF_vars(Recovery)
            /\ \A e \in Event : WF_vars(Work(e))

FairSpec == Spec /\ Fairness

-----------------------------------------------------------------------------
TypeOK ==
    /\ row \in [Event -> {"none", "waiting", "withdrawn"}]
    /\ receipt \in [Event -> {"none", "started", "completed", "failed"}]
    /\ attempt \in [Turn -> {"none", "started", "completed", "failed"}]
    /\ response \subseteq Turn
    /\ queue \in Seq(Input)
    /\ step \in [Turn -> Steps]
    /\ tries \in [Turn -> 0..Candidates]
    /\ aborted \subseteq Turn
    /\ draining \in BOOLEAN /\ wake \in BOOLEAN /\ closed \in BOOLEAN
    /\ top \in Nat /\ exiting \in Nat
    /\ host \in {"up", "down", "recovering"}
    /\ lives \in 0..MaxLives + 1

(* lead-turn-scheduler: "One Lead executes effects at a time": whatever is  *)
(* submitted, woken and finished, two turns are never at work together.     *)
OneTurnAtATime == \A s, t \in Turn : Busy(s) /\ Busy(t) => s = t

(* What a settled receipt or attempt says of the response is so, whichever  *)
(* of the three writes of a turn the host died between.                     *)
ReceiptIsTruthful ==
    /\ \A e \in Event : /\ receipt[e] = "completed" => e \in response
                        /\ receipt[e] = "failed" => e \notin response
    /\ \A t \in Turn : /\ attempt[t] = "completed" => t \in response
                       /\ attempt[t] = "failed" => t \notin response

OwnerIdle == queue = <<>> /\ \A i \in Input : ~Busy(i)

(* No wake is lost: an observation the scheduler was woken for while it     *)
(* drained, left or slept is taken up, if Owner turns end.                  *)
WakeIsHonoured ==
    []<>OwnerIdle =>
        \A e \in Event :
            (host = "up" /\ ~closed /\ wake /\ Pending(e))
                ~> (~Pending(e) \/ host # "up" \/ closed)

\* An observation is taken up, or the model is asked on its behalf.
Begins(e) == \/ receipt[e] # "started" /\ receipt'[e] = "started"
             \/ attempt[e] # "started" /\ attempt'[e] = "started"

(* lead-turn-scheduler: "Owner input takes priority over observations":     *)
(* from the submission of an input to its turn no observation is claimed,   *)
(* and a continuation at work asks no further model, whether the input came *)
(* while it validated a candidate, waited for a model or fell back to the   *)
(* next, or while the loop was about to select or to leave.                 *)
OwnerFirst ==
    [][(\E i \in Input : step[i] = "queued") => \A e \in Event : ~Begins(e)]_vars

(* And the input gets its turn: the continuation before it ends, and the    *)
(* loop comes back to the queue.                                            *)
OwnerGoesNext ==
    /\ OwnerFirst
    /\ \A i \in Input :
           (queue # <<>> /\ Head(queue) = i /\ \E e \in Event : Busy(e))
               ~> step[i] # "queued"

=============================================================================
