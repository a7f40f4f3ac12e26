--------------------------- MODULE WorkerContinuity ---------------------------
(***************************************************************************)
(* A read-only Worker over its generations.  Its native process may end,   *)
(* lose its connection or be orphaned by a death of the host; a generation *)
(* that lost continuity is replaced by the next one, up to a limit, and    *)
(* the answers the Worker was given are carried over.                      *)
(*                                                                         *)
(* work, gen, attempt, recorded, question and carried are rows of the      *)
(* store; startup .. pending belong to one host process; process, survived *)
(* and late are the world and what has happened to it.  Handlers of the    *)
(* event loop are actions: an await ends one and begins another.           *)
(***************************************************************************)
EXTENDS Naturals, Sequences

CONSTANTS Generations,  \* execution attempts before the Owner is asked
          Orders,       \* the supervisors a host may start with: the Worker's
                        \* own ("own") and those of other harnesses ("other")
          MaxCrashes    \* bound on the deaths from outside

ASSUME ContinuityAssumption ==
    /\ Generations \in Nat \ {0}
    /\ Orders \subseteq Seq({"own", "other"})
    /\ \A order \in Orders : \A i, j \in 1..Len(order) :
           order[i] = "own" /\ order[j] = "own" => i = j
    /\ MaxCrashes \in Nat

Gen == 1..Generations

VARIABLES
    work, gen,    \* the Worker Session and its current generation, 0 for none
    attempt,      \* the execution attempt of each generation
    recorded,     \* generations whose native process is recorded
    question,     \* the native question of each generation
    carried,      \* the generation a question's answer was delivered to
    startup,      \* startExecution of the current generation
    origin,       \* who called it and takes its errors
    retained,     \* the answers it read before the launch
    execution,    \* the executions map: the generation it can reach, or 0
    live,         \* generations whose native connection this host holds
    reported,     \* of these, the ones whose turn has ended
    terminating,  \* of these, the ones told to terminate
    pending,      \* promises of the observers, of interrupts and of answers
    host, available, crashes,
    sups,         \* supervisors that have not recovered yet, in order
    visit,        \* the attempt recover() is abandoning, as it was read
    process,      \* the native process of each generation
    survived,     \* processes whose end could not be proven
    late          \* questions answered since the latest launch

rows     == <<work, gen, attempt, recorded, question, carried>>
starting == <<startup, origin, retained>>
native   == <<execution, live, reported, terminating, pending>>
service  == <<host, available, crashes, sups, visit>>
world    == <<process, survived, late>>
vars     == <<work, gen, attempt, recorded, question, carried, startup, origin,
              retained, execution, live, reported, terminating, pending, host,
              available, crashes, sups, visit, process, survived, late>>

Terminal == {"completed", "failed", "blocked", "cancelled"}
NoVisit  == [gen |-> 0, lost |-> FALSE, cancelled |-> FALSE]

\* A promise of generation g.
Await(kind, g)        == [kind |-> kind, gen |-> g, status |-> "none"]
Report(kind, g, what) == [kind |-> kind, gen |-> g, status |-> what]

\* The event loop runs handlers of a living host; the launch of a generation
\* follows its row without an await.
Running == host # "down" /\ startup # "launch"

-----------------------------------------------------------------------------
(* The rules over the rows (orchestration-core).                           *)

\* observeWorkerTerminal of the current generation g.
SettleRows(g, result) ==
    /\ attempt' = [attempt EXCEPT ![g] = result]
    /\ work' = result
    /\ question' = [question EXCEPT ![g] =
                        IF @ \in {"open", "answered"} THEN "cancelled" ELSE @]

\* An interruption is the Owner's cancellation, if one was asked for.
Outcome(status) ==
    CASE status # "interrupted"                                       -> status
      [] status = "interrupted" /\ work = "cancellation-requested" -> "cancelled"
      [] OTHER                                                        -> "failed"

\* recordWorkerContinuityLoss keeps a cancellation.
AfterLoss == IF work = "cancellation-requested" THEN work ELSE "reconciling"

\* Mutant of Exhausted: the limit is not asked for.
ExhaustedNever == FALSE

\* previousAttempt.generation >= 3
Exhausted == gen >= Generations

\* recoverWorker, of an attempt whose loss is recorded just before: a
\* cancellation is settled once the process is proven gone, the last
\* generation blocks the Worker, any other is followed by the next one.
RecoverWorker(proven, from) ==
    /\ \/ /\ AfterLoss = "cancellation-requested" /\ proven
          /\ SettleRows(gen, "cancelled")
          /\ startup' = "none" /\ UNCHANGED gen
       \/ /\ AfterLoss = "cancellation-requested" /\ ~proven
          /\ attempt' = [attempt EXCEPT ![gen] = "continuity-lost"]
          /\ startup' = "none" /\ UNCHANGED <<work, gen, question>>
       \/ /\ AfterLoss = "reconciling" /\ Exhausted
          /\ attempt' = [attempt EXCEPT ![gen] = "blocked"]
          /\ work' = "blocked"
          /\ startup' = "none" /\ UNCHANGED <<gen, question>>
       \/ /\ AfterLoss = "reconciling" /\ ~Exhausted
          /\ attempt' = [attempt EXCEPT ![gen] = "continuity-lost",
                                        ![gen + 1] = "launch-intent-recorded"]
          /\ work' = "starting" /\ gen' = gen + 1
          /\ startup' = "launch" /\ UNCHANGED question
    /\ origin' = IF startup' = "launch" THEN from ELSE "none"
    /\ retained' = {}
    /\ UNCHANGED <<recorded, carried>>

\* terminate() and abandon(): the process of g is gone, or its end could not
\* be proven in time.
Ended(g, proven) ==
    /\ ~proven => process[g] = "alive"
    /\ process' = IF proven /\ process[g] = "alive" THEN [process EXCEPT ![g] = "gone"] ELSE process
    /\ survived' = IF proven THEN survived ELSE survived \cup {g}

\* The process of the host is gone: what it held in memory is lost, the
\* native processes are not.
HostDies ==
    /\ host' = "down"
    /\ startup' = "none" /\ origin' = "none" /\ retained' = {}
    /\ execution' = 0 /\ live' = {} /\ reported' = {} /\ terminating' = {} /\ pending' = {}
    /\ sups' = <<>> /\ visit' = NoVisit
    /\ UNCHANGED available

Init ==
    /\ work = "none" /\ gen = 0
    /\ attempt = [g \in Gen |-> "none"] /\ recorded = {}
    /\ question = [g \in Gen |-> "none"] /\ carried = [g \in Gen |-> 0]
    /\ startup = "none" /\ origin = "none" /\ retained = {}
    /\ execution = 0 /\ live = {} /\ reported = {} /\ terminating = {} /\ pending = {}
    /\ host = "up" /\ available = TRUE /\ crashes = 0 /\ sups = <<>> /\ visit = NoVisit
    /\ process = [g \in Gen |-> "none"] /\ survived = {} /\ late = {}

-----------------------------------------------------------------------------
(* startExecution.                                                         *)

\* delegate: the Worker and the intent of its first launch, in one row.
Delegate ==
    /\ host = "up" /\ available /\ gen = 0
    /\ work' = "starting" /\ gen' = 1
    /\ attempt' = [attempt EXCEPT ![1] = "launch-intent-recorded"]
    /\ startup' = "launch" /\ origin' = "delegate"
    /\ UNCHANGED <<recorded, question, carried, retained, native, service, world>>

\* Mutant of Retained: an answer that was delivered once is not told again.
RetainedUndelivered == {q \in Gen : question[q] = "answered" /\ carried[q] # gen}

\* retainedAnswers
Retained == {q \in Gen : question[q] \in {"answered", "delivered"} /\ carried[q] # gen}

\* claimWorkerLaunch, and the spawn, that may fail.
Launch ==
    /\ host # "down" /\ startup = "launch"
    /\ attempt' = [attempt EXCEPT ![gen] = "dispatching"]
    /\ retained' = Retained /\ late' = {}
    /\ startup' = "spawned"
    /\ \E outcome \in {"none", "alive"} : process' = [process EXCEPT ![gen] = outcome]
    /\ UNCHANGED <<work, gen, recorded, question, carried, origin, native, service, survived>>

\* observeWorkerProcessStarted
RecordProcess ==
    /\ Running /\ startup = "spawned"
    /\ process[gen] = "alive"
    /\ work = "starting" /\ attempt[gen] = "dispatching"
    /\ attempt' = [attempt EXCEPT ![gen] = "starting"]
    /\ recorded' = recorded \cup {gen}
    /\ startup' = "starting"
    /\ UNCHANGED <<work, gen, question, carried, origin, retained, native, service, world>>

\* observeWorkerAttemptStarted and observeWorkerAnswersReplayed
StartAttempt ==
    /\ Running /\ startup = "starting"
    /\ work = "starting" /\ attempt[gen] = "starting"
    /\ attempt' = [attempt EXCEPT ![gen] = "running"]
    /\ work' = "running"
    /\ question' = [q \in Gen |-> IF q \in retained THEN "delivered" ELSE question[q]]
    /\ carried'  = [q \in Gen |-> IF q \in retained THEN gen ELSE carried[q]]
    /\ execution' = gen /\ live' = live \cup {gen}
    /\ startup' = "none" /\ origin' = "none" /\ retained' = {}
    /\ UNCHANGED <<gen, recorded, reported, terminating, pending, service, world>>

\* The native start fails, or one of the two observations is refused (the
\* Worker was cancelled); the process is recorded and has to be abandoned.
FailStart ==
    /\ Running /\ startup = "starting"
    /\ startup' = "abandoning"
    /\ UNCHANGED <<rows, origin, retained, native, service, world>>

Abandoned(proven) ==
    /\ Running /\ startup = "abandoning"
    /\ Ended(gen, proven)
    /\ RecoverWorker(proven, origin)
    /\ UNCHANGED <<native, service, late>>

\* Nothing is recorded: the Worker has failed and startExecution throws, to
\* delegate(), which swallows it, or to failed() and to recover(), which do not.
FailLaunch ==
    /\ Running /\ startup = "spawned"
    /\ SettleRows(gen, "failed")
    /\ IF origin = "delegate"
       THEN /\ startup' = "none" /\ origin' = "none" /\ retained' = {}
            /\ UNCHANGED <<native, service>>
       ELSE HostDies /\ UNCHANGED crashes
    /\ UNCHANGED <<gen, recorded, carried, world>>

-----------------------------------------------------------------------------
(* The native execution and the observer's callbacks.                      *)

\* A process ends by itself.  Where nobody is told, its end is seen when it is
\* terminated or abandoned (Ended).
ProcessExits(g) ==
    /\ process[g] = "alive"
    /\ g \in live \ terminating \/ (g = gen /\ startup \in {"spawned", "starting"})
    /\ process' = [process EXCEPT ![g] = "gone"]
    /\ UNCHANGED <<rows, starting, native, service, survived, late>>

\* The turn of g has ended, perhaps while its connection is being given up;
\* completed() asks the execution to terminate.  "completed" stands for the
\* outcomes that are reported with it as well (failed, blocked).
EndTurn(g, status) ==
    /\ Running /\ g \in live \ reported /\ process[g] = "alive"
    /\ reported' = reported \cup {g}
    /\ terminating' = terminating \cup {g}
    /\ pending' = pending \cup {Report("complete", g, status)}
    /\ UNCHANGED <<rows, starting, execution, live, service, world>>

Stale(g) == g # gen

Refused(p, proven) == ~Stale(p.gen) /\ Outcome(p.status) = "cancelled" /\ ~proven

\* completed() settles: a stale terminal leaves only its output; a
\* cancellation whose process is not proven gone is refused, and handed to
\* failed().
CompletedEnds(p, proven) ==
    /\ Running /\ p.kind = "complete"
    /\ Ended(p.gen, proven)
    /\ IF Refused(p, proven)
       THEN /\ pending' = (pending \ {p}) \cup {Await("fail", p.gen)}
            /\ UNCHANGED <<rows, execution>>
       ELSE /\ pending' = pending \ {p}
            /\ execution' = IF execution = p.gen THEN 0 ELSE execution
            /\ IF Stale(p.gen) THEN UNCHANGED rows
               ELSE SettleRows(p.gen, Outcome(p.status)) /\ UNCHANGED <<gen, recorded, carried>>
    /\ UNCHANGED <<starting, live, reported, terminating, service, late>>

\* The connection of g is lost; failed() asks the execution to terminate.
LoseConnection(g) ==
    /\ Running /\ g \in live \ terminating
    /\ terminating' = terminating \cup {g}
    /\ pending' = pending \cup {Await("fail", g)}
    /\ UNCHANGED <<rows, starting, execution, live, reported, service, world>>

\* failed() records the loss and recovers; for a generation that was replaced
\* meanwhile it throws, and nobody takes the error.
FailedEnds(p, proven) ==
    /\ Running /\ p.kind = "fail"
    /\ Ended(p.gen, proven)
    /\ IF p.gen = gen
       THEN /\ RecoverWorker(proven, "failed")
            /\ execution' = IF execution = p.gen THEN 0 ELSE execution
            /\ pending' = pending \ {p}
            /\ UNCHANGED <<live, reported, terminating, service>>
       ELSE HostDies /\ UNCHANGED <<rows, crashes>>
    /\ UNCHANGED late

-----------------------------------------------------------------------------
(* Questions, answers and cancellation.                                    *)

\* observeWorkerQuestion; a question of a Worker that is not running is denied.
\* Bound: one question for each generation.
Ask(g) ==
    /\ Running /\ g \in live \ reported /\ process[g] = "alive"
    /\ g = gen /\ work = "running" /\ question[g] = "none"
    /\ question' = [question EXCEPT ![g] = "open"]
    /\ work' = "waiting-question"
    /\ UNCHANGED <<gen, attempt, recorded, carried, starting, native, service, world>>

\* answer: recorded before it is delivered, and kept if it cannot be.
Answer(q) ==
    /\ Running /\ host = "up" /\ question[q] = "open"
    /\ question' = [question EXCEPT ![q] = "answered"]
    /\ late' = late \cup {q}
    /\ pending' = IF q = gen /\ execution # 0
                  THEN pending \cup {Await("deliver", q)} ELSE pending
    /\ UNCHANGED <<work, gen, attempt, recorded, carried, starting, execution, live,
                   reported, terminating, service, process, survived>>

\* observeWorkerAnswerDelivered, unless the delivery failed or came too late.
Deliver(p, confirmed) ==
    /\ Running /\ p.kind = "deliver"
    /\ pending' = pending \ {p}
    /\ IF confirmed /\ question[p.gen] = "answered" /\ p.gen = gen
       THEN /\ question' = [question EXCEPT ![p.gen] = "delivered"]
            /\ carried' = [carried EXCEPT ![p.gen] = p.gen]
            /\ work' = IF work = "waiting-question" THEN "running" ELSE work
       ELSE UNCHANGED <<question, carried, work>>
    /\ UNCHANGED <<gen, attempt, recorded, starting, execution, live, reported,
                   terminating, service, world>>

\* cancel: the request is recorded, then the execution is interrupted.
Cancel ==
    /\ Running /\ host = "up"
    /\ work \notin Terminal \cup {"none"}
    /\ work' = "cancellation-requested"
    /\ pending' = IF execution = 0 THEN pending
                  ELSE pending \cup {Await("interrupt", execution)}
    /\ UNCHANGED <<gen, attempt, recorded, question, carried, starting, execution,
                   live, reported, terminating, service, world>>

Interrupted(p) ==
    /\ Running /\ p.kind = "interrupt"
    /\ pending' = pending \ {p}
    /\ UNCHANGED <<rows, starting, execution, live, reported, terminating, service, world>>

\* The interruption failed: its catch asks the execution to terminate.
InterruptFails(p) ==
    /\ Running /\ p.kind = "interrupt"
    /\ terminating' = terminating \cup {p.gen}
    /\ pending' = (pending \ {p}) \cup {Await("cut", p.gen)}
    /\ UNCHANGED <<rows, starting, execution, live, reported, service, world>>

\* The catch settles whatever generation and state the Worker has by now.
CutEnds(p, proven) ==
    /\ Running /\ p.kind = "cut"
    /\ Ended(p.gen, proven)
    /\ pending' = pending \ {p}
    /\ IF proven
       THEN /\ SettleRows(gen, Outcome("interrupted"))
            /\ execution' = 0
            /\ UNCHANGED <<gen, recorded, carried>>
       ELSE UNCHANGED <<rows, execution>>
    /\ UNCHANGED <<starting, live, reported, terminating, service, late>>

-----------------------------------------------------------------------------
(* The host dies and starts again; its supervisors recover in order.       *)

Crash ==
    /\ host # "down" /\ crashes < MaxCrashes
    /\ crashes' = crashes + 1
    /\ HostDies
    /\ UNCHANGED <<rows, world>>

\* A host that can prove no harness records the loss (reconcileInterruptedWorkers).
Restart ==
    /\ host = "down"
    /\ \E order \in Orders :
         /\ sups' = order
         /\ available' = (\E i \in 1..Len(order) : order[i] = "own")
         /\ IF order = <<>> /\ work \notin Terminal \cup {"none", "cancellation-requested"}
            THEN /\ attempt' = [attempt EXCEPT ![gen] = "continuity-lost"]
                 /\ work' = "reconciling"
            ELSE UNCHANGED <<attempt, work>>
    /\ host' = "recovering"
    /\ UNCHANGED <<gen, recorded, question, carried, starting, native, crashes, visit, world>>

InRecovery == host = "recovering" /\ Running /\ origin # "recover"

\* workerRecoveryView, and abandon() of a recorded process.
Visit ==
    /\ InRecovery /\ sups # <<>> /\ visit = NoVisit
    /\ work \notin Terminal \cup {"none"}
    /\ visit' = [gen |-> gen, lost |-> attempt[gen] = "continuity-lost",
                 cancelled |-> work = "cancellation-requested"]
    /\ UNCHANGED <<rows, starting, native, host, available, crashes, sups, world>>

\* A supervisor finds no Worker to recover.
Pass ==
    /\ InRecovery /\ sups # <<>> /\ visit = NoVisit
    /\ work \in Terminal \cup {"none"}
    /\ sups' = Tail(sups)
    /\ UNCHANGED <<rows, starting, native, host, available, crashes, visit, world>>

\* Mutant of Abandons: the process is left to itself.
AbandonsNever(g, proven) == proven /\ UNCHANGED <<process, survived>>

Abandons(g, proven) ==
    IF g \in recorded THEN Ended(g, proven) ELSE proven /\ UNCHANGED <<process, survived>>

\* The supervisor of another harness records the loss and goes on.
LeaveToOther ==
    /\ IF visit.lost THEN UNCHANGED rows
       ELSE /\ attempt' = [attempt EXCEPT ![gen] = "continuity-lost"]
            /\ work' = AfterLoss
            /\ UNCHANGED <<gen, recorded, question, carried>>
    /\ UNCHANGED starting

\* Mutant of MayRecover: a Worker whose cancellation was requested is refused.
MayRecoverUncancelled == work # "cancellation-requested"

\* recoverWorker wants a cancellation or a recorded loss, and recover() records
\* the loss only of an attempt it has read as neither.
MayRecover ==
    \/ ~visit.lost /\ ~visit.cancelled
    \/ work = "cancellation-requested"
    \/ attempt[gen] = "continuity-lost" /\ work \notin Terminal

\* recover() goes on with what it read before; an attempt that was replaced
\* meanwhile makes it throw, and the startup with it.
VisitEnds(proven) ==
    /\ InRecovery /\ visit # NoVisit
    /\ Abandons(visit.gen, proven)
    /\ IF (Head(sups) = "own" /\ ~MayRecover) \/ (~visit.lost /\ visit.gen # gen)
       THEN HostDies /\ UNCHANGED rows
       ELSE /\ sups' = Tail(sups) /\ visit' = NoVisit
            /\ \/ Head(sups) = "other" /\ LeaveToOther
               \/ /\ Head(sups) = "own" /\ visit.cancelled /\ ~proven
                  /\ UNCHANGED <<rows, starting>>
               \/ /\ Head(sups) = "own" /\ (visit.cancelled => proven)
                  /\ RecoverWorker(proven, "recover")
            /\ UNCHANGED <<native, host, available>>
    /\ UNCHANGED <<crashes, late>>

Serve ==
    /\ InRecovery /\ sups = <<>>
    /\ host' = "up"
    /\ UNCHANGED <<rows, starting, native, available, crashes, sups, visit, world>>

-----------------------------------------------------------------------------
Startup == \/ Launch \/ RecordProcess \/ StartAttempt \/ FailStart \/ FailLaunch
           \/ \E proven \in BOOLEAN : Abandoned(proven)

Settles(p) == \E proven \in BOOLEAN : \/ CompletedEnds(p, proven) \/ FailedEnds(p, proven)
                                      \/ CutEnds(p, proven)

Recovery == \/ Restart \/ Visit \/ Pass \/ Serve
            \/ \E proven \in BOOLEAN : VisitEnds(proven)

Owner == Delegate \/ Cancel \/ \E q \in Gen : Answer(q)

Native == \E g \in Gen : \/ ProcessExits(g) \/ LoseConnection(g) \/ Ask(g)
                         \/ \E status \in {"completed", "interrupted"} :
                                EndTurn(g, status)

Promise(p) == \/ Settles(p) \/ Interrupted(p) \/ InterruptFails(p)
              \/ \E confirmed \in BOOLEAN : Deliver(p, confirmed)

Next == \/ Owner \/ Startup \/ Native \/ Crash \/ Recovery
        \/ \E p \in pending : Promise(p)

Spec == Init /\ [][Next]_vars

\* The native start ends within its time-outs, a termination within ten
\* seconds, and the launcher starts a host that is down.
Fairness == /\ WF_vars(Startup) /\ WF_vars(Recovery)
            /\ WF_vars(\E p \in pending : Settles(p))

FairSpec == Spec /\ Fairness

-----------------------------------------------------------------------------
WorkStates     == Terminal \cup {"none", "starting", "running", "waiting-question",
                                 "reconciling", "cancellation-requested"}
AttemptStates  == Terminal \cup {"none", "launch-intent-recorded", "dispatching",
                                 "starting", "running", "continuity-lost"}
QuestionStates == {"none", "open", "answered", "delivered", "cancelled"}
Origins        == {"none", "delegate", "failed", "recover"}
Promises       == [kind   : {"complete", "fail", "deliver", "interrupt", "cut"},
                   gen    : Gen,
                   status : {"none", "completed", "failed", "interrupted"}]
Visits         == [gen : 0..Generations, lost : BOOLEAN, cancelled : BOOLEAN]

TypeOK ==
    /\ work \in WorkStates
    /\ gen \in 0..Generations
    /\ attempt \in [Gen -> AttemptStates]
    /\ recorded \subseteq Gen
    /\ question \in [Gen -> QuestionStates]
    /\ carried \in [Gen -> 0..Generations]
    /\ startup \in {"none", "launch", "spawned", "starting", "abandoning"}
    /\ origin \in Origins
    /\ retained \subseteq Gen
    /\ execution \in 0..Generations
    /\ live \subseteq Gen /\ reported \subseteq live /\ terminating \subseteq live
    /\ pending \subseteq Promises
    /\ host \in {"up", "down", "recovering"} /\ available \in BOOLEAN
    /\ crashes \in 0..MaxCrashes
    /\ sups \in Seq({"own", "other"})
    /\ visit \in Visits
    /\ process \in [Gen -> {"none", "alive", "gone"}]
    /\ survived \subseteq Gen /\ late \subseteq Gen

(* A generation is replaced only after its process: two processes of a      *)
(* Worker run together only if the end of the earlier one could not be      *)
(* proven, or it was never recorded, so that nothing can name it: its start *)
(* failed, or the host died, between spawn and record.                      *)
RunsAlone ==
    \A g, h \in Gen : process[g] = "alive" /\ process[h] = "alive" /\ g < h =>
                          g \in survived \/ g \notin recorded

(* What the Owner or the Lead answered before a generation was launched is  *)
(* told to it, also when an earlier generation has been told before.        *)
AnswersAreCarried ==
    work \in {"running", "waiting-question"} =>
        \A q \in Gen \ late : q < gen /\ question[q] \in {"answered", "delivered"}
                                  => carried[q] = gen

(* Recovery, as often as it throws, does not throw for ever.                *)
HostServesAgain == host = "down" ~> host = "up"
=============================================================================
