---------------------------- MODULE EffectLedger ----------------------------
(***************************************************************************)
(* The ledger of external effects: Target Project operations (kind         *)
(* "task") and Forge mutations (kind "forge").  Each operation of Op is    *)
(* one request that a Lead turn (origin "lead") or the Verification of a   *)
(* finished Worker (origin "verification") may make once.                  *)
(*                                                                         *)
(* attempt, effect, disposition, commitment and linked are rows of the     *)
(* SQLite store and survive a crash of the host; pc is the JavaScript      *)
(* continuation of the request and does not (only "lost" does: it stands   *)
(* for the state of the Worker's row).  call and touched are the world     *)
(* outside: the native process started for the operation, which the death  *)
(* of the host does not end, and whether it has had its effect.            *)
(***************************************************************************)
EXTENDS Naturals, FiniteSets

CONSTANTS Op, Commitment, Scope,
          Kind,          \* the kind of each operation
          Origin,        \* who requests it
          CommitmentOf,  \* the Commitment it works for
          ScopeOf,       \* its effect scope: write root or provider resource
          Observable,    \* mutations whose target can be read back: a label or
                         \* the state of an issue, never a comment
          NoOp,          \* "no operation"
          MaxCrashes     \* bound on the crashes of the host

ASSUME OpAssumption ==
    /\ Kind \in [Op -> {"task", "forge"}]
    /\ Origin \in [Op -> {"lead", "verification"}]
    /\ CommitmentOf \in [Op -> Commitment]
    /\ ScopeOf \in [Op -> Scope]
    /\ Observable \subseteq {o \in Op : Kind[o] = "forge"}
    /\ \A o \in Op : Origin[o] = "verification" => Kind[o] = "task"
    /\ NoOp \notin Op
    /\ MaxCrashes \in Nat

\* A Commitment to Forge mutations has no other criteria.
ASSUME CriteriaAssumption ==
    \A o, q \in Op : CommitmentOf[o] = CommitmentOf[q] => Kind[o] = Kind[q]

VARIABLES attempt, effect, disposition, commitment, linked,  \* durable
          pc, host, crashes,                                 \* the host process
          call, touched                                      \* the world

durable == <<attempt, effect, disposition, commitment, linked>>
world   == <<call, touched>>
vars    == <<attempt, effect, disposition, commitment, linked,
             pc, host, crashes, call, touched>>

\* The results of a request that ended before anything was dispatched.
Refusals == {"rejected", "unavailable"}
Results  == {"succeeded", "failed", "timed-out", "unknown"} \cup Refusals
Attempts == {"absent", "ready", "running"} \cup Results
Effects  == {"absent", "pending", "dispatching", "succeeded", "unknown",
             "rejected", "reconciled"}
Steps    == {"idle", "resumable", "discovered", "recorded", "claimed", "running",
             "settled", "reconciled", "recovered", "done", "lost"}

CommitmentRecord == [state     : {"active", "accepted", "cancelled"},
                     condition : {"none", "blocked", "reconciling"},
                     by        : {"nobody", "lead", "owner"},
                     evidence  : Op \cup {NoOp}]

-----------------------------------------------------------------------------
(* What the code reads before it acts.                                     *)

Open(o) == effect[o] \in {"pending", "dispatching", "unknown"}

\* Mutant of Conflict: an uncertain effect no longer holds its scope.
ConflictOverCertain(o) ==
    \E q \in Op : ScopeOf[q] = ScopeOf[o] /\ effect[q] \in {"pending", "dispatching"}

\* assertNoConflictingOpenEffect
Conflict(o) == \E q \in Op : ScopeOf[q] = ScopeOf[o] /\ Open(q)

Terminal(c)  == commitment[c].state \in {"accepted", "cancelled"}
Unblocked(c) == commitment[c].state = "active" /\ commitment[c].condition = "none"

\* The Commitments after the condition of c is set.
Conditioned(c, condition) ==
    [commitment EXCEPT ![c] = [@ EXCEPT !.condition = condition]]

HasResult(o) == attempt[o] \in Results

\* The effect status a result must be recorded with to be verified.
ExpectedEffect(o) ==
    CASE attempt[o] = "succeeded" -> "succeeded"
      [] attempt[o] \in Refusals  -> "rejected"
      [] OTHER                    -> "unknown"

\* An attempt that ended before its intent was recorded has no effect row
\* (Forge preflight); a rejected or settled one carries the expected effect.
Attributed(o) == effect[o] \in {"absent", ExpectedEffect(o)}

\* Between two durable writes with no await between them, the event loop
\* belongs to one operation.
Held(o)   == pc[o] \in {"recorded", "claimed", "reconciled", "recovered"}
LoopFree  == \A o \in Op : ~Held(o)
InTurn(o) == Origin[o] = "lead" /\ pc[o] \notin {"idle", "done"}

\* The tools of a Lead turn run one after the other.
LeadFree == \A o \in Op : ~InTurn(o)

Running  == host = "up" /\ LoopFree

\* Mutant of Interrupted: a claimed intent is overlooked.
InterruptedUnclaimed(o) == attempt[o] = "ready" /\ effect[o] = "pending"

\* An operation whose row must be settled before a restarted host serves.
Interrupted(o) ==
    \/ attempt[o] = "ready"   /\ effect[o] = "pending"
    \/ attempt[o] = "running" /\ effect[o] = "dispatching"

\* workerVerificationRecoveryView: a finished Worker whose Verification has
\* not been linked to its effect.
Awaiting(c) == \E o \in Op : /\ Origin[o] = "verification"
                             /\ CommitmentOf[o] = c
                             /\ o \notin linked
                             /\ pc[o] \notin {"idle", "lost"}

-----------------------------------------------------------------------------
Init ==
    /\ attempt = [o \in Op |-> "absent"]
    /\ effect = [o \in Op |-> "absent"]
    /\ disposition = [o \in Op |-> "none"]
    /\ commitment = [c \in Commitment |->
           [state |-> "active", condition |-> "none", by |-> "nobody", evidence |-> NoOp]]
    /\ linked = {}
    /\ pc = [o \in Op |-> "idle"]
    /\ host = "up"
    /\ crashes = 0
    /\ call = [o \in Op |-> "none"]
    /\ touched = [o \in Op |-> FALSE]

\* execute(): the Commitment is read once, before the awaits of discovery.
Admitted(o) == Unblocked(CommitmentOf[o])

Discover(o) ==
    /\ Running
    /\ pc[o] \in {"idle", "resumable"}
    /\ Origin[o] = "lead" => LeadFree
    /\ Admitted(o)
    /\ pc' = [pc EXCEPT ![o] = "discovered"]
    /\ UNCHANGED <<durable, host, crashes, world>>

\* An attempt and its effect are written in one transaction.
WriteRows(o, status, effectStatus) ==
    /\ attempt' = [attempt EXCEPT ![o] = status]
    /\ effect' = [effect EXCEPT ![o] = effectStatus]

\* Discovery of a task failed: the attempt is recorded with a rejected effect.
RefuseDiscovery(o) ==
    /\ Running
    /\ Kind[o] = "task" /\ pc[o] = "discovered"
    /\ Unblocked(CommitmentOf[o]) /\ ~Conflict(o)
    /\ \E status \in Refusals : WriteRows(o, status, "rejected")
    /\ pc' = [pc EXCEPT ![o] = "settled"]
    /\ UNCHANGED <<disposition, commitment, linked, host, crashes, world>>

\* classifyPreflightError
PreflightFailures == Refusals \cup {"timed-out"}

\* gh is not there, not authorised or out of time: the attempt is recorded
\* without an effect.  No scope is asked for.
FailPreflight(o) ==
    /\ Running
    /\ Kind[o] = "forge" /\ pc[o] = "discovered"
    /\ \E status \in PreflightFailures : attempt' = [attempt EXCEPT ![o] = status]
    /\ pc' = [pc EXCEPT ![o] = "settled"]
    /\ UNCHANGED <<effect, disposition, commitment, linked, host, crashes, world>>

\* A request that throws is over.  When it was a Verification, its Worker is
\* recorded as having lost continuity and is not asked about again (module
\* WorkerSettlement has that path, and the one of a restart).
Thrown(o) == IF Origin[o] = "verification" THEN "lost" ELSE "done"

\* execute() throws before anything is recorded: the scope is taken, or the
\* declared artifacts of a task cannot be read, or its discovery failed and
\* the Commitment is no longer active and unblocked.
Throw(o) ==
    /\ Running
    /\ pc[o] = "discovered"
    /\ Conflict(o) \/ Kind[o] = "task"
    /\ pc' = [pc EXCEPT ![o] = Thrown(o)]
    /\ UNCHANGED <<durable, host, crashes, world>>

\* startTargetProjectOperation, startForgeMutation
RecordIntent(o) ==
    /\ Running
    /\ pc[o] = "discovered"
    /\ ~Conflict(o)
    /\ WriteRows(o, "ready", "pending")
    /\ pc' = [pc EXCEPT ![o] = "recorded"]
    /\ UNCHANGED <<disposition, commitment, linked, host, crashes, world>>

\* claimTargetProjectOperationDispatch, claimForgeMutation
Claim(o) ==
    /\ host = "up"
    /\ pc[o] = "recorded"
    /\ attempt[o] = "ready" /\ effect[o] = "pending"
    /\ WriteRows(o, "running", "dispatching")
    /\ pc' = [pc EXCEPT ![o] = "claimed"]
    /\ UNCHANGED <<disposition, commitment, linked, host, crashes, world>>

\* Mutant of Dispatch: the process is spawned before the claim.
DispatchUnclaimed(o) ==
    /\ host = "up"
    /\ pc[o] \in {"recorded", "claimed"}
    /\ call' = [call EXCEPT ![o] = "running"]
    /\ pc' = [pc EXCEPT ![o] = "running"]
    /\ UNCHANGED <<durable, host, crashes, touched>>

\* The native process is spawned after the claim has committed.
Dispatch(o) ==
    /\ host = "up"
    /\ pc[o] = "claimed"
    /\ call' = [call EXCEPT ![o] = "running"]
    /\ pc' = [pc EXCEPT ![o] = "running"]
    /\ UNCHANGED <<durable, host, crashes, touched>>

-----------------------------------------------------------------------------
(* The world outside: a started process has its effect, or ends without.   *)

TakeEffect(o) ==
    /\ call[o] = "running" /\ ~touched[o]
    /\ touched' = [touched EXCEPT ![o] = TRUE]
    /\ UNCHANGED <<durable, pc, host, crashes, call>>

EndCall(o) ==
    /\ call[o] = "running"
    /\ call' = [call EXCEPT ![o] = "ended"]
    /\ UNCHANGED <<durable, pc, host, crashes, touched>>

-----------------------------------------------------------------------------
(* The answer: the row is settled, and only then is the Commitment told.   *)

\* A deadline gives up on a Task that may still run; exit code 0 is success.
\* The artifacts can be unreadable, and the process lost, at any time.
TaskAnswers(o, status) ==
    CASE status = "succeeded" -> call[o] = "ended" /\ touched[o]
      [] status = "failed"    -> call[o] = "ended"
      [] OTHER                -> TRUE

\* Mutant of ReadsBack: the exit code of gh is success enough.
ReadsBackNothing(o) == call[o] = "ended"

\* The steps of a mutation: gh has ended and the provider shows its effect.
ReadsBack(o) == call[o] = "ended" /\ touched[o]

MutationAnswers(o, status) ==
    \/ status = "succeeded" /\ ReadsBack(o)
    \/ status = "unknown"

Answers(o, status) == IF Kind[o] = "task" THEN TaskAnswers(o, status)
                                          ELSE MutationAnswers(o, status)

\* settleTargetProjectOperation, settleForgeMutation
Settle(o, status) ==
    /\ Running
    /\ pc[o] = "running"
    /\ attempt[o] = "running" /\ effect[o] = "dispatching"
    /\ Answers(o, status)
    /\ WriteRows(o, status, IF status = "succeeded" THEN "succeeded" ELSE "unknown")
    /\ pc' = [pc EXCEPT ![o] = "settled"]
    /\ UNCHANGED <<disposition, commitment, linked, host, crashes, world>>

\* buildTargetProjectOperationVerification, recordForgeOperationVerification:
\* the Commitment after the result of o, given the condition a failure sets.
Verified(o, failure) ==
    IF attempt[o] = "succeeded"
    THEN [commitment[CommitmentOf[o]] EXCEPT !.state = "accepted", !.by = "lead",
                                             !.evidence = o]
    ELSE [commitment[CommitmentOf[o]] EXCEPT !.condition = failure, !.evidence = o]

\* Mutant of FailureCondition: the status of the attempt taken for the condition.
ConditionIsStatus(o) == attempt[o]

FailureCondition(o) ==
    IF Kind[o] = "forge" /\ attempt[o] = "unknown" THEN "reconciling" ELSE "blocked"

Verifies(o) == Unblocked(CommitmentOf[o]) /\ Attributed(o)

\* A Worker's Verification that a restart has already recorded on the
\* Commitment is linked to the Worker's effect and nothing else changes.
AlreadyRecorded(o) ==
    /\ commitment[CommitmentOf[o]].condition # "none"
    /\ commitment[CommitmentOf[o]].evidence = o

Link(o) == linked' = IF Origin[o] = "verification" THEN linked \cup {o} ELSE linked

\* observeTargetProjectOperationResult, observeForgeOperationResult,
\* observeWorkerVerificationResult
Observe(o) ==
    /\ Running
    /\ HasResult(o)
    /\ \/ pc[o] = "settled"
       \/ pc[o] = "done" /\ Origin[o] = "verification" /\ o \notin linked
    /\ \/ /\ Origin[o] = "verification" /\ AlreadyRecorded(o)
          /\ Link(o)
          /\ UNCHANGED commitment
       \/ /\ ~(Origin[o] = "verification" /\ AlreadyRecorded(o))
          /\ Verifies(o)
          /\ commitment' = [commitment EXCEPT ![CommitmentOf[o]] =
                                Verified(o, FailureCondition(o))]
          /\ Link(o)
    /\ pc' = [pc EXCEPT ![o] = "done"]
    /\ UNCHANGED <<attempt, effect, disposition, host, crashes, world>>

\* The result cannot be told to its Commitment: the call throws.
ObserveThrows(o) ==
    /\ Running
    /\ pc[o] = "settled"
    /\ ~Verifies(o)
    /\ ~(Origin[o] = "verification" /\ AlreadyRecorded(o))
    /\ pc' = [pc EXCEPT ![o] = Thrown(o)]
    /\ UNCHANGED <<durable, host, crashes, world>>

-----------------------------------------------------------------------------
(* Evidence for an uncertain effect.                                       *)

\* What an observer finds while nothing asks whether the process is gone.
Observed(o) == IF touched[o] THEN "applied" ELSE "not-applied"

\* reconcileEffectIntent
Reconciles(o) ==
    /\ effect[o] = "unknown"
    /\ effect' = [effect EXCEPT ![o] = "reconciled"]
    /\ disposition' = [disposition EXCEPT ![o] = Observed(o)]

\* reconcileEffect: whoever presents the evidence has looked at the effect.
ReconcileEffect(o) ==
    /\ Running /\ LeadFree
    /\ Kind[o] = "task"
    /\ Reconciles(o)
    /\ UNCHANGED <<attempt, commitment, linked, pc, host, crashes, world>>

\* reconcileUncertainForgeEffects and the first write of reconcileForgeEffect:
\* the provider is read back at the start of a Lead turn.  A comment has no
\* target to read back and stays uncertain.
ReadBack(o) ==
    /\ Running /\ LeadFree
    /\ o \in Observable /\ pc[o] = "done"
    /\ Reconciles(o)
    /\ pc' = [pc EXCEPT ![o] = "reconciled"]
    /\ UNCHANGED <<attempt, commitment, linked, host, crashes, world>>

\* The second write of reconcileForgeEffect.
SettleReadBack(o) ==
    LET c == CommitmentOf[o] IN
    /\ host = "up"
    /\ pc[o] = "reconciled"
    /\ commitment' =
         IF Terminal(c) THEN commitment
         ELSE IF disposition[o] = "applied"
         THEN [commitment EXCEPT ![c] = [state |-> "accepted", condition |-> "none",
                                         by |-> "lead", evidence |-> o]]
         ELSE Conditioned(c, "none")
    /\ pc' = [pc EXCEPT ![o] = "done"]
    /\ UNCHANGED <<attempt, effect, disposition, linked, host, crashes, world>>

-----------------------------------------------------------------------------
(* What else a Lead turn does to a Commitment.                             *)

InOwnerTurn == Running /\ LeadFree

\* Mutant of ResumeCommitment: uncertain effects are not looked for.
ResumeOverUncertainty(c) ==
    /\ InOwnerTurn
    /\ ~Terminal(c) /\ commitment[c].condition # "none"
    /\ commitment' = Conditioned(c, "none")
    /\ UNCHANGED <<attempt, effect, disposition, linked, pc, host, crashes, world>>

ResumeCommitment(c) ==
    /\ InOwnerTurn
    /\ ~Terminal(c) /\ commitment[c].condition # "none"
    /\ \A o \in Op : CommitmentOf[o] = c => effect[o] # "unknown"
    /\ commitment' = Conditioned(c, "none")
    /\ UNCHANGED <<attempt, effect, disposition, linked, pc, host, crashes, world>>

CancelCommitment(c) ==
    /\ InOwnerTurn
    /\ ~Terminal(c)
    /\ commitment' = [commitment EXCEPT ![c] =
                          [@ EXCEPT !.state = "cancelled", !.condition = "none"]]
    /\ UNCHANGED <<attempt, effect, disposition, linked, pc, host, crashes, world>>

RecordOwnerVerdict(c) ==
    /\ InOwnerTurn
    /\ ~Terminal(c)
    /\ commitment' = [commitment EXCEPT ![c] =
                          [@ EXCEPT !.state = "accepted", !.condition = "none", !.by = "owner"]]
    /\ UNCHANGED <<attempt, effect, disposition, linked, pc, host, crashes, world>>

\* observeLeadTurnFailure
FailLeadTurn(c) ==
    /\ InOwnerTurn
    /\ commitment[c].state = "active"
    /\ commitment' = Conditioned(c, "blocked")
    /\ UNCHANGED <<attempt, effect, disposition, linked, pc, host, crashes, world>>

-----------------------------------------------------------------------------
(* Crash and restart.                                                      *)

\* Only durable rows survive.  A finished Worker whose Verification has no
\* row yet asks for it again; every other request is forgotten.
AfterCrash(o) ==
    CASE pc[o] \in {"idle", "lost"} -> pc[o]
      [] pc[o] \in {"resumable", "discovered"} /\ Origin[o] = "verification" -> "resumable"
      [] OTHER -> "done"

Stop ==
    /\ host' = "down"
    /\ pc' = [o \in Op |-> AfterCrash(o)]

Crash ==
    /\ host # "down"
    /\ crashes < MaxCrashes
    /\ crashes' = crashes + 1
    /\ Stop
    /\ UNCHANGED <<durable, world>>

Restart ==
    /\ host = "down"
    /\ host' = "recovering"
    /\ UNCHANGED <<durable, pc, crashes, world>>

\* reconcileInterruptedCommitments settles Forge attempts, then tasks: an
\* intent that was never claimed is rejected, a claimed one is uncertain.
RecoverAttempt(o) ==
    /\ host = "recovering" /\ LoopFree
    /\ Interrupted(o)
    /\ Kind[o] = "task" => \A q \in Op : Kind[q] = "forge" => ~Interrupted(q)
    /\ LET status == IF attempt[o] = "ready" THEN "rejected" ELSE "unknown"
       IN  WriteRows(o, status, status)
    /\ pc' = [pc EXCEPT ![o] = "recovered"]
    /\ UNCHANGED <<disposition, commitment, linked, host, crashes, world>>

RecoverCommitment(o) ==
    /\ host = "recovering"
    /\ pc[o] = "recovered"
    /\ Verifies(o)
    /\ commitment' = [commitment EXCEPT ![CommitmentOf[o]] =
           Verified(o, IF attempt[o] = "unknown" THEN "reconciling" ELSE "blocked")]
    /\ pc' = [pc EXCEPT ![o] = "done"]
    /\ UNCHANGED <<attempt, effect, disposition, linked, host, crashes, world>>

\* A Commitment that cannot take the result makes the startup fail; the
\* settled row stays, and the next start goes on from there.
RecoverThrows(o) ==
    /\ host = "recovering"
    /\ pc[o] = "recovered"
    /\ ~Verifies(o)
    /\ Stop
    /\ UNCHANGED <<durable, crashes, world>>

Recovered == LoopFree /\ \A o \in Op : ~Interrupted(o)

\* The rest of the active Commitments lost their Lead turn.
ConditionInterrupted(c) ==
    /\ host = "recovering"
    /\ Recovered
    /\ Unblocked(c) /\ ~Awaiting(c)
    /\ commitment' = Conditioned(c, "reconciling")
    /\ UNCHANGED <<attempt, effect, disposition, linked, pc, host, crashes, world>>

FinishRecovery ==
    /\ host = "recovering"
    /\ Recovered
    /\ \A c \in Commitment : Unblocked(c) => Awaiting(c)
    /\ host' = "up"
    /\ UNCHANGED <<durable, pc, crashes, world>>

-----------------------------------------------------------------------------
Request(o) == \/ Discover(o) \/ RefuseDiscovery(o) \/ FailPreflight(o) \/ Throw(o)
              \/ RecordIntent(o) \/ Claim(o) \/ Dispatch(o)
              \/ \E status \in Results \ Refusals : Settle(o, status)
              \/ Observe(o) \/ ObserveThrows(o)

Evidence(o) == ReconcileEffect(o) \/ ReadBack(o) \/ SettleReadBack(o)

World(o) == TakeEffect(o) \/ EndCall(o)

Turn(c) == \/ ResumeCommitment(c) \/ CancelCommitment(c)
           \/ RecordOwnerVerdict(c) \/ FailLeadTurn(c)

Recover(o) == RecoverAttempt(o) \/ RecoverCommitment(o) \/ RecoverThrows(o)

Next ==
    \/ \E o \in Op : Request(o) \/ Evidence(o) \/ World(o) \/ Recover(o)
    \/ \E c \in Commitment : Turn(c) \/ ConditionInterrupted(c)
    \/ Crash \/ Restart \/ FinishRecovery

Spec == Init /\ [][Next]_vars

\* Code that has started a step runs to its next await; a native call ends or
\* its deadline fires; a host that is down is started again.
Fairness ==
    /\ \A o \in Op :
         /\ WF_vars(Claim(o)) /\ WF_vars(Dispatch(o)) /\ WF_vars(SettleReadBack(o))
         /\ WF_vars(\E status \in Results \ Refusals : Settle(o, status))
         /\ WF_vars(Recover(o))
    /\ \A c \in Commitment : WF_vars(ConditionInterrupted(c))
    /\ WF_vars(Restart) /\ WF_vars(FinishRecovery)

FairSpec == Spec /\ Fairness

-----------------------------------------------------------------------------
TypeOK ==
    /\ attempt \in [Op -> Attempts]
    /\ effect \in [Op -> Effects]
    /\ disposition \in [Op -> {"none", "applied", "not-applied"}]
    /\ commitment \in [Commitment -> CommitmentRecord]
    /\ linked \subseteq Op
    /\ pc \in [Op -> Steps]
    /\ host \in {"up", "down", "recovering"}
    /\ crashes \in 0..MaxCrashes
    /\ call \in [Op -> {"none", "running", "ended"}]
    /\ touched \in [Op -> BOOLEAN]

(* One Authorized Write Root, or one provider resource, never has two open  *)
(* effects, whatever requests, crashes and recoveries interleave            *)
(* (assertNoConflictingOpenEffect and the claims that follow it).           *)
OneOpenEffectPerScope ==
    \A o, q \in Op : o # q /\ ScopeOf[o] = ScopeOf[q] => ~(Open(o) /\ Open(q))

(* "Rejected" is a promise: no process was ever started for a rejected      *)
(* effect, not even by the host that crashed before this one recorded it.   *)
RejectedNeverRan ==
    \A o \in Op : effect[o] \in {"absent", "pending", "rejected"} =>
                      call[o] = "none" /\ ~touched[o]

(* The Lead accepts a Commitment only on an effect that is really there:    *)
(* a certain result or a read-back that confirmed it.                       *)
LeadAcceptanceIsProven ==
    \A c \in Commitment :
        commitment[c].by = "lead" =>
            \E o \in Op : /\ o = commitment[c].evidence
                          /\ CommitmentOf[o] = c
                          /\ touched[o]
                          /\ \/ effect[o] = "succeeded"
                             \/ effect[o] = "reconciled" /\ disposition[o] = "applied"

(* While the host serves, an uncertain effect holds its Commitment back:    *)
(* conditioned, over, or about to be told (the tail of execute()).  A       *)
(* Commitment whose Worker awaited its Verification when the host died is   *)
(* the one exception, which reconcileInterruptedCommitments makes.          *)
UncertainHoldsCommitment ==
    \A o \in Op : host = "up" /\ effect[o] = "unknown" =>
        \/ ~Unblocked(CommitmentOf[o])
        \/ pc[o] = "settled"
        \/ \E v \in Op : /\ Origin[v] = "verification" /\ v \notin linked
                        /\ CommitmentOf[v] = CommitmentOf[o] /\ pc[v] # "idle"

(* Two Task processes never run in one Authorized Write Root, orphans of a  *)
(* crashed host and processes past their deadline included, unless evidence *)
(* was presented for one of them while it still ran.                        *)
NoOverlappingTasks ==
    \A o, q \in Op :
        /\ o # q /\ ScopeOf[o] = ScopeOf[q]
        /\ Kind[o] = "task" /\ Kind[q] = "task"
        /\ call[o] = "running" /\ call[q] = "running"
        => "reconciled" \in {effect[o], effect[q]}

(* A late result, a read-back or a recovery never reopens a Commitment that *)
(* was accepted or cancelled.                                               *)
TerminalIsFinal ==
    [][\A c \in Commitment : Terminal(c) => commitment'[c] = commitment[c]]_vars

(* No call is made again over an uncertain one: a native process starts     *)
(* only in a scope whose earlier effects are certain or evidence-settled.   *)
NoSilentRetry ==
    [][\A o \in Op : call[o] = "none" /\ call'[o] = "running" =>
           \A q \in Op \ {o} : ScopeOf[q] = ScopeOf[o] /\ call[q] # "none" =>
               effect[q] \in {"succeeded", "reconciled"}]_vars

(* However often the host dies, every intent it recorded is settled in the  *)
(* end: no effect stays pending or dispatching for ever.                    *)
IntentsSettle ==
    \A o \in Op : effect[o] \in {"pending", "dispatching"} ~>
                      effect[o] \notin {"pending", "dispatching"}

=============================================================================
