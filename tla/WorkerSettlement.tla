-------------------------- MODULE WorkerSettlement --------------------------
(***************************************************************************)
(* An effectful Worker from its delegation to its Verification.  Its       *)
(* managed Execution Checkout is prepared before the launch; its result is *)
(* patched into the Target Project, the checkout is disposed of, and the   *)
(* declared Verification Task runs in the Target Project's own checkout.   *)
(* One supervisor per Native Harness settles its Workers in a queue; a     *)
(* restarted host lets the supervisors recover one after the other.  All   *)
(* Workers are of one Target Project.                                      *)
(*                                                                         *)
(* work, attempt, effect, linked, phase, op and commitment are rows of the *)
(* store; step, queue, todo and turn belong to the host process; patched,  *)
(* worktree, launched and started are facts about the disk, the native     *)
(* turns and the Task processes.                                           *)
(***************************************************************************)
EXTENDS Naturals, Sequences, FiniteSets

CONSTANTS Worker, Commitment, Harness,
          CommitmentOf,   \* the Commitment a Worker is delegated for
          Managed,        \* the Workers with a managed Execution Checkout
          HarnessOrder,   \* the order of the supervisors in recovery
          NoWorker,
          MaxCrashes      \* bound on the crashes of the host

ASSUME WorkerAssumption ==
    /\ CommitmentOf \in [Worker -> Commitment]
    /\ Managed \subseteq Worker
    /\ HarnessOrder \in Seq(Harness) /\ Len(HarnessOrder) > 0
    /\ {HarnessOrder[i] : i \in 1..Len(HarnessOrder)} = Harness
    /\ NoWorker \notin Worker
    /\ MaxCrashes \in Nat

VARIABLES work, attempt, effect, linked, phase, op, commitment,  \* durable
          step, queue, host, turn, todo, crashes,                \* the host
          patched, worktree, launched, started,                  \* the world
          harness                                                \* the Lead's choice

rows   == <<work, attempt, effect, linked, phase, op, commitment>>
memory == <<step, queue, host, turn, todo, crashes>>
world  == <<patched, worktree, launched, started, harness>>
vars   == <<work, attempt, effect, linked, phase, op, commitment,
            step, queue, host, turn, todo, crashes,
            patched, worktree, launched, started, harness>>

-----------------------------------------------------------------------------
(* What the code reads before it acts.                                     *)

\* Mutant of BlockedPhase: the phase it was blocked in is forgotten.
BlockedPhaseForgotten ==
    [p \in {"preparing", "reconciling", "disposing"} |-> "blocked"]

\* A blocked Execution Checkout remembers the phase it was blocked in.
BlockedPhase == [p \in {"preparing", "reconciling", "disposing"} |->
                    CASE p = "preparing"   -> "blocked-preparing"
                      [] p = "reconciling" -> "blocked-reconciling"
                      [] p = "disposing"   -> "blocked-disposing"]
Blocked      == {"blocked-preparing", "blocked-reconciling", "blocked-disposing"}
BlockedFrom  == [b \in Blocked |-> CHOOSE p \in DOMAIN BlockedPhase : BlockedPhase[p] = b]

Terminal(c)  == commitment[c].state # "active"
Unblocked(c) == commitment[c].state = "active" /\ ~commitment[c].held

\* appendCommitmentSnapshots: the row that is current is superseded.
CommitmentBecomes(c, next) == commitment' = [commitment EXCEPT ![c] = next]

OpOpen(w)     == op[w] \in {"running", "failed"}
EffectOpen(w) == effect[w] \in {"pending", "claimed", "dispatching", "unknown"}

\* Mutant of RootTaken: a Verification does not take the root.
RootTakenInPlace == \E w \in Worker \ Managed : EffectOpen(w)

\* assertNoConflictingOpenEffect for the checkout of the Target Project: a
\* Worker in place has its effect there, and so has every Verification.
RootTaken == \E w \in Worker : OpOpen(w) \/ (w \notin Managed /\ EffectOpen(w))

\* startWorkerExecution: a result that is not verified reserves the root too.
RootReserved == \/ RootTaken
                \/ \E w \in Worker \ Managed : effect[w] = "succeeded" /\ ~linked[w]

\* workerVerificationRecoveryView
Resumable(w) == /\ work[w] = "completed" /\ attempt[w] = "completed"
                /\ effect[w] = "succeeded" /\ ~linked[w]
                /\ phase[w] \notin Blocked

Live       == host \in {"up", "recovering"}
Supervisor == HarnessOrder[turn]

\* Whoever awaits a launch or a settlement waits for these.
Awaited == {w \in Worker : step[w] \notin {"none", "working"}}

-----------------------------------------------------------------------------
Init ==
    /\ work = [w \in Worker |-> "none"]
    /\ attempt = [w \in Worker |-> "none"]
    /\ effect = [w \in Worker |-> "absent"]
    /\ linked = [w \in Worker |-> FALSE]
    /\ phase = [w \in Worker |-> "none"]
    /\ op = [w \in Worker |-> "none"]
    /\ commitment = [c \in Commitment |->
                        [state |-> "active", held |-> FALSE, evidence |-> NoWorker]]
    /\ step = [w \in Worker |-> "none"]
    /\ queue = [h \in Harness |-> <<>>]
    /\ host = "up" /\ turn = 0 /\ todo = {} /\ crashes = 0
    /\ patched = {} /\ worktree = {} /\ launched = [w \in Worker |-> 0]
    /\ started = [w \in Worker |-> 0]
    /\ harness \in [Worker -> Harness]

\* The memory of a host that dies.
Forget ==
    /\ host' = "down"
    /\ step' = [w \in Worker |-> "none"]
    /\ queue' = [h \in Harness |-> <<>>]
    /\ turn' = 0 /\ todo' = {}

\* appendWorkerState: the rows of a Worker change in one transaction.
WorkerBecomes(w, worker, execution, intent) ==
    /\ work' = [work EXCEPT ![w] = worker]
    /\ attempt' = [attempt EXCEPT ![w] = execution]
    /\ effect' = [effect EXCEPT ![w] = intent]

\* observeWorkerTerminal without a proven result: the effect is uncertain
\* (attempt "failed" stands for failed, cancelled and timed-out).
Uncertain(w) == WorkerBecomes(w, "reconciling", "failed", "unknown")

\* The same before the Worker's effect was dispatched (effect "claimed" stands
\* for dispatching without workerEffectDispatchedAt): nothing can have happened.
Rejected(w) == WorkerBecomes(w, "failed", "failed", "rejected")

Undispatched(w) == effect[w] \in {"pending", "claimed"}

\* A native process is recorded; attempt "never-started" stands for a lost
\* continuity without one.
HasProcess(w) == attempt[w] \notin {"intended", "dispatching", "never-started"}

\* recordWorkerContinuityLoss
LoseContinuity(w) ==
    /\ attempt' = [attempt EXCEPT ![w] = IF HasProcess(w) THEN "continuity-lost"
                                                          ELSE "never-started"]
    /\ work' = IF work[w] = "cancellation-requested" THEN work
               ELSE [work EXCEPT ![w] = "reconciling"]

-----------------------------------------------------------------------------
(* Delegation and launch: startExecution, from await to await.             *)

(* delegateEffectfulWorker: the rows of the launch intent.                  *)
Delegate(w) ==
    /\ host = "up"
    /\ work[w] = "none"
    /\ Unblocked(CommitmentOf[w])
    /\ w \notin Managed => ~RootReserved
    /\ WorkerBecomes(w, "starting", "intended", "pending")
    /\ phase' = [phase EXCEPT ![w] = IF w \in Managed THEN "planned" ELSE "none"]
    /\ step' = [step EXCEPT ![w] = "starting"]
    /\ UNCHANGED <<linked, op, commitment, queue, host, turn, todo, crashes, world>>

\* The launch is over, and so is the visit of a recovery that asked for it.
Returns(w) ==
    /\ step' = [step EXCEPT ![w] = "none"]
    /\ todo' = todo \ {w}
    /\ UNCHANGED <<queue, host, turn>>

\* startExecution throws: nobody is told, but in recover() the startup ends.
LaunchThrows(w) == IF host = "up" THEN Returns(w) ELSE Forget

\* inspectPreparation finds the worktree at its baseline.
IsPrepared(w) == w \in worktree

\* claimExecutionCheckoutPreparation: the checkout's part of the effect is
\* dispatched, the Worker's is not.
PreparationClaimed(w) ==
    /\ phase' = [phase EXCEPT ![w] = "preparing"]
    /\ effect' = [effect EXCEPT ![w] = "claimed"]

\* claimExecutionCheckoutDisposal
DisposalClaimed(w) == phase' = [phase EXCEPT ![w] = "disposing"]

\* blockExecutionCheckout: the Worker that was not launched is blocked too.
Blocks(w) ==
    /\ phase' = [phase EXCEPT ![w] = BlockedPhase[phase[w]]]
    /\ CommitmentBecomes(CommitmentOf[w], [commitment[CommitmentOf[w]] EXCEPT !.held = TRUE])
    /\ IF work[w] = "starting"
       THEN /\ work' = [work EXCEPT ![w] = "blocked"]
            /\ attempt' = [attempt EXCEPT ![w] = "blocked"]
       ELSE UNCHANGED <<work, attempt>>

\* claimWorkerLaunch, refused once the Worker's cancellation was asked for.
LaunchClaimed(w) ==
    IF work[w] = "starting"
    THEN /\ attempt' = [attempt EXCEPT ![w] = "dispatching"]
         /\ step' = [step EXCEPT ![w] = "launching"]
         /\ UNCHANGED <<queue, host, turn, todo>>
    ELSE LaunchThrows(w) /\ UNCHANGED attempt

\* The supervisor of another harness cannot launch the Worker.  The
\* preparation of a managed checkout is claimed before git is called.
Start(w) ==
    /\ Live /\ step[w] = "starting"
    /\ IF host = "recovering" /\ harness[w] # Supervisor
       THEN LaunchThrows(w) /\ UNCHANGED <<attempt, effect, phase>>
       ELSE \/ /\ phase[w] = "planned"
               /\ PreparationClaimed(w)
               /\ step' = [step EXCEPT ![w] = "preparing"]
               /\ UNCHANGED <<attempt, queue, host, turn, todo>>
            \/ /\ phase[w] = "preparing"
               /\ step' = [step EXCEPT ![w] = "preparing"]
               /\ UNCHANGED <<attempt, effect, phase, queue, host, turn, todo>>
            \/ /\ phase[w] \in {"none", "prepared"}
               /\ LaunchClaimed(w)
               /\ UNCHANGED <<effect, phase>>
    /\ UNCHANGED <<work, linked, op, commitment, crashes, world>>

\* advance(.., "prepared", ..): git worktree add.
Prepare(w) ==
    /\ Live /\ step[w] = "preparing"
    /\ worktree' = worktree \cup {w}
    /\ UNCHANGED <<rows, memory, patched, launched, started, harness>>

\* observeExecutionCheckoutPrepared
Prepared(w) ==
    /\ Live /\ step[w] = "preparing" /\ IsPrepared(w)
    /\ phase' = [phase EXCEPT ![w] = "prepared"]
    /\ LaunchClaimed(w)
    /\ UNCHANGED <<work, effect, linked, op, commitment, crashes, world>>

\* disposeRejectedExecutionCheckout up to its await: the disposal is claimed;
\* after it the launch returns (rejecting) or throws (failing).
DisposesRejected(w, next) ==
    IF w \notin Managed
    THEN Returns(w) /\ UNCHANGED phase
    ELSE IF phase[w] \in {"preparing", "prepared"}
    THEN /\ DisposalClaimed(w)
         /\ step' = [step EXCEPT ![w] = next]
         /\ todo' = todo \ {w}
         /\ UNCHANGED <<queue, host, turn>>
    ELSE LaunchThrows(w) /\ UNCHANGED phase

\* A conflicting worktree is put to the Owner, which a finished Commitment
\* refuses; any other failure of git rejects the Worker's effect.
PreparationFails(w, material) ==
    /\ Live /\ step[w] = "preparing"
    /\ IF material
       THEN /\ IF Terminal(CommitmentOf[w])
               THEN LaunchThrows(w) /\ UNCHANGED <<work, attempt, phase, commitment>>
               ELSE Blocks(w) /\ Returns(w)
            /\ UNCHANGED effect
       ELSE Rejected(w) /\ DisposesRejected(w, "rejecting") /\ UNCHANGED commitment
    /\ UNCHANGED <<linked, op, crashes, world>>

\* observeWorkerProcessStarted
ProcessStarted(w) ==
    /\ Live /\ step[w] = "launching"
    /\ work[w] = "starting" /\ attempt[w] = "dispatching"
    /\ attempt' = [attempt EXCEPT ![w] = "starting"]
    /\ UNCHANGED <<work, effect, linked, phase, op, commitment, memory, world>>

\* What a launch or a recovery makes of an attempt whose process is gone.
Ends(w) == IF Undispatched(w) THEN Rejected(w) ELSE Uncertain(w)

\* claimWorkerEffectDispatch, once for an attempt, before the native turn.
DispatchClaimed(w) ==
    /\ attempt[w] = "starting" /\ Undispatched(w)
    /\ launched' = [launched EXCEPT ![w] = @ + 1]

\* That claim does not look for a cancellation, observeWorkerAttemptStarted
\* after it does.
Launched(w, gone) ==
    /\ Live /\ step[w] = "launching"
    /\ DispatchClaimed(w)
    /\ IF work[w] = "starting"
       THEN /\ WorkerBecomes(w, "running", "running", "dispatching")
            /\ step' = [step EXCEPT ![w] = "working"]
       ELSE /\ IF gone THEN Uncertain(w)
               ELSE LoseContinuity(w) /\ effect' = [effect EXCEPT ![w] = "dispatching"]
            /\ step' = [step EXCEPT ![w] = "none"]
    /\ UNCHANGED <<linked, phase, op, commitment, queue, host, turn, todo, crashes,
                   patched, worktree, started, harness>>

\* harness.start fails.  With a process on record the attempt loses continuity
\* and is recovered if the process is gone, and a rejected checkout is left
\* where it is; without one the checkout is disposed of.
LaunchFails(w, gone) ==
    /\ Live /\ step[w] = "launching"
    /\ IF HasProcess(w)
       THEN /\ IF gone THEN Ends(w) ELSE LoseContinuity(w) /\ UNCHANGED effect
            /\ Returns(w)
            /\ UNCHANGED phase
       ELSE Ends(w) /\ DisposesRejected(w, "failing")
    /\ UNCHANGED <<linked, op, commitment, crashes, world>>

AfterRejection(w) == IF step[w] = "failing" THEN LaunchThrows(w) ELSE Returns(w)

\* advance(.., "disposed", ..) of a rejected checkout, and its observation.
RejectedDisposed(w) ==
    /\ Live /\ step[w] \in {"rejecting", "failing"}
    /\ worktree' = worktree \ {w}
    /\ phase' = [phase EXCEPT ![w] = "disposed"]
    /\ AfterRejection(w)
    /\ UNCHANGED <<work, attempt, effect, linked, op, commitment, crashes,
                   patched, launched, started, harness>>

RejectedStays(w, material) ==
    /\ Live /\ step[w] \in {"rejecting", "failing"}
    /\ IF material /\ ~Terminal(CommitmentOf[w])
       THEN Blocks(w) /\ AfterRejection(w)
       ELSE LaunchThrows(w) /\ UNCHANGED <<work, attempt, phase, commitment>>
    /\ UNCHANGED <<effect, linked, op, crashes, world>>

-----------------------------------------------------------------------------
(* The end of the native turn.                                             *)

(* completed(): the native turn ended; a safe result is queued to settle.   *)
Finish(w, safe) ==
    /\ host = "up" /\ step[w] = "working"
    /\ IF safe
       THEN /\ WorkerBecomes(w, "completed", "completed", "succeeded")
            /\ queue' = [queue EXCEPT ![harness[w]] = Append(@, w)]
            /\ step' = [step EXCEPT ![w] = "queued"]
       ELSE /\ Uncertain(w)
            /\ step' = [step EXCEPT ![w] = "none"]
            /\ UNCHANGED queue
    /\ UNCHANGED <<linked, phase, op, commitment, host, turn, todo, crashes, world>>

(* failed(): the connection to the native process is lost.  If the process  *)
(* is not proven gone the effect stays open.                                *)
LoseContact(w, gone) ==
    /\ host = "up" /\ step[w] = "working"
    /\ IF gone THEN Uncertain(w) ELSE LoseContinuity(w) /\ UNCHANGED effect
    /\ step' = [step EXCEPT ![w] = "none"]
    /\ UNCHANGED <<linked, phase, op, commitment, queue, host, turn, todo, crashes, world>>

(* requestWorkerCancellation                                                *)
CancelWorker(w) ==
    /\ host = "up"
    /\ work[w] \in {"starting", "running", "reconciling"}
    /\ work' = [work EXCEPT ![w] = "cancellation-requested"]
    /\ UNCHANGED <<attempt, effect, linked, phase, op, commitment, memory, world>>

-----------------------------------------------------------------------------
(* The Owner's turns, which run while settlements wait.                     *)

CancelCommitment(c) ==
    /\ host = "up" /\ ~Terminal(c)
    /\ CommitmentBecomes(c, [commitment[c] EXCEPT !.state = "cancelled", !.held = FALSE])
    /\ UNCHANGED <<work, attempt, effect, linked, phase, op, memory, world>>

\* A failed Lead turn, or any other result, conditions the Commitment.
HoldCommitment(c) ==
    /\ host = "up" /\ Unblocked(c)
    /\ CommitmentBecomes(c, [commitment[c] EXCEPT !.held = TRUE])
    /\ UNCHANGED <<work, attempt, effect, linked, phase, op, memory, world>>

BlockedCheckouts(c) == {w \in Worker : CommitmentOf[w] = c /\ phase[w] \in Blocked}

\* A preparation that was blocked is intended again, for the next recover().
Unlaunched(c) == {w \in BlockedCheckouts(c) : work[w] = "blocked"}

ResumeCommitment(c) ==
    /\ host = "up" /\ ~Terminal(c) /\ commitment[c].held
    /\ \A w \in Worker : CommitmentOf[w] = c => effect[w] # "unknown" /\ op[w] # "failed"
    /\ Cardinality(BlockedCheckouts(c)) <= 1
    /\ CommitmentBecomes(c, [commitment[c] EXCEPT !.held = FALSE])
    /\ phase' = [w \in Worker |-> IF w \in BlockedCheckouts(c)
                                  THEN BlockedFrom[phase[w]] ELSE phase[w]]
    /\ work' = [w \in Worker |-> IF w \in Unlaunched(c) THEN "starting" ELSE work[w]]
    /\ attempt' = [w \in Worker |-> IF w \in Unlaunched(c) THEN "intended" ELSE attempt[w]]
    /\ UNCHANGED <<effect, linked, op, memory, world>>

-----------------------------------------------------------------------------
(* Settlement: performWorkerSettlement, from await to await.               *)

\* enqueueSettlement: a settlement starts when the one before it is over.
IsNext(w) == \E h \in Harness : queue[h] # <<>> /\ Head(queue[h]) = w

\* Mutant of Leaves: the queue does not go on.
LeavesBlocking(w) == step' = [step EXCEPT ![w] = "none"] /\ UNCHANGED queue

\* The settlement of w is over, its supervisor takes the next one.
Leaves(w) ==
    /\ step' = [step EXCEPT ![w] = "none"]
    /\ queue' = [h \in Harness |-> IF queue[h] # <<>> /\ Head(queue[h]) = w
                                   THEN Tail(queue[h]) ELSE queue[h]]

\* The settlement throws.  Under a live Worker the harness hands the error to
\* failed(), which takes it for a lost connection; in recover() it ends the
\* startup of the host.
Throws(w) ==
    IF host = "up"
    THEN Leaves(w) /\ LoseContinuity(w) /\ UNCHANGED <<host, turn, todo>>
    ELSE Forget /\ UNCHANGED <<work, attempt>>

\* Mutant of Verify: an existing Verification is not looked for.
VerifyAgain(w) ==
    IF Unblocked(CommitmentOf[w])
    THEN /\ step' = [step EXCEPT ![w] = "discovering"]
         /\ UNCHANGED <<work, attempt, queue, host, turn, todo>>
    ELSE Throws(w)

\* The synchronous code from the end of the checkout's life to the discovery
\* of the Task: a Verification that already has a result is only told, and a
\* new one is asked for under an active unblocked Commitment.
Verify(w) ==
    IF op[w] # "none"
    THEN /\ step' = [step EXCEPT ![w] = "answered"]
         /\ UNCHANGED <<work, attempt, queue, host, turn, todo>>
    ELSE IF Unblocked(CommitmentOf[w])
    THEN /\ step' = [step EXCEPT ![w] = "discovering"]
         /\ UNCHANGED <<work, attempt, queue, host, turn, todo>>
    ELSE Throws(w)

\* claimExecutionCheckoutReconciliation, of a settled result.
ReconciliationClaimed(w) ==
    /\ work[w] = "completed" /\ attempt[w] = "completed" /\ effect[w] = "succeeded"
    /\ phase' = [phase EXCEPT ![w] = "reconciling"]

\* A phase is claimed before its effect on the disk.
Begin(w) ==
    /\ Live /\ step[w] = "queued"
    /\ IsNext(w)
    /\ \/ /\ phase[w] \in {"prepared", "reconciling"}
          /\ ReconciliationClaimed(w)
          /\ step' = [step EXCEPT ![w] = "patching"]
          /\ UNCHANGED <<work, attempt, queue, host, turn, todo>>
       \/ /\ phase[w] = "disposing"
          /\ UNCHANGED phase
          /\ step' = [step EXCEPT ![w] = "disposing"]
          /\ UNCHANGED <<work, attempt, queue, host, turn, todo>>
       \/ /\ phase[w] \in {"none", "disposed"}
          /\ Verify(w)
          /\ UNCHANGED phase
    /\ UNCHANGED <<effect, linked, op, commitment, crashes, world>>

\* advance(.., "reconciled", ..): git apply, read back, from the worktree.
Patch(w) ==
    /\ Live /\ step[w] = "patching"
    /\ IsPrepared(w)
    /\ patched' = patched \cup {w}
    /\ UNCHANGED <<rows, memory, worktree, launched, started, harness>>

\* Mutant of Patched: the disposal is claimed before the patch is read back.
PatchedUnread(w) ==
    /\ Live /\ step[w] = "patching"
    /\ phase' = [phase EXCEPT ![w] = "disposing"]
    /\ step' = [step EXCEPT ![w] = "disposing"]
    /\ UNCHANGED <<work, attempt, effect, linked, op, commitment,
                   queue, host, turn, todo, crashes, world>>

\* observeExecutionCheckoutReconciled and the claim of the disposal.
Patched(w) ==
    /\ Live /\ step[w] = "patching" /\ w \in patched
    /\ DisposalClaimed(w)
    /\ step' = [step EXCEPT ![w] = "disposing"]
    /\ UNCHANGED <<work, attempt, effect, linked, op, commitment,
                   queue, host, turn, todo, crashes, world>>

\* advance(.., "disposed", ..): git worktree remove --force.
Remove(w) ==
    /\ Live /\ step[w] = "disposing"
    /\ worktree' = worktree \ {w}
    /\ UNCHANGED <<rows, memory, patched, launched, started, harness>>

\* observeExecutionCheckoutDisposed
Disposed(w) ==
    /\ Live /\ step[w] = "disposing" /\ w \notin worktree
    /\ phase' = [phase EXCEPT ![w] = "disposed"]
    /\ Verify(w)
    /\ UNCHANGED <<effect, linked, op, commitment, crashes, world>>

\* The Target Project moved on, or git failed.  A material conflict is put
\* to the Owner (blockExecutionCheckout), which a finished Commitment refuses.
CheckoutFails(w, material) ==
    /\ Live /\ step[w] \in {"patching", "disposing"}
    /\ IF material /\ ~Terminal(CommitmentOf[w])
       THEN Blocks(w) /\ Leaves(w) /\ UNCHANGED <<host, turn, todo>>
       ELSE /\ Throws(w)
            /\ UNCHANGED <<phase, commitment>>
    /\ UNCHANGED <<effect, linked, op, crashes, world>>

\* startTargetProjectOperation, its claim and the Task's process.
StartTask(w) ==
    /\ Live /\ step[w] = "discovering"
    /\ ~RootTaken
    /\ op' = [op EXCEPT ![w] = "running"]
    /\ started' = [started EXCEPT ![w] = @ + 1]
    /\ step' = [step EXCEPT ![w] = "testing"]
    /\ UNCHANGED <<work, attempt, effect, linked, phase, commitment,
                   queue, host, turn, todo, crashes, patched, worktree, launched, harness>>

\* The checkout or the Task cannot be discovered: a rejected attempt.
RefuseTask(w) ==
    /\ Live /\ step[w] = "discovering"
    /\ ~RootTaken /\ Unblocked(CommitmentOf[w])
    /\ op' = [op EXCEPT ![w] = "rejected"]
    /\ step' = [step EXCEPT ![w] = "answered"]
    /\ UNCHANGED <<work, attempt, effect, linked, phase, commitment,
                   queue, host, turn, todo, crashes, world>>

\* The root is taken, or discovery failed under a Commitment that has been
\* conditioned meanwhile.
TaskThrows(w) ==
    /\ Live /\ step[w] = "discovering"
    /\ RootTaken \/ ~Unblocked(CommitmentOf[w])
    /\ Throws(w)
    /\ UNCHANGED <<effect, linked, phase, op, commitment, crashes, world>>

\* settleTargetProjectOperation: whatever is not a success is uncertain.
EndTask(w, status) ==
    /\ Live /\ step[w] = "testing"
    /\ op' = [op EXCEPT ![w] = status]
    /\ step' = [step EXCEPT ![w] = "answered"]
    /\ UNCHANGED <<work, attempt, effect, linked, phase, commitment,
                   queue, host, turn, todo, crashes, world>>

\* Mutant of Verified: the status of the Task is not asked for.
VerifiedAnyway(w) ==
    [commitment[CommitmentOf[w]] EXCEPT !.state = "accepted", !.evidence = w]

\* buildTargetProjectOperationVerification
Verified(w) ==
    LET was == commitment[CommitmentOf[w]] IN
    IF op[w] = "succeeded" THEN [was EXCEPT !.state = "accepted", !.evidence = w]
                           ELSE [was EXCEPT !.held = TRUE, !.evidence = w]

\* observeWorkerVerificationResult
Report(w) ==
    LET c == CommitmentOf[w]
        recorded == commitment[c].held /\ commitment[c].evidence = w
    IN
    /\ Live /\ step[w] = "answered" /\ op[w] # "running"
    /\ IF recorded \/ Unblocked(c)
       THEN /\ linked' = [linked EXCEPT ![w] = TRUE]
            /\ IF recorded THEN UNCHANGED commitment ELSE CommitmentBecomes(c, Verified(w))
            /\ Leaves(w)
            /\ UNCHANGED <<work, attempt, host, turn, todo>>
       ELSE Throws(w) /\ UNCHANGED <<linked, commitment>>
    /\ UNCHANGED <<effect, phase, op, crashes, world>>

-----------------------------------------------------------------------------
(* Crash and restart.                                                      *)

Crash ==
    /\ Live
    /\ crashes < MaxCrashes
    /\ crashes' = crashes + 1
    /\ Forget
    /\ UNCHANGED <<rows, world>>

Restart ==
    /\ host = "down"
    /\ host' = "recovering"
    /\ UNCHANGED <<rows, step, queue, turn, todo, crashes, world>>

\* reconcileInterruptedCommitments: a Verification caught running is
\* uncertain, and its Commitment is told, or the startup fails.
RecoverTask(w) ==
    /\ host = "recovering" /\ turn = 0
    /\ op[w] = "running"
    /\ op' = [op EXCEPT ![w] = "failed"]
    /\ IF Unblocked(CommitmentOf[w])
       THEN /\ CommitmentBecomes(CommitmentOf[w],
                   [commitment[CommitmentOf[w]] EXCEPT !.held = TRUE, !.evidence = w])
            /\ UNCHANGED <<step, queue, host, turn, todo>>
       ELSE Forget /\ UNCHANGED commitment
    /\ UNCHANGED <<work, attempt, effect, linked, phase, crashes, world>>

\* The Workers a supervisor looks at: workerRecoveryView.
Unsettled == {w \in Worker : work[w] \notin {"none", "completed", "blocked", "failed"}}

\* The Commitments that lost their Lead turn are conditioned, but for those
\* that wait for a Verification; then the first supervisor recovers.
RecoverCommitments ==
    /\ host = "recovering" /\ turn = 0
    /\ \A w \in Worker : op[w] # "running"
    /\ commitment' = [c \in Commitment |->
           IF Unblocked(c) /\ ~\E w \in Worker : CommitmentOf[w] = c /\ Resumable(w)
           THEN [commitment[c] EXCEPT !.held = TRUE] ELSE commitment[c]]
    /\ turn' = 1
    /\ todo' = Unsettled
    /\ UNCHANGED <<work, attempt, effect, linked, phase, op, step, queue, host, crashes, world>>

\* A rejected checkout whose disposal was claimed.
Undisposed == {w \in Worker : work[w] = "failed" /\ phase[w] = "disposing"}

\* recover(), first loop: such a disposal is resumed.
ResumeDisposal(w) ==
    /\ host = "recovering" /\ turn > 0 /\ Awaited = {}
    /\ w \in Undisposed
    /\ step' = [step EXCEPT ![w] = "rejecting"]
    /\ UNCHANGED <<rows, queue, host, turn, todo, crashes, world>>

\* startExecution has not come as far as its claim of the launch.
NeverLaunched(w) ==
    /\ w \in Managed /\ attempt[w] = "intended"
    /\ phase[w] \in {"planned", "preparing", "prepared"}

Visits(w) == host = "recovering" /\ w \in todo /\ Awaited = {} /\ Undisposed = {}

\* recover(), second loop.  A managed Worker that was never launched is, by
\* whichever supervisor comes to it.
ResumeLaunch(w) ==
    /\ Visits(w) /\ NeverLaunched(w)
    /\ step' = [step EXCEPT ![w] = "starting"]
    /\ todo' = todo \ {w}
    /\ UNCHANGED <<rows, queue, host, turn, crashes, world>>

\* Any other Worker.  One of another harness only loses continuity.
\* recoverWorker settles an open effect once the process is gone; a Worker
\* whose cancellation was asked for is settled whatever became of its effect,
\* and that throws when the effect is not open any more.
RecoverWorker(w, gone) ==
    /\ Visits(w) /\ ~NeverLaunched(w)
    /\ HasProcess(w) \/ gone
    /\ IF harness[w] # Supervisor \/ ~gone
       THEN /\ IF work[w] = "cancellation-requested" /\ harness[w] = Supervisor
               THEN UNCHANGED <<work, attempt>> ELSE LoseContinuity(w)
            /\ todo' = todo \ {w}
            /\ UNCHANGED <<effect, phase, step, queue, host, turn>>
       ELSE IF Undispatched(w)
       THEN Rejected(w) /\ DisposesRejected(w, "rejecting")
       ELSE IF effect[w] = "dispatching"
       THEN /\ Uncertain(w)
            /\ todo' = todo \ {w}
            /\ UNCHANGED <<phase, step, queue, host, turn>>
       ELSE IF work[w] = "cancellation-requested"
       THEN Forget /\ UNCHANGED <<work, attempt, effect, phase>>
       ELSE /\ LoseContinuity(w)
            /\ todo' = todo \ {w}
            /\ UNCHANGED <<effect, phase, step, queue, host, turn>>
    /\ UNCHANGED <<linked, op, commitment, crashes, world>>

\* recover(), last loop: every result that waits for its Verification, of
\* whichever harness, is settled one by one.
ResumeSettlement(w) ==
    /\ host = "recovering" /\ turn > 0
    /\ todo = {} /\ Awaited = {} /\ Undisposed = {}
    /\ Resumable(w)
    /\ step' = [step EXCEPT ![w] = "queued"]
    /\ queue' = [queue EXCEPT ![Supervisor] = Append(@, w)]
    /\ UNCHANGED <<rows, host, turn, todo, crashes, world>>

\* The next supervisor recovers; after the last one the host serves.
NextSupervisor ==
    /\ host = "recovering" /\ turn > 0
    /\ todo = {} /\ Awaited = {} /\ Undisposed = {}
    /\ ~\E w \in Worker : Resumable(w)
    /\ IF turn < Len(HarnessOrder)
       THEN turn' = turn + 1 /\ todo' = Unsettled /\ UNCHANGED host
       ELSE turn' = 0 /\ host' = "up" /\ UNCHANGED todo
    /\ UNCHANGED <<rows, step, queue, crashes, world>>

-----------------------------------------------------------------------------
Launch(w) == \/ Start(w) \/ Prepare(w) \/ Prepared(w) \/ ProcessStarted(w)
             \/ RejectedDisposed(w)
             \/ \E b \in BOOLEAN : \/ PreparationFails(w, b) \/ Launched(w, b)
                                  \/ LaunchFails(w, b) \/ RejectedStays(w, b)

Native(w) == \/ Delegate(w) \/ Launch(w) \/ CancelWorker(w)
             \/ \E b \in BOOLEAN : Finish(w, b) \/ LoseContact(w, b)

Settle(w) == \/ Begin(w) \/ Patch(w) \/ Patched(w) \/ Remove(w) \/ Disposed(w)
             \/ \E b \in BOOLEAN : CheckoutFails(w, b)
             \/ StartTask(w) \/ RefuseTask(w) \/ TaskThrows(w)
             \/ \E status \in {"succeeded", "failed"} : EndTask(w, status)
             \/ Report(w)

Recover(w) == \/ RecoverTask(w) \/ ResumeSettlement(w)
              \/ ResumeDisposal(w) \/ ResumeLaunch(w)
              \/ \E gone \in BOOLEAN : RecoverWorker(w, gone)

Next ==
    \/ \E w \in Worker : Native(w) \/ Settle(w) \/ Recover(w)
    \/ \E c \in Commitment : \/ CancelCommitment(c) \/ HoldCommitment(c)
                             \/ ResumeCommitment(c)
    \/ Crash \/ Restart \/ RecoverCommitments \/ NextSupervisor

Spec == Init /\ [][Next]_vars

\* Native calls end or time out, the event loop goes on, and a host that is
\* down is started again.
Fairness ==
    /\ \A w \in Worker : WF_vars(Launch(w)) /\ WF_vars(Settle(w)) /\ WF_vars(Recover(w))
    /\ WF_vars(Restart) /\ WF_vars(RecoverCommitments) /\ WF_vars(NextSupervisor)

FairSpec == Spec /\ Fairness

-----------------------------------------------------------------------------
Steps == {"none", "starting", "preparing", "launching", "rejecting", "failing", "working",
          "queued", "patching", "disposing", "discovering", "testing", "answered"}

WorkStates     == {"none", "starting", "running", "completed", "reconciling",
                   "blocked", "failed", "cancellation-requested"}
AttemptStates  == {"none", "intended", "dispatching", "starting", "running", "completed",
                   "blocked", "failed", "never-started", "continuity-lost"}
EffectStates   == {"absent", "pending", "claimed", "dispatching", "rejected",
                   "succeeded", "unknown"}
CheckoutPhases == Blocked \cup {"none", "planned", "preparing", "prepared",
                                "reconciling", "disposing", "disposed"}
CommitmentRows == [state    : {"active", "accepted", "cancelled"},
                   held     : BOOLEAN,
                   evidence : Worker \cup {NoWorker}]

TypeOK ==
    /\ work \in [Worker -> WorkStates]
    /\ attempt \in [Worker -> AttemptStates]
    /\ effect \in [Worker -> EffectStates]
    /\ linked \in [Worker -> BOOLEAN]
    /\ phase \in [Worker -> CheckoutPhases]
    /\ op \in [Worker -> {"none", "running", "succeeded", "failed", "rejected"}]
    /\ commitment \in [Commitment -> CommitmentRows]
    /\ step \in [Worker -> Steps]
    /\ queue \in [Harness -> Seq(Worker)]
    /\ host \in {"up", "down", "recovering"}
    /\ turn \in 0..Len(HarnessOrder)
    /\ todo \subseteq Worker
    /\ crashes \in 0..MaxCrashes
    /\ patched \subseteq Worker /\ worktree \subseteq Worker
    /\ launched \in [Worker -> Nat] /\ started \in [Worker -> Nat]
    /\ harness \in [Worker -> Harness]

(* A proven result is never thrown away: its worktree is removed by force   *)
(* only once its patch is in the Target Project, crashes included.          *)
ResultIsKept ==
    \A w \in Managed : effect[w] = "succeeded" /\ w \notin worktree => w \in patched

(* The Commitment is accepted on a Task that passed over the Worker's own   *)
(* result, in the Target Project and no longer in its worktree.             *)
AcceptedOnTheResult ==
    \A c \in Commitment : commitment[c].state = "accepted" =>
        \E w \in Worker :
            /\ w = commitment[c].evidence /\ CommitmentOf[w] = c
            /\ op[w] = "succeeded" /\ linked[w] /\ effect[w] = "succeeded"
            /\ w \in Managed => w \in patched \ worktree

(* recoverWorker, "replay is forbidden": a Worker's effect is dispatched    *)
(* once and so is its Verification, however often the host dies between the *)
(* intent, the launch, the dispatch, the result and the link.               *)
NothingRunsTwice == \A w \in Worker : launched[w] <= 1 /\ started[w] <= 1

(* The Target Project's own root has one open effect at most: a Worker in   *)
(* place from its launch to its linked Verification, or one Verification.   *)
RootIsExclusive ==
    LET Holds(w) == w \notin Managed /\ (EffectOpen(w) \/ (effect[w] = "succeeded" /\ ~linked[w]))
    IN  \A v, w \in Worker : v # w =>
            /\ ~(OpOpen(v) /\ OpOpen(w))
            /\ ~(Holds(v) /\ Holds(w))
            /\ ~(OpOpen(v) /\ w \notin Managed /\ EffectOpen(w))

(* A settlement that was queued ends, or the host does: no settlement waits *)
(* for ever behind one that failed.                                         *)
QueueDrains ==
    \A w \in Worker : step[w] = "queued" ~> step[w] = "none"

-----------------------------------------------------------------------------
(* README: "Interrupted work becomes recoverable", and recoverWorker: an    *)
(* effect settled before recovery is not settled again.  A host that is     *)
(* started again serves again.                                              *)
HostServesAgain == host = "down" ~> host = "up"
=============================================================================
