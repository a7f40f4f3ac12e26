----------------------- MODULE WorkerSettlement_proof -----------------------
(* The safety of WorkerSettlement, for any Workers, Commitments and           *)
(* supervisors in any order, and for any number of crashes.                   *)
EXTENDS WorkerSettlementRefinement, TLAPS

-----------------------------------------------------------------------------
(* The inductive invariant: what holds of one Worker, and what follows of two *)
(* Workers (RootIsExclusive) and of a Commitment (AcceptedOnTheResult).       *)

\* An effect that was dispatched is never intended again.
Intent(w) ==
    /\ work[w] = "none" => effect[w] = "absent"
    /\ effect[w] = "absent" \/ Undispatched(w) => launched[w] = 0
    /\ work[w] \in {"starting", "blocked"} \/ attempt[w] = "intended" => Undispatched(w)
    /\ work[w] = "failed" => effect[w] # "succeeded"
    /\ launched[w] <= 1

\* What a phase of the managed checkout says of the disk.
Checkout(w) ==
    /\ w \notin Managed => phase[w] = "none"
    /\ w \in Managed /\ phase[w] = "none" => effect[w] = "absent"
    /\ phase[w] = "planned" => attempt[w] = "intended"
    /\ phase[w] \in {"prepared", "reconciling", "blocked-reconciling"} => w \in worktree
    /\ effect[w] = "succeeded" =>
         /\ phase[w] \in {"disposing", "blocked-disposing"} => w \in patched
         /\ phase[w] = "disposed" => w \in patched \ worktree
         /\ w \in Managed \ worktree => w \in patched

\* The rows under a launch, a native turn and the disposal of what was rejected.
LaunchStep(w) ==
    /\ step[w] \in {"starting", "preparing", "launching"} => Undispatched(w)
    /\ step[w] = "preparing" => phase[w] = "preparing"
    /\ step[w] = "working" => effect[w] \in {"dispatching", "unknown"}
    /\ step[w] \in {"launching", "working"} /\ w \in Managed => phase[w] = "prepared"
    /\ step[w] \in {"rejecting", "failing"} => phase[w] = "disposing" /\ effect[w] # "succeeded"

Verifying(w) == step[w] \in {"discovering", "testing", "answered"}
Settling(w)  == step[w] \in {"queued", "patching", "disposing"} \/ Verifying(w)

\* The rows under a settlement.
SettleStep(w) ==
    /\ Settling(w) => effect[w] = "succeeded"
    /\ step[w] = "patching" => phase[w] = "reconciling"
    /\ step[w] = "disposing" => phase[w] = "disposing"
    /\ Verifying(w) /\ w \in Managed => phase[w] = "disposed"
    /\ step[w] = "discovering" => op[w] = "none"
    /\ step[w] = "testing" => OpOpen(w)
    /\ op[w] = "none" => started[w] = 0
    /\ started[w] <= 1

OfWorker(w) == Intent(w) /\ Checkout(w) /\ LaunchStep(w) /\ SettleStep(w)

IInv == /\ TypeOK
        /\ \A w \in Worker : OfWorker(w)
        /\ RootIsExclusive
        /\ AcceptedOnTheResult

-----------------------------------------------------------------------------
(* The phases.                                                               *)

LEMMA Phases ==
    /\ BlockedPhase["preparing"] = "blocked-preparing"
    /\ BlockedPhase["reconciling"] = "blocked-reconciling"
    /\ BlockedPhase["disposing"] = "blocked-disposing"
    /\ BlockedFrom["blocked-preparing"] = "preparing"
    /\ BlockedFrom["blocked-reconciling"] = "reconciling"
    /\ BlockedFrom["blocked-disposing"] = "disposing"
<1>1. DOMAIN BlockedPhase = {"preparing", "reconciling", "disposing"}
  BY DEF BlockedPhase
<1>2. /\ BlockedPhase["preparing"] = "blocked-preparing"
      /\ BlockedPhase["reconciling"] = "blocked-reconciling"
      /\ BlockedPhase["disposing"] = "blocked-disposing"
  BY DEF BlockedPhase
<1> QED BY <1>1, <1>2 DEF BlockedFrom, Blocked

-----------------------------------------------------------------------------
(* Type correctness.                                                         *)

HostTyped ==
    /\ step \in [Worker -> Steps] /\ queue \in [Harness -> Seq(Worker)]
    /\ host \in {"up", "down", "recovering"}
    /\ turn \in 0..Len(HarnessOrder) /\ todo \subseteq Worker

RowsTyped   == work \in [Worker -> WorkStates] /\ attempt \in [Worker -> AttemptStates]
EffectTyped == effect \in [Worker -> EffectStates]
PhaseTyped  == phase \in [Worker -> CheckoutPhases]
CommitmentTyped == commitment \in [Commitment -> CommitmentRows]

LEMMA Supervisors ==
    Len(HarnessOrder) \in Nat /\ Len(HarnessOrder) > 0 /\ HarnessOrder \in Seq(Harness)
BY WorkerAssumption

LEMMA SupervisorTyped == TypeOK /\ turn > 0 => Supervisor \in Harness
BY Supervisors DEF TypeOK, Supervisor

LEMMA ForgetTyped == Forget => HostTyped'
BY Supervisors DEF Forget, HostTyped, Steps

LEMMA LeavesTyped ==
    ASSUME TypeOK, NEW w \in Worker, Leaves(w)
    PROVE  step' \in [Worker -> Steps] /\ queue' \in [Harness -> Seq(Worker)]
<1>1. \A h \in Harness : queue[h] \in Seq(Worker)
  BY DEF TypeOK
<1>2. \A q \in Seq(Worker) : q # <<>> => Tail(q) \in Seq(Worker)
  OBVIOUS
<1>3. \A h \in Harness : (IF queue[h] # <<>> /\ Head(queue[h]) = w
                          THEN Tail(queue[h]) ELSE queue[h]) \in Seq(Worker)
  BY <1>1, <1>2
<1> QED BY <1>3 DEF Leaves, TypeOK, Steps

LEMMA LoseContinuityTyped ==
    ASSUME TypeOK, NEW w \in Worker, LoseContinuity(w) PROVE RowsTyped'
BY DEF TypeOK, RowsTyped, LoseContinuity, WorkStates, AttemptStates

LEMMA ThrowsTyped ==
    ASSUME TypeOK, NEW w \in Worker, Throws(w) PROVE HostTyped' /\ RowsTyped'
<1>1. CASE host = "up"
  BY <1>1, LeavesTyped, LoseContinuityTyped DEF Throws, TypeOK, HostTyped, RowsTyped
<1>2. CASE host # "up"
  BY <1>2, ForgetTyped DEF Throws, TypeOK, RowsTyped
<1> QED BY <1>1, <1>2

LEMMA VerifyTyped ==
    ASSUME TypeOK, NEW w \in Worker, Verify(w) PROVE HostTyped' /\ RowsTyped'
<1>1. CASE op[w] # "none" \/ Unblocked(CommitmentOf[w])
  BY <1>1 DEF Verify, TypeOK, HostTyped, RowsTyped, Steps
<1>2. CASE op[w] = "none" /\ ~Unblocked(CommitmentOf[w])
  BY <1>2, ThrowsTyped DEF Verify
<1> QED BY <1>1, <1>2

LEMMA LaunchThrowsTyped ==
    ASSUME TypeOK, NEW w \in Worker, LaunchThrows(w) PROVE HostTyped'
<1>1. CASE host = "up"
  BY <1>1 DEF LaunchThrows, Returns, TypeOK, HostTyped, Steps
<1>2. CASE host # "up"
  BY <1>2, ForgetTyped DEF LaunchThrows
<1> QED BY <1>1, <1>2

LEMMA ReturnsTyped ==
    ASSUME TypeOK, NEW w \in Worker, Returns(w) PROVE HostTyped'
BY DEF Returns, TypeOK, HostTyped, Steps

LEMMA LaunchClaimedTyped ==
    ASSUME TypeOK, NEW w \in Worker, LaunchClaimed(w)
    PROVE  /\ HostTyped'
           /\ UNCHANGED work => RowsTyped'
<1>1. CASE work[w] = "starting"
  BY <1>1 DEF LaunchClaimed, TypeOK, HostTyped, RowsTyped, Steps, AttemptStates
<1>2. CASE work[w] # "starting"
  BY <1>2, LaunchThrowsTyped DEF LaunchClaimed, TypeOK, RowsTyped
<1> QED BY <1>1, <1>2

LEMMA DisposesRejectedTyped ==
    ASSUME TypeOK, NEW w \in Worker, NEW n \in {"rejecting", "failing"}, DisposesRejected(w, n)
    PROVE  HostTyped' /\ PhaseTyped'
<1>1. CASE w \notin Managed
  BY <1>1, ReturnsTyped DEF DisposesRejected, TypeOK, PhaseTyped
<1>2. CASE w \in Managed /\ phase[w] \in {"preparing", "prepared"}
  <2>1. PhaseTyped'
    BY ZenonT(60), <1>2 DEF DisposesRejected, DisposalClaimed, TypeOK, PhaseTyped, CheckoutPhases
  <2>2. /\ step' = [step EXCEPT ![w] = n] /\ todo' = todo \ {w}
        /\ UNCHANGED <<queue, host, turn>>
    BY <1>2 DEF DisposesRejected
  <2> QED BY <2>1, <2>2 DEF TypeOK, HostTyped, Steps
<1>3. CASE w \in Managed /\ phase[w] \notin {"preparing", "prepared"}
  BY <1>3, LaunchThrowsTyped DEF DisposesRejected, TypeOK, PhaseTyped
<1> QED BY <1>1, <1>2, <1>3

LEMMA EndsTyped ==
    ASSUME TypeOK, NEW w \in Worker
    PROVE  /\ Uncertain(w) => RowsTyped' /\ EffectTyped'
           /\ Rejected(w) => RowsTyped' /\ EffectTyped'
BY DEF Uncertain, Rejected, WorkerBecomes, TypeOK, RowsTyped, EffectTyped,
       WorkStates, AttemptStates, EffectStates

LEMMA OwnCommitment == \A w \in Worker : CommitmentOf[w] \in Commitment
BY WorkerAssumption

LEMMA CommitmentBecomesTyped ==
    ASSUME TypeOK, NEW c \in Commitment, NEW n \in CommitmentRows, CommitmentBecomes(c, n)
    PROVE  CommitmentTyped'
BY DEF CommitmentBecomes, CommitmentTyped, TypeOK

LEMMA HeldTyped ==
    ASSUME TypeOK, NEW c \in Commitment, NEW b \in BOOLEAN
    PROVE  [commitment[c] EXCEPT !.held = b] \in CommitmentRows
<1>1. commitment[c] \in CommitmentRows
  BY DEF TypeOK
<1> QED BY <1>1 DEF CommitmentRows

LEMMA BlocksTyped ==
    ASSUME TypeOK, NEW w \in Worker, phase[w] \in {"preparing", "reconciling", "disposing"},
           Blocks(w)
    PROVE  RowsTyped' /\ PhaseTyped' /\ CommitmentTyped'
<1>1. BlockedPhase[phase[w]] \in Blocked
  BY Phases DEF Blocked
<1>2. PhaseTyped'
  BY <1>1 DEF Blocks, PhaseTyped, TypeOK, CheckoutPhases
<1>3. CommitmentTyped'
  BY OwnCommitment, HeldTyped, CommitmentBecomesTyped DEF Blocks
<1>4. RowsTyped'
  BY DEF Blocks, RowsTyped, TypeOK, WorkStates, AttemptStates
<1> QED BY <1>2, <1>3, <1>4

OthersTyped ==
    /\ linked \in [Worker -> BOOLEAN]
    /\ op \in [Worker -> {"none", "running", "succeeded", "failed", "rejected"}]
    /\ crashes \in 0..MaxCrashes
    /\ patched \subseteq Worker /\ worktree \subseteq Worker
    /\ launched \in [Worker -> Nat] /\ started \in [Worker -> Nat]
    /\ harness \in [Worker -> Harness]

LEMMA Parts ==
    TypeOK <=> /\ HostTyped /\ RowsTyped /\ EffectTyped /\ PhaseTyped /\ CommitmentTyped
               /\ OthersTyped
BY DEF TypeOK, HostTyped, RowsTyped, EffectTyped, PhaseTyped, CommitmentTyped, OthersTyped

LEMMA InitTyped == Init => TypeOK
<1> SUFFICES ASSUME Init PROVE TypeOK
  OBVIOUS
<1>1. crashes \in 0..MaxCrashes /\ turn \in 0..Len(HarnessOrder)
  BY WorkerAssumption, Supervisors DEF Init
<1>2. commitment \in [Commitment -> CommitmentRows]
  BY DEF Init, CommitmentRows
<1>3. HostTyped
  BY <1>1 DEF Init, HostTyped, Steps
<1>4. RowsTyped /\ EffectTyped /\ PhaseTyped
  BY DEF Init, RowsTyped, EffectTyped, PhaseTyped, WorkStates, AttemptStates, EffectStates,
     CheckoutPhases
<1>5. OthersTyped
  BY <1>1 DEF Init, OthersTyped
<1> QED BY <1>2, <1>3, <1>4, <1>5, Parts DEF Init, CommitmentTyped

LEMMA LaunchTyped ==
    ASSUME TypeOK, NEW w \in Worker, LaunchStep(w), Launch(w) PROVE TypeOK'
<1>1. ASSUME Start(w) PROVE TypeOK'
  <2>1. UNCHANGED <<work, linked, op, commitment, crashes, world>>
    BY <1>1 DEF Start
  <2>2. CASE host = "recovering" /\ harness[w] # Supervisor
    BY <1>1, <2>1, <2>2, LaunchThrowsTyped DEF Start, TypeOK, HostTyped, world
  <2>3. CASE ~(host = "recovering" /\ harness[w] # Supervisor)
    <3>1. CASE phase[w] = "planned" /\ PreparationClaimed(w)
               /\ step' = [step EXCEPT ![w] = "preparing"]
               /\ UNCHANGED <<attempt, queue, host, turn, todo>>
      BY <2>1, <3>1 DEF PreparationClaimed, TypeOK, world, CheckoutPhases, EffectStates, Steps
    <3>2. CASE phase[w] = "preparing" /\ step' = [step EXCEPT ![w] = "preparing"]
               /\ UNCHANGED <<attempt, effect, phase, queue, host, turn, todo>>
      BY <2>1, <3>2 DEF TypeOK, world, Steps
    <3>3. CASE LaunchClaimed(w) /\ UNCHANGED <<effect, phase>>
      BY <2>1, <3>3, LaunchClaimedTyped DEF TypeOK, HostTyped, RowsTyped, world
    <3> QED BY <1>1, <2>3, <3>1, <3>2, <3>3 DEF Start
  <2> QED BY <2>2, <2>3
<1>2. ASSUME Prepare(w) PROVE TypeOK'
  BY <1>2 DEF Prepare, TypeOK, rows, memory
<1>3. ASSUME Prepared(w) PROVE TypeOK'
  BY <1>3, LaunchClaimedTyped DEF Prepared, TypeOK, HostTyped, RowsTyped, world, CheckoutPhases
<1>4. ASSUME ProcessStarted(w) PROVE TypeOK'
  BY <1>4 DEF ProcessStarted, TypeOK, memory, world, AttemptStates
<1>5. ASSUME RejectedDisposed(w) PROVE TypeOK'
  <2>1. HostTyped'
    BY <1>5, LaunchThrowsTyped, ReturnsTyped DEF RejectedDisposed, AfterRejection
  <2> QED BY <1>5, <2>1 DEF RejectedDisposed, TypeOK, HostTyped, CheckoutPhases
<1>6. ASSUME NEW b \in BOOLEAN, PreparationFails(w, b) PROVE TypeOK'
  <2>1. UNCHANGED <<linked, op, crashes, world>>
    BY <1>6 DEF PreparationFails
  <2>2. CASE b /\ Terminal(CommitmentOf[w])
    BY <1>6, <2>1, <2>2, LaunchThrowsTyped DEF PreparationFails, TypeOK, HostTyped, world
  <2>3. CASE b /\ ~Terminal(CommitmentOf[w])
    <3>1. Blocks(w) /\ Returns(w) /\ UNCHANGED effect /\ phase[w] = "preparing"
      BY <1>6, <2>3 DEF PreparationFails, LaunchStep
    <3> QED BY <2>1, <3>1, BlocksTyped, ReturnsTyped
            DEF TypeOK, HostTyped, RowsTyped, PhaseTyped, CommitmentTyped, world
  <2>4. CASE ~b
    <3>1. Rejected(w) /\ DisposesRejected(w, "rejecting") /\ UNCHANGED commitment
      BY <1>6, <2>4 DEF PreparationFails
    <3> QED BY <2>1, <3>1, EndsTyped, DisposesRejectedTyped
            DEF TypeOK, HostTyped, RowsTyped, EffectTyped, PhaseTyped, world
  <2> QED BY <2>2, <2>3, <2>4
<1>7. ASSUME NEW b \in BOOLEAN, Launched(w, b) PROVE TypeOK'
  <2>1. UNCHANGED <<linked, phase, op, commitment, queue, host, turn, todo, crashes,
                    patched, worktree, started, harness>>
    BY <1>7 DEF Launched
  <2>3. launched' \in [Worker -> Nat]
    BY <1>7 DEF Launched, DispatchClaimed, TypeOK
  <2>4. step' \in [Worker -> Steps]
    <3>1. \E n \in {"working", "none"} : step' = [step EXCEPT ![w] = n]
      BY <1>7 DEF Launched
    <3> QED BY <3>1 DEF TypeOK, Steps
  <2>2. RowsTyped' /\ EffectTyped'
    <3>1. CASE work[w] = "starting"
      BY ZenonT(60), <1>7, <3>1 DEF Launched, WorkerBecomes, TypeOK, RowsTyped, EffectTyped,
         WorkStates, AttemptStates, EffectStates
    <3>2. CASE work[w] # "starting" /\ b
      BY <1>7, <3>2, EndsTyped DEF Launched
    <3>3. CASE work[w] # "starting" /\ ~b
      BY <1>7, <3>3, LoseContinuityTyped DEF Launched, TypeOK, EffectTyped, EffectStates
    <3> QED BY <3>1, <3>2, <3>3
  <2> QED BY <2>1, <2>2, <2>3, <2>4 DEF TypeOK, RowsTyped, EffectTyped
<1>8. ASSUME NEW b \in BOOLEAN, LaunchFails(w, b) PROVE TypeOK'
  <2>1. UNCHANGED <<linked, op, commitment, crashes, world>>
    BY <1>8 DEF LaunchFails
  <2>2. Ends(w) => RowsTyped' /\ EffectTyped'
    BY EndsTyped DEF Ends
  <2>3. CASE HasProcess(w)
    <3>1. HostTyped' /\ UNCHANGED phase
      BY <1>8, <2>3, ReturnsTyped DEF LaunchFails
    <3>2. RowsTyped' /\ EffectTyped'
      BY <1>8, <2>2, <2>3, LoseContinuityTyped DEF LaunchFails, TypeOK, EffectTyped
    <3> QED BY <2>1, <3>1, <3>2 DEF TypeOK, HostTyped, RowsTyped, EffectTyped, world
  <2>4. CASE ~HasProcess(w)
    <3>1. HostTyped' /\ PhaseTyped'
      BY <1>8, <2>4, DisposesRejectedTyped DEF LaunchFails
    <3>2. RowsTyped' /\ EffectTyped'
      BY <1>8, <2>2, <2>4 DEF LaunchFails
    <3> QED BY <2>1, <3>1, <3>2 DEF TypeOK, HostTyped, RowsTyped, EffectTyped, PhaseTyped, world
  <2> QED BY <2>3, <2>4
<1>9. ASSUME NEW b \in BOOLEAN, RejectedStays(w, b) PROVE TypeOK'
  <2>1. UNCHANGED <<effect, linked, op, crashes, world>>
    BY <1>9 DEF RejectedStays
  <2>2. CASE b /\ ~Terminal(CommitmentOf[w])
    <3>1. Blocks(w) /\ AfterRejection(w) /\ phase[w] = "disposing"
      BY <1>9, <2>2 DEF RejectedStays, LaunchStep
    <3>2. HostTyped'
      BY <3>1, LaunchThrowsTyped, ReturnsTyped DEF AfterRejection
    <3> QED BY <2>1, <3>1, <3>2, BlocksTyped
            DEF TypeOK, HostTyped, RowsTyped, PhaseTyped, CommitmentTyped, world
  <2>3. CASE ~(b /\ ~Terminal(CommitmentOf[w]))
    BY <1>9, <2>1, <2>3, LaunchThrowsTyped DEF RejectedStays, TypeOK, HostTyped, world
  <2> QED BY <2>2, <2>3
<1> QED BY <1>1, <1>2, <1>3, <1>4, <1>5, <1>6, <1>7, <1>8, <1>9 DEF Launch

LEMMA NativeTyped ==
    ASSUME TypeOK, NEW w \in Worker, LaunchStep(w), Native(w) PROVE TypeOK'
<1>1. ASSUME Delegate(w) PROVE TypeOK'
  BY <1>1 DEF Delegate, WorkerBecomes, TypeOK, world, WorkStates, AttemptStates, EffectStates,
     CheckoutPhases, Steps
<1>2. ASSUME CancelWorker(w) PROVE TypeOK'
  BY <1>2 DEF CancelWorker, TypeOK, memory, world, WorkStates
<1>3. ASSUME NEW b \in BOOLEAN, Finish(w, b) PROVE TypeOK'
  <2>1. UNCHANGED <<linked, phase, op, commitment, host, turn, todo, crashes, world>>
    BY <1>3 DEF Finish
  <2>2. CASE b
    <3>1. /\ WorkerBecomes(w, "completed", "completed", "succeeded")
          /\ queue' = [queue EXCEPT ![harness[w]] = Append(@, w)]
          /\ step' = [step EXCEPT ![w] = "queued"]
      BY <1>3, <2>2 DEF Finish
    <3>2. harness[w] \in Harness /\ queue[harness[w]] \in Seq(Worker)
      BY DEF TypeOK
    <3>3. Append(queue[harness[w]], w) \in Seq(Worker)
      BY <3>2
    <3>4. queue' \in [Harness -> Seq(Worker)]
      BY <3>1, <3>2, <3>3 DEF TypeOK
    <3> QED BY <2>1, <3>1, <3>4 DEF TypeOK, WorkerBecomes, world, WorkStates, AttemptStates,
            EffectStates, Steps
  <2>3. CASE ~b
    BY <1>3, <2>1, <2>3, EndsTyped DEF Finish, TypeOK, RowsTyped, EffectTyped, world, Steps
  <2> QED BY <2>2, <2>3
<1>4. ASSUME NEW b \in BOOLEAN, LoseContact(w, b) PROVE TypeOK'
  <2>1. RowsTyped' /\ EffectTyped'
    BY <1>4, EndsTyped, LoseContinuityTyped DEF LoseContact, TypeOK, EffectTyped
  <2> QED BY <1>4, <2>1 DEF LoseContact, TypeOK, RowsTyped, EffectTyped, world, Steps
<1> QED BY <1>1, <1>2, <1>3, <1>4, LaunchTyped DEF Native

LEMMA SettleTyped ==
    ASSUME TypeOK, NEW w \in Worker, SettleStep(w), Settle(w) PROVE TypeOK'
<1>1. ASSUME Begin(w) PROVE TypeOK'
  <2>1. UNCHANGED <<effect, linked, op, commitment, crashes, world>>
    BY <1>1 DEF Begin
  <2>2. HostTyped' /\ RowsTyped' /\ PhaseTyped'
    <3>1. CASE Verify(w) /\ UNCHANGED phase
      BY <3>1, VerifyTyped DEF TypeOK, PhaseTyped
    <3>2. CASE /\ phase' \in {phase, [phase EXCEPT ![w] = "reconciling"]}
               /\ \E n \in {"patching", "disposing"} : step' = [step EXCEPT ![w] = n]
               /\ UNCHANGED <<work, attempt, queue, host, turn, todo>>
      <4>1. PhaseTyped'
        BY <3>2 DEF TypeOK, PhaseTyped, CheckoutPhases
      <4>2. step' \in [Worker -> Steps]
        BY <3>2 DEF TypeOK, Steps
      <4> QED BY <3>2, <4>1, <4>2 DEF TypeOK, HostTyped, RowsTyped
    <3> QED BY <1>1, <3>1, <3>2 DEF Begin, ReconciliationClaimed
  <2> QED BY <2>1, <2>2 DEF TypeOK, HostTyped, RowsTyped, PhaseTyped, world
<1>2. ASSUME Patch(w) \/ Remove(w) PROVE TypeOK'
  BY <1>2 DEF Patch, Remove, TypeOK, rows, memory
<1>3. ASSUME Patched(w) PROVE TypeOK'
  BY <1>3 DEF Patched, DisposalClaimed, TypeOK, world, CheckoutPhases, Steps
<1>4. ASSUME Disposed(w) PROVE TypeOK'
  BY <1>4, VerifyTyped DEF Disposed, TypeOK, HostTyped, RowsTyped, world, CheckoutPhases
<1>5. ASSUME NEW b \in BOOLEAN, CheckoutFails(w, b) PROVE TypeOK'
  <2>1. UNCHANGED <<effect, linked, op, crashes, world>>
    BY <1>5 DEF CheckoutFails
  <2>2. CASE b /\ ~Terminal(CommitmentOf[w])
    <3>1. /\ Blocks(w) /\ Leaves(w) /\ UNCHANGED <<host, turn, todo>>
          /\ phase[w] \in {"reconciling", "disposing"}
      BY <1>5, <2>2 DEF CheckoutFails, SettleStep
    <3> QED BY <2>1, <3>1, BlocksTyped, LeavesTyped
            DEF TypeOK, RowsTyped, PhaseTyped, CommitmentTyped, world
  <2>3. CASE ~(b /\ ~Terminal(CommitmentOf[w]))
    BY <1>5, <2>1, <2>3, ThrowsTyped DEF CheckoutFails, TypeOK, HostTyped, RowsTyped, world
  <2> QED BY <2>2, <2>3
<1>6. ASSUME StartTask(w) PROVE TypeOK'
  BY <1>6 DEF StartTask, TypeOK, Steps
<1>10. ASSUME RefuseTask(w) PROVE TypeOK'
  BY <1>10 DEF RefuseTask, TypeOK, world, Steps
<1>7. ASSUME TaskThrows(w) PROVE TypeOK'
  BY <1>7, ThrowsTyped DEF TaskThrows, TypeOK, HostTyped, RowsTyped, world
<1>8. ASSUME NEW status \in {"succeeded", "failed"}, EndTask(w, status) PROVE TypeOK'
  BY <1>8 DEF EndTask, TypeOK, world, Steps
<1>9. ASSUME Report(w) PROVE TypeOK'
  <2> DEFINE c == CommitmentOf[w]
             recorded == commitment[c].held /\ commitment[c].evidence = w
  <2>1. UNCHANGED <<effect, phase, op, crashes, world>>
    BY <1>9 DEF Report
  <2>2. CASE recorded \/ Unblocked(c)
    <3>1. /\ linked' = [linked EXCEPT ![w] = TRUE]
          /\ IF recorded THEN UNCHANGED commitment ELSE CommitmentBecomes(c, Verified(w))
          /\ Leaves(w) /\ UNCHANGED <<work, attempt, host, turn, todo>>
      BY <1>9, <2>2 DEF Report
    <3>2. Verified(w) \in CommitmentRows
      <4>1. commitment[c] \in CommitmentRows
        BY OwnCommitment DEF TypeOK
      <4> QED BY <4>1 DEF Verified, CommitmentRows
    <3>3. CommitmentTyped'
      BY <3>1, <3>2, OwnCommitment, CommitmentBecomesTyped DEF TypeOK, CommitmentTyped
    <3> QED BY <2>1, <3>1, <3>3, LeavesTyped DEF TypeOK, CommitmentTyped, world
  <2>3. CASE ~(recorded \/ Unblocked(c))
    BY <1>9, <2>1, <2>3, ThrowsTyped DEF Report, TypeOK, HostTyped, RowsTyped, world
  <2> QED BY <2>2, <2>3
<1> QED BY <1>1, <1>2, <1>3, <1>4, <1>5, <1>6, <1>7, <1>8, <1>9, <1>10 DEF Settle

LEMMA RecoverTyped ==
    ASSUME TypeOK, NEW w \in Worker, Recover(w) PROVE TypeOK'
<1>1. ASSUME RecoverTask(w) PROVE TypeOK'
  <2>1. UNCHANGED <<work, attempt, effect, linked, phase, crashes, world>>
        /\ op' = [op EXCEPT ![w] = "failed"]
    BY <1>1 DEF RecoverTask
  <2>2. CommitmentTyped' /\ HostTyped'
    <3>1. CASE Unblocked(CommitmentOf[w])
      <4>1. commitment[CommitmentOf[w]] \in CommitmentRows
        BY OwnCommitment DEF TypeOK
      <4>2. [commitment[CommitmentOf[w]] EXCEPT !.held = TRUE, !.evidence = w] \in CommitmentRows
        BY <4>1 DEF CommitmentRows
      <4> QED BY <1>1, <3>1, <4>2, OwnCommitment, CommitmentBecomesTyped
              DEF RecoverTask, TypeOK, HostTyped
    <3>2. CASE ~Unblocked(CommitmentOf[w])
      BY <1>1, <3>2, ForgetTyped DEF RecoverTask, TypeOK, CommitmentTyped
    <3> QED BY <3>1, <3>2
  <2> QED BY <2>1, <2>2 DEF TypeOK, HostTyped, CommitmentTyped, world
<1>2. ASSUME ResumeSettlement(w) PROVE TypeOK'
  <2>1. Supervisor \in Harness /\ queue[Supervisor] \in Seq(Worker)
    BY <1>2, SupervisorTyped DEF ResumeSettlement, TypeOK
  <2>2. Append(queue[Supervisor], w) \in Seq(Worker)
    BY <2>1
  <2>3. queue' \in [Harness -> Seq(Worker)]
    BY <1>2, <2>1, <2>2 DEF ResumeSettlement, TypeOK
  <2> QED BY <1>2, <2>3 DEF ResumeSettlement, TypeOK, rows, world, Steps
<1>3. ASSUME ResumeDisposal(w) \/ ResumeLaunch(w) PROVE TypeOK'
  BY <1>3 DEF ResumeDisposal, ResumeLaunch, TypeOK, rows, world, Steps
<1>4. ASSUME NEW b \in BOOLEAN, RecoverWorker(w, b) PROVE TypeOK'
  <2>1. UNCHANGED <<linked, op, commitment, crashes, world>>
    BY <1>4 DEF RecoverWorker
  <2>2. HostTyped'
    BY <1>4, ForgetTyped, DisposesRejectedTyped DEF RecoverWorker, TypeOK, HostTyped
  <2>3. RowsTyped'
    BY <1>4, EndsTyped, LoseContinuityTyped DEF RecoverWorker, TypeOK, RowsTyped
  <2>4. EffectTyped'
    BY <1>4, EndsTyped DEF RecoverWorker, TypeOK, EffectTyped
  <2>5. PhaseTyped'
    BY <1>4, DisposesRejectedTyped DEF RecoverWorker, TypeOK, PhaseTyped
  <2> QED BY <2>1, <2>2, <2>3, <2>4, <2>5
          DEF TypeOK, HostTyped, RowsTyped, EffectTyped, PhaseTyped, world
<1> QED BY <1>1, <1>2, <1>3, <1>4 DEF Recover

LEMMA OwnerTyped ==
    ASSUME TypeOK, NEW c \in Commitment,
           CancelCommitment(c) \/ HoldCommitment(c) \/ ResumeCommitment(c)
    PROVE  TypeOK'
<1>1. ASSUME CancelCommitment(c) PROVE TypeOK'
  <2>1. commitment[c] \in CommitmentRows
    BY DEF TypeOK
  <2>2. [commitment[c] EXCEPT !.state = "cancelled", !.held = FALSE] \in CommitmentRows
    BY <2>1 DEF CommitmentRows
  <2>3. CommitmentTyped'
    BY <1>1, <2>2, CommitmentBecomesTyped DEF CancelCommitment
  <2> QED BY <1>1, <2>3 DEF CancelCommitment, TypeOK, CommitmentTyped, memory, world
<1>2. ASSUME HoldCommitment(c) PROVE TypeOK'
  <2>1. CommitmentTyped'
    BY <1>2, HeldTyped, CommitmentBecomesTyped DEF HoldCommitment
  <2> QED BY <1>2, <2>1 DEF HoldCommitment, TypeOK, CommitmentTyped, memory, world
<1>3. ASSUME ResumeCommitment(c) PROVE TypeOK'
  <2>1. CommitmentTyped'
    BY <1>3, HeldTyped, CommitmentBecomesTyped DEF ResumeCommitment
  <2>2. \A w \in BlockedCheckouts(c) : BlockedFrom[phase[w]] \in CheckoutPhases
    BY Phases DEF BlockedCheckouts, Blocked, CheckoutPhases
  <2>3. PhaseTyped'
    BY <1>3, <2>2 DEF ResumeCommitment, TypeOK, PhaseTyped
  <2>4. RowsTyped'
    BY <1>3 DEF ResumeCommitment, TypeOK, RowsTyped, WorkStates, AttemptStates
  <2> QED BY <1>3, <2>1, <2>3, <2>4
          DEF ResumeCommitment, TypeOK, CommitmentTyped, PhaseTyped, RowsTyped, memory, world
<1> QED BY <1>1, <1>2, <1>3

LEMMA RestartTyped ==
    ASSUME TypeOK, Crash \/ Restart \/ RecoverCommitments \/ NextSupervisor PROVE TypeOK'
<1>1. ASSUME Crash PROVE TypeOK'
  <2>1. crashes' \in 0..MaxCrashes
    BY <1>1, WorkerAssumption DEF Crash, TypeOK
  <2> QED BY <1>1, <2>1, ForgetTyped DEF Crash, TypeOK, HostTyped, rows, world
<1>2. ASSUME Restart PROVE TypeOK'
  BY <1>2 DEF Restart, TypeOK, rows, world
<1>3. ASSUME RecoverCommitments PROVE TypeOK'
  <2>1. CommitmentTyped'
    BY <1>3, HeldTyped DEF RecoverCommitments, TypeOK, CommitmentTyped
  <2>2. turn' \in 0..Len(HarnessOrder)
    BY <1>3, Supervisors DEF RecoverCommitments
  <2> QED BY <1>3, <2>1, <2>2 DEF RecoverCommitments, TypeOK, CommitmentTyped, Unsettled, world
<1>4. ASSUME NextSupervisor PROVE TypeOK'
  <2>1. turn' \in 0..Len(HarnessOrder) /\ todo' \subseteq Worker
        /\ host' \in {"up", "down", "recovering"}
    BY <1>4, Supervisors DEF NextSupervisor, TypeOK, Unsettled
  <2> QED BY <1>4, <2>1 DEF NextSupervisor, TypeOK, rows, world
<1> QED BY <1>1, <1>2, <1>3, <1>4

-----------------------------------------------------------------------------
(* One Worker acts.  The others stay as they are, or their settlement dies    *)
(* with the host.                                                            *)

Still(w) ==
    /\ work'[w] = work[w] /\ attempt'[w] = attempt[w] /\ effect'[w] = effect[w]
    /\ linked'[w] = linked[w] /\ phase'[w] = phase[w] /\ op'[w] = op[w]
    /\ launched'[w] = launched[w] /\ started'[w] = started[w]
    /\ w \in patched' <=> w \in patched
    /\ w \in worktree' <=> w \in worktree
    /\ step'[w] \in {step[w], "none"}

InPlace(w) == w \notin Managed /\ EffectOpen(w)
Holds(w)   == w \notin Managed /\ (EffectOpen(w) \/ (effect[w] = "succeeded" /\ ~linked[w]))

\* The root is not taken by the step.
Shrinks(w) == /\ OpOpen(w)' => OpOpen(w)
              /\ InPlace(w)' => InPlace(w)
              /\ Holds(w)' => Holds(w)

\* The evidence of an accepted Commitment.
Settled(w) == /\ op[w] = "succeeded" /\ linked[w] /\ effect[w] = "succeeded"
              /\ w \in Managed => w \in patched \ worktree
Lasts(w)   == Settled(w) => Settled(w)'

OthersStill(w) == \A v \in Worker \ {w} : Still(v)

Moves(w) == OthersStill(w) /\ OfWorker(w)' /\ Shrinks(w) /\ Lasts(w)

LEMMA StillMoves ==
    ASSUME NEW w \in Worker, OfWorker(w), Still(w)
    PROVE  OfWorker(w)' /\ Shrinks(w) /\ Lasts(w)
BY DEF Still, OfWorker, Intent, Checkout, LaunchStep, SettleStep, Verifying, Settling,
   EffectOpen, OpOpen, Undispatched, InPlace, Holds, Shrinks, Settled, Lasts

LEMMA ForgetStill == ASSUME Forget PROVE \A w \in Worker : step'[w] = "none"
BY DEF Forget

LEMMA LoseContinuityStill ==
    ASSUME TypeOK, NEW w \in Worker, LoseContinuity(w)
    PROVE  /\ \/ work'[w] = "reconciling"
              \/ work[w] = "cancellation-requested" /\ work'[w] = work[w]
           /\ attempt'[w] \in {"continuity-lost", "never-started"}
           /\ \A v \in Worker \ {w} : work'[v] = work[v] /\ attempt'[v] = attempt[v]
BY DEF LoseContinuity, TypeOK

LEMMA ThrowsStill ==
    ASSUME TypeOK, NEW w \in Worker, Throws(w)
    PROVE  /\ step'[w] = "none"
           /\ work'[w] \in {work[w], "reconciling"}
           /\ attempt'[w] \in {attempt[w], "continuity-lost", "never-started"}
           /\ \A v \in Worker \ {w} : /\ work'[v] = work[v] /\ attempt'[v] = attempt[v]
                                      /\ step'[v] \in {step[v], "none"}
<1>1. CASE host = "up"
  BY <1>1, LoseContinuityStill DEF Throws, Leaves, TypeOK
<1>2. CASE host # "up"
  BY <1>2, ForgetStill DEF Throws, TypeOK
<1> QED BY <1>1, <1>2

LEMMA LaunchThrowsStill ==
    ASSUME TypeOK, NEW w \in Worker, LaunchThrows(w)
    PROVE  step'[w] = "none" /\ \A v \in Worker \ {w} : step'[v] \in {step[v], "none"}
<1>1. CASE host = "up"
  BY <1>1 DEF LaunchThrows, Returns, TypeOK
<1>2. CASE host # "up"
  BY <1>2, ForgetStill DEF LaunchThrows
<1> QED BY <1>1, <1>2

LEMMA VerifyStill ==
    ASSUME TypeOK, NEW w \in Worker, Verify(w)
    PROVE  /\ \/ step'[w] = "none"
              \/ step'[w] = "answered" /\ op[w] # "none"
              \/ step'[w] = "discovering" /\ op[w] = "none"
           /\ work'[w] \in {work[w], "reconciling"}
           /\ attempt'[w] \in {attempt[w], "continuity-lost", "never-started"}
           /\ \A v \in Worker \ {w} : /\ work'[v] = work[v] /\ attempt'[v] = attempt[v]
                                      /\ step'[v] \in {step[v], "none"}
<1>1. CASE op[w] # "none" \/ Unblocked(CommitmentOf[w])
  BY <1>1 DEF Verify, TypeOK
<1>2. CASE op[w] = "none" /\ ~Unblocked(CommitmentOf[w])
  BY <1>2, ThrowsStill DEF Verify
<1> QED BY <1>1, <1>2

LEMMA EndsStill ==
    ASSUME TypeOK, NEW w \in Worker
    PROVE  /\ Uncertain(w) => /\ work'[w] = "reconciling" /\ attempt'[w] = "failed"
                              /\ effect'[w] = "unknown"
           /\ Rejected(w) => /\ work'[w] = "failed" /\ attempt'[w] = "failed"
                             /\ effect'[w] = "rejected"
           /\ Uncertain(w) \/ Rejected(w) =>
                \A v \in Worker \ {w} : /\ work'[v] = work[v] /\ attempt'[v] = attempt[v]
                                        /\ effect'[v] = effect[v]
BY DEF Uncertain, Rejected, WorkerBecomes, TypeOK

LEMMA LaunchClaimedStill ==
    ASSUME TypeOK, NEW w \in Worker, LaunchClaimed(w)
    PROVE  /\ \/ work[w] = "starting" /\ attempt'[w] = "dispatching" /\ step'[w] = "launching"
              \/ attempt'[w] = attempt[w] /\ step'[w] = "none"
           /\ \A v \in Worker \ {w} : /\ attempt'[v] = attempt[v]
                                      /\ step'[v] \in {step[v], "none"}
<1>1. CASE work[w] = "starting"
  BY <1>1 DEF LaunchClaimed, TypeOK
<1>2. CASE work[w] # "starting"
  BY <1>2, LaunchThrowsStill DEF LaunchClaimed, TypeOK
<1> QED BY <1>1, <1>2

LEMMA DisposesRejectedStill ==
    ASSUME TypeOK, NEW w \in Worker, NEW n \in {"rejecting", "failing"}, DisposesRejected(w, n)
    PROVE  /\ \/ phase'[w] = phase[w] /\ step'[w] = "none"
              \/ /\ w \in Managed /\ phase[w] \in {"preparing", "prepared"}
                 /\ phase'[w] = "disposing" /\ step'[w] = n
           /\ \A v \in Worker \ {w} : /\ phase'[v] = phase[v]
                                      /\ step'[v] \in {step[v], "none"}
<1>1. CASE w \notin Managed
  BY <1>1 DEF DisposesRejected, Returns, TypeOK
<1>2. CASE w \in Managed /\ phase[w] \in {"preparing", "prepared"}
  BY <1>2 DEF DisposesRejected, DisposalClaimed, TypeOK
<1>3. CASE w \in Managed /\ phase[w] \notin {"preparing", "prepared"}
  BY <1>3, LaunchThrowsStill DEF DisposesRejected, TypeOK
<1> QED BY <1>1, <1>2, <1>3

LEMMA BlocksStill ==
    ASSUME TypeOK, NEW w \in Worker, phase[w] \in {"preparing", "reconciling", "disposing"},
           Blocks(w)
    PROVE  /\ phase[w] = "preparing" => phase'[w] = "blocked-preparing"
           /\ phase[w] = "reconciling" => phase'[w] = "blocked-reconciling"
           /\ phase[w] = "disposing" => phase'[w] = "blocked-disposing"
           /\ \/ work[w] = "starting" /\ work'[w] = "blocked" /\ attempt'[w] = "blocked"
              \/ work'[w] = work[w] /\ attempt'[w] = attempt[w]
           /\ \A v \in Worker \ {w} : /\ work'[v] = work[v] /\ attempt'[v] = attempt[v]
                                      /\ phase'[v] = phase[v]
BY Phases DEF Blocks, TypeOK

-----------------------------------------------------------------------------
(* Every action of one Worker.                                               *)

LEMMA LaunchMoves ==
    ASSUME TypeOK, NEW w \in Worker, OfWorker(w), Launch(w) PROVE Moves(w)
<1> USE DEF OfWorker, Intent, Checkout, LaunchStep, SettleStep, Verifying, Settling,
    EffectOpen, OpOpen, Undispatched, Moves, OthersStill, Still, Shrinks, InPlace, Holds,
    Lasts, Settled
<1>1. ASSUME Start(w) PROVE Moves(w)
  <2>1. UNCHANGED <<work, linked, op, patched, worktree, launched, started>>
        /\ step[w] = "starting"
    BY <1>1 DEF Start, world
  <2>2. CASE UNCHANGED <<attempt, effect, phase>> /\ LaunchThrows(w)
    BY <2>1, <2>2, LaunchThrowsStill
  <2>3. CASE phase[w] = "planned" /\ PreparationClaimed(w)
             /\ step' = [step EXCEPT ![w] = "preparing"] /\ UNCHANGED attempt
    <3>1. phase'[w] = "preparing" /\ effect'[w] = "claimed" /\ step'[w] = "preparing"
      BY <2>3 DEF PreparationClaimed, TypeOK
    <3>2. OthersStill(w)
      BY <2>1, <2>3 DEF PreparationClaimed, OthersStill, Still, TypeOK
    <3> QED BY <2>1, <2>3, <3>1, <3>2 DEF Moves, Shrinks, InPlace, Holds, Lasts, Settled
  <2>4. CASE phase[w] = "preparing" /\ step' = [step EXCEPT ![w] = "preparing"]
             /\ UNCHANGED <<attempt, effect, phase>>
    BY <2>1, <2>4 DEF TypeOK
  <2>5. CASE phase[w] \in {"none", "prepared"} /\ LaunchClaimed(w) /\ UNCHANGED <<effect, phase>>
    BY <2>1, <2>5, LaunchClaimedStill
  <2> QED BY <1>1, <2>2, <2>3, <2>4, <2>5 DEF Start
<1>2. ASSUME Prepare(w) PROVE Moves(w)
  BY <1>2 DEF Prepare, rows, memory
<1>3. ASSUME Prepared(w) PROVE Moves(w)
  <2>1. phase'[w] = "prepared" /\ \A v \in Worker \ {w} : phase'[v] = phase[v]
    BY <1>3 DEF Prepared, TypeOK
  <2> QED BY <1>3, <2>1, LaunchClaimedStill
          DEF Prepared, IsPrepared, world
<1>4. ASSUME ProcessStarted(w) PROVE Moves(w)
  <2>1. attempt'[w] = "starting" /\ \A v \in Worker \ {w} : attempt'[v] = attempt[v]
    BY <1>4 DEF ProcessStarted, TypeOK
  <2> QED BY <1>4, <2>1
          DEF ProcessStarted, memory, world
<1>5. ASSUME RejectedDisposed(w) PROVE Moves(w)
  <2>1. step'[w] = "none" /\ \A v \in Worker \ {w} : step'[v] \in {step[v], "none"}
    BY <1>5, LaunchThrowsStill DEF RejectedDisposed, AfterRejection, Returns, TypeOK
  <2>2. phase'[w] = "disposed" /\ \A v \in Worker \ {w} : phase'[v] = phase[v]
    BY <1>5 DEF RejectedDisposed, TypeOK
  <2> QED BY <1>5, <2>1, <2>2
          DEF RejectedDisposed
<1>6. ASSUME NEW b \in BOOLEAN, PreparationFails(w, b) PROVE Moves(w)
  <2>1. UNCHANGED <<linked, op, patched, worktree, launched, started>>
        /\ step[w] = "preparing" /\ phase[w] = "preparing"
    BY <1>6 DEF PreparationFails, world
  <2>2. CASE UNCHANGED <<work, attempt, phase, effect>> /\ LaunchThrows(w)
    BY <2>1, <2>2, LaunchThrowsStill
  <2>3. CASE Blocks(w) /\ Returns(w) /\ UNCHANGED effect
    <3>1. step'[w] = "none" /\ \A v \in Worker \ {w} : step'[v] = step[v]
      BY <2>3 DEF Returns, TypeOK
    <3> QED BY <2>1, <2>3, <3>1, BlocksStill
  <2>4. CASE Rejected(w) /\ DisposesRejected(w, "rejecting")
    BY <2>1, <2>4, EndsStill, DisposesRejectedStill
  <2> QED BY <1>6, <2>2, <2>3, <2>4 DEF PreparationFails
<1>7. ASSUME NEW b \in BOOLEAN, Launched(w, b) PROVE Moves(w)
  <2>1. UNCHANGED <<linked, phase, op, patched, worktree, started>> /\ step[w] = "launching"
    BY <1>7 DEF Launched
  <2>2. /\ attempt[w] = "starting" /\ Undispatched(w)
        /\ launched'[w] = 1 /\ \A v \in Worker \ {w} : launched'[v] = launched[v]
    BY <1>7 DEF Launched, DispatchClaimed, TypeOK
  <2>3. CASE work[w] = "starting"
    <3>1. /\ work'[w] = "running" /\ attempt'[w] = "running" /\ effect'[w] = "dispatching"
          /\ step'[w] = "working"
          /\ \A v \in Worker \ {w} : /\ work'[v] = work[v] /\ attempt'[v] = attempt[v]
                                     /\ effect'[v] = effect[v] /\ step'[v] = step[v]
      BY <1>7, <2>3 DEF Launched, WorkerBecomes, TypeOK
    <3> QED BY <2>1, <2>2, <2>3, <3>1
  <2>4. CASE work[w] # "starting"
    <3>1. step'[w] = "none" /\ \A v \in Worker \ {w} : step'[v] = step[v]
      BY <1>7, <2>4 DEF Launched, TypeOK
    <3>2. CASE Uncertain(w)
      BY <2>1, <2>2, <3>1, <3>2, EndsStill
    <3>3. CASE LoseContinuity(w) /\ effect' = [effect EXCEPT ![w] = "dispatching"]
      <4>1. effect'[w] = "dispatching" /\ \A v \in Worker \ {w} : effect'[v] = effect[v]
        BY <3>3 DEF TypeOK
      <4> QED BY <2>1, <2>2, <2>4, <3>1, <3>3, <4>1, LoseContinuityStill
    <3> QED BY <1>7, <2>4, <3>2, <3>3 DEF Launched
  <2> QED BY <2>3, <2>4
<1>8. ASSUME NEW b \in BOOLEAN, LaunchFails(w, b) PROVE Moves(w)
  <2>1. UNCHANGED <<linked, op, patched, worktree, launched, started>> /\ step[w] = "launching"
    BY <1>8 DEF LaunchFails, world
  <2>2. CASE HasProcess(w)
    <3>1. step'[w] = "none" /\ UNCHANGED phase /\ \A v \in Worker \ {w} : step'[v] = step[v]
      BY <1>8, <2>2 DEF LaunchFails, Returns, TypeOK
    <3>2. CASE Ends(w)
      BY <2>1, <3>1, <3>2, EndsStill DEF Ends
    <3>3. CASE LoseContinuity(w) /\ UNCHANGED effect
      BY <2>1, <3>1, <3>3, LoseContinuityStill
    <3> QED BY <1>8, <2>2, <3>2, <3>3 DEF LaunchFails
  <2>3. CASE ~HasProcess(w)
    <3>1. Ends(w) /\ DisposesRejected(w, "failing")
      BY <1>8, <2>3 DEF LaunchFails
    <3> QED BY <2>1, <3>1, EndsStill, DisposesRejectedStill
            DEF Ends
  <2> QED BY <2>2, <2>3
<1>9. ASSUME NEW b \in BOOLEAN, RejectedStays(w, b) PROVE Moves(w)
  <2>1. UNCHANGED <<effect, linked, op, patched, worktree, launched, started>>
        /\ phase[w] = "disposing" /\ effect[w] # "succeeded"
    BY <1>9 DEF RejectedStays, world
  <2>2. CASE Blocks(w) /\ AfterRejection(w)
    <3>1. step'[w] = "none" /\ \A v \in Worker \ {w} : step'[v] \in {step[v], "none"}
      BY <2>2, LaunchThrowsStill DEF AfterRejection, Returns, TypeOK
    <3> QED BY <2>1, <2>2, <3>1, BlocksStill
  <2>3. CASE LaunchThrows(w) /\ UNCHANGED <<work, attempt, phase>>
    BY <2>1, <2>3, LaunchThrowsStill
  <2> QED BY <1>9, <2>2, <2>3 DEF RejectedStays
<1> QED BY <1>1, <1>2, <1>3, <1>4, <1>5, <1>6, <1>7, <1>8, <1>9 DEF Launch

LEMMA NativeMoves ==
    ASSUME TypeOK, NEW w \in Worker, OfWorker(w),
           CancelWorker(w) \/ \E b \in BOOLEAN : Finish(w, b) \/ LoseContact(w, b)
    PROVE  Moves(w)
<1> USE DEF OfWorker, Intent, Checkout, LaunchStep, SettleStep, Verifying, Settling,
    EffectOpen, OpOpen, Undispatched, Moves, OthersStill, Still, Shrinks, InPlace, Holds,
    Lasts, Settled
<1>1. ASSUME CancelWorker(w) PROVE Moves(w)
  <2>1. work'[w] = "cancellation-requested" /\ \A v \in Worker \ {w} : work'[v] = work[v]
    BY <1>1 DEF CancelWorker, TypeOK
  <2> QED BY <1>1, <2>1 DEF CancelWorker, memory, world
<1>2. ASSUME NEW b \in BOOLEAN, Finish(w, b) PROVE Moves(w)
  <2>1. /\ UNCHANGED <<linked, phase, op, patched, worktree, launched, started>>
        /\ step[w] = "working"
    BY <1>2 DEF Finish, world
  <2>2. CASE b
    <3>1. /\ work'[w] = "completed" /\ attempt'[w] = "completed" /\ effect'[w] = "succeeded"
          /\ step'[w] = "queued"
          /\ \A v \in Worker \ {w} : /\ work'[v] = work[v] /\ attempt'[v] = attempt[v]
                                     /\ effect'[v] = effect[v] /\ step'[v] = step[v]
      BY <1>2, <2>2 DEF Finish, WorkerBecomes, TypeOK
    <3> QED BY <2>1, <3>1
  <2>3. CASE ~b
    <3>1. step'[w] = "none" /\ \A v \in Worker \ {w} : step'[v] = step[v]
      BY <1>2, <2>3 DEF Finish, TypeOK
    <3> QED BY <1>2, <2>1, <2>3, <3>1, EndsStill DEF Finish
  <2> QED BY <2>2, <2>3
<1>3. ASSUME NEW b \in BOOLEAN, LoseContact(w, b) PROVE Moves(w)
  <2>1. /\ UNCHANGED <<linked, phase, op, patched, worktree, launched, started>>
        /\ step[w] = "working"
        /\ step'[w] = "none" /\ \A v \in Worker \ {w} : step'[v] = step[v]
    BY <1>3 DEF LoseContact, world, TypeOK
  <2>2. CASE Uncertain(w)
    BY <2>1, <2>2, EndsStill
  <2>3. CASE LoseContinuity(w) /\ UNCHANGED effect
    BY <2>1, <2>3, LoseContinuityStill
  <2> QED BY <1>3, <2>2, <2>3 DEF LoseContact
<1> QED BY <1>1, <1>2, <1>3

LEMMA SettleMoves ==
    ASSUME TypeOK, NEW w \in Worker, OfWorker(w), Settle(w), ~StartTask(w) PROVE Moves(w)
<1> USE DEF OfWorker, Intent, Checkout, LaunchStep, SettleStep, Verifying, Settling,
    EffectOpen, OpOpen, Undispatched, Moves, OthersStill, Still, Shrinks, InPlace, Holds,
    Lasts, Settled
<1>1. ASSUME Begin(w) PROVE Moves(w)
  <2>1. UNCHANGED <<effect, linked, op, patched, worktree, launched, started>>
        /\ step[w] = "queued"
    BY <1>1 DEF Begin, world
  <2>2. CASE /\ phase[w] \in {"prepared", "reconciling"} /\ ReconciliationClaimed(w)
             /\ step' = [step EXCEPT ![w] = "patching"] /\ UNCHANGED <<work, attempt>>
    <3>1. /\ phase'[w] = "reconciling" /\ step'[w] = "patching"
          /\ \A v \in Worker \ {w} : phase'[v] = phase[v] /\ step'[v] = step[v]
      BY <2>2 DEF ReconciliationClaimed, TypeOK
    <3> QED BY <2>1, <2>2, <3>1
  <2>3. CASE /\ phase[w] = "disposing" /\ UNCHANGED <<phase, work, attempt>>
             /\ step' = [step EXCEPT ![w] = "disposing"]
    <3>1. step'[w] = "disposing" /\ \A v \in Worker \ {w} : step'[v] = step[v]
      BY <2>3 DEF TypeOK
    <3> QED BY <2>1, <2>3, <3>1
  <2>4. CASE phase[w] \in {"none", "disposed"} /\ Verify(w) /\ UNCHANGED phase
    BY <2>1, <2>4, VerifyStill
  <2> QED BY <1>1, <2>2, <2>3, <2>4 DEF Begin
<1>2. ASSUME Patch(w) \/ Remove(w) PROVE Moves(w)
  BY <1>2 DEF Patch, Remove, rows, memory
<1>3. ASSUME Patched(w) PROVE Moves(w)
  <2>1. /\ phase'[w] = "disposing" /\ step'[w] = "disposing"
        /\ \A v \in Worker \ {w} : phase'[v] = phase[v] /\ step'[v] = step[v]
    BY <1>3 DEF Patched, DisposalClaimed, TypeOK
  <2> QED BY <1>3, <2>1 DEF Patched, world
<1>4. ASSUME Disposed(w) PROVE Moves(w)
  <2>1. phase'[w] = "disposed" /\ \A v \in Worker \ {w} : phase'[v] = phase[v]
    BY <1>4 DEF Disposed, TypeOK
  <2> QED BY <1>4, <2>1, VerifyStill DEF Disposed, world
<1>5. ASSUME NEW b \in BOOLEAN, CheckoutFails(w, b) PROVE Moves(w)
  <2>1. /\ UNCHANGED <<effect, linked, op, patched, worktree, launched, started>>
        /\ step[w] \in {"patching", "disposing"}
    BY <1>5 DEF CheckoutFails, world
  <2>2. CASE Blocks(w) /\ Leaves(w)
    <3>1. step'[w] = "none" /\ \A v \in Worker \ {w} : step'[v] = step[v]
      BY <2>2 DEF Leaves, TypeOK
    <3> QED BY <2>1, <2>2, <3>1, BlocksStill
  <2>3. CASE Throws(w) /\ UNCHANGED phase
    BY <2>1, <2>3, ThrowsStill
  <2> QED BY <1>5, <2>2, <2>3 DEF CheckoutFails
<1>6. ASSUME RefuseTask(w) PROVE Moves(w)
  <2>1. /\ op'[w] = "rejected" /\ step'[w] = "answered"
        /\ \A v \in Worker \ {w} : op'[v] = op[v] /\ step'[v] = step[v]
    BY <1>6 DEF RefuseTask, TypeOK
  <2> QED BY <1>6, <2>1 DEF RefuseTask, world
<1>7. ASSUME TaskThrows(w) PROVE Moves(w)
  BY <1>7, ThrowsStill DEF TaskThrows, world
<1>8. ASSUME NEW status \in {"succeeded", "failed"}, EndTask(w, status) PROVE Moves(w)
  <2>1. /\ op'[w] = status /\ step'[w] = "answered"
        /\ \A v \in Worker \ {w} : op'[v] = op[v] /\ step'[v] = step[v]
    BY <1>8 DEF EndTask, TypeOK
  <2> QED BY <1>8, <2>1 DEF EndTask, world
<1>9. ASSUME Report(w) PROVE Moves(w)
  <2>1. UNCHANGED <<effect, phase, op, patched, worktree, launched, started>>
        /\ step[w] = "answered"
    BY <1>9 DEF Report, world
  <2>2. CASE linked' = [linked EXCEPT ![w] = TRUE] /\ Leaves(w) /\ UNCHANGED <<work, attempt>>
    <3>1. /\ linked'[w] /\ step'[w] = "none"
          /\ \A v \in Worker \ {w} : linked'[v] = linked[v] /\ step'[v] = step[v]
      BY <2>2 DEF Leaves, TypeOK
    <3> QED BY <2>1, <2>2, <3>1
  <2>3. CASE Throws(w) /\ UNCHANGED linked
    BY <2>1, <2>3, ThrowsStill
  <2> QED BY <1>9, <2>2, <2>3 DEF Report
<1> QED BY <1>1, <1>2, <1>3, <1>4, <1>5, <1>6, <1>7, <1>8, <1>9 DEF Settle

LEMMA RecoverMoves ==
    ASSUME TypeOK, NEW w \in Worker, OfWorker(w), Recover(w) PROVE Moves(w)
<1> USE DEF OfWorker, Intent, Checkout, LaunchStep, SettleStep, Verifying, Settling,
    EffectOpen, OpOpen, Undispatched, Moves, OthersStill, Still, Shrinks, InPlace, Holds,
    Lasts, Settled
<1>1. ASSUME RecoverTask(w) PROVE Moves(w)
  <2>1. op'[w] = "failed" /\ \A v \in Worker \ {w} : op'[v] = op[v]
    BY <1>1 DEF RecoverTask, TypeOK
  <2>2. UNCHANGED step \/ \A v \in Worker : step'[v] = "none"
    BY <1>1, ForgetStill DEF RecoverTask
  <2> QED BY <1>1, <2>1, <2>2 DEF RecoverTask, world
<1>2. ASSUME ResumeSettlement(w) PROVE Moves(w)
  <2>1. step'[w] = "queued" /\ \A v \in Worker \ {w} : step'[v] = step[v]
    BY <1>2 DEF ResumeSettlement, TypeOK
  <2> QED BY <1>2, <2>1 DEF ResumeSettlement, Resumable, rows, world
<1>3. ASSUME ResumeDisposal(w) PROVE Moves(w)
  <2>1. step'[w] = "rejecting" /\ \A v \in Worker \ {w} : step'[v] = step[v]
    BY <1>3 DEF ResumeDisposal, TypeOK
  <2> QED BY <1>3, <2>1 DEF ResumeDisposal, Undisposed, rows, world
<1>4. ASSUME ResumeLaunch(w) PROVE Moves(w)
  <2>1. step'[w] = "starting" /\ \A v \in Worker \ {w} : step'[v] = step[v]
    BY <1>4 DEF ResumeLaunch, TypeOK
  <2> QED BY <1>4, <2>1 DEF ResumeLaunch, NeverLaunched, rows, world
<1>5. ASSUME NEW b \in BOOLEAN, RecoverWorker(w, b) PROVE Moves(w)
  <2>1. /\ UNCHANGED <<linked, op, patched, worktree, launched, started>>
        /\ step[w] \in {"none", "working"}
        /\ ~NeverLaunched(w)
    BY <1>5 DEF RecoverWorker, Visits, Awaited, world
  <2>2. phase[w] # "planned"
    BY <2>1 DEF NeverLaunched
  <2>3. CASE LoseContinuity(w) /\ UNCHANGED <<effect, phase, step>>
    BY <2>1, <2>2, <2>3, LoseContinuityStill
  <2>4. CASE UNCHANGED <<work, attempt, effect, phase, step>>
    BY <2>1, <2>2, <2>4
  <2>5. CASE Undispatched(w) /\ Rejected(w) /\ DisposesRejected(w, "rejecting")
    BY <2>1, <2>2, <2>5, EndsStill, DisposesRejectedStill
  <2>6. CASE effect[w] = "dispatching" /\ Uncertain(w) /\ UNCHANGED <<phase, step>>
    BY <2>1, <2>2, <2>6, EndsStill
  <2>7. CASE Forget /\ UNCHANGED <<work, attempt, effect, phase>>
    BY <2>1, <2>2, <2>7, ForgetStill
  <2> QED BY <1>5, <2>3, <2>4, <2>5, <2>6, <2>7 DEF RecoverWorker
<1> QED BY <1>1, <1>2, <1>3, <1>4, <1>5 DEF Recover

-----------------------------------------------------------------------------
(* All steps.                                                                *)

Calm == \A w \in Worker : OfWorker(w)' /\ Shrinks(w) /\ Lasts(w)

LEMMA MovesCalm ==
    ASSUME \A v \in Worker : OfWorker(v), NEW w \in Worker, Moves(w) PROVE Calm
BY StillMoves DEF Moves, OthersStill, Calm

LEMMA AllStillCalm ==
    ASSUME \A w \in Worker : OfWorker(w), \A w \in Worker : Still(w) PROVE Calm
BY StillMoves DEF Calm

LEMMA ResumeCalm ==
    ASSUME TypeOK, \A w \in Worker : OfWorker(w), NEW c \in Commitment, ResumeCommitment(c)
    PROVE  Calm
<1> SUFFICES ASSUME NEW w \in Worker PROVE OfWorker(w)' /\ Shrinks(w) /\ Lasts(w)
  BY DEF Calm
<1>1. /\ UNCHANGED <<effect, linked, op, step, patched, worktree, launched, started>>
      /\ OfWorker(w)
  BY DEF ResumeCommitment, memory, world
<1>2. CASE w \notin BlockedCheckouts(c)
  <2>1. phase'[w] = phase[w] /\ work'[w] = work[w] /\ attempt'[w] = attempt[w]
    BY <1>2 DEF ResumeCommitment, Unlaunched, TypeOK
  <2> QED BY <1>1, <2>1, StillMoves DEF Still
<1>3. CASE w \in BlockedCheckouts(c)
  <2>1. /\ phase[w] \in Blocked
        /\ phase'[w] = BlockedFrom[phase[w]]
        /\ \/ work[w] = "blocked" /\ work'[w] = "starting" /\ attempt'[w] = "intended"
           \/ work'[w] = work[w] /\ attempt'[w] = attempt[w]
    BY <1>3 DEF ResumeCommitment, BlockedCheckouts, Unlaunched, TypeOK
  <2>2. \/ phase[w] = "blocked-preparing" /\ phase'[w] = "preparing"
        \/ phase[w] = "blocked-reconciling" /\ phase'[w] = "reconciling"
        \/ phase[w] = "blocked-disposing" /\ phase'[w] = "disposing"
    BY <2>1, Phases DEF Blocked
  <2> QED BY <1>1, <2>1, <2>2
          DEF OfWorker, Intent, Checkout, LaunchStep, SettleStep, Verifying, Settling, EffectOpen,
              OpOpen, Undispatched, Shrinks, InPlace, Holds, Lasts, Settled
<1> QED BY <1>2, <1>3

LEMMA StepsAreCalm ==
    ASSUME TypeOK, \A w \in Worker : OfWorker(w), [Next]_vars,
           ~\E w \in Worker : Delegate(w) \/ StartTask(w)
    PROVE  Calm
<1> DEFINE AllStill == \A w \in Worker : Still(w)
<1>1. ASSUME NEW w \in Worker, Native(w) \/ Settle(w) \/ Recover(w) PROVE Calm
  <2>1. OfWorker(w) /\ ~Delegate(w) /\ ~StartTask(w)
    OBVIOUS
  <2>2. Moves(w)
    BY <1>1, <2>1, LaunchMoves, NativeMoves, SettleMoves, RecoverMoves DEF Native
  <2> QED BY <2>2, MovesCalm
<1>2. ASSUME NEW c \in Commitment, CancelCommitment(c) \/ HoldCommitment(c) PROVE AllStill
  BY <1>2 DEF CancelCommitment, HoldCommitment, memory, world, Still
<1>3. ASSUME NEW c \in Commitment, ResumeCommitment(c) PROVE Calm
  BY <1>3, ResumeCalm
<1>4. ASSUME Crash PROVE AllStill
  BY <1>4, ForgetStill DEF Crash, rows, world, Still
<1>5. ASSUME Restart \/ RecoverCommitments \/ NextSupervisor PROVE AllStill
  BY <1>5 DEF Restart, RecoverCommitments, NextSupervisor, rows, world, Still
<1>6. ASSUME UNCHANGED vars PROVE AllStill
  BY <1>6 DEF vars, Still
<1> QED BY <1>1, <1>2, <1>3, <1>4, <1>5, <1>6, AllStillCalm DEF Next

\* The two steps that take something of the root, and the rest of them.
LEMMA TakingSteps ==
    ASSUME TypeOK, NEW w \in Worker, OfWorker(w), Delegate(w) \/ StartTask(w)
    PROVE  OthersStill(w) /\ OfWorker(w)' /\ Lasts(w)
<1> USE DEF OfWorker, Intent, Checkout, LaunchStep, SettleStep, Verifying, Settling,
    EffectOpen, OpOpen, Undispatched, OthersStill, Still, Lasts, Settled
<1>1. ASSUME Delegate(w) PROVE OthersStill(w) /\ OfWorker(w)' /\ Lasts(w)
  <2>1. /\ work[w] = "none" /\ UNCHANGED <<linked, op, patched, worktree, launched, started>>
        /\ work'[w] = "starting" /\ attempt'[w] = "intended" /\ effect'[w] = "pending"
        /\ phase'[w] = (IF w \in Managed THEN "planned" ELSE "none") /\ step'[w] = "starting"
        /\ \A v \in Worker \ {w} : /\ work'[v] = work[v] /\ attempt'[v] = attempt[v]
                                   /\ effect'[v] = effect[v] /\ phase'[v] = phase[v]
                                   /\ step'[v] = step[v]
    BY <1>1 DEF Delegate, WorkerBecomes, TypeOK, world
  <2> QED BY <2>1
<1>2. ASSUME StartTask(w) PROVE OthersStill(w) /\ OfWorker(w)' /\ Lasts(w)
  <2>1. /\ UNCHANGED <<work, attempt, effect, linked, phase, patched, worktree, launched>>
        /\ step[w] = "discovering" /\ started[w] = 0
        /\ op'[w] = "running" /\ started'[w] = 1 /\ step'[w] = "testing"
        /\ \A v \in Worker \ {w} : /\ op'[v] = op[v] /\ started'[v] = started[v]
                                   /\ step'[v] = step[v]
    BY <1>2 DEF StartTask, TypeOK
  <2> QED BY <2>1
<1> QED BY <1>1, <1>2

LEMMA WorkersKept ==
    ASSUME TypeOK, \A w \in Worker : OfWorker(w), [Next]_vars
    PROVE  \A w \in Worker : OfWorker(w)' /\ Lasts(w)
<1>1. CASE \E w \in Worker : Delegate(w) \/ StartTask(w)
  <2>1. PICK w \in Worker : Delegate(w) \/ StartTask(w)
    BY <1>1
  <2>2. OthersStill(w) /\ OfWorker(w)' /\ Lasts(w)
    BY <2>1, TakingSteps
  <2> QED BY <2>2, StillMoves DEF OthersStill
<1>2. CASE ~\E w \in Worker : Delegate(w) \/ StartTask(w)
  BY <1>2, StepsAreCalm DEF Calm
<1> QED BY <1>1, <1>2

LEMMA RootKept ==
    ASSUME TypeOK, \A w \in Worker : OfWorker(w), RootIsExclusive, [Next]_vars
    PROVE  RootIsExclusive'
<1> DEFINE Alone(v, w) == /\ ~(OpOpen(v) /\ OpOpen(w))
                          /\ ~(Holds(v) /\ Holds(w))
                          /\ ~(OpOpen(v) /\ InPlace(w))
<1>1. \A v, w \in Worker : v # w => Alone(v, w)
  BY DEF RootIsExclusive, Holds, InPlace
<1>2. SUFFICES ASSUME NEW u \in Worker, NEW v \in Worker, u # v PROVE Alone(u, v)'
  BY <1>2 DEF RootIsExclusive, Holds, InPlace, OpOpen, EffectOpen
<1>3. Alone(u, v) /\ Alone(v, u)
  BY <1>1, <1>2
<1>4. CASE Calm
  BY <1>3, <1>4 DEF Calm, Shrinks
<1>5. ASSUME NEW w \in Worker, Delegate(w) PROVE Alone(u, v)'
  <2>1. \A x \in Worker \ {w} : Shrinks(x)
    BY <1>5, TakingSteps, StillMoves DEF OthersStill
  <2>2. OpOpen(w)' = OpOpen(w) /\ linked'[w] = linked[w]
    BY <1>5 DEF Delegate, OpOpen
  <2>3. w \notin Managed => \A x \in Worker : ~OpOpen(x) /\ ~Holds(x)
    BY <1>5 DEF Delegate, RootReserved, RootTaken, Holds
  <2>4. w \in Managed => ~Holds(w)' /\ ~InPlace(w)'
    BY DEF Holds, InPlace
  <2> QED BY <1>2, <1>3, <2>1, <2>2, <2>3, <2>4 DEF Shrinks
<1>6. ASSUME NEW w \in Worker, StartTask(w) PROVE Alone(u, v)'
  <2>1. \A x \in Worker \ {w} : Shrinks(x)
    BY <1>6, TakingSteps, StillMoves DEF OthersStill
  <2>2. UNCHANGED <<effect, linked>>
    BY <1>6 DEF StartTask
  <2>3. (Holds(w)' <=> Holds(w)) /\ (InPlace(w)' <=> InPlace(w))
    BY <2>2 DEF Holds, InPlace, EffectOpen
  <2>4. \A x \in Worker : ~OpOpen(x) /\ ~InPlace(x)
    BY <1>6 DEF StartTask, RootTaken, InPlace
  <2> QED BY <1>2, <1>3, <2>1, <2>3, <2>4 DEF Shrinks
<1> QED BY <1>4, <1>5, <1>6, StepsAreCalm

\* A Commitment is accepted by the report of a Verification that passed.
LEMMA OnlyReportsAccept ==
    ASSUME TypeOK, \A w \in Worker : OfWorker(w), [Next]_vars,
           NEW c \in Commitment, commitment'[c].state = "accepted"
    PROVE  \/ commitment[c].state = "accepted" /\ commitment'[c].evidence = commitment[c].evidence
           \/ \E w \in Worker : /\ w = commitment'[c].evidence /\ CommitmentOf[w] = c
                                /\ Settled(w)'
<1> DEFINE Goal == \/ /\ commitment[c].state = "accepted"
                      /\ commitment'[c].evidence = commitment[c].evidence
                   \/ \E w \in Worker : /\ w = commitment'[c].evidence /\ CommitmentOf[w] = c
                                        /\ Settled(w)'
<1>0. commitment \in [Commitment -> CommitmentRows]
  BY DEF TypeOK
<1>1. ASSUME UNCHANGED commitment PROVE Goal
  BY <1>1
<1>2. ASSUME NEW w \in Worker, Blocks(w) PROVE Goal
  BY <1>0, <1>2, OwnCommitment DEF Blocks, CommitmentBecomes, CommitmentRows
<1>3. ASSUME NEW w \in Worker, Launch(w) PROVE Goal
  BY <1>1, <1>2, <1>3
  DEF Launch, Start, Prepare, Prepared, PreparationFails, ProcessStarted, Launched, LaunchFails,
      RejectedDisposed, RejectedStays, rows
<1>4. ASSUME NEW w \in Worker, Report(w) PROVE Goal
  <2>1. CASE UNCHANGED commitment
    BY <1>1, <2>1
  <2>2. CASE /\ Unblocked(CommitmentOf[w]) /\ CommitmentBecomes(CommitmentOf[w], Verified(w))
             /\ linked' = [linked EXCEPT ![w] = TRUE]
    <3>1. CASE CommitmentOf[w] # c
      BY <1>0, <2>2, <3>1 DEF CommitmentBecomes
    <3>2. CASE CommitmentOf[w] = c
      <4>1. commitment'[c] = Verified(w)
        BY <1>0, <2>2, <3>2 DEF CommitmentBecomes
      <4>2. op[w] = "succeeded" /\ commitment'[c].evidence = w
        BY <1>0, <2>2, <3>2, <4>1 DEF Verified, Unblocked, CommitmentRows
      <4>3. /\ step[w] = "answered" /\ UNCHANGED <<effect, op, patched, worktree>>
            /\ linked'[w]
        BY <1>4, <2>2 DEF Report, world, TypeOK
      <4>4. effect[w] = "succeeded" /\ (w \in Managed => w \in patched \ worktree)
        BY <4>3 DEF OfWorker, Checkout, SettleStep, Settling, Verifying
      <4> QED BY <3>2, <4>2, <4>3, <4>4 DEF Settled
    <3> QED BY <3>1, <3>2
  <2> QED BY <1>4, <2>1, <2>2 DEF Report
<1>5. ASSUME NEW w \in Worker, Settle(w) PROVE Goal
  BY <1>1, <1>2, <1>4, <1>5
  DEF Settle, Begin, Patch, Patched, Remove, Disposed, CheckoutFails, StartTask, RefuseTask,
      TaskThrows, EndTask, rows
<1>6. ASSUME NEW w \in Worker, Recover(w) PROVE Goal
  <2>1. CASE /\ Unblocked(CommitmentOf[w])
             /\ CommitmentBecomes(CommitmentOf[w],
                   [commitment[CommitmentOf[w]] EXCEPT !.held = TRUE, !.evidence = w])
    BY <1>0, <2>1, OwnCommitment DEF CommitmentBecomes, CommitmentRows, Unblocked
  <2> QED BY <1>1, <1>6, <2>1
          DEF Recover, RecoverTask, ResumeSettlement, ResumeDisposal, ResumeLaunch, RecoverWorker, rows
<1>7. ASSUME NEW w \in Worker, Native(w) PROVE Goal
  BY <1>1, <1>3, <1>7 DEF Native, Delegate, CancelWorker, Finish, LoseContact
<1>8. ASSUME NEW d \in Commitment, CancelCommitment(d) \/ HoldCommitment(d) \/ ResumeCommitment(d)
      PROVE Goal
  <2>1. PICK row \in {[commitment[d] EXCEPT !.state = "cancelled", !.held = FALSE],
                      [commitment[d] EXCEPT !.held = TRUE],
                      [commitment[d] EXCEPT !.held = FALSE]} :
          commitment' = [commitment EXCEPT ![d] = row]
    BY <1>8 DEF CancelCommitment, HoldCommitment, ResumeCommitment, CommitmentBecomes
  <2>2. CASE c # d
    BY <1>0, <2>1, <2>2
  <2>3. CASE c = d
    <3>1. commitment[c] \in CommitmentRows /\ commitment'[c] = row
      BY <1>0, <2>1, <2>3
    <3> QED BY <2>1, <2>3, <3>1 DEF CommitmentRows
  <2> QED BY <2>2, <2>3
<1>9. ASSUME RecoverCommitments PROVE Goal
  BY <1>0, <1>9 DEF RecoverCommitments, CommitmentRows
<1>10. ASSUME Crash \/ Restart \/ NextSupervisor \/ UNCHANGED vars PROVE Goal
  BY <1>1, <1>10 DEF Crash, Restart, NextSupervisor, rows, vars
<1> QED BY <1>5, <1>6, <1>7, <1>8, <1>9, <1>10 DEF Next

LEMMA AcceptedKept ==
    ASSUME TypeOK, \A w \in Worker : OfWorker(w), AcceptedOnTheResult, [Next]_vars
    PROVE  AcceptedOnTheResult'
<1>1. SUFFICES ASSUME NEW c \in Commitment, commitment'[c].state = "accepted"
               PROVE  \E w \in Worker : /\ w = commitment'[c].evidence /\ CommitmentOf[w] = c
                                        /\ Settled(w)'
  BY <1>1 DEF AcceptedOnTheResult, Settled
<1>2. CASE commitment[c].state = "accepted" /\ commitment'[c].evidence = commitment[c].evidence
  <2>1. PICK w \in Worker : w = commitment[c].evidence /\ CommitmentOf[w] = c /\ Settled(w)
    BY <1>2 DEF AcceptedOnTheResult, Settled
  <2>2. Settled(w)'
    BY <2>1, WorkersKept DEF Lasts
  <2> QED BY <1>2, <2>1, <2>2
<1> QED BY <1>1, <1>2, OnlyReportsAccept

-----------------------------------------------------------------------------
(* The theorems.                                                             *)

LEMMA TypesKept ==
    ASSUME TypeOK, \A w \in Worker : OfWorker(w), [Next]_vars PROVE TypeOK'
<1>1. ASSUME NEW w \in Worker, Native(w) \/ Settle(w) \/ Recover(w) PROVE TypeOK'
  <2>1. LaunchStep(w) /\ SettleStep(w)
    BY DEF OfWorker
  <2> QED BY <1>1, <2>1, NativeTyped, SettleTyped, RecoverTyped
<1>2. ASSUME NEW c \in Commitment,
             CancelCommitment(c) \/ HoldCommitment(c) \/ ResumeCommitment(c)
      PROVE  TypeOK'
  BY <1>2, OwnerTyped
<1>3. ASSUME UNCHANGED vars PROVE TypeOK'
  BY <1>3 DEF vars, TypeOK
<1> QED BY <1>1, <1>2, <1>3, RestartTyped DEF Next

LEMMA InitHolds == Init => IInv
<1> SUFFICES ASSUME Init PROVE IInv
  OBVIOUS
<1>1. TypeOK
  BY InitTyped
<1>2. ASSUME NEW w \in Worker PROVE OfWorker(w)
  BY <1>2 DEF Init, OfWorker, Intent, Checkout, LaunchStep, SettleStep, Verifying, Settling,
     Undispatched, EffectOpen
<1>3. RootIsExclusive
  BY DEF Init, RootIsExclusive, OpOpen, EffectOpen
<1>4. AcceptedOnTheResult
  BY DEF Init, AcceptedOnTheResult
<1> QED BY <1>1, <1>2, <1>3, <1>4 DEF IInv

LEMMA StepKeeps == IInv /\ [Next]_vars => IInv'
<1> SUFFICES ASSUME IInv, [Next]_vars PROVE IInv'
  OBVIOUS
<1>1. TypeOK' /\ \A w \in Worker : OfWorker(w)'
  BY TypesKept, WorkersKept DEF IInv
<1>2. RootIsExclusive' /\ AcceptedOnTheResult'
  BY RootKept, AcceptedKept DEF IInv
<1> QED BY <1>1, <1>2 DEF IInv

(* The inductive invariant holds in every state of every run.               *)
THEOREM Inductive == Spec => []IInv
BY InitHolds, StepKeeps, PTL DEF Spec

(* The rows, the memory of the host and the disk keep their types: blocking  *)
(* a checkout and unblocking it name a phase that there is.                  *)
THEOREM TypeCorrect == Spec => []TypeOK
<1>1. IInv => TypeOK
  BY DEF IInv
<1> QED BY <1>1, Inductive, PTL

(* A Worker's effect is dispatched once, and so is its Verification, however *)
(* often the host dies and whichever supervisor comes first.                 *)
THEOREM RunsOnce == Spec => []NothingRunsTwice
<1>1. IInv => NothingRunsTwice
  BY DEF IInv, OfWorker, Intent, SettleStep, NothingRunsTwice
<1> QED BY <1>1, Inductive, PTL

LEMMA ManagedWorkers == \A w \in Managed : w \in Worker
BY WorkerAssumption

(* A worktree with a proven result is removed only after the Target Project  *)
(* has its patch.                                                            *)
THEOREM ResultKept == Spec => []ResultIsKept
<1>1. IInv => ResultIsKept
  BY ManagedWorkers DEF IInv, OfWorker, Checkout, ResultIsKept
<1> QED BY <1>1, Inductive, PTL

(* One open effect at most on the Target Project's root, for any number of   *)
(* Workers in place and under managed checkouts.                             *)
THEOREM RootExclusive == Spec => []RootIsExclusive
<1>1. IInv => RootIsExclusive
  BY DEF IInv
<1> QED BY <1>1, Inductive, PTL

(* A Commitment is accepted on a Verification that passed over its own       *)
(* Worker's result, in the Target Project and no longer in its worktree.     *)
THEOREM Accepted == Spec => []AcceptedOnTheResult
<1>1. IInv => AcceptedOnTheResult
  BY DEF IInv
<1> QED BY <1>1, Inductive, PTL
-----------------------------------------------------------------------------
(* The queues of the supervisors, and the rows that are settled.  A second    *)
(* invariant says what the memory of the host means.                          *)

Serving == host = "up" \/ (host = "recovering" /\ turn > 0)

\* Nothing is under way before the first supervisor recovers.
Quiet == ~Serving => todo = {} /\ \A w \in Worker : step[w] = "none"

Queued(w) == \E h \in Harness : \E i \in 1..Len(queue[h]) : queue[h][i] = w

\* What settles is in a queue, what is in a queue settles, and behind its
\* first Worker it only waits.
InTurn == /\ \A w \in Worker : Settling(w) => Queued(w)
          /\ \A h \in Harness : \A i \in 1..Len(queue[h]) :
               /\ Settling(queue[h][i])
               /\ i > 1 => step[queue[h][i]] = "queued"

\* A Worker has one place in one queue.
OnePlace == \A g, h \in Harness : \A i \in 1..Len(queue[g]), j \in 1..Len(queue[h]) :
                queue[g][i] = queue[h][j] => g = h /\ i = j

Testing == \A w \in Worker : step[w] = "testing" => op[w] = "running"

HInv == Quiet /\ InTurn /\ OnePlace /\ Testing

\* What a step does to the queues: they are lost, w goes on or leaves, or w
\* joins the queue of a supervisor.
Clears   == queue' = [h \in Harness |-> <<>>] /\ \A v \in Worker : step'[v] = "none"
GoesOn(w) == /\ UNCHANGED queue
             /\ \A v \in Worker \ {w} : step'[v] = step[v]
             /\ Settling(w)' <=> Settling(w)
             /\ step[w] = "queued" => step'[w] = "queued" \/ IsNext(w)
Ended(w) == Leaves(w) /\ Settling(w) /\ (step[w] = "queued" => IsNext(w))
Joins(w) == /\ ~Settling(w)
            /\ step' = [step EXCEPT ![w] = "queued"]
            /\ \E h \in Harness : queue' = [queue EXCEPT ![h] = Append(@, w)]
Turns(w) == Clears \/ GoesOn(w) \/ Ended(w) \/ Joins(w)

LEMMA ForgetClears == Forget => Clears
BY DEF Forget, Clears

LEMMA ThrowsTurns ==
    ASSUME TypeOK, NEW w \in Worker, Throws(w), Settling(w), step[w] = "queued" => IsNext(w)
    PROVE  Turns(w)
BY ForgetClears DEF Throws, Turns, Ended

LEMMA ReturnsTurns ==
    ASSUME TypeOK, NEW w \in Worker, Returns(w), ~Settling(w) PROVE Turns(w)
<1>1. step'[w] = "none" /\ UNCHANGED queue /\ \A v \in Worker \ {w} : step'[v] = step[v]
  BY DEF Returns, TypeOK
<1> QED BY <1>1 DEF Turns, GoesOn, Settling, Verifying

LEMMA LaunchThrowsTurns ==
    ASSUME TypeOK, NEW w \in Worker, LaunchThrows(w), ~Settling(w) PROVE Turns(w)
BY ForgetClears, ReturnsTurns DEF LaunchThrows, Turns

\* A step of w that stays on its side of the queue.
LEMMA StepTurns ==
    ASSUME TypeOK, NEW w \in Worker, UNCHANGED queue,
           NEW n, step' = [step EXCEPT ![w] = n],
           \/ /\ ~Settling(w)
              /\ n \notin {"queued", "patching", "disposing", "discovering", "testing", "answered"}
           \/ /\ Settling(w) /\ (step[w] = "queued" => IsNext(w))
              /\ n \in {"patching", "disposing", "discovering", "testing", "answered"}
    PROVE  Turns(w)
<1>1. step'[w] = n /\ \A v \in Worker \ {w} : step'[v] = step[v]
  BY DEF TypeOK
<1> QED BY <1>1 DEF Turns, GoesOn, Settling, Verifying

LEMMA SameTurns ==
    ASSUME NEW w \in Worker, UNCHANGED <<step, queue>> PROVE Turns(w)
BY DEF Turns, GoesOn, Settling, Verifying

LEMMA LaunchClaimedTurns ==
    ASSUME TypeOK, NEW w \in Worker, LaunchClaimed(w), ~Settling(w) PROVE Turns(w)
<1>1. CASE work[w] = "starting"
  BY <1>1, StepTurns DEF LaunchClaimed
<1>2. CASE work[w] # "starting"
  BY <1>2, LaunchThrowsTurns DEF LaunchClaimed
<1> QED BY <1>1, <1>2

LEMMA DisposesRejectedTurns ==
    ASSUME TypeOK, NEW w \in Worker, NEW n \in {"rejecting", "failing"}, DisposesRejected(w, n),
           ~Settling(w)
    PROVE  Turns(w)
<1>1. CASE w \notin Managed
  BY <1>1, ReturnsTurns DEF DisposesRejected
<1>2. CASE w \in Managed /\ phase[w] \in {"preparing", "prepared"}
  BY <1>2, StepTurns DEF DisposesRejected
<1>3. CASE w \in Managed /\ phase[w] \notin {"preparing", "prepared"}
  BY <1>3, LaunchThrowsTurns DEF DisposesRejected
<1> QED BY <1>1, <1>2, <1>3

LEMMA VerifyTurns ==
    ASSUME TypeOK, NEW w \in Worker, Verify(w), Settling(w), step[w] = "queued" => IsNext(w)
    PROVE  Turns(w)
<1>1. CASE op[w] # "none"
  BY <1>1, StepTurns DEF Verify
<1>2. CASE op[w] = "none" /\ Unblocked(CommitmentOf[w])
  BY <1>2, StepTurns DEF Verify
<1>3. CASE op[w] = "none" /\ ~Unblocked(CommitmentOf[w])
  BY <1>3, ThrowsTurns DEF Verify
<1> QED BY <1>1, <1>2, <1>3

LEMMA LaunchTurns ==
    ASSUME TypeOK, NEW w \in Worker, Launch(w) PROVE Turns(w)
<1>1. ASSUME Prepare(w) \/ ProcessStarted(w) PROVE Turns(w)
  BY <1>1, SameTurns DEF Prepare, ProcessStarted, memory
<1> SUFFICES ASSUME ~(Prepare(w) \/ ProcessStarted(w)) PROVE Turns(w)
  BY <1>1
<1>2. step[w] \in {"starting", "preparing", "launching", "rejecting", "failing"}
  BY DEF Launch, Start, Prepared, RejectedDisposed, PreparationFails, Launched, LaunchFails,
         RejectedStays
<1>3. ~Settling(w)
  BY <1>2 DEF Settling, Verifying
<1>4. ASSUME Start(w) PROVE Turns(w)
  <2>1. CASE LaunchThrows(w)
    BY <1>3, <2>1, LaunchThrowsTurns
  <2>2. CASE step' = [step EXCEPT ![w] = "preparing"] /\ UNCHANGED queue
    BY <1>3, <2>2, StepTurns
  <2>3. CASE LaunchClaimed(w)
    BY <1>3, <2>3, LaunchClaimedTurns
  <2> QED BY <1>4, <2>1, <2>2, <2>3 DEF Start
<1>5. ASSUME Prepared(w) PROVE Turns(w)
  BY <1>3, <1>5, LaunchClaimedTurns DEF Prepared
<1>6. ASSUME RejectedDisposed(w) \/ \E b \in BOOLEAN : RejectedStays(w, b) PROVE Turns(w)
  <2>1. LaunchThrows(w) \/ Returns(w)
    BY <1>6 DEF RejectedDisposed, RejectedStays, AfterRejection
  <2> QED BY <1>3, <2>1, LaunchThrowsTurns, ReturnsTurns
<1>7. ASSUME NEW b \in BOOLEAN, PreparationFails(w, b) PROVE Turns(w)
  <2>1. LaunchThrows(w) \/ Returns(w) \/ DisposesRejected(w, "rejecting")
    BY <1>7 DEF PreparationFails
  <2> QED BY <1>3, <2>1, LaunchThrowsTurns, ReturnsTurns, DisposesRejectedTurns
<1>8. ASSUME NEW b \in BOOLEAN, Launched(w, b) PROVE Turns(w)
  <2>1. UNCHANGED queue /\ \E n \in {"none", "working"} : step' = [step EXCEPT ![w] = n]
    BY <1>8 DEF Launched
  <2> QED BY <1>3, <2>1, StepTurns
<1>9. ASSUME NEW b \in BOOLEAN, LaunchFails(w, b) PROVE Turns(w)
  <2>1. Returns(w) \/ DisposesRejected(w, "failing")
    BY <1>9 DEF LaunchFails
  <2> QED BY <1>3, <2>1, ReturnsTurns, DisposesRejectedTurns
<1> QED BY <1>4, <1>5, <1>6, <1>7, <1>8, <1>9 DEF Launch

LEMMA NativeTurns ==
    ASSUME TypeOK, NEW w \in Worker, Native(w), work[w] = "none" => ~Settling(w)
    PROVE  Turns(w)
<1>1. ASSUME Delegate(w) PROVE Turns(w)
  BY <1>1, StepTurns DEF Delegate
<1>2. ASSUME CancelWorker(w) PROVE Turns(w)
  BY <1>2, SameTurns DEF CancelWorker, memory
<1>3. ASSUME NEW b \in BOOLEAN, Finish(w, b) PROVE Turns(w)
  <2>1. ~Settling(w) /\ harness[w] \in Harness
    BY <1>3 DEF Finish, Settling, Verifying, TypeOK
  <2>2. CASE b
    BY <1>3, <2>1, <2>2 DEF Finish, Turns, Joins
  <2>3. CASE ~b
    BY <1>3, <2>1, <2>3, StepTurns DEF Finish
  <2> QED BY <2>2, <2>3
<1>4. ASSUME NEW b \in BOOLEAN, LoseContact(w, b) PROVE Turns(w)
  BY <1>4, StepTurns DEF LoseContact, Settling, Verifying
<1> QED BY <1>1, <1>2, <1>3, <1>4, LaunchTurns DEF Native

LEMMA SettleTurns ==
    ASSUME TypeOK, NEW w \in Worker, Settle(w) PROVE Turns(w)
<1>1. ASSUME Patch(w) \/ Remove(w) PROVE Turns(w)
  BY <1>1, SameTurns DEF Patch, Remove, memory
<1> SUFFICES ASSUME ~(Patch(w) \/ Remove(w)) PROVE Turns(w)
  BY <1>1
<1>2. Settling(w) /\ (step[w] = "queued" => IsNext(w))
  BY DEF Settle, Begin, Patched, Disposed, CheckoutFails, StartTask, RefuseTask, TaskThrows,
         EndTask, Report, Settling, Verifying
<1>3. ASSUME Begin(w) PROVE Turns(w)
  <2>1. CASE UNCHANGED queue /\ \E n \in {"patching", "disposing"} : step' = [step EXCEPT ![w] = n]
    BY <1>2, <2>1, StepTurns
  <2>2. CASE Verify(w)
    BY <1>2, <2>2, VerifyTurns
  <2> QED BY <1>3, <2>1, <2>2 DEF Begin
<1>4. ASSUME Patched(w) PROVE Turns(w)
  BY <1>2, <1>4, StepTurns DEF Patched
<1>5. ASSUME Disposed(w) PROVE Turns(w)
  BY <1>2, <1>5, VerifyTurns DEF Disposed
<1>6. ASSUME NEW b \in BOOLEAN, CheckoutFails(w, b) PROVE Turns(w)
  <2>1. Leaves(w) \/ Throws(w)
    BY <1>6 DEF CheckoutFails
  <2> QED BY <1>2, <2>1, ThrowsTurns DEF Turns, Ended
<1>7. ASSUME StartTask(w) \/ RefuseTask(w) \/ \E s \in {"succeeded", "failed"} : EndTask(w, s)
      PROVE Turns(w)
  <2>1. UNCHANGED queue /\ \E n \in {"testing", "answered"} : step' = [step EXCEPT ![w] = n]
    BY <1>7 DEF StartTask, RefuseTask, EndTask
  <2> QED BY <1>2, <2>1, StepTurns
<1>8. ASSUME TaskThrows(w) PROVE Turns(w)
  BY <1>2, <1>8, ThrowsTurns DEF TaskThrows
<1>9. ASSUME Report(w) PROVE Turns(w)
  <2>1. Leaves(w) \/ Throws(w)
    BY <1>9 DEF Report
  <2> QED BY <1>2, <2>1, ThrowsTurns DEF Turns, Ended
<1> QED BY <1>3, <1>4, <1>5, <1>6, <1>7, <1>8, <1>9 DEF Settle

LEMMA RecoverTurns ==
    ASSUME TypeOK, NEW w \in Worker, Recover(w) PROVE Turns(w)
<1>1. ASSUME RecoverTask(w) PROVE Turns(w)
  <2>1. UNCHANGED <<step, queue>> \/ Forget
    BY <1>1 DEF RecoverTask
  <2> QED BY <2>1, SameTurns, ForgetClears DEF Turns
<1> SUFFICES ASSUME ~RecoverTask(w) PROVE Turns(w)
  BY <1>1
<1>2. step[w] \in {"none", "working"}
  BY DEF Recover, ResumeSettlement, ResumeDisposal, ResumeLaunch, RecoverWorker, Visits, Awaited
<1>3. ~Settling(w)
  BY <1>2 DEF Settling, Verifying
<1>4. ASSUME ResumeSettlement(w) PROVE Turns(w)
  <2>1. Supervisor \in Harness
    BY <1>4, SupervisorTyped DEF ResumeSettlement
  <2> QED BY <1>3, <1>4, <2>1 DEF ResumeSettlement, Turns, Joins
<1>5. ASSUME ResumeDisposal(w) \/ ResumeLaunch(w) PROVE Turns(w)
  <2>1. UNCHANGED queue /\ \E n \in {"rejecting", "starting"} : step' = [step EXCEPT ![w] = n]
    BY <1>5 DEF ResumeDisposal, ResumeLaunch
  <2> QED BY <1>3, <2>1, StepTurns
<1>6. ASSUME NEW b \in BOOLEAN, RecoverWorker(w, b) PROVE Turns(w)
  <2>1. UNCHANGED <<step, queue>> \/ DisposesRejected(w, "rejecting") \/ Forget
    BY <1>6 DEF RecoverWorker
  <2> QED BY <1>3, <2>1, SameTurns, DisposesRejectedTurns, ForgetClears DEF Turns
<1> QED BY <1>4, <1>5, <1>6 DEF Recover

LEMMA StepsTurn ==
    ASSUME TypeOK, \A w \in Worker : OfWorker(w), [Next]_vars
    PROVE  Clears \/ UNCHANGED <<step, queue>> \/ \E w \in Worker : Turns(w)
<1>1. ASSUME NEW w \in Worker, Native(w) \/ Settle(w) \/ Recover(w) PROVE Turns(w)
  <2>1. work[w] = "none" => ~Settling(w)
    BY DEF OfWorker, Intent, SettleStep
  <2> QED BY <1>1, <2>1, NativeTurns, SettleTurns, RecoverTurns
<1>2. ASSUME NEW c \in Commitment,
             CancelCommitment(c) \/ HoldCommitment(c) \/ ResumeCommitment(c)
      PROVE  UNCHANGED <<step, queue>>
  BY <1>2 DEF CancelCommitment, HoldCommitment, ResumeCommitment, memory
<1>3. ASSUME Crash PROVE Clears
  BY <1>3, ForgetClears DEF Crash
<1>4. ASSUME Restart \/ RecoverCommitments \/ NextSupervisor \/ UNCHANGED vars
      PROVE UNCHANGED <<step, queue>>
  BY <1>4 DEF Restart, RecoverCommitments, NextSupervisor, vars
<1> QED BY <1>1, <1>2, <1>3, <1>4 DEF Next

LEMMA QueueTyped ==
    ASSUME TypeOK, NEW h \in Harness
    PROVE  /\ queue[h] \in Seq(Worker) /\ Len(queue[h]) \in Nat
           /\ \A i \in 1..Len(queue[h]) : queue[h][i] \in Worker
BY DEF TypeOK

LEMMA Sequences1 ==
    ASSUME NEW q \in Seq(Worker)
    PROVE  /\ q # <<>> => /\ Len(q) > 0 /\ Head(q) = q[1] /\ Len(Tail(q)) = Len(q) - 1
                          /\ \A i \in 1..Len(q) - 1 : Tail(q)[i] = q[i + 1]
           /\ Len(q) > 0 => q # <<>>
           /\ \A w \in Worker : /\ Len(Append(q, w)) = Len(q) + 1
                                /\ Append(q, w)[Len(q) + 1] = w
                                /\ \A i \in 1..Len(q) : Append(q, w)[i] = q[i]
OBVIOUS

LEMMA Place ==
    ASSUME OnePlace, NEW g \in Harness, NEW h \in Harness,
           NEW i \in 1..Len(queue[g]), NEW j \in 1..Len(queue[h]), queue[g][i] = queue[h][j]
    PROVE  g = h /\ i = j
<1>1. \A k, l \in Harness : \A m \in 1..Len(queue[k]), n \in 1..Len(queue[l]) :
        queue[k][m] = queue[l][n] => k = l /\ m = n
  BY DEF OnePlace
<1> QED BY <1>1

\* What the host puts aside leaves the rest of its queues as it is.
LEMMA EndedKeeps ==
    ASSUME TypeOK, InTurn, OnePlace, NEW w \in Worker, Ended(w)
    PROVE  InTurn' /\ OnePlace'
<1>1. PICK g \in Harness : Len(queue[g]) > 0 /\ queue[g][1] = w
  <2>1. CASE step[w] = "queued"
    BY <2>1, QueueTyped, Sequences1 DEF Ended, IsNext
  <2>2. CASE step[w] # "queued"
    <3>1. PICK h \in Harness : \E i \in 1..Len(queue[h]) : queue[h][i] = w
      BY DEF Ended, InTurn, Queued
    <3>2. PICK i \in 1..Len(queue[h]) : queue[h][i] = w
      BY <3>1
    <3>3. i = 1
      BY <2>2, <3>2, QueueTyped DEF InTurn
    <3> QED BY <3>2, <3>3, QueueTyped
  <2> QED BY <2>1, <2>2
<1>2. /\ queue'[g] = Tail(queue[g])
      /\ \A h \in Harness \ {g} : queue'[h] = queue[h]
  <2>1. queue[g] # <<>> /\ Head(queue[g]) = w
    BY <1>1, QueueTyped, Sequences1
  <2>2. ASSUME NEW h \in Harness \ {g} PROVE ~(queue[h] # <<>> /\ Head(queue[h]) = w)
    BY <1>1, QueueTyped, Sequences1 DEF OnePlace
  <2> QED BY <2>1, <2>2 DEF Ended, Leaves
<1>3. /\ Len(queue'[g]) = Len(queue[g]) - 1
      /\ \A i \in 1..Len(queue'[g]) : /\ queue'[g][i] = queue[g][i + 1]
                                      /\ i + 1 \in 1..Len(queue[g]) /\ i + 1 > 1
  BY <1>1, <1>2, QueueTyped, Sequences1
<1>4. step'[w] = "none" /\ \A v \in Worker \ {w} : step'[v] = step[v]
  BY DEF Ended, Leaves, TypeOK
<1>5. \A h \in Harness : \A i \in 1..Len(queue'[h]) :
        \E j \in 1..Len(queue[h]) : /\ queue'[h][i] = queue[h][j] /\ queue[h][j] # w
                                    /\ j >= i /\ (h = g => j = i + 1) /\ (h # g => j = i)
  <2> SUFFICES ASSUME NEW h \in Harness, NEW i \in 1..Len(queue'[h])
               PROVE  \E j \in 1..Len(queue[h]) :
                         /\ queue'[h][i] = queue[h][j] /\ queue[h][j] # w
                         /\ j >= i /\ (h = g => j = i + 1) /\ (h # g => j = i)
    OBVIOUS
  <2>1. CASE h = g
    BY <1>1, <1>3, <2>1, QueueTyped DEF OnePlace
  <2>2. CASE h # g
    BY <1>1, <1>2, <2>2, QueueTyped DEF OnePlace
  <2> QED BY <2>1, <2>2
<1>6. ASSUME NEW v \in Worker, Settling(v)' PROVE Queued(v)'
  <2>1. v # w /\ Settling(v)
    BY <1>4, <1>6 DEF Settling, Verifying
  <2>2. PICK h \in Harness : \E i \in 1..Len(queue[h]) : queue[h][i] = v
    BY <2>1 DEF InTurn, Queued
  <2>3. PICK i \in 1..Len(queue[h]) : queue[h][i] = v
    BY <2>2
  <2>4. CASE h = g
    <3>1. i - 1 \in 1..Len(queue'[g]) /\ queue'[g][i - 1] = v
      BY <1>1, <1>3, <2>1, <2>3, <2>4, QueueTyped
    <3> QED BY <3>1 DEF Queued
  <2>5. CASE h # g
    BY <1>2, <2>3, <2>5 DEF Queued
  <2> QED BY <2>4, <2>5
<1>7. InTurn'
  <2> SUFFICES ASSUME NEW h \in Harness, NEW i \in 1..Len(queue'[h])
               PROVE  \E v \in Worker : /\ v = queue'[h][i] /\ Settling(v)'
                                        /\ i > 1 => step'[v] = "queued"
    BY <1>6 DEF InTurn, Settling, Verifying
  <2>1. PICK j \in 1..Len(queue[h]) : queue'[h][i] = queue[h][j] /\ queue[h][j] # w /\ j >= i
    BY <1>5
  <2>2. PICK v \in Worker : v = queue[h][j]
    BY QueueTyped
  <2>3. Settling(v) /\ (j > 1 => step[v] = "queued") /\ step'[v] = step[v]
    BY <1>4, <2>1, <2>2 DEF InTurn
  <2>4. i \in Nat /\ j \in Nat /\ (i > 1 => j > 1)
    BY <1>5, <2>1, QueueTyped
  <2>5. Settling(v)' /\ (i > 1 => step'[v] = "queued")
    BY <2>3, <2>4 DEF Settling, Verifying
  <2> QED BY <2>1, <2>2, <2>5
<1>8. OnePlace'
  <2> SUFFICES ASSUME NEW h \in Harness, NEW k \in Harness,
                      NEW i \in 1..Len(queue'[h]), NEW j \in 1..Len(queue'[k]),
                      queue'[h][i] = queue'[k][j]
               PROVE  h = k /\ i = j
    BY DEF OnePlace
  <2>1. PICK m \in 1..Len(queue[h]) : /\ queue'[h][i] = queue[h][m]
                                      /\ (h = g => m = i + 1) /\ (h # g => m = i)
    BY <1>5
  <2>2. PICK n \in 1..Len(queue[k]) : /\ queue'[k][j] = queue[k][n]
                                      /\ (k = g => n = j + 1) /\ (k # g => n = j)
    BY <1>5
  <2>3. h = k /\ m = n
    <3>1. queue[h][m] = queue[k][n]
      BY <2>1, <2>2
    <3> QED BY <3>1, Place
  <2> QED BY <1>2, <1>3, <2>1, <2>2, <2>3, QueueTyped
<1> QED BY <1>7, <1>8

LEMMA JoinsKeeps ==
    ASSUME TypeOK, InTurn, OnePlace, NEW w \in Worker, Joins(w)
    PROVE  InTurn' /\ OnePlace'
<1>1. PICK g \in Harness : queue' = [queue EXCEPT ![g] = Append(@, w)]
  BY DEF Joins
<1>2. /\ queue'[g] = Append(queue[g], w)
      /\ \A h \in Harness \ {g} : queue'[h] = queue[h]
  BY <1>1 DEF TypeOK
<1>3. /\ Len(queue'[g]) = Len(queue[g]) + 1
      /\ queue'[g][Len(queue[g]) + 1] = w
      /\ \A i \in 1..Len(queue[g]) : queue'[g][i] = queue[g][i]
  BY <1>2, QueueTyped, Sequences1
<1>4. step'[w] = "queued" /\ \A v \in Worker \ {w} : step'[v] = step[v]
  BY DEF Joins, TypeOK
<1>5. \A h \in Harness : \A i \in 1..Len(queue'[h]) :
        \/ h = g /\ i = Len(queue[g]) + 1 /\ queue'[h][i] = w
        \/ i \in 1..Len(queue[h]) /\ queue'[h][i] = queue[h][i]
  <2>1. \A i \in 1..Len(queue'[g]) : i = Len(queue[g]) + 1 \/ i \in 1..Len(queue[g])
    BY <1>3, QueueTyped
  <2> QED BY <1>2, <1>3, <2>1
<1>6. \A h \in Harness : \A i \in 1..Len(queue[h]) :
        /\ queue[h][i] # w
        /\ i \in 1..Len(queue'[h]) /\ queue'[h][i] = queue[h][i]
  <2>1. \A h \in Harness : \A i \in 1..Len(queue[h]) : queue[h][i] # w
    BY DEF Joins, InTurn
  <2>2. \A i \in 1..Len(queue[g]) : i \in 1..Len(queue'[g])
    BY <1>3, QueueTyped
  <2> QED BY <1>2, <1>3, <2>1, <2>2
<1>7. InTurn'
  <2>1. ASSUME NEW v \in Worker, Settling(v)' PROVE Queued(v)'
    <3>1. CASE v = w
      BY <1>3, <3>1, QueueTyped DEF Queued
    <3>2. CASE v # w
      <4>1. Settling(v)
        BY <1>4, <2>1, <3>2 DEF Settling, Verifying
      <4>2. PICK h \in Harness : \E i \in 1..Len(queue[h]) : queue[h][i] = v
        BY <4>1 DEF InTurn, Queued
      <4> QED BY <1>6, <4>2 DEF Queued
    <3> QED BY <3>1, <3>2
  <2>2. ASSUME NEW h \in Harness, NEW i \in 1..Len(queue'[h])
        PROVE  \E v \in Worker : /\ v = queue'[h][i] /\ Settling(v)'
                                 /\ i > 1 => step'[v] = "queued"
    <3>1. CASE queue'[h][i] = w
      BY <1>4, <3>1 DEF Settling, Verifying
    <3>2. CASE queue'[h][i] # w
      <4>1. i \in 1..Len(queue[h]) /\ queue'[h][i] = queue[h][i]
        BY <1>5, <3>2
      <4>2. PICK v \in Worker : v = queue[h][i]
        BY <4>1, QueueTyped
      <4>3. Settling(v) /\ (i > 1 => step[v] = "queued") /\ step'[v] = step[v]
        BY <1>4, <3>2, <4>1, <4>2 DEF InTurn
      <4>4. Settling(v)' /\ (i > 1 => step'[v] = "queued")
        BY <4>3 DEF Settling, Verifying
      <4> QED BY <4>1, <4>2, <4>4
    <3> QED BY <3>1, <3>2
  <2> QED BY <2>1, <2>2 DEF InTurn, Settling, Verifying
<1>8. OnePlace'
  <2> SUFFICES ASSUME NEW h \in Harness, NEW k \in Harness,
                      NEW i \in 1..Len(queue'[h]), NEW j \in 1..Len(queue'[k]),
                      queue'[h][i] = queue'[k][j]
               PROVE  h = k /\ i = j
    BY DEF OnePlace
  <2>1. CASE queue'[h][i] = w
    <3>1. h = g /\ i = Len(queue[g]) + 1
      BY <1>5, <1>6, <2>1
    <3>2. k = g /\ j = Len(queue[g]) + 1
      <4>1. queue'[k][j] = w
        BY <2>1
      <4> HIDE <2>1
      <4> QED BY <1>5, <1>6, <4>1
    <3> QED BY <3>1, <3>2
  <2>2. CASE queue'[h][i] # w
    <3>1. i \in 1..Len(queue[h]) /\ queue'[h][i] = queue[h][i]
      BY <1>5, <2>2
    <3>2. j \in 1..Len(queue[k]) /\ queue'[k][j] = queue[k][j]
      BY <1>5, <2>2
    <3>3. queue[h][i] = queue[k][j]
      BY <3>1, <3>2
    <3> QED BY <3>1, <3>2, <3>3, Place
  <2> QED BY <2>1, <2>2
<1> QED BY <1>7, <1>8

LEMMA GoesOnKeeps ==
    ASSUME TypeOK, InTurn, OnePlace, NEW w \in Worker, GoesOn(w)
    PROVE  InTurn' /\ OnePlace'
<1>1. UNCHANGED queue /\ \A v \in Worker : Settling(v)' <=> Settling(v)
  BY DEF GoesOn, Settling, Verifying
<1>2. OnePlace'
  BY <1>1 DEF OnePlace
<1>3. \A v \in Worker : Settling(v)' => Queued(v)'
  BY <1>1 DEF InTurn, Queued
<1>4. ASSUME NEW h \in Harness, NEW i \in 1..Len(queue[h])
      PROVE  \E v \in Worker : /\ v = queue[h][i] /\ Settling(v)'
                               /\ i > 1 => step'[v] = "queued"
  <2>1. PICK v \in Worker : v = queue[h][i]
    BY QueueTyped
  <2>2. Settling(v) /\ (i > 1 => step[v] = "queued")
    BY <2>1 DEF InTurn
  <2>3. ASSUME i > 1 PROVE step'[v] = "queued"
    <3>1. CASE v # w
      BY <2>2, <2>3, <3>1 DEF GoesOn
    <3>2. CASE v = w
      <4>1. ~IsNext(w)
        <5>1. SUFFICES ASSUME NEW g \in Harness, queue[g] # <<>>, Head(queue[g]) = w PROVE FALSE
          BY DEF IsNext
        <5>2. Len(queue[g]) > 0 /\ queue[g][1] = w
          BY <5>1, QueueTyped, Sequences1
        <5>3. 1 \in 1..Len(queue[g]) /\ i # 1
          BY <2>3, <5>2, QueueTyped
        <5>4. queue[g][1] = queue[h][i]
          BY <2>1, <3>2, <5>2
        <5>5. 1 = i
          BY <5>3, <5>4, Place
        <5> QED BY <5>3, <5>5
      <4> QED BY <2>2, <2>3, <3>2, <4>1 DEF GoesOn
    <3> QED BY <3>1, <3>2
  <2>4. Settling(v)'
    BY <1>1, <2>2
  <2> QED BY <1>1, <2>1, <2>3, <2>4
<1> QED BY <1>1, <1>2, <1>3, <1>4 DEF InTurn, Settling, Verifying

LEMMA QueuesKept ==
    ASSUME TypeOK, \A w \in Worker : OfWorker(w), InTurn, OnePlace, [Next]_vars
    PROVE  InTurn' /\ OnePlace'
<1>1. ASSUME Clears PROVE InTurn' /\ OnePlace'
  <2>1. \A h \in Harness : queue'[h] = <<>>
    BY <1>1 DEF Clears
  <2>2. \A h \in Harness : 1..Len(queue'[h]) = {}
    BY <2>1
  <2>3. \A v \in Worker : ~Settling(v)'
    BY <1>1 DEF Clears, Settling, Verifying
  <2> QED BY <2>2, <2>3 DEF InTurn, OnePlace
<1>2. ASSUME UNCHANGED <<step, queue>> PROVE InTurn' /\ OnePlace'
  BY <1>2 DEF InTurn, OnePlace, Queued, Settling, Verifying
<1>3. ASSUME NEW w \in Worker, Turns(w) PROVE InTurn' /\ OnePlace'
  BY <1>1, <1>3, EndedKeeps, JoinsKeeps, GoesOnKeeps DEF Turns
<1> QED BY <1>1, <1>2, <1>3, StepsTurn

\* A step of w leaves the host as it is, or the host dies.
HostStays(w) == \/ Forget
                \/ UNCHANGED <<host, turn>> /\ (Serving \/ UNCHANGED <<step, todo>>)

LEMMA ThrowHost ==
    ASSUME NEW w \in Worker, Throws(w) \/ LaunchThrows(w) \/ Returns(w) \/ LaunchClaimed(w) \/ Verify(w)
    PROVE  Forget \/ UNCHANGED <<host, turn>>
BY DEF Throws, LaunchThrows, Returns, LaunchClaimed, Verify

LEMMA DisposeHost ==
    ASSUME NEW w \in Worker, NEW n \in {"rejecting", "failing"}, DisposesRejected(w, n)
    PROVE  Forget \/ UNCHANGED <<host, turn>>
BY ThrowHost DEF DisposesRejected

LEMMA LaunchHost ==
    ASSUME Quiet, NEW w \in Worker, Launch(w) PROVE HostStays(w)
<1>1. Serving
  <2>1. Live /\ step[w] # "none"
    BY DEF Launch, Start, Prepare, Prepared, ProcessStarted, RejectedDisposed, PreparationFails,
           Launched, LaunchFails, RejectedStays
  <2> QED BY <2>1 DEF Quiet, Live
<1>2. Forget \/ UNCHANGED <<host, turn>>
  <2>1. ASSUME Start(w) PROVE Forget \/ UNCHANGED <<host, turn>>
    BY <2>1, ThrowHost DEF Start
  <2>2. ASSUME Prepare(w) \/ ProcessStarted(w) PROVE UNCHANGED <<host, turn>>
    BY <2>2 DEF Prepare, ProcessStarted, memory
  <2>3. ASSUME Prepared(w) PROVE Forget \/ UNCHANGED <<host, turn>>
    BY <2>3, ThrowHost DEF Prepared
  <2>4. ASSUME RejectedDisposed(w) PROVE Forget \/ UNCHANGED <<host, turn>>
    BY <2>4, ThrowHost DEF RejectedDisposed, AfterRejection
  <2>5. ASSUME NEW b \in BOOLEAN, PreparationFails(w, b) PROVE Forget \/ UNCHANGED <<host, turn>>
    BY <2>5, ThrowHost, DisposeHost DEF PreparationFails
  <2>6. ASSUME NEW b \in BOOLEAN, Launched(w, b) PROVE UNCHANGED <<host, turn>>
    BY <2>6 DEF Launched
  <2>7. ASSUME NEW b \in BOOLEAN, LaunchFails(w, b) PROVE Forget \/ UNCHANGED <<host, turn>>
    BY <2>7, ThrowHost, DisposeHost DEF LaunchFails
  <2>8. ASSUME NEW b \in BOOLEAN, RejectedStays(w, b) PROVE Forget \/ UNCHANGED <<host, turn>>
    BY <2>8, ThrowHost DEF RejectedStays, AfterRejection
  <2> QED BY <2>1, <2>2, <2>3, <2>4, <2>5, <2>6, <2>7, <2>8 DEF Launch
<1> QED BY <1>1, <1>2 DEF HostStays

LEMMA SettleHost ==
    ASSUME Quiet, NEW w \in Worker, Settle(w) PROVE HostStays(w)
<1>1. Serving
  <2>1. Live /\ step[w] # "none"
    BY DEF Settle, Begin, Patch, Patched, Remove, Disposed, CheckoutFails, StartTask, RefuseTask,
           TaskThrows, EndTask, Report
  <2> QED BY <2>1 DEF Quiet, Live
<1>2. Forget \/ UNCHANGED <<host, turn>>
  <2>1. ASSUME Begin(w) \/ Disposed(w) PROVE Forget \/ UNCHANGED <<host, turn>>
    BY <2>1, ThrowHost DEF Begin, Disposed
  <2>2. ASSUME Patch(w) \/ Remove(w) \/ Patched(w) PROVE UNCHANGED <<host, turn>>
    BY <2>2 DEF Patch, Remove, Patched, memory
  <2>3. ASSUME NEW b \in BOOLEAN, CheckoutFails(w, b) PROVE Forget \/ UNCHANGED <<host, turn>>
    BY <2>3, ThrowHost DEF CheckoutFails
  <2>4. ASSUME StartTask(w) \/ RefuseTask(w) \/ \E s \in {"succeeded", "failed"} : EndTask(w, s)
        PROVE  UNCHANGED <<host, turn>>
    BY <2>4 DEF StartTask, RefuseTask, EndTask
  <2>5. ASSUME TaskThrows(w) \/ Report(w) PROVE Forget \/ UNCHANGED <<host, turn>>
    BY <2>5, ThrowHost DEF TaskThrows, Report
  <2> QED BY <2>1, <2>2, <2>3, <2>4, <2>5 DEF Settle
<1> QED BY <1>1, <1>2 DEF HostStays

LEMMA RecoverHost ==
    ASSUME Quiet, NEW w \in Worker, Recover(w) PROVE HostStays(w)
<1>1. ASSUME RecoverTask(w) PROVE HostStays(w)
  BY <1>1 DEF RecoverTask, HostStays
<1>2. ASSUME ResumeSettlement(w) \/ ResumeDisposal(w) PROVE HostStays(w)
  BY <1>2 DEF ResumeSettlement, ResumeDisposal, HostStays, Serving
<1>3. ASSUME ResumeLaunch(w) PROVE HostStays(w)
  BY <1>3 DEF ResumeLaunch, Visits, Quiet, HostStays
<1>4. ASSUME NEW b \in BOOLEAN, RecoverWorker(w, b) PROVE HostStays(w)
  <2>1. Serving
    BY <1>4 DEF RecoverWorker, Visits, Quiet
  <2>2. Forget \/ UNCHANGED <<host, turn>>
    BY <1>4, DisposeHost DEF RecoverWorker
  <2> QED BY <2>1, <2>2 DEF HostStays
<1> QED BY <1>1, <1>2, <1>3, <1>4 DEF Recover

LEMMA QuietKept ==
    ASSUME TypeOK, Quiet, [Next]_vars PROVE Quiet'
<1>1. ASSUME NEW w \in Worker, HostStays(w) PROVE Quiet'
  BY <1>1 DEF HostStays, Forget, Quiet, Serving
<1>2. ASSUME NEW w \in Worker, Native(w) PROVE HostStays(w)
  <2>1. CASE Launch(w)
    BY <2>1, LaunchHost
  <2>2. CASE ~Launch(w)
    BY <1>2, <2>2 DEF Native, Delegate, CancelWorker, Finish, LoseContact, memory, HostStays, Serving
  <2> QED BY <2>1, <2>2
<1>3. ASSUME NEW w \in Worker, Settle(w) \/ Recover(w) PROVE HostStays(w)
  BY <1>3, SettleHost, RecoverHost
<1>4. ASSUME NEW c \in Commitment,
             CancelCommitment(c) \/ HoldCommitment(c) \/ ResumeCommitment(c)
      PROVE  UNCHANGED memory
  BY <1>4 DEF CancelCommitment, HoldCommitment, ResumeCommitment
<1>5. ASSUME UNCHANGED memory PROVE Quiet'
  BY <1>5 DEF memory, Quiet, Serving
<1>6. ASSUME Crash PROVE Quiet'
  BY <1>6 DEF Crash, Forget, Quiet, Serving
<1>7. ASSUME Restart PROVE Quiet'
  BY <1>7 DEF Restart, Quiet, Serving
<1>8. ASSUME RecoverCommitments \/ NextSupervisor PROVE Quiet'
  <2>1. turn \in Nat
    BY Supervisors DEF TypeOK
  <2> QED BY <1>8, <2>1 DEF RecoverCommitments, NextSupervisor, Quiet, Serving
<1> QED BY <1>1, <1>2, <1>3, <1>4, <1>5, <1>6, <1>7, <1>8 DEF Next, vars, memory

-----------------------------------------------------------------------------
(* What is settled stays so.                                                 *)

\* The status of a Verification changes where it is under way, a Task is
\* started where there is none, and recovery finds no Task under way.
LEMMA OpChanges ==
    ASSUME TypeOK, \A w \in Worker : OfWorker(w), [Next]_vars
    PROVE  \/ UNCHANGED op
           \/ \E w \in Worker :
                /\ \A v \in Worker \ {w} : op'[v] = op[v] /\ step'[v] \in {step[v], "none"}
                /\ \/ step[w] = "discovering" /\ op[w] = "none"
                      /\ ((step'[w] = "testing" /\ op'[w] = "running") \/ step'[w] = "answered")
                   \/ step[w] = "testing" /\ step'[w] = "answered"
                   \/ /\ host = "recovering" /\ turn = 0 /\ op[w] = "running"
                      /\ step'[w] \in {step[w], "none"}
<1> DEFINE Change(w) ==
      /\ \A v \in Worker \ {w} : op'[v] = op[v] /\ step'[v] \in {step[v], "none"}
      /\ \/ step[w] = "discovering" /\ op[w] = "none"
            /\ ((step'[w] = "testing" /\ op'[w] = "running") \/ step'[w] = "answered")
         \/ step[w] = "testing" /\ step'[w] = "answered"
         \/ /\ host = "recovering" /\ turn = 0 /\ op[w] = "running"
            /\ step'[w] \in {step[w], "none"}
<1>1. ASSUME NEW w \in Worker, Native(w) PROVE UNCHANGED op
  BY <1>1 DEF Native, Delegate, CancelWorker, Finish, LoseContact, Launch, Start, Prepare, Prepared,
     ProcessStarted, RejectedDisposed, PreparationFails, Launched, LaunchFails, RejectedStays, rows
<1>2. ASSUME NEW w \in Worker, StartTask(w) \/ RefuseTask(w) PROVE Change(w)
  <2>1. step[w] = "discovering" /\ op[w] = "none"
    BY <1>2 DEF StartTask, RefuseTask, OfWorker, SettleStep
  <2>2. CASE StartTask(w)
    BY <2>1, <2>2 DEF StartTask, TypeOK
  <2>3. CASE RefuseTask(w)
    BY <2>1, <2>3 DEF RefuseTask, TypeOK
  <2> QED BY <1>2, <2>2, <2>3
<1>3. ASSUME NEW w \in Worker, NEW s \in {"succeeded", "failed"}, EndTask(w, s) PROVE Change(w)
  BY <1>3 DEF EndTask, TypeOK
<1>4. ASSUME NEW w \in Worker, RecoverTask(w) PROVE Change(w)
  <2>1. \A v \in Worker : step'[v] \in {step[v], "none"}
    BY <1>4, ForgetStill DEF RecoverTask
  <2> QED BY <1>4, <2>1 DEF RecoverTask, TypeOK
<1>5. ASSUME NEW w \in Worker, Settle(w),
             ~(StartTask(w) \/ RefuseTask(w) \/ \E s \in {"succeeded", "failed"} : EndTask(w, s))
      PROVE  UNCHANGED op
  BY <1>5 DEF Settle, Begin, Patch, Patched, Remove, Disposed, CheckoutFails, TaskThrows, Report, rows
<1>6. ASSUME NEW w \in Worker, Recover(w), ~RecoverTask(w) PROVE UNCHANGED op
  BY <1>6 DEF Recover, ResumeSettlement, ResumeDisposal, ResumeLaunch, RecoverWorker, rows
<1>7. ASSUME NEW c \in Commitment,
             CancelCommitment(c) \/ HoldCommitment(c) \/ ResumeCommitment(c)
      PROVE  UNCHANGED op
  BY <1>7 DEF CancelCommitment, HoldCommitment, ResumeCommitment
<1>8. ASSUME Crash \/ Restart \/ RecoverCommitments \/ NextSupervisor \/ UNCHANGED vars
      PROVE  UNCHANGED op
  BY <1>8 DEF Crash, Restart, RecoverCommitments, NextSupervisor, rows, vars
<1> QED BY <1>1, <1>2, <1>3, <1>4, <1>5, <1>6, <1>7, <1>8 DEF Next

\* A step of w, or the death of the host, that starts no Task.
NoTest(w) == \/ UNCHANGED step \/ Forget
             \/ \E n \in Steps \ {"testing"} : step' = [step EXCEPT ![w] = n]

LEMMA ReturnsNoTest ==
    ASSUME NEW w \in Worker,
           Throws(w) \/ Leaves(w) \/ LaunchThrows(w) \/ Returns(w) \/ LaunchClaimed(w) \/ Verify(w)
    PROVE  NoTest(w)
<1>1. ASSUME LaunchThrows(w) \/ Returns(w) PROVE NoTest(w)
  BY <1>1 DEF LaunchThrows, Returns, NoTest, Steps
<1>2. ASSUME Throws(w) \/ Leaves(w) PROVE NoTest(w)
  BY <1>2 DEF Throws, Leaves, NoTest, Steps
<1>3. ASSUME LaunchClaimed(w) PROVE NoTest(w)
  <2>1. CASE work[w] = "starting"
    BY <1>3, <2>1 DEF LaunchClaimed, NoTest, Steps
  <2>2. CASE work[w] # "starting"
    BY <1>1, <1>3, <2>2 DEF LaunchClaimed
  <2> QED BY <2>1, <2>2
<1>4. ASSUME Verify(w) PROVE NoTest(w)
  <2>1. CASE op[w] # "none" \/ Unblocked(CommitmentOf[w])
    BY <1>4, <2>1 DEF Verify, NoTest, Steps
  <2>2. CASE op[w] = "none" /\ ~Unblocked(CommitmentOf[w])
    BY <1>2, <1>4, <2>2 DEF Verify
  <2> QED BY <2>1, <2>2
<1> QED BY <1>1, <1>2, <1>3, <1>4

LEMMA DisposesNoTest ==
    ASSUME NEW w \in Worker, NEW n \in {"rejecting", "failing"}, DisposesRejected(w, n)
    PROVE  NoTest(w)
<1>1. CASE UNCHANGED phase
  BY <1>1, ReturnsNoTest DEF DisposesRejected, NoTest, Steps
<1>2. CASE step' = [step EXCEPT ![w] = n]
  BY <1>2 DEF NoTest, Steps
<1> QED BY <1>1, <1>2 DEF DisposesRejected

LEMMA LaunchNoTest ==
    ASSUME NEW w \in Worker, Launch(w) PROVE NoTest(w)
<1>1. ASSUME Start(w) PROVE NoTest(w)
  <2>1. CASE LaunchThrows(w) \/ LaunchClaimed(w)
    BY <2>1, ReturnsNoTest
  <2>2. CASE step' = [step EXCEPT ![w] = "preparing"]
    BY <2>2 DEF NoTest, Steps
  <2> QED BY <1>1, <2>1, <2>2 DEF Start
<1>2. ASSUME Prepare(w) \/ ProcessStarted(w) PROVE NoTest(w)
  BY <1>2 DEF Prepare, ProcessStarted, memory, NoTest
<1>3. ASSUME Prepared(w) PROVE NoTest(w)
  BY <1>3, ReturnsNoTest DEF Prepared
<1>4. ASSUME RejectedDisposed(w) \/ \E b \in BOOLEAN : RejectedStays(w, b) PROVE NoTest(w)
  <2>1. LaunchThrows(w) \/ Returns(w)
    BY <1>4 DEF RejectedDisposed, RejectedStays, AfterRejection
  <2> QED BY <2>1, ReturnsNoTest
<1>5. ASSUME NEW b \in BOOLEAN, PreparationFails(w, b) PROVE NoTest(w)
  <2>1. LaunchThrows(w) \/ Returns(w) \/ DisposesRejected(w, "rejecting")
    BY <1>5 DEF PreparationFails
  <2> QED BY <2>1, ReturnsNoTest, DisposesNoTest
<1>6. ASSUME NEW b \in BOOLEAN, Launched(w, b) PROVE NoTest(w)
  <2>1. \E n \in {"none", "working"} : step' = [step EXCEPT ![w] = n]
    BY <1>6 DEF Launched
  <2> QED BY <2>1 DEF NoTest, Steps
<1>7. ASSUME NEW b \in BOOLEAN, LaunchFails(w, b) PROVE NoTest(w)
  <2>1. Returns(w) \/ DisposesRejected(w, "failing")
    BY <1>7 DEF LaunchFails
  <2> QED BY <2>1, ReturnsNoTest, DisposesNoTest
<1> QED BY <1>1, <1>2, <1>3, <1>4, <1>5, <1>6, <1>7 DEF Launch

LEMMA OthersNoTest ==
    ASSUME NEW w \in Worker, Native(w) \/ Settle(w) \/ Recover(w), ~StartTask(w) PROVE NoTest(w)
<1>1. ASSUME Native(w), ~Launch(w) PROVE NoTest(w)
  <2>1. \/ UNCHANGED step
        \/ \E n \in {"starting", "queued", "none"} : step' = [step EXCEPT ![w] = n]
    BY <1>1 DEF Native, Delegate, CancelWorker, Finish, LoseContact, memory
  <2> QED BY <2>1 DEF NoTest, Steps
<1>2. ASSUME Settle(w) PROVE NoTest(w)
  <2>1. \/ Throws(w) \/ Leaves(w) \/ Verify(w) \/ UNCHANGED step
        \/ \E n \in {"patching", "disposing", "answered"} : step' = [step EXCEPT ![w] = n]
    BY <1>2 DEF Settle, Begin, Patch, Patched, Remove, Disposed, CheckoutFails, RefuseTask,
       TaskThrows, EndTask, Report, memory
  <2> QED BY <2>1, ReturnsNoTest DEF NoTest, Steps
<1>3. ASSUME Recover(w) PROVE NoTest(w)
  <2>1. \/ DisposesRejected(w, "rejecting") \/ Forget \/ UNCHANGED step
        \/ \E n \in {"queued", "rejecting", "starting"} : step' = [step EXCEPT ![w] = n]
    BY <1>3 DEF Recover, RecoverTask, ResumeSettlement, ResumeDisposal, ResumeLaunch, RecoverWorker
  <2> QED BY <2>1, DisposesNoTest DEF NoTest, Steps
<1> QED BY <1>1, <1>2, <1>3, LaunchNoTest

LEMMA TestingKept ==
    ASSUME TypeOK, \A w \in Worker : OfWorker(w), Quiet, Testing, [Next]_vars PROVE Testing'
<1>1. CASE UNCHANGED op
  <2>1. ASSUME NEW w \in Worker PROVE ~StartTask(w)
    BY <1>1 DEF OfWorker, SettleStep, StartTask, TypeOK
  <2>2. ASSUME NEW w \in Worker, NoTest(w)
        PROVE  \A v \in Worker : step'[v] = "testing" => step[v] = "testing"
    BY <2>2 DEF NoTest, Forget, TypeOK
  <2>3. \/ UNCHANGED step \/ Forget \/ \E w \in Worker : NoTest(w)
    <3>1. ASSUME NEW w \in Worker, Native(w) \/ Settle(w) \/ Recover(w) PROVE NoTest(w)
      BY <2>1, <3>1, OthersNoTest
    <3>2. ASSUME NEW c \in Commitment,
                 CancelCommitment(c) \/ HoldCommitment(c) \/ ResumeCommitment(c)
          PROVE  UNCHANGED step
      BY <3>2 DEF CancelCommitment, HoldCommitment, ResumeCommitment, memory
    <3>3. ASSUME Crash PROVE Forget
      BY <3>3 DEF Crash
    <3>4. ASSUME Restart \/ RecoverCommitments \/ NextSupervisor \/ UNCHANGED vars PROVE UNCHANGED step
      BY <3>4 DEF Restart, RecoverCommitments, NextSupervisor, vars
    <3> QED BY <3>1, <3>2, <3>3, <3>4 DEF Next
  <2>4. \A v \in Worker : step'[v] = "testing" => step[v] = "testing"
    BY <2>2, <2>3 DEF Forget
  <2> QED BY <1>1, <2>4 DEF Testing
<1>2. ASSUME NEW w \in Worker,
             \A v \in Worker \ {w} : op'[v] = op[v] /\ step'[v] \in {step[v], "none"},
             \/ step'[w] = "testing" /\ op'[w] = "running"
             \/ step'[w] # "testing"
      PROVE  Testing'
  BY <1>2 DEF Testing
<1>3. ASSUME NEW w \in Worker, host = "recovering", turn = 0, step'[w] \in {step[w], "none"}
      PROVE  step'[w] # "testing"
  BY <1>3 DEF Quiet, Serving
<1> QED BY <1>1, <1>2, <1>3, OpChanges

LEMMA HostHolds == Init => HInv
<1> SUFFICES ASSUME Init PROVE HInv
  OBVIOUS
<1>1. \A h \in Harness : 1..Len(queue[h]) = {}
  BY DEF Init
<1>2. \A w \in Worker : step[w] = "none"
  BY DEF Init
<1>3. Quiet /\ Testing
  BY <1>2 DEF Init, Quiet, Testing
<1>4. InTurn /\ OnePlace
  BY <1>1, <1>2 DEF InTurn, OnePlace, Settling, Verifying
<1> QED BY <1>3, <1>4 DEF HInv

(* The second invariant holds in every state too.                           *)
THEOREM HostInductive == Spec => []HInv
<1>1. IInv /\ HInv /\ [Next]_vars => HInv'
  BY QueuesKept, QuietKept, TestingKept DEF IInv, HInv
<1> QED BY <1>1, HostHolds, Inductive, PTL DEF Spec

(* enqueueSettlement: what settles is in the queue of exactly one            *)
(* supervisor, in one place, and a settlement is under way only at the head  *)
(* of its queue: none is lost between its queue and its end, none is queued  *)
(* twice and none overtakes, whichever settlement before it throws.          *)
SettlementsAreInTurn ==
    /\ \A w \in Worker : Settling(w) <=> Queued(w)
    /\ \A w \in Worker : Settling(w) /\ step[w] # "queued" =>
         \E h \in Harness : queue[h] # <<>> /\ Head(queue[h]) = w
    /\ OnePlace

\* The queues of the supervisors, over throwing settlements and restarts, for any
\* number of Workers and harnesses.
THEOREM InTheirTurn == Spec => []SettlementsAreInTurn
<1>1. IInv /\ HInv => SettlementsAreInTurn
  <2> SUFFICES ASSUME IInv, HInv PROVE SettlementsAreInTurn
    OBVIOUS
  <2>1. TypeOK /\ InTurn /\ OnePlace
    BY DEF IInv, HInv
  <2>2. ASSUME NEW w \in Worker, Queued(w) PROVE Settling(w)
    BY <2>1, <2>2 DEF Queued, InTurn
  <2>3. ASSUME NEW w \in Worker, Settling(w), step[w] # "queued"
        PROVE  \E h \in Harness : queue[h] # <<>> /\ Head(queue[h]) = w
    <3>1. PICK h \in Harness : \E i \in 1..Len(queue[h]) : queue[h][i] = w
      BY <2>1, <2>3 DEF InTurn, Queued
    <3>2. PICK i \in 1..Len(queue[h]) : queue[h][i] = w
      BY <3>1
    <3>3. i = 1 /\ Len(queue[h]) > 0
      BY <2>1, <2>3, <3>2, QueueTyped DEF InTurn
    <3> QED BY <2>1, <3>2, <3>3, QueueTyped, Sequences1
  <2> QED BY <2>1, <2>2, <2>3 DEF SettlementsAreInTurn, InTurn
<1> QED BY <1>1, Inductive, HostInductive, PTL

-----------------------------------------------------------------------------
(* Settled rows stand.                                                       *)

Certain == {"succeeded", "rejected"}
Fixed(w) == effect[w] \in Certain => effect'[w] = effect[w]

LEMMA OpenEnds ==
    ASSUME TypeOK, NEW w \in Worker, effect[w] \notin Certain,
           \A v \in Worker \ {w} : effect'[v] = effect[v]
    PROVE  \A v \in Worker : Fixed(v)
BY DEF Fixed

LEMMA EndsOthers ==
    ASSUME TypeOK, NEW w \in Worker, Rejected(w) \/ Uncertain(w) \/ PreparationClaimed(w)
    PROVE  \A v \in Worker \ {w} : effect'[v] = effect[v]
BY DEF Rejected, Uncertain, WorkerBecomes, PreparationClaimed, TypeOK

LEMMA EffectsFixed ==
    ASSUME TypeOK, \A w \in Worker : OfWorker(w), [Next]_vars
    PROVE  \A w \in Worker : Fixed(w)
<1> DEFINE AllFixed == \A w \in Worker : Fixed(w)
<1>1. ASSUME UNCHANGED effect PROVE AllFixed
  BY <1>1 DEF Fixed
<1>2. ASSUME NEW w \in Worker, Launch(w) PROVE AllFixed
  <2>1. step[w] \in {"starting", "preparing", "launching"} => effect[w] \notin Certain
    BY DEF OfWorker, LaunchStep, Undispatched, Certain
  <2>2. ASSUME Start(w) PROVE AllFixed
    BY <1>1, <2>1, <2>2, OpenEnds, EndsOthers DEF Start
  <2>3. ASSUME Prepare(w) \/ Prepared(w) \/ ProcessStarted(w) \/ RejectedDisposed(w)
               \/ \E b \in BOOLEAN : RejectedStays(w, b)
        PROVE  AllFixed
    BY <1>1, <2>3 DEF Prepare, Prepared, ProcessStarted, RejectedDisposed, RejectedStays, rows
  <2>4. ASSUME NEW b \in BOOLEAN, PreparationFails(w, b) PROVE AllFixed
    BY <1>1, <2>1, <2>4, OpenEnds, EndsOthers DEF PreparationFails
  <2>5. ASSUME NEW b \in BOOLEAN, Launched(w, b) PROVE AllFixed
    <3>1. \A v \in Worker \ {w} : effect'[v] = effect[v]
      BY <2>5, EndsOthers DEF Launched, WorkerBecomes, TypeOK
    <3>2. effect[w] \notin Certain
      BY <2>1, <2>5 DEF Launched
    <3> QED BY <3>1, <3>2, OpenEnds
  <2>6. ASSUME NEW b \in BOOLEAN, LaunchFails(w, b) PROVE AllFixed
    <3>1. effect[w] \notin Certain
      BY <2>1, <2>6 DEF LaunchFails
    <3>2. Ends(w) \/ UNCHANGED effect
      BY <2>6 DEF LaunchFails
    <3> QED BY <1>1, <3>1, <3>2, OpenEnds, EndsOthers DEF Ends
  <2> QED BY <1>2, <2>2, <2>3, <2>4, <2>5, <2>6 DEF Launch
<1>3. ASSUME NEW w \in Worker, Native(w), ~Launch(w) PROVE AllFixed
  <2>1. ASSUME Delegate(w) PROVE AllFixed
    <3>1. effect[w] \notin Certain
      BY <2>1 DEF Delegate, OfWorker, Intent, Certain
    <3>2. \A v \in Worker \ {w} : effect'[v] = effect[v]
      BY <2>1 DEF Delegate, WorkerBecomes, TypeOK
    <3> QED BY <3>1, <3>2, OpenEnds
  <2>2. ASSUME NEW b \in BOOLEAN, Finish(w, b) \/ LoseContact(w, b) PROVE AllFixed
    <3>1. effect[w] \notin Certain
      BY <2>2 DEF Finish, LoseContact, OfWorker, LaunchStep, Certain
    <3>2. UNCHANGED effect \/ \A v \in Worker \ {w} : effect'[v] = effect[v]
      BY <2>2, EndsOthers DEF Finish, LoseContact, WorkerBecomes, TypeOK
    <3> QED BY <1>1, <3>1, <3>2, OpenEnds
  <2> QED BY <1>1, <1>3, <2>1, <2>2 DEF Native, CancelWorker
<1>4. ASSUME NEW w \in Worker, Settle(w) PROVE AllFixed
  BY <1>1, <1>4
  DEF Settle, Begin, Patch, Patched, Remove, Disposed, CheckoutFails, StartTask, RefuseTask,
      TaskThrows, EndTask, Report, rows
<1>5. ASSUME NEW w \in Worker, Recover(w) PROVE AllFixed
  <2>1. ASSUME NEW b \in BOOLEAN, RecoverWorker(w, b) PROVE AllFixed
    <3>1. CASE UNCHANGED effect
      BY <1>1, <3>1
    <3>2. CASE Undispatched(w) /\ Rejected(w)
      BY <3>2, OpenEnds, EndsOthers DEF Undispatched, Certain
    <3>3. CASE effect[w] = "dispatching" /\ Uncertain(w)
      BY <3>3, OpenEnds, EndsOthers DEF Certain
    <3> QED BY <2>1, <3>1, <3>2, <3>3 DEF RecoverWorker
  <2> QED BY <1>1, <1>5, <2>1
          DEF Recover, RecoverTask, ResumeSettlement, ResumeDisposal, ResumeLaunch, rows
<1>6. ASSUME NEW c \in Commitment,
             CancelCommitment(c) \/ HoldCommitment(c) \/ ResumeCommitment(c)
      PROVE  UNCHANGED effect
  BY <1>6 DEF CancelCommitment, HoldCommitment, ResumeCommitment
<1>7. ASSUME Crash \/ Restart \/ RecoverCommitments \/ NextSupervisor \/ UNCHANGED vars
      PROVE  UNCHANGED effect
  BY <1>7 DEF Crash, Restart, RecoverCommitments, NextSupervisor, rows, vars
<1> QED BY <1>1, <1>2, <1>3, <1>4, <1>5, <1>6, <1>7 DEF Next

\* Whatever writes a Commitment finds it active.
LEMMA CommitmentsFixed ==
    ASSUME TypeOK, [Next]_vars, NEW c \in Commitment, Terminal(c)
    PROVE  commitment'[c] = commitment[c]
<1> DEFINE Goal == commitment'[c] = commitment[c]
<1>1. ASSUME UNCHANGED commitment PROVE Goal
  BY <1>1
<1>2. ASSUME NEW d \in Commitment, NEW row, ~Terminal(d), CommitmentBecomes(d, row) PROVE Goal
  BY <1>2 DEF CommitmentBecomes, TypeOK
<1>3. ASSUME NEW w \in Worker, Blocks(w), ~Terminal(CommitmentOf[w]) PROVE Goal
  BY <1>2, <1>3, OwnCommitment DEF Blocks
<1>4. ASSUME NEW w \in Worker, Native(w) PROVE Goal
  BY <1>1, <1>3, <1>4
  DEF Native, Delegate, CancelWorker, Finish, LoseContact, Launch, Start, Prepare, Prepared,
      ProcessStarted, RejectedDisposed, PreparationFails, Launched, LaunchFails, RejectedStays, rows
<1>5. ASSUME NEW w \in Worker, Settle(w) PROVE Goal
  <2>1. ASSUME Report(w) PROVE Goal
    BY <1>1, <1>2, <2>1, OwnCommitment DEF Report, Unblocked, Terminal
  <2> QED BY <1>1, <1>3, <1>5, <2>1
      DEF Settle, Begin, Patch, Patched, Remove, Disposed, CheckoutFails, StartTask, RefuseTask,
          TaskThrows, EndTask, rows
<1>6. ASSUME NEW w \in Worker, Recover(w) PROVE Goal
  <2>1. ASSUME RecoverTask(w) PROVE Goal
    BY <1>1, <1>2, <2>1, OwnCommitment DEF RecoverTask, Unblocked, Terminal
  <2> QED BY <1>1, <1>6, <2>1
      DEF Recover, ResumeSettlement, ResumeDisposal, ResumeLaunch, RecoverWorker, rows
<1>7. ASSUME NEW d \in Commitment,
             CancelCommitment(d) \/ HoldCommitment(d) \/ ResumeCommitment(d)
      PROVE  Goal
  BY <1>2, <1>7 DEF CancelCommitment, HoldCommitment, ResumeCommitment, Unblocked, Terminal
<1>8. ASSUME RecoverCommitments PROVE Goal
  BY <1>8 DEF RecoverCommitments, Unblocked, Terminal
<1>9. ASSUME Crash \/ Restart \/ NextSupervisor \/ UNCHANGED vars PROVE Goal
  BY <1>1, <1>9 DEF Crash, Restart, NextSupervisor, rows, vars
<1> QED BY <1>4, <1>5, <1>6, <1>7, <1>8, <1>9 DEF Next

(* A row that is settled is not written again, whichever supervisor recovers *)
(* it, whatever throws and however often the host dies: not the effect of a  *)
(* Worker with a result or rejected (recoverWorker, appendWorkerState), not  *)
(* the status of a Verification that ended (settleTargetProjectOperation),   *)
(* not a Commitment that is accepted or cancelled.                           *)
SettledRowsStand ==
    /\ \A w \in Worker : effect[w] \in Certain => effect'[w] = effect[w]
    /\ \A w \in Worker : op[w] \notin {"none", "running"} => op'[w] = op[w]
    /\ \A c \in Commitment : Terminal(c) => commitment'[c] = commitment[c]

\* Whatever queues, cancellations, late processes and recoveries write afterwards.
THEOREM SettledStands == Spec => [][SettledRowsStand]_vars
<1>1. IInv /\ HInv /\ [Next]_vars => SettledRowsStand
  <2> SUFFICES ASSUME IInv, HInv, [Next]_vars PROVE SettledRowsStand
    OBVIOUS
  <2>1. TypeOK /\ (\A w \in Worker : OfWorker(w)) /\ Testing
    BY DEF IInv, HInv
  <2>2. ASSUME NEW v \in Worker, op[v] \notin {"none", "running"} PROVE op'[v] = op[v]
    <3>1. CASE UNCHANGED op
      BY <3>1
    <3>2. CASE ~UNCHANGED op
      <4>1. PICK w \in Worker :
              /\ \A u \in Worker \ {w} : op'[u] = op[u]
              /\ step[w] = "testing" \/ op[w] \in {"none", "running"}
        BY <2>1, <3>2, OpChanges
      <4>2. v # w
        BY <2>1, <2>2, <4>1 DEF Testing
      <4> QED BY <4>1, <4>2
    <3> QED BY <3>1, <3>2
  <2> QED BY <2>1, <2>2, EffectsFixed, CommitmentsFixed DEF SettledRowsStand, Fixed
<1>2. IInv /\ HInv /\ [Next]_vars => [SettledRowsStand]_vars
  BY <1>1
<1> QED BY <1>2, Inductive, HostInductive, PTL DEF Spec

-----------------------------------------------------------------------------
(* Workers implement scope reservation.                                      *)

\* A result is verified, and nothing else is.
Tested == \A w \in Worker : op[w] # "none" => effect[w] = "succeeded"

LEMMA TestedKept ==
    ASSUME TypeOK, \A w \in Worker : OfWorker(w), Tested, [Next]_vars
    PROVE  Tested'
<1>1. \A w \in Worker : effect[w] = "succeeded" => effect'[w] = "succeeded"
  BY EffectsFixed DEF Fixed, Certain
<1>2. \A w \in Worker : step[w] \in {"discovering", "testing"} => effect[w] = "succeeded"
  BY DEF OfWorker, SettleStep, Settling, Verifying
<1>3. CASE UNCHANGED op
  BY <1>1, <1>3 DEF Tested
<1>4. CASE ~UNCHANGED op
  <2>1. PICK w \in Worker :
          /\ \A v \in Worker \ {w} : op'[v] = op[v]
          /\ step[w] \in {"discovering", "testing"} \/ op[w] = "running"
    BY <1>4, OpChanges
  <2>2. effect[w] = "succeeded"
    BY <1>2, <2>1 DEF Tested
  <2> QED BY <1>1, <2>1, <2>2 DEF Tested
<1> QED BY <1>3, <1>4

LEMMA AlwaysTested == Spec => []Tested
<1>1. Init => Tested
  BY DEF Init, Tested
<1>2. IInv /\ Tested /\ [Next]_vars => Tested'
  BY TestedKept DEF IInv
<1> QED BY <1>1, <1>2, Inductive, PTL DEF Spec

Writes(w, e) == effect' = [effect EXCEPT ![w] = e]

\* All that happens to the effects of Workers, one a step.
EffectMoves(w) ==
    \/ effect[w] = "absent" /\ Writes(w, "pending") /\ (w \notin Managed => ~RootTaken)
    \/ Undispatched(w) /\ \E e \in {"claimed", "dispatching", "unknown", "rejected"} : Writes(w, e)
    \/ effect[w] \in {"dispatching", "unknown"} /\ \E e \in {"unknown", "succeeded"} : Writes(w, e)

LEMMA EffectStep ==
    ASSUME TypeOK, \A w \in Worker : OfWorker(w), [Next]_vars
    PROVE  UNCHANGED effect \/ (UNCHANGED op /\ \E w \in Worker : EffectMoves(w))
<1> DEFINE Goal == UNCHANGED effect \/ (UNCHANGED op /\ \E w \in Worker : EffectMoves(w))
<1>1. ASSUME NEW w \in Worker, Launch(w) PROVE Goal
  <2>1. step[w] \in {"starting", "preparing", "launching"} => Undispatched(w)
    BY DEF OfWorker, LaunchStep
  <2>2. ASSUME Start(w) PROVE Goal
    <3>1. UNCHANGED effect \/ (UNCHANGED op /\ phase[w] = "planned" /\ PreparationClaimed(w))
      BY <2>2 DEF Start
    <3>2. phase[w] = "planned" => Undispatched(w)
      BY DEF OfWorker, Checkout, Intent
    <3> QED BY <3>1, <3>2 DEF PreparationClaimed, EffectMoves, Writes
  <2>3. ASSUME Prepare(w) \/ Prepared(w) \/ ProcessStarted(w) \/ RejectedDisposed(w)
               \/ \E b \in BOOLEAN : RejectedStays(w, b)
        PROVE  Goal
    BY <2>3 DEF Prepare, Prepared, ProcessStarted, RejectedDisposed, RejectedStays, rows
  <2>4. ASSUME NEW b \in BOOLEAN, PreparationFails(w, b) PROVE Goal
    <3>1. UNCHANGED op /\ (UNCHANGED effect \/ Rejected(w)) /\ step[w] = "preparing"
      BY <2>4 DEF PreparationFails
    <3> QED BY <2>1, <3>1 DEF Rejected, WorkerBecomes, EffectMoves, Writes
  <2>5. ASSUME NEW b \in BOOLEAN, Launched(w, b) PROVE Goal
    BY <2>5 DEF Launched, DispatchClaimed, Uncertain, WorkerBecomes, EffectMoves, Writes
  <2>6. ASSUME NEW b \in BOOLEAN, LaunchFails(w, b) PROVE Goal
    <3>1. UNCHANGED op /\ (UNCHANGED effect \/ Ends(w)) /\ Undispatched(w)
      BY <2>1, <2>6 DEF LaunchFails
    <3> QED BY <3>1 DEF Ends, Rejected, WorkerBecomes, EffectMoves, Writes
  <2> QED BY <1>1, <2>2, <2>3, <2>4, <2>5, <2>6 DEF Launch
<1>2. ASSUME NEW w \in Worker, Native(w), ~Launch(w) PROVE Goal
  <2>1. ASSUME Delegate(w) PROVE Goal
    <3>1. effect[w] = "absent" /\ UNCHANGED op /\ Writes(w, "pending")
      BY <2>1 DEF Delegate, WorkerBecomes, Writes, OfWorker, Intent
    <3>2. w \notin Managed => ~RootTaken
      BY <2>1 DEF Delegate, RootReserved
    <3> QED BY <3>1, <3>2 DEF EffectMoves
  <2>2. ASSUME NEW b \in BOOLEAN, Finish(w, b) \/ LoseContact(w, b) PROVE Goal
    <3>1. effect[w] \in {"dispatching", "unknown"} /\ UNCHANGED op
      BY <2>2 DEF Finish, LoseContact, OfWorker, LaunchStep
    <3>2. UNCHANGED effect \/ \E e \in {"unknown", "succeeded"} : Writes(w, e)
      BY <2>2 DEF Finish, LoseContact, Uncertain, WorkerBecomes, Writes
    <3> QED BY <3>1, <3>2 DEF EffectMoves
  <2> QED BY <1>2, <2>1, <2>2 DEF Native, CancelWorker
<1>3. ASSUME NEW w \in Worker, Settle(w) PROVE Goal
  BY <1>3
  DEF Settle, Begin, Patch, Patched, Remove, Disposed, CheckoutFails, StartTask, RefuseTask,
      TaskThrows, EndTask, Report, rows
<1>4. ASSUME NEW w \in Worker, Recover(w) PROVE Goal
  <2>1. ASSUME NEW b \in BOOLEAN, RecoverWorker(w, b) PROVE Goal
    <3>1. /\ UNCHANGED op
          /\ \/ UNCHANGED effect
             \/ Undispatched(w) /\ Rejected(w)
             \/ effect[w] = "dispatching" /\ Uncertain(w)
      BY <2>1 DEF RecoverWorker
    <3> QED BY <3>1 DEF Rejected, Uncertain, WorkerBecomes, EffectMoves, Writes
  <2> QED BY <1>4, <2>1
          DEF Recover, RecoverTask, ResumeSettlement, ResumeDisposal, ResumeLaunch, rows
<1>5. ASSUME NEW c \in Commitment,
             CancelCommitment(c) \/ HoldCommitment(c) \/ ResumeCommitment(c)
      PROVE  UNCHANGED effect
  BY <1>5 DEF CancelCommitment, HoldCommitment, ResumeCommitment
<1>6. ASSUME Crash \/ Restart \/ RecoverCommitments \/ NextSupervisor \/ UNCHANGED vars
      PROVE  UNCHANGED effect
  BY <1>6 DEF Crash, Restart, RecoverCommitments, NextSupervisor, rows, vars
<1> QED BY <1>1, <1>2, <1>3, <1>4, <1>5, <1>6 DEF Next

\* All that happens to the Verifications.
Marks(w, s) == op' = [op EXCEPT ![w] = s]
OpMoves(w) ==
    \/ op[w] = "none" /\ (Marks(w, "rejected") \/ (Marks(w, "running") /\ ~RootTaken))
    \/ op[w] = "running" /\ (Marks(w, "succeeded") \/ Marks(w, "failed"))

LEMMA OpStep ==
    ASSUME TypeOK, \A w \in Worker : OfWorker(w), Testing, [Next]_vars
    PROVE  UNCHANGED op \/ (UNCHANGED effect /\ \E w \in Worker : OpMoves(w))
<1> DEFINE Goal == UNCHANGED op \/ (UNCHANGED effect /\ \E w \in Worker : OpMoves(w))
<1>1. ASSUME NEW w \in Worker, Native(w) PROVE UNCHANGED op
  BY <1>1 DEF Native, Delegate, CancelWorker, Finish, LoseContact, Launch, Start, Prepare, Prepared,
     ProcessStarted, RejectedDisposed, PreparationFails, Launched, LaunchFails, RejectedStays, rows
<1>2. ASSUME NEW w \in Worker, StartTask(w) \/ RefuseTask(w) PROVE Goal
  BY <1>2 DEF StartTask, RefuseTask, OfWorker, SettleStep, OpMoves, Marks
<1>3. ASSUME NEW w \in Worker, NEW s \in {"succeeded", "failed"}, EndTask(w, s) PROVE Goal
  BY <1>3 DEF EndTask, Testing, OpMoves, Marks
<1>4. ASSUME NEW w \in Worker, RecoverTask(w) PROVE Goal
  BY <1>4 DEF RecoverTask, OpMoves, Marks
<1>5. ASSUME NEW w \in Worker, Settle(w),
             ~(StartTask(w) \/ RefuseTask(w) \/ \E s \in {"succeeded", "failed"} : EndTask(w, s))
      PROVE  UNCHANGED op
  BY <1>5 DEF Settle, Begin, Patch, Patched, Remove, Disposed, CheckoutFails, TaskThrows, Report, rows
<1>6. ASSUME NEW w \in Worker, Recover(w), ~RecoverTask(w) PROVE UNCHANGED op
  BY <1>6 DEF Recover, ResumeSettlement, ResumeDisposal, ResumeLaunch, RecoverWorker, rows
<1>7. ASSUME NEW c \in Commitment,
             CancelCommitment(c) \/ HoldCommitment(c) \/ ResumeCommitment(c)
      PROVE  UNCHANGED op
  BY <1>7 DEF CancelCommitment, HoldCommitment, ResumeCommitment
<1>8. ASSUME Crash \/ Restart \/ RecoverCommitments \/ NextSupervisor \/ UNCHANGED vars
      PROVE  UNCHANGED op
  BY <1>8 DEF Crash, Restart, RecoverCommitments, NextSupervisor, rows, vars
<1> QED BY <1>1, <1>2, <1>3, <1>4, <1>5, <1>6, <1>7, <1>8 DEF Next

\* One operation moves.
Goes(p, q) == PhaseOf(p)' = q /\ \A o \in Op \ {p} : PhaseOf(o)' = PhaseOf(o)

Held == {"reserved", "dispatched", "uncertain"}

OneHeld == \A o, p \in Op : ScopeOf[o] = ScopeOf[p] /\ IsHeld(o) /\ IsHeld(p) => o = p

\* The steps of an operation that ScopeReservation knows; it begins in a scope
\* that nothing holds.
Moved(p, q) ==
    \/ PhaseOf(p) = "new" /\ q = "closed"
    \/ /\ PhaseOf(p) = "new" /\ q \in {"reserved", "dispatched"}
       /\ \A o \in Op : ScopeOf[o] = ScopeOf[p] => ~IsHeld(o)
    \/ PhaseOf(p) = "reserved" /\ q \in {"dispatched", "uncertain", "closed"}
    \/ PhaseOf(p) = "dispatched" /\ q \in {"uncertain", "closed"}
    \/ PhaseOf(p) = "uncertain" /\ q = "closed"

LEMMA Operations ==
    /\ \A w \in Worker : Work(w) \in Op /\ Check(w) \in Op
    /\ \A o \in Op : \E w \in Worker : o = Work(w) \/ o = Check(w)
    /\ \A w \in Worker : /\ Work(w).kind = "work" /\ Work(w).of = w
                         /\ Check(w).kind = "check" /\ Check(w).of = w
    /\ \A v, w \in Worker : /\ Work(v) # Check(w)
                            /\ Work(v) = Work(w) => v = w
                            /\ Check(v) = Check(w) => v = w
BY DEF Op, Work, Check

LEMMA Scopes ==
    /\ \A o \in Op : ScopeOf[o] \in Scope
    /\ \A w \in Worker : /\ ScopeOf[Work(w)] = IF w \in Managed THEN w ELSE Root
                         /\ ScopeOf[Check(w)] = Root
    /\ Root \notin Worker
<1>1. \A o \in Op : ScopeOf[o] = IF o.kind = "work" /\ o.of \in Managed THEN o.of ELSE Root
  BY DEF ScopeOf
<1>2. \A w \in Worker : /\ ScopeOf[Work(w)] = IF w \in Managed THEN w ELSE Root
                        /\ ScopeOf[Check(w)] = Root
  BY <1>1, Operations
<1>3. \A o \in Op : ScopeOf[o] \in Scope
  BY <1>2, Operations DEF Scope
<1> QED BY <1>2, <1>3, WorkerAssumption DEF Root

LEMMA PhasesOf ==
    /\ \A w \in Worker : /\ PhaseOf(Work(w)) = EffectPhase(effect[w])
                         /\ PhaseOf(Check(w)) = CheckPhase(op[w])
    /\ \A w \in Worker : /\ PhaseOf(Work(w))' = EffectPhase(effect'[w])
                         /\ PhaseOf(Check(w))' = CheckPhase(op'[w])
BY Operations DEF PhaseOf, EffectPhase, CheckPhase

LEMMA HeldIsOpen ==
    ASSUME TypeOK, NEW w \in Worker
    PROVE  /\ IsHeld(Work(w)) <=> EffectOpen(w)
           /\ IsHeld(Check(w)) <=> OpOpen(w)
<1>1. effect[w] \in EffectStates
      /\ op[w] \in {"none", "running", "succeeded", "failed", "rejected"}
  BY DEF TypeOK
<1>2. EffectPhase(effect[w]) \in Held <=> EffectOpen(w)
  BY <1>1 DEF EffectPhase, Held, EffectOpen, EffectStates
<1>3. CheckPhase(op[w]) \in Held <=> OpOpen(w)
  BY <1>1 DEF CheckPhase, Held, OpOpen
<1> QED BY <1>2, <1>3, PhasesOf DEF IsHeld, Held

\* RootIsExclusive in the terms of the reservation.
LEMMA ExclusiveHeld ==
    ASSUME TypeOK, RootIsExclusive, Tested
    PROVE  OneHeld
<1> SUFFICES ASSUME NEW o \in Op, NEW p \in Op, ScopeOf[o] = ScopeOf[p], IsHeld(o), IsHeld(p)
             PROVE  o = p
  BY DEF OneHeld
<1>1. PICK v \in Worker : o = Work(v) \/ o = Check(v)
  BY Operations
<1>2. PICK w \in Worker : p = Work(w) \/ p = Check(w)
  BY Operations
<1>3. \A u \in Worker : OpOpen(u) => ~EffectOpen(u)
  BY DEF Tested, OpOpen, EffectOpen
<1>4. \A x, y \in Worker : x # y =>
         /\ ~(OpOpen(x) /\ OpOpen(y))
         /\ x \notin Managed /\ y \notin Managed => ~(EffectOpen(x) /\ EffectOpen(y))
         /\ y \notin Managed => ~(OpOpen(x) /\ EffectOpen(y))
  BY DEF RootIsExclusive
<1>5. CASE o = Work(v) /\ p = Work(w)
  BY <1>4, <1>5, HeldIsOpen, Scopes
<1>6. CASE o = Work(v) /\ p = Check(w)
  BY <1>3, <1>4, <1>6, HeldIsOpen, Scopes
<1>7. CASE o = Check(v) /\ p = Work(w)
  BY <1>3, <1>4, <1>7, HeldIsOpen, Scopes
<1>8. CASE o = Check(v) /\ p = Check(w)
  BY <1>4, <1>8, HeldIsOpen
<1> QED BY <1>1, <1>2, <1>5, <1>6, <1>7, <1>8

LEMMA RootIsFree ==
    ASSUME TypeOK, ~RootTaken, NEW o \in Op, ScopeOf[o] = Root
    PROVE  ~IsHeld(o)
<1>1. PICK w \in Worker : o = Work(w) \/ o = Check(w)
  BY Operations
<1>2. ~OpOpen(w) /\ (w \notin Managed => ~EffectOpen(w))
  BY DEF RootTaken
<1> QED BY <1>1, <1>2, HeldIsOpen, Scopes

\* What the rows do is a step of the reservation for one operation.
LEMMA EffectTurns ==
    ASSUME TypeOK, NEW w \in Worker, EffectMoves(w), UNCHANGED op
    PROVE  \E q : /\ Goes(Work(w), q)
                  /\ q = PhaseOf(Work(w)) \/ Moved(Work(w), q)
<1> DEFINE p == Work(w)
<1>1. PICK e :
        /\ Writes(w, e)
        /\ \/ effect[w] = "absent" /\ e = "pending" /\ (w \notin Managed => ~RootTaken)
           \/ Undispatched(w) /\ e \in {"claimed", "dispatching", "unknown", "rejected"}
           \/ effect[w] \in {"dispatching", "unknown"} /\ e \in {"unknown", "succeeded"}
  BY DEF EffectMoves
<1>2. effect'[w] = e /\ \A v \in Worker \ {w} : effect'[v] = effect[v]
  BY <1>1 DEF Writes, TypeOK
<1>3. \A o \in Op \ {p} : PhaseOf(o)' = PhaseOf(o)
  <2>1. SUFFICES ASSUME NEW o \in Op \ {p} PROVE PhaseOf(o)' = PhaseOf(o)
    OBVIOUS
  <2>2. PICK v \in Worker : (o = Work(v) /\ v # w) \/ o = Check(v)
    BY Operations
  <2> QED BY <1>2, <2>2, PhasesOf
<1>4. PhaseOf(p)' = EffectPhase(e) /\ PhaseOf(p) = EffectPhase(effect[w]) /\ p \in Op
  BY <1>2, PhasesOf, Operations
<1>5. CASE effect[w] = "absent" /\ e = "pending" /\ (w \notin Managed => ~RootTaken)
  <2>1. PhaseOf(p) = "new" /\ EffectPhase(e) = "reserved"
    BY <1>4, <1>5 DEF EffectPhase
  <2>2. ASSUME NEW o \in Op, ScopeOf[o] = ScopeOf[p] PROVE ~IsHeld(o)
    <3>1. CASE w \notin Managed
      BY <1>5, <2>2, <3>1, RootIsFree, Scopes
    <3>2. CASE w \in Managed
      <4>1. o = p
        BY <2>2, <3>2, Operations, Scopes
      <4> QED BY <2>1, <4>1 DEF IsHeld
    <3> QED BY <3>1, <3>2
  <2> QED BY <1>3, <1>4, <2>1, <2>2 DEF Goes, Moved
<1>6. CASE Undispatched(w) /\ e \in {"claimed", "dispatching", "unknown", "rejected"}
  <2>1. PhaseOf(p) = "reserved"
    BY <1>4, <1>6 DEF EffectPhase, Undispatched
  <2>2. EffectPhase(e) \in {"reserved", "dispatched", "uncertain", "closed"}
    BY <1>6 DEF EffectPhase
  <2> QED BY <1>3, <1>4, <2>1, <2>2 DEF Goes, Moved
<1>7. CASE effect[w] \in {"dispatching", "unknown"} /\ e \in {"unknown", "succeeded"}
  <2>1. PhaseOf(p) \in {"dispatched", "uncertain"}
    BY <1>4, <1>7 DEF EffectPhase
  <2>2. EffectPhase(e) \in {"uncertain", "closed"}
    BY <1>7 DEF EffectPhase
  <2> QED BY <1>3, <1>4, <2>1, <2>2 DEF Goes, Moved
<1> QED BY <1>1, <1>5, <1>6, <1>7

LEMMA OpTurns ==
    ASSUME TypeOK, NEW w \in Worker, OpMoves(w), UNCHANGED effect
    PROVE  \E q : Goes(Check(w), q) /\ Moved(Check(w), q)
<1> DEFINE p == Check(w)
<1>1. PICK s :
        /\ Marks(w, s)
        /\ \/ op[w] = "none" /\ s = "rejected"
           \/ op[w] = "none" /\ s = "running" /\ ~RootTaken
           \/ op[w] = "running" /\ s \in {"succeeded", "failed"}
  BY DEF OpMoves
<1>2. op'[w] = s /\ \A v \in Worker \ {w} : op'[v] = op[v]
  BY <1>1 DEF Marks, TypeOK
<1>3. \A o \in Op \ {p} : PhaseOf(o)' = PhaseOf(o)
  <2>1. SUFFICES ASSUME NEW o \in Op \ {p} PROVE PhaseOf(o)' = PhaseOf(o)
    OBVIOUS
  <2>2. PICK v \in Worker : (o = Check(v) /\ v # w) \/ o = Work(v)
    BY Operations
  <2> QED BY <1>2, <2>2, PhasesOf
<1>4. PhaseOf(p)' = CheckPhase(s) /\ PhaseOf(p) = CheckPhase(op[w]) /\ p \in Op
  BY <1>2, PhasesOf, Operations
<1>5. CASE op[w] = "none" /\ s = "rejected"
  <2>1. PhaseOf(p) = "new" /\ CheckPhase(s) = "closed"
    BY <1>4, <1>5 DEF CheckPhase
  <2> QED BY <1>3, <1>4, <2>1 DEF Goes, Moved
<1>6. CASE op[w] = "none" /\ s = "running" /\ ~RootTaken
  <2>1. PhaseOf(p) = "new" /\ CheckPhase(s) = "dispatched"
    BY <1>4, <1>6 DEF CheckPhase
  <2>2. \A o \in Op : ScopeOf[o] = ScopeOf[p] => ~IsHeld(o)
    BY <1>6, RootIsFree, Scopes
  <2> QED BY <1>3, <1>4, <2>1, <2>2 DEF Goes, Moved
<1>7. CASE op[w] = "running" /\ s \in {"succeeded", "failed"}
  <2>1. PhaseOf(p) = "dispatched" /\ CheckPhase(s) \in {"uncertain", "closed"}
    BY <1>4, <1>7 DEF CheckPhase
  <2> QED BY <1>3, <1>4, <2>1 DEF Goes, Moved
<1> QED BY <1>1, <1>5, <1>6, <1>7

\* The holder of a scope is the operation that holds it.
LEMMA HolderIs ==
    ASSUME OneHeld, NEW o \in Op, IsHeld(o)
    PROVE  HolderOf(ScopeOf[o]) = o
BY DEF OneHeld, HolderOf

LEMMA NoHolder ==
    ASSUME NEW s, \A o \in Op : ScopeOf[o] = s => ~IsHeld(o)
    PROVE  HolderOf(s) = NoWorker
BY DEF HolderOf

phaseBar  == [o \in Op |-> PhaseOf(o)]
holderBar == [s \in Scope |-> HolderOf(s)]

LEMMA PhaseGoes ==
    ASSUME NEW p \in Op, NEW q, Goes(p, q)
    PROVE  phaseBar[p] = PhaseOf(p) /\ phaseBar' = [phaseBar EXCEPT ![p] = q]
BY DEF phaseBar, Goes

LEMMA HeldGoes ==
    ASSUME NEW p \in Op, NEW q, Goes(p, q)
    PROVE  /\ IsHeld(p)' <=> q \in Held
           /\ \A o \in Op \ {p} : IsHeld(o)' <=> IsHeld(o)
BY DEF Goes, IsHeld, Held

LEMMA HoldersStay ==
    ASSUME NEW p \in Op, NEW q, Goes(p, q), IsHeld(p) <=> q \in Held
    PROVE  holderBar' = holderBar
<1>1. \A o \in Op : IsHeld(o)' <=> IsHeld(o)
  BY HeldGoes
<1>2. \A s \in Scope : HolderOf(s)' = HolderOf(s)
  BY <1>1 DEF HolderOf
<1> QED BY <1>2 DEF holderBar

LEMMA HolderTakes ==
    ASSUME NEW p \in Op, NEW q \in Held, Goes(p, q), OneHeld',
           \A o \in Op : ScopeOf[o] = ScopeOf[p] => ~IsHeld(o)
    PROVE  /\ holderBar[ScopeOf[p]] = NoWorker
           /\ holderBar' = [holderBar EXCEPT ![ScopeOf[p]] = p]
<1>1. HolderOf(ScopeOf[p]) = NoWorker
  BY NoHolder
<1>2. IsHeld(p)' /\ \A o \in Op \ {p} : IsHeld(o)' <=> IsHeld(o)
  BY HeldGoes
<1>3. HolderOf(ScopeOf[p])' = p
  BY <1>2 DEF OneHeld, HolderOf
<1>4. \A s \in Scope \ {ScopeOf[p]} : HolderOf(s)' = HolderOf(s)
  BY <1>2 DEF HolderOf
<1> QED BY <1>1, <1>3, <1>4, Scopes DEF holderBar

LEMMA HolderLeaves ==
    ASSUME NEW p \in Op, NEW q, q \notin Held, Goes(p, q), OneHeld, IsHeld(p)
    PROVE  /\ holderBar[ScopeOf[p]] = p
           /\ holderBar' = [holderBar EXCEPT ![ScopeOf[p]] = NoWorker]
<1>1. ~IsHeld(p)' /\ \A o \in Op \ {p} : IsHeld(o)' <=> IsHeld(o)
  BY HeldGoes
<1>2. \A o \in Op : ScopeOf[o] = ScopeOf[p] => ~IsHeld(o)'
  BY <1>1 DEF OneHeld
<1>3. HolderOf(ScopeOf[p])' = NoWorker
  BY <1>2 DEF HolderOf
<1>4. \A s \in Scope \ {ScopeOf[p]} : HolderOf(s)' = HolderOf(s)
  BY <1>1 DEF HolderOf
<1> QED BY <1>3, <1>4, HolderIs, Scopes DEF holderBar

\* A step of one operation is a step of the reservation.
LEMMA ReservationMoves ==
    ASSUME NEW p \in Op, NEW q, Goes(p, q), Moved(p, q), OneHeld, OneHeld'
    PROVE  Reservation!Next
<1> SUFFICES
      \/ Reservation!Refuse(p) \/ Reservation!Reserve(p) \/ Reservation!Dispatch(p)
      \/ Reservation!Withdraw(p) \/ Reservation!Finish(p) \/ Reservation!Doubt(p)
      \/ Reservation!Prove(p) \/ Reservation!Take(p) \/ Reservation!Lose(p)
  BY DEF Reservation!Next
<1>1. phaseBar[p] = PhaseOf(p) /\ phaseBar' = [phaseBar EXCEPT ![p] = q]
  BY PhaseGoes
<1>2. CASE PhaseOf(p) = "new" /\ q = "closed"
  <2>1. holderBar' = holderBar
    BY <1>2, HoldersStay DEF IsHeld, Held
  <2> QED BY <1>1, <1>2, <2>1 DEF Reservation!Refuse, Reservation!Move, phaseBar, holderBar
<1>3. CASE /\ PhaseOf(p) = "new" /\ q \in {"reserved", "dispatched"}
           /\ \A o \in Op : ScopeOf[o] = ScopeOf[p] => ~IsHeld(o)
  <2>1. holderBar[ScopeOf[p]] = NoWorker /\ holderBar' = [holderBar EXCEPT ![ScopeOf[p]] = p]
    BY <1>3, HolderTakes DEF Held
  <2> QED BY <1>1, <1>3, <2>1
          DEF Reservation!Reserve, Reservation!Take, Reservation!Move, phaseBar, holderBar
<1>4. CASE IsHeld(p) /\ q \in Held
  <2>1. holderBar' = holderBar /\ holderBar[ScopeOf[p]] = p
    BY <1>4, HoldersStay, HolderIs, Scopes DEF holderBar
  <2>2. \/ PhaseOf(p) = "reserved" /\ q \in {"dispatched", "uncertain"}
        \/ PhaseOf(p) = "dispatched" /\ q = "uncertain"
    BY <1>4 DEF Moved, IsHeld, Held
  <2> QED BY <1>1, <2>1, <2>2
          DEF Reservation!Dispatch, Reservation!Lose, Reservation!Doubt, Reservation!Move,
              Reservation!Keep, phaseBar, holderBar
<1>5. CASE IsHeld(p) /\ q = "closed"
  <2>1. holderBar[ScopeOf[p]] = p /\ holderBar' = [holderBar EXCEPT ![ScopeOf[p]] = NoWorker]
    BY <1>5, HolderLeaves DEF Held
  <2> QED BY <1>1, <1>5, <2>1
          DEF IsHeld, Reservation!Withdraw, Reservation!Finish, Reservation!Prove, Reservation!Move,
              Reservation!Free, phaseBar, holderBar
<1> QED BY <1>2, <1>3, <1>4, <1>5 DEF Moved, IsHeld, Held

LEMMA SamePhases ==
    ASSUME \A o \in Op : PhaseOf(o)' = PhaseOf(o)
    PROVE  UNCHANGED Reservation!vars
<1>1. \A s \in Scope : HolderOf(s)' = HolderOf(s)
  BY DEF HolderOf, IsHeld
<1> QED BY <1>1 DEF Reservation!vars

LEMMA ReservationStep ==
    ASSUME IInv, Testing, OneHeld, OneHeld', [Next]_vars
    PROVE  [Reservation!Next]_(Reservation!vars)
<1>1. TypeOK /\ \A w \in Worker : OfWorker(w)
  BY DEF IInv
<1>2. CASE UNCHANGED <<effect, op>>
  <2>1. \A o \in Op : PhaseOf(o)' = PhaseOf(o)
    BY <1>2 DEF PhaseOf
  <2> QED BY <2>1, SamePhases
<1>3. ASSUME NEW w \in Worker, EffectMoves(w), UNCHANGED op
      PROVE  [Reservation!Next]_(Reservation!vars)
  <2>1. PICK q : Goes(Work(w), q) /\ (q = PhaseOf(Work(w)) \/ Moved(Work(w), q))
    BY <1>1, <1>3, EffectTurns
  <2>2. Work(w) \in Op
    BY Operations
  <2>3. CASE q = PhaseOf(Work(w))
    BY <2>1, <2>3, SamePhases DEF Goes
  <2> QED BY <1>1, <2>1, <2>2, <2>3, ReservationMoves
<1>4. ASSUME NEW w \in Worker, OpMoves(w), UNCHANGED effect
      PROVE  [Reservation!Next]_(Reservation!vars)
  <2>1. PICK q : Goes(Check(w), q) /\ Moved(Check(w), q)
    BY <1>1, <1>4, OpTurns
  <2> QED BY <1>1, <2>1, Operations, ReservationMoves
<1> QED BY <1>1, <1>2, <1>3, <1>4, EffectStep, OpStep

(* Workers implement scope reservation, with any number of them, managed or  *)
(* in place, of supervisors and of deaths: no launch and no Verification is  *)
(* dispatched in a scope it does not hold, and a scope that is in doubt      *)
(* stays taken, whichever supervisor recovers it.                            *)
THEOREM Refinement == Spec => ImplementsReservation
<1>1. Init => Reservation!Init
  <2> SUFFICES ASSUME Init PROVE Reservation!Init
    OBVIOUS
  <2>1. ASSUME NEW o \in Op PROVE PhaseOf(o) = "new"
    <3>1. PICK w \in Worker : o = Work(w) \/ o = Check(w)
      BY Operations
    <3>2. effect[w] = "absent" /\ op[w] = "none"
      BY DEF Init
    <3>3. EffectPhase(effect[w]) = "new" /\ CheckPhase(op[w]) = "new"
      BY <3>2 DEF EffectPhase, CheckPhase
    <3>4. PhaseOf(Work(w)) = "new" /\ PhaseOf(Check(w)) = "new"
      BY <3>3, PhasesOf
    <3> QED BY <3>1, <3>4
  <2>2. \A s \in Scope : HolderOf(s) = NoWorker
    BY <2>1, NoHolder DEF IsHeld
  <2> QED BY <2>1, <2>2 DEF Reservation!Init
<1>2. HInv => Testing
  BY DEF HInv
<1>3. IInv /\ Tested => OneHeld
  BY ExclusiveHeld DEF IInv
<1>4. IInv /\ Testing /\ OneHeld /\ OneHeld' /\ [Next]_vars
        => [Reservation!Next]_(Reservation!vars)
  BY ReservationStep
<1> QED BY <1>1, <1>2, <1>3, <1>4, Inductive, HostInductive, AlwaysTested, PTL
        DEF Spec, ImplementsReservation, Reservation!Spec
=============================================================================
