------------------------- MODULE EffectLedger_proof -------------------------
(***************************************************************************)
(* Proofs about EffectLedger for every set of operations, Commitments and  *)
(* scopes.  The inductive invariant IInv couples what the continuation of  *)
(* a request is about to do (pc) with the rows of its attempt and effect,  *)
(* and the rows with the world.                                            *)
(***************************************************************************)
EXTENDS EffectLedgerRefinement, TLAPS

\* Where a request stands determines its rows.
StepsAgree ==
    \A o \in Op :
        /\ pc[o] \in {"idle", "resumable", "discovered"} =>
               attempt[o] = "absent" /\ effect[o] = "absent"
        /\ pc[o] = "recorded" => attempt[o] = "ready" /\ effect[o] = "pending"
        /\ pc[o] \in {"claimed", "running"} =>
               attempt[o] = "running" /\ effect[o] = "dispatching"
        /\ pc[o] = "reconciled" => effect[o] = "reconciled"

\* A certain row tells the truth about the world.
ResultsAgree ==
    \A o \in Op :
        /\ attempt[o] = "succeeded" => effect[o] = "succeeded"
        /\ effect[o] = "succeeded" => call[o] = "ended" /\ touched[o]
        /\ effect[o] = "reconciled" /\ disposition[o] = "applied" => touched[o]

\* What a Lead accepted stays accepted.
LeadAccepts == \A c \in Commitment : commitment[c].by = "lead" =>
                                         commitment[c].state = "accepted"

IInv ==
    /\ TypeOK
    /\ StepsAgree
    /\ ResultsAgree
    /\ RejectedNeverRan
    /\ OneOpenEffectPerScope

-----------------------------------------------------------------------------
(* Type correctness.                                                       *)

\* One Commitment is written at a time, field by field.
LEMMA CommitmentWrite ==
    ASSUME TypeOK, NEW c \in Commitment, NEW r \in CommitmentRecord
    PROVE  [commitment EXCEPT ![c] = r] \in [Commitment -> CommitmentRecord]
BY DEF TypeOK

LEMMA CommitmentFields ==
    ASSUME TypeOK, NEW c \in Commitment,
           NEW s \in {"active", "accepted", "cancelled"},
           NEW d \in {"none", "blocked", "reconciling"}
    PROVE  /\ [commitment[c] EXCEPT !.condition = d] \in CommitmentRecord
           /\ [commitment[c] EXCEPT !.state = s, !.condition = d] \in CommitmentRecord
           /\ [commitment[c] EXCEPT !.state = s, !.condition = d, !.by = "owner"]
                  \in CommitmentRecord
<1> DEFINE r == commitment[c]
<1>1. r \in CommitmentRecord BY DEF TypeOK
<1> HIDE DEF r
<1>2. [r EXCEPT !.condition = d] \in CommitmentRecord
  BY <1>1 DEF CommitmentRecord
<1>3. [r EXCEPT !.state = s, !.condition = d] \in CommitmentRecord
  BY <1>1 DEF CommitmentRecord
<1>4. [r EXCEPT !.state = s, !.condition = d, !.by = "owner"] \in CommitmentRecord
  BY <1>1 DEF CommitmentRecord
<1> QED BY <1>2, <1>3, <1>4 DEF r

LEMMA ConditionedType ==
    ASSUME TypeOK, NEW c \in Commitment, NEW d \in {"none", "blocked", "reconciling"}
    PROVE  Conditioned(c, d) \in [Commitment -> CommitmentRecord]
<1> DEFINE r == [commitment[c] EXCEPT !.condition = d]
<1>1. r \in CommitmentRecord
  BY CommitmentFields
<1>2. Conditioned(c, d) = [commitment EXCEPT ![c] = r]
  BY DEF Conditioned
<1> HIDE DEF r
<1> QED BY <1>1, <1>2, CommitmentWrite

\* What a result makes of a Commitment is a Commitment.
LEMMA VerifiedType ==
    ASSUME TypeOK, NEW o \in Op, NEW f \in {"blocked", "reconciling"}
    PROVE  Verified(o, f) \in CommitmentRecord
<1> DEFINE before == commitment[CommitmentOf[o]]
<1>1. before \in CommitmentRecord
  BY OpAssumption DEF TypeOK
<1>2. [before EXCEPT !.state = "accepted", !.by = "lead", !.evidence = o] \in CommitmentRecord
  BY <1>1 DEF CommitmentRecord
<1>3. [before EXCEPT !.condition = f, !.evidence = o] \in CommitmentRecord
  BY <1>1 DEF CommitmentRecord
<1> QED BY <1>2, <1>3 DEF Verified

\* The actions that leave every row alone keep their types; the others are
\* taken one by one.
LEMMA TypeStep == TypeOK /\ [Next]_vars => TypeOK'
<1> SUFFICES ASSUME TypeOK, [Next]_vars PROVE TypeOK'
  OBVIOUS
<1> USE OpAssumption DEF TypeOK, durable, world, Refusals, Results, Attempts, Effects, Steps,
    WriteRows, Reconciles, Observed
<1>1. ASSUME NEW o \in Op, Request(o) PROVE TypeOK'
  <2>1. CASE Discover(o) BY <2>1 DEF Discover
  <2>2. CASE RefuseDiscovery(o) BY <2>2 DEF RefuseDiscovery
  <2>10. CASE FailPreflight(o) BY <2>10 DEF FailPreflight, PreflightFailures
  <2>3. CASE Throw(o) BY <2>3 DEF Throw, Thrown
  <2>4. CASE RecordIntent(o) BY <2>4 DEF RecordIntent
  <2>5. CASE Claim(o) BY <2>5 DEF Claim
  <2>6. CASE Dispatch(o) BY <2>6 DEF Dispatch
  <2>7. ASSUME NEW status \in Results \ Refusals, Settle(o, status) PROVE TypeOK'
    BY <2>7 DEF Settle
  <2>8. CASE Observe(o)
    <3>1. \A f \in {"blocked", "reconciling"} : Verified(o, f) \in CommitmentRecord
      BY VerifiedType
    <3>2. FailureCondition(o) \in {"blocked", "reconciling"}
      BY DEF FailureCondition
    <3>3. commitment' \in [Commitment -> CommitmentRecord]
      BY <2>8, <3>1, <3>2 DEF Observe
    <3>4. linked' \subseteq Op
      BY <2>8 DEF Observe, Link
    <3> QED BY <2>8, <3>3, <3>4 DEF Observe
  <2>9. CASE ObserveThrows(o) BY <2>9 DEF ObserveThrows, Thrown
  <2> QED BY <1>1, <2>1, <2>2, <2>3, <2>4, <2>5, <2>6, <2>7, <2>8, <2>9, <2>10 DEF Request
<1>2. ASSUME NEW o \in Op, Evidence(o) \/ World(o) PROVE TypeOK'
  <2>1. CASE ReconcileEffect(o) BY <2>1 DEF ReconcileEffect
  <2>2. CASE ReadBack(o) BY <2>2 DEF ReadBack
  <2>3. CASE SettleReadBack(o)
    <3>1. CommitmentOf[o] \in Commitment
      OBVIOUS
    <3>2. [state |-> "accepted", condition |-> "none", by |-> "lead", evidence |-> o]
             \in CommitmentRecord
      BY DEF CommitmentRecord
    <3>3. commitment' \in [Commitment -> CommitmentRecord]
      BY <2>3, <3>1, <3>2, CommitmentWrite, ConditionedType DEF SettleReadBack
    <3> QED BY <2>3, <3>3 DEF SettleReadBack
  <2>4. CASE TakeEffect(o) BY <2>4 DEF TakeEffect
  <2>5. CASE EndCall(o) BY <2>5 DEF EndCall
  <2> QED BY <1>2, <2>1, <2>2, <2>3, <2>4, <2>5 DEF Evidence, World
<1>3. ASSUME NEW c \in Commitment, Turn(c) \/ ConditionInterrupted(c) PROVE TypeOK'
  <2>1. commitment' \in [Commitment -> CommitmentRecord]
    <3>1. CASE \E d \in {"none", "blocked", "reconciling"} :
                   commitment' = Conditioned(c, d)
      BY <3>1, ConditionedType
    <3>2. CASE CancelCommitment(c)
      BY <3>2, CommitmentWrite, CommitmentFields DEF CancelCommitment
    <3>3. CASE RecordOwnerVerdict(c)
      BY <3>3, CommitmentWrite, CommitmentFields DEF RecordOwnerVerdict
    <3> QED BY <1>3, <3>1, <3>2, <3>3
            DEF Turn, ResumeCommitment, FailLeadTurn, ConditionInterrupted
  <2> QED BY <1>3, <2>1 DEF Turn, ResumeCommitment, CancelCommitment, RecordOwnerVerdict,
                            FailLeadTurn, ConditionInterrupted
<1>4. Stop => host' \in {"up", "down", "recovering"} /\ pc' \in [Op -> Steps]
  BY DEF Stop, AfterCrash
<1>5. ASSUME NEW o \in Op, Recover(o) PROVE TypeOK'
  <2>1. CASE RecoverAttempt(o) BY <2>1 DEF RecoverAttempt
  <2>2. CASE RecoverCommitment(o)
    <3>1. commitment' \in [Commitment -> CommitmentRecord]
      BY <2>2, VerifiedType DEF RecoverCommitment
    <3> QED BY <2>2, <3>1 DEF RecoverCommitment
  <2>3. CASE RecoverThrows(o) BY <2>3, <1>4 DEF RecoverThrows
  <2> QED BY <1>5, <2>1, <2>2, <2>3 DEF Recover
<1>6. CASE Crash BY <1>6, <1>4 DEF Crash
<1>7. CASE Restart \/ FinishRecovery BY <1>7 DEF Restart, FinishRecovery
<1>8. CASE UNCHANGED vars BY <1>8 DEF vars
<1> QED BY <1>1, <1>2, <1>3, <1>5, <1>6, <1>7, <1>8 DEF Next

(* The rows, the continuation of every request and the world keep their    *)
(* types (the state declared by authoritative-state and its callers).      *)
THEOREM TypeCorrect == Spec => []TypeOK
<1>1. Init => TypeOK
  BY OpAssumption DEF Init, TypeOK, Attempts, Effects, Steps, CommitmentRecord
<1> QED BY <1>1, TypeStep, PTL DEF Spec

-----------------------------------------------------------------------------
(* The inductive invariant.                                                *)

LEMMA InitIInv == Init => IInv
BY OpAssumption
   DEF Init, IInv, TypeOK, StepsAgree, ResultsAgree, RejectedNeverRan,
       OneOpenEffectPerScope, Open, Attempts, Effects, Steps, CommitmentRecord

\* The part of IInv that speaks of rows and of the world.
Coupled == StepsAgree /\ ResultsAgree /\ RejectedNeverRan /\ OneOpenEffectPerScope

\* A step that leaves rows and world alone, and takes no request to a place
\* where its rows matter, disturbs nothing.
LEMMA QuietStep ==
    ASSUME Coupled, TypeOK,
           UNCHANGED <<attempt, effect, disposition, world>>,
           \A o \in Op : \/ pc'[o] = pc[o]
                         \/ pc'[o] \in {"settled", "recovered", "done", "lost"}
                         \/ /\ pc[o] \in {"idle", "resumable", "discovered"}
                            /\ pc'[o] \in {"resumable", "discovered"}
    PROVE  Coupled'
BY DEF Coupled, TypeOK, world, StepsAgree, ResultsAgree, RejectedNeverRan,
       OneOpenEffectPerScope, Open

LEMMA CoupledStep == TypeOK /\ Coupled /\ [Next]_vars => Coupled'
<1> SUFFICES ASSUME TypeOK, Coupled, [Next]_vars PROVE Coupled'
  OBVIOUS
<1> USE OpAssumption DEF TypeOK, durable, world, Refusals, WriteRows, Reconciles, Observed
<1>1. ASSUME NEW o \in Op, Request(o) PROVE Coupled'
  <2>1. CASE Discover(o) BY <2>1, QuietStep DEF Discover
  <2>2. CASE RefuseDiscovery(o)
    BY <2>2 DEF RefuseDiscovery, Coupled, StepsAgree, ResultsAgree, RejectedNeverRan,
                OneOpenEffectPerScope, Open
  <2>10. CASE FailPreflight(o)
    BY <2>10 DEF FailPreflight, PreflightFailures, Coupled, StepsAgree, ResultsAgree,
                RejectedNeverRan, OneOpenEffectPerScope, Open
  <2>3. CASE Throw(o) BY <2>3, QuietStep DEF Throw, Thrown
  <2>4. CASE RecordIntent(o)
    BY <2>4 DEF RecordIntent, Conflict, Coupled, StepsAgree, ResultsAgree, RejectedNeverRan,
                OneOpenEffectPerScope, Open
  <2>5. CASE Claim(o)
    BY <2>5 DEF Claim, Coupled, StepsAgree, ResultsAgree, RejectedNeverRan,
                OneOpenEffectPerScope, Open
  <2>6. CASE Dispatch(o)
    BY <2>6 DEF Dispatch, Coupled, StepsAgree, ResultsAgree, RejectedNeverRan,
                OneOpenEffectPerScope, Open
  <2>7. ASSUME NEW status \in Results \ Refusals, Settle(o, status) PROVE Coupled'
    <3>1. /\ attempt' = [attempt EXCEPT ![o] = status]
          /\ effect' = [effect EXCEPT ![o] =
                            IF status = "succeeded" THEN "succeeded" ELSE "unknown"]
          /\ pc' = [pc EXCEPT ![o] = "settled"]
          /\ effect[o] = "dispatching"
          /\ UNCHANGED <<disposition, call, touched>>
      BY <2>7 DEF Settle
    <3>2. status = "succeeded" => call[o] = "ended" /\ touched[o]
      BY <2>7 DEF Settle, Answers, TaskAnswers, MutationAnswers, ReadsBack
    <3>3. StepsAgree' /\ ResultsAgree'
      BY <3>1, <3>2 DEF Coupled, StepsAgree, ResultsAgree
    <3>4. RejectedNeverRan' /\ OneOpenEffectPerScope'
      BY <3>1 DEF Coupled, RejectedNeverRan, OneOpenEffectPerScope, Open
    <3> QED BY <3>3, <3>4 DEF Coupled
  <2>8. CASE Observe(o) BY <2>8, QuietStep DEF Observe
  <2>9. CASE ObserveThrows(o) BY <2>9, QuietStep DEF ObserveThrows, Thrown
  <2> QED BY <1>1, <2>1, <2>2, <2>3, <2>4, <2>5, <2>6, <2>7, <2>8, <2>9, <2>10 DEF Request
<1>2. ASSUME NEW o \in Op, Evidence(o) \/ World(o) PROVE Coupled'
  <2>1. CASE ReconcileEffect(o)
    BY <2>1 DEF ReconcileEffect, Coupled, StepsAgree, ResultsAgree, RejectedNeverRan,
                OneOpenEffectPerScope, Open
  <2>2. CASE ReadBack(o)
    BY <2>2 DEF ReadBack, Coupled, StepsAgree, ResultsAgree, RejectedNeverRan,
                OneOpenEffectPerScope, Open
  <2>3. CASE SettleReadBack(o) BY <2>3, QuietStep DEF SettleReadBack
  <2>4. CASE TakeEffect(o)
    BY <2>4 DEF TakeEffect, Coupled, StepsAgree, ResultsAgree, RejectedNeverRan,
                OneOpenEffectPerScope, Open
  <2>5. CASE EndCall(o)
    BY <2>5 DEF EndCall, Coupled, StepsAgree, ResultsAgree, RejectedNeverRan,
                OneOpenEffectPerScope, Open
  <2> QED BY <1>2, <2>1, <2>2, <2>3, <2>4, <2>5 DEF Evidence, World
<1>3. ASSUME NEW c \in Commitment, Turn(c) \/ ConditionInterrupted(c) PROVE Coupled'
  BY <1>3, QuietStep DEF Turn, ResumeCommitment, CancelCommitment, RecordOwnerVerdict,
                         FailLeadTurn, ConditionInterrupted
<1>4. ASSUME Stop, UNCHANGED <<durable, world>> PROVE Coupled'
  <2>1. \A o \in Op : \/ pc'[o] = pc[o]
                      \/ pc'[o] = "done"
                      \/ pc[o] \in {"resumable", "discovered"} /\ pc'[o] = "resumable"
    BY <1>4 DEF Stop, AfterCrash
  <2> QED BY <1>4, <2>1, QuietStep
<1>5. ASSUME NEW o \in Op, Recover(o) PROVE Coupled'
  <2>1. CASE RecoverAttempt(o)
    BY <2>1 DEF RecoverAttempt, Interrupted, Coupled, StepsAgree, ResultsAgree,
                RejectedNeverRan, OneOpenEffectPerScope, Open
  <2>2. CASE RecoverCommitment(o) BY <2>2, QuietStep DEF RecoverCommitment
  <2>3. CASE RecoverThrows(o) BY <2>3, <1>4 DEF RecoverThrows
  <2> QED BY <1>5, <2>1, <2>2, <2>3 DEF Recover
<1>6. CASE Crash BY <1>6, <1>4 DEF Crash
<1>7. CASE Restart \/ FinishRecovery BY <1>7, QuietStep DEF Restart, FinishRecovery
<1>8. CASE UNCHANGED vars BY <1>8, QuietStep DEF vars
<1> QED BY <1>1, <1>2, <1>3, <1>5, <1>6, <1>7, <1>8 DEF Next

LEMMA Inductive == Spec => []IInv
<1>1. IInv /\ [Next]_vars => IInv'
  BY TypeStep, CoupledStep DEF IInv, Coupled
<1> QED BY InitIInv, <1>1, PTL DEF Spec

-----------------------------------------------------------------------------
(* What follows from it.                                                   *)

(* However many requests, hosts and crashes there are, an effect scope has *)
(* at most one open effect (assertNoConflictingOpenEffect).                *)
THEOREM ScopeExclusion == Spec => []OneOpenEffectPerScope
<1>1. IInv => OneOpenEffectPerScope
  BY DEF IInv
<1> QED BY Inductive, <1>1, PTL

(* A rejected effect was never started by any host: the claim commits      *)
(* before the native process is spawned, and recovery rejects only what    *)
(* was not claimed (reconcileInterruptedCommitments).                      *)
THEOREM RejectionIsTrue == Spec => []RejectedNeverRan
<1>1. IInv => RejectedNeverRan
  BY DEF IInv
<1> QED BY Inductive, <1>1, PTL

(* Two Task processes overlap in a write root only over presented evidence *)
(* (reconcileEffect), deadlines and orphans of dead hosts included.        *)
THEOREM TasksDoNotOverlap == Spec => []NoOverlappingTasks
<1>1. IInv => NoOverlappingTasks
  <2> SUFFICES ASSUME IInv,
                      NEW o \in Op, NEW q \in Op, o # q, ScopeOf[o] = ScopeOf[q],
                      call[o] = "running", call[q] = "running"
               PROVE  "reconciled" \in {effect[o], effect[q]}
    BY DEF NoOverlappingTasks
  <2>1. \A r \in {o, q} : effect[r] \in {"dispatching", "unknown", "reconciled"}
    BY DEF IInv, TypeOK, Effects, ResultsAgree, RejectedNeverRan
  <2>2. ~(Open(o) /\ Open(q))
    BY DEF IInv, OneOpenEffectPerScope
  <2> QED BY <2>1, <2>2 DEF Open
<1> QED BY Inductive, <1>1, PTL

(* A native process starts only in a scope where every earlier process has *)
(* a certain or an evidence-settled effect (the claim after                *)
(* assertNoConflictingOpenEffect).                                         *)
THEOREM RetriesAreNotSilent == Spec => NoSilentRetry
<1>1. ASSUME IInv, [Next]_vars,
             NEW o \in Op, call[o] = "none", call'[o] = "running"
      PROVE  \A q \in Op \ {o} : ScopeOf[q] = ScopeOf[o] /\ call[q] # "none" =>
                 effect[q] \in {"succeeded", "reconciled"}
  <2>1. Dispatch(o)
    BY ZenonT(60), <1>1 DEF IInv, TypeOK, Next, vars, durable, world,
       Request, Discover, RefuseDiscovery, FailPreflight, Throw, RecordIntent, Claim,
       Dispatch, Settle, Observe, ObserveThrows, Evidence, ReconcileEffect, ReadBack, SettleReadBack,
       World, TakeEffect, EndCall, Turn, ResumeCommitment, CancelCommitment,
       RecordOwnerVerdict, FailLeadTurn, ConditionInterrupted, Recover, RecoverAttempt,
       RecoverCommitment, RecoverThrows, Crash, Stop, Restart, FinishRecovery
  <2>2. Open(o)
    BY <1>1, <2>1 DEF Dispatch, IInv, StepsAgree, Open
  <2>3. \A q \in Op \ {o} : ScopeOf[q] = ScopeOf[o] => ~Open(q)
    BY <1>1, <2>2 DEF IInv, OneOpenEffectPerScope
  <2> QED BY <1>1, <2>3 DEF IInv, TypeOK, Effects, Open, RejectedNeverRan
<1>2. IInv /\ [Next]_vars =>
        [\A o \in Op : call[o] = "none" /\ call'[o] = "running" =>
             \A q \in Op \ {o} : ScopeOf[q] = ScopeOf[o] /\ call[q] # "none" =>
                 effect[q] \in {"succeeded", "reconciled"}]_vars
  BY <1>1
<1> QED BY Inductive, <1>2, PTL DEF Spec, NoSilentRetry

\* A result is not written again, and neither is an effect that is certain or
\* settled on evidence.
ResultsStand ==
    \A o \in Op :
        /\ attempt[o] \in Results =>
               /\ attempt'[o] = attempt[o]
               /\ effect'[o] \in {effect[o], "reconciled"}
        /\ effect[o] \in {"succeeded", "rejected", "reconciled"} =>
               effect'[o] = effect[o] /\ disposition'[o] = disposition[o]

ResultsAreFinal == [][ResultsStand]_vars

\* Who writes the rows of an operation finds them open.
Unsettled(o) ==
    attempt[o] \notin Results /\ effect[o] \in {"absent", "pending", "dispatching"}

LEMMA RowStep ==
    ASSUME NEW o \in Op, TypeOK, Unsettled(o), UNCHANGED disposition,
           NEW a, NEW e, WriteRows(o, a, e)
    PROVE  ResultsStand
BY DEF TypeOK, Unsettled, WriteRows, ResultsStand

LEMMA AttemptStep ==
    ASSUME NEW o \in Op, TypeOK, Unsettled(o), UNCHANGED <<effect, disposition>>,
           NEW a, attempt' = [attempt EXCEPT ![o] = a]
    PROVE  ResultsStand
BY DEF TypeOK, Unsettled, ResultsStand

LEMMA EvidenceStep ==
    ASSUME NEW o \in Op, TypeOK, Reconciles(o), UNCHANGED attempt
    PROVE  ResultsStand
BY DEF TypeOK, Reconciles, ResultsStand

LEMMA NoRowStep == ASSUME UNCHANGED <<attempt, effect, disposition>> PROVE ResultsStand
BY DEF ResultsStand

(* No answer, deadline, read-back or recovery writes the result of an        *)
(* operation twice: the only row that changes after its result is an         *)
(* uncertain effect, once, when evidence is presented for it.                *)
THEOREM ResultsStay == Spec => ResultsAreFinal
<1>1. ASSUME IInv, Next PROVE ResultsStand
  <2> TypeOK
    BY <1>1 DEF IInv
  <2> USE DEF durable
  <2>1. ASSUME NEW o \in Op, RefuseDiscovery(o) \/ FailPreflight(o) \/ RecordIntent(o) \/ Claim(o)
                             \/ (\E status \in Results \ Refusals : Settle(o, status))
                             \/ RecoverAttempt(o)
        PROVE  ResultsStand
    <3>1. Unsettled(o)
      BY <1>1, <2>1 DEF RefuseDiscovery, FailPreflight, RecordIntent, Claim, Settle,
         RecoverAttempt, Interrupted, IInv, StepsAgree, Unsettled, Results, Refusals
    <3>2. CASE FailPreflight(o)
      BY <3>1, <3>2, AttemptStep DEF FailPreflight
    <3>3. CASE ~FailPreflight(o)
      BY <2>1, <3>1, <3>3, RowStep
      DEF RefuseDiscovery, RecordIntent, Claim, Settle, RecoverAttempt
    <3> QED BY <3>2, <3>3
  <2>2. ASSUME NEW o \in Op, ReconcileEffect(o) \/ ReadBack(o) PROVE ResultsStand
    BY <2>2, EvidenceStep DEF ReconcileEffect, ReadBack
  <2>3. ASSUME NEW o \in Op, \/ Discover(o) \/ Throw(o) \/ Dispatch(o) \/ Observe(o)
                             \/ ObserveThrows(o) \/ SettleReadBack(o) \/ World(o)
                             \/ RecoverCommitment(o) \/ RecoverThrows(o)
        PROVE  ResultsStand
    BY <2>3, NoRowStep DEF Discover, Throw, Dispatch, Observe, ObserveThrows, SettleReadBack,
       World, TakeEffect, EndCall, RecoverCommitment, RecoverThrows
  <2>4. ASSUME NEW c \in Commitment, Turn(c) \/ ConditionInterrupted(c) PROVE ResultsStand
    BY <2>4, NoRowStep DEF Turn, ResumeCommitment, CancelCommitment, RecordOwnerVerdict,
       FailLeadTurn, ConditionInterrupted
  <2>5. CASE Crash \/ Restart \/ FinishRecovery
    BY <2>5, NoRowStep DEF Crash, Restart, FinishRecovery
  <2> QED BY <1>1, <2>1, <2>2, <2>3, <2>4, <2>5 DEF Next, Request, Evidence, Recover
<1>2. IInv /\ [Next]_vars => ResultsStand \/ UNCHANGED vars
  BY <1>1
<1> QED BY Inductive, <1>2, PTL DEF Spec, ResultsAreFinal

-----------------------------------------------------------------------------
(* Commitments.                                                            *)

\* Each step writes one Commitment at most, and only one that is not over.
LEMMA CommitmentStep ==
    ASSUME TypeOK, [Next]_vars, NEW c \in Commitment, Terminal(c)
    PROVE  commitment'[c] = commitment[c]
<1> USE OpAssumption DEF TypeOK, durable
<1>1. ASSUME NEW o \in Op, Request(o) PROVE commitment'[c] = commitment[c]
  <2>1. CASE Observe(o)
    BY <2>1 DEF Observe, Verifies, Unblocked, Terminal
  <2> QED BY <1>1, <2>1 DEF Request, Discover, RefuseDiscovery, FailPreflight, Throw, RecordIntent,
          Claim, Dispatch, Settle, ObserveThrows
<1>2. ASSUME NEW o \in Op, Evidence(o) \/ World(o) PROVE commitment'[c] = commitment[c]
  BY <1>2 DEF Evidence, World, ReconcileEffect, ReadBack, SettleReadBack, TakeEffect,
          EndCall, Terminal, Conditioned
<1>3. ASSUME NEW d \in Commitment, Turn(d) \/ ConditionInterrupted(d)
      PROVE  commitment'[c] = commitment[c]
  BY <1>3 DEF Turn, ResumeCommitment, CancelCommitment, RecordOwnerVerdict, FailLeadTurn,
          ConditionInterrupted, Unblocked, Terminal, Conditioned
<1>4. ASSUME NEW o \in Op, Recover(o) PROVE commitment'[c] = commitment[c]
  BY <1>4 DEF Recover, RecoverAttempt, RecoverCommitment, RecoverThrows, Verifies,
          Unblocked, Terminal
<1>5. CASE Crash \/ Restart \/ FinishRecovery \/ UNCHANGED vars
  BY <1>5 DEF Crash, Restart, FinishRecovery, vars
<1> QED BY <1>1, <1>2, <1>3, <1>4, <1>5 DEF Next

(* No late result, read-back or recovery writes a Commitment that is       *)
(* accepted or cancelled.                                                  *)
THEOREM TerminalStays == Spec => TerminalIsFinal
<1>1. TypeOK /\ [Next]_vars =>
        [\A c \in Commitment : Terminal(c) => commitment'[c] = commitment[c]]_vars
  BY CommitmentStep
<1> QED BY TypeCorrect, <1>1, PTL DEF Spec, TerminalIsFinal

Proven(o) == /\ touched[o]
             /\ \/ effect[o] = "succeeded"
                \/ effect[o] = "reconciled" /\ disposition[o] = "applied"

\* What is proven stays proven.
LEMMA ProvenStays ==
    ASSUME TypeOK, Coupled, [Next]_vars, NEW p \in Op, Proven(p)
    PROVE  Proven(p)'
<1> USE OpAssumption DEF TypeOK, durable, world, Proven, WriteRows, Reconciles
<1>1. ASSUME NEW o \in Op, Request(o) PROVE Proven(p)'
  BY <1>1 DEF Request, Discover, RefuseDiscovery, FailPreflight, Throw, RecordIntent,
       Claim, Dispatch, Settle, Observe, ObserveThrows, Coupled, StepsAgree
<1>2. ASSUME NEW o \in Op, Evidence(o) \/ World(o) PROVE Proven(p)'
  BY <1>2 DEF Evidence, World, ReconcileEffect, ReadBack, SettleReadBack, TakeEffect, EndCall
<1>3. ASSUME NEW d \in Commitment, Turn(d) \/ ConditionInterrupted(d) PROVE Proven(p)'
  BY <1>3 DEF Turn, ResumeCommitment, CancelCommitment, RecordOwnerVerdict, FailLeadTurn,
          ConditionInterrupted
<1>4. ASSUME NEW o \in Op, Recover(o) PROVE Proven(p)'
  BY <1>4 DEF Recover, RecoverAttempt, RecoverCommitment, RecoverThrows, Interrupted
<1>5. CASE Crash \/ Restart \/ FinishRecovery \/ UNCHANGED vars
  BY <1>5 DEF Crash, Restart, FinishRecovery, vars
<1> QED BY <1>1, <1>2, <1>3, <1>4, <1>5 DEF Next

\* The two writes by which a Lead comes to accept a Commitment.
LEMMA LeadAcceptanceStep ==
    ASSUME TypeOK, Coupled, [Next]_vars, NEW c \in Commitment,
           commitment[c].by # "lead", commitment'[c].by = "lead"
    PROVE  /\ commitment'[c].state = "accepted"
           /\ \E o \in Op : o = commitment'[c].evidence /\ CommitmentOf[o] = c /\ Proven(o)'
<1> USE OpAssumption DEF TypeOK, durable, world
<1>0. commitment[c] \in CommitmentRecord
  OBVIOUS
<1>1. ASSUME NEW o \in Op, Request(o)
      PROVE  Observe(o) /\ commitment' = [commitment EXCEPT ![CommitmentOf[o]] =
                                              Verified(o, FailureCondition(o))]
  BY <1>1 DEF Request, Discover, RefuseDiscovery, FailPreflight, Throw, RecordIntent,
       Claim, Dispatch, Settle, Observe, ObserveThrows
<1>2. ASSUME NEW o \in Op, NEW f, Verifies(o),
             commitment' = [commitment EXCEPT ![CommitmentOf[o]] = Verified(o, f)],
             UNCHANGED <<attempt, effect, disposition, touched>>
      PROVE  /\ commitment'[c].state = "accepted"
             /\ \E q \in Op : q = commitment'[c].evidence /\ CommitmentOf[q] = c /\ Proven(q)'
  <2>1. c = CommitmentOf[o] /\ commitment'[c] = Verified(o, f)
    BY <1>2
  <2>2. attempt[o] = "succeeded"
    BY <2>1, <1>0 DEF Verified, CommitmentRecord
  <2>3. commitment'[c].state = "accepted" /\ commitment'[c].evidence = o
    BY <2>1, <2>2, <1>0 DEF Verified, CommitmentRecord
  <2>4. Proven(o)'
    BY <1>2, <2>2 DEF Coupled, ResultsAgree, Proven
  <2> QED BY <2>1, <2>3, <2>4
<1>3. ASSUME NEW o \in Op, Request(o)
      PROVE  /\ commitment'[c].state = "accepted"
             /\ \E q \in Op : q = commitment'[c].evidence /\ CommitmentOf[q] = c /\ Proven(q)'
  <2>1. Verifies(o)
    BY <1>1, <1>3 DEF Observe
  <2> QED BY <1>1, <1>2, <1>3, <2>1 DEF Observe
<1>4. ASSUME NEW o \in Op, Evidence(o) \/ World(o)
      PROVE  /\ commitment'[c].state = "accepted"
             /\ \E q \in Op : q = commitment'[c].evidence /\ CommitmentOf[q] = c /\ Proven(q)'
  <2>1. SettleReadBack(o)
    BY <1>4 DEF Evidence, World, ReconcileEffect, ReadBack, TakeEffect, EndCall
  <2>2. c = CommitmentOf[o] /\ disposition[o] = "applied"
    BY <2>1, <1>0 DEF SettleReadBack, Conditioned, CommitmentRecord
  <2>3. commitment'[c].state = "accepted" /\ commitment'[c].evidence = o
    BY <2>1, <2>2 DEF SettleReadBack, Terminal
  <2>4. Proven(o)'
    BY <2>1, <2>2 DEF SettleReadBack, Coupled, StepsAgree, ResultsAgree, Proven
  <2> QED BY <2>2, <2>3, <2>4
<1>5. ASSUME NEW d \in Commitment, Turn(d) \/ ConditionInterrupted(d) PROVE FALSE
  <2>1. ASSUME NEW e, commitment' = Conditioned(d, e) PROVE FALSE
    BY <2>1, <1>0 DEF Conditioned, CommitmentRecord
  <2>2. CASE CancelCommitment(d)
    BY <2>2, <1>0 DEF CancelCommitment, CommitmentRecord
  <2>3. CASE RecordOwnerVerdict(d)
    BY <2>3, <1>0 DEF RecordOwnerVerdict, CommitmentRecord
  <2> QED BY <1>5, <2>1, <2>2, <2>3
          DEF Turn, ResumeCommitment, FailLeadTurn, ConditionInterrupted
<1>6. ASSUME NEW o \in Op, Recover(o)
      PROVE  /\ commitment'[c].state = "accepted"
             /\ \E q \in Op : q = commitment'[c].evidence /\ CommitmentOf[q] = c /\ Proven(q)'
  <2>1. RecoverCommitment(o)
    BY <1>6 DEF Recover, RecoverAttempt, RecoverThrows
  <2> QED BY <2>1, <1>2 DEF RecoverCommitment
<1>7. CASE Crash \/ Restart \/ FinishRecovery \/ UNCHANGED vars
  BY <1>7 DEF Crash, Restart, FinishRecovery, vars
<1> QED BY <1>3, <1>4, <1>5, <1>6, <1>7 DEF Next

(* A Commitment is accepted by a Lead only on an effect that is there      *)
(* (buildTargetProjectOperationVerification, reconcileForgeEffect).        *)
THEOREM AcceptanceIsProven == Spec => []LeadAcceptanceIsProven
<1> DEFINE AInv == LeadAccepts /\ LeadAcceptanceIsProven
<1>1. Init => AInv
  BY DEF Init, LeadAccepts, LeadAcceptanceIsProven
<1>2. IInv /\ AInv /\ [Next]_vars => AInv'
  <2> SUFFICES ASSUME IInv, AInv, [Next]_vars, NEW c \in Commitment,
                      commitment'[c].by = "lead"
               PROVE  /\ commitment'[c].state = "accepted"
                      /\ \E o \in Op : /\ o = commitment'[c].evidence
                                       /\ CommitmentOf[o] = c
                                       /\ Proven(o)'
    BY DEF LeadAccepts, LeadAcceptanceIsProven, Proven
  <2>1. TypeOK /\ Coupled
    BY DEF IInv, Coupled
  <2>2. CASE commitment[c].by = "lead"
    <3>1. commitment'[c] = commitment[c] /\ commitment[c].state = "accepted"
      BY <2>1, <2>2, CommitmentStep DEF LeadAccepts, Terminal
    <3>2. PICK o \in Op : o = commitment[c].evidence /\ CommitmentOf[o] = c /\ Proven(o)
      BY <2>2 DEF LeadAcceptanceIsProven, Proven
    <3>3. Proven(o)'
      BY <2>1, <3>2, ProvenStays
    <3> QED BY <3>1, <3>2, <3>3
  <2>3. CASE commitment[c].by # "lead"
    BY <2>1, <2>3, LeadAcceptanceStep
  <2> QED BY <2>2, <2>3
<1>3. AInv => LeadAcceptanceIsProven
  OBVIOUS
<1> HIDE DEF AInv
<1> QED BY Inductive, <1>1, <1>2, <1>3, PTL DEF Spec

-----------------------------------------------------------------------------
(* An uncertain effect and its Commitment.                                 *)

\* A mutation the Lead has not done with: under way, or uncertain.
Undone(o) ==
    \/ pc[o] \in {"discovered", "recorded", "claimed", "running", "reconciled"}
    \/ Interrupted(o)
    \/ effect[o] = "unknown"

\* What an uncertain row was settled with; the intents a serving host has are
\* its own; only a mutation is read back; the mutations of a Commitment come
\* one after the other.
Uncertain ==
    /\ \A o \in Op : effect[o] = "unknown" => attempt[o] \in {"failed", "timed-out", "unknown"}
    /\ \A o \in Op : host = "up" /\ Interrupted(o) =>
                         pc[o] \in {"recorded", "claimed", "running"}
    /\ \A o \in Op : pc[o] = "reconciled" => Kind[o] = "forge"
    /\ \A o, q \in Op : /\ o # q /\ CommitmentOf[o] = CommitmentOf[q] /\ Kind[o] = "forge"
                        => ~(Undone(o) /\ Undone(q))

\* No step but a discovery gives a mutation anything to do.
LEMMA UndoneStep ==
    ASSUME TypeOK, Coupled, Uncertain, [Next]_vars, NEW p \in Op, Undone(p)', ~Undone(p)
    PROVE  Discover(p)
<1> USE OpAssumption DEF TypeOK, durable, world, Undone, Interrupted, WriteRows, Reconciles
<1>1. ASSUME NEW o \in Op, Request(o), ~Discover(p) PROVE FALSE
  <2>1. o = p
    BY <1>1 DEF Request, Discover, RefuseDiscovery, FailPreflight, Throw, RecordIntent,
       Claim, Dispatch, Settle, Observe, ObserveThrows
  <2> QED BY <1>1, <2>1 DEF Request, RefuseDiscovery, FailPreflight, PreflightFailures,
          Refusals, Throw, Thrown, RecordIntent, Claim, Dispatch, Settle, Observe, ObserveThrows
<1>2. ASSUME NEW o \in Op, Evidence(o) \/ World(o) PROVE FALSE
  BY <1>2 DEF Evidence, World, ReconcileEffect, ReadBack, SettleReadBack, TakeEffect, EndCall
<1>3. ASSUME NEW d \in Commitment, Turn(d) \/ ConditionInterrupted(d) PROVE FALSE
  BY <1>3 DEF Turn, ResumeCommitment, CancelCommitment, RecordOwnerVerdict, FailLeadTurn,
          ConditionInterrupted
<1>4. ASSUME Stop, UNCHANGED <<durable, world>> PROVE FALSE
  BY <1>4 DEF Stop, AfterCrash
<1>5. ASSUME NEW o \in Op, Recover(o) PROVE FALSE
  <2>1. CASE RecoverThrows(o)
    BY <1>4, <2>1 DEF RecoverThrows
  <2> QED BY <1>5, <2>1 DEF Recover, RecoverAttempt, RecoverCommitment
<1>6. CASE Crash
  BY <1>4, <1>6 DEF Crash
<1>7. CASE Restart \/ FinishRecovery \/ UNCHANGED vars
  BY <1>7 DEF Restart, FinishRecovery, vars
<1> QED BY <1>1, <1>2, <1>3, <1>5, <1>6, <1>7 DEF Next

\* The Lead takes a mutation up only where nothing is left undone.
LEMMA DiscoverAlone ==
    ASSUME TypeOK, Uncertain, UncertainHoldsCommitment, NEW p \in Op, Discover(p),
           Kind[p] = "forge", NEW q \in Op \ {p}, CommitmentOf[q] = CommitmentOf[p]
    PROVE  ~Undone(q)
<1>1. Origin[p] = "lead" /\ Kind[q] = "forge"
      /\ \A v \in Op : CommitmentOf[v] = CommitmentOf[p] => Origin[v] = "lead"
  BY OpAssumption, CriteriaAssumption
<1>2. pc[q] \in {"idle", "done"} /\ Unblocked(CommitmentOf[p]) /\ host = "up"
  BY <1>1 DEF Discover, Admitted, LeadFree, InTurn, Running
<1>3. effect[q] # "unknown"
  BY <1>1, <1>2 DEF UncertainHoldsCommitment
<1> QED BY <1>2, <1>3 DEF Uncertain, Undone

LEMMA UncertainStep ==
    ASSUME TypeOK, Coupled, Uncertain, UncertainHoldsCommitment, [Next]_vars PROVE Uncertain'
<1>1. ASSUME NEW o \in Op, NEW q \in Op, o # q, CommitmentOf[o] = CommitmentOf[q], Kind[o] = "forge",
             Undone(o)', Undone(q)'
      PROVE  FALSE
  <2>1. ~(Undone(o) /\ Undone(q)) /\ Kind[q] = "forge"
    BY <1>1, CriteriaAssumption DEF Uncertain
  <2>2. CASE ~Undone(o)
    <3>1. Discover(o)
      BY <1>1, <2>2, UndoneStep
    <3>2. ~Undone(q)
      BY <1>1, <3>1, DiscoverAlone
    <3>3. Discover(q)
      BY <1>1, <3>2, UndoneStep
    <3> QED BY <1>1, <3>1, <3>3, <2>1, OpAssumption DEF Discover, TypeOK
  <2>3. CASE ~Undone(q)
    <3>1. Discover(q)
      BY <1>1, <2>3, UndoneStep
    <3>2. ~Undone(o)
      BY <1>1, <2>1, <3>1, DiscoverAlone
    <3> QED BY <2>2, <3>2
  <2> QED BY <2>1, <2>2, <2>3
<1>2. ASSUME NEW p \in Op
      PROVE  /\ effect'[p] = "unknown" => attempt'[p] \in {"failed", "timed-out", "unknown"}
             /\ host' = "up" /\ Interrupted(p)' => pc'[p] \in {"recorded", "claimed", "running"}
  <2> USE OpAssumption DEF TypeOK, durable, world, Interrupted, WriteRows, Reconciles, Uncertain
  <2>1. ASSUME NEW o \in Op, Request(o)
        PROVE  /\ effect'[p] = "unknown" => attempt'[p] \in {"failed", "timed-out", "unknown"}
               /\ Interrupted(p)' => pc'[p] \in {"recorded", "claimed", "running"}
    <3>1. CASE o # p
      BY <2>1, <3>1 DEF Request, Discover, RefuseDiscovery, FailPreflight, Throw, RecordIntent,
         Claim, Dispatch, Settle, Observe, ObserveThrows, Running
    <3>2. ASSUME NEW status \in Results \ Refusals, Settle(p, status)
          PROVE  /\ effect'[p] = "unknown" => attempt'[p] \in {"failed", "timed-out", "unknown"}
                 /\ ~Interrupted(p)'
      BY <3>2 DEF Settle, Results, Refusals
    <3>3. CASE o = p /\ ~\E status \in Results \ Refusals : Settle(p, status)
      BY <2>1, <3>3 DEF Request, Discover, RefuseDiscovery, FailPreflight, PreflightFailures,
         Refusals, Throw, RecordIntent, Claim, Dispatch, Observe, HasResult, Results,
         ObserveThrows, Running, Coupled, StepsAgree
    <3> QED BY <2>1, <3>1, <3>2, <3>3
  <2>2. ASSUME NEW o \in Op, Evidence(o) \/ World(o)
        PROVE  /\ effect'[p] = "unknown" => attempt'[p] \in {"failed", "timed-out", "unknown"}
               /\ host' = "up" /\ Interrupted(p)' => pc'[p] \in {"recorded", "claimed", "running"}
    BY <2>2 DEF Evidence, World, ReconcileEffect, ReadBack, SettleReadBack, TakeEffect, EndCall,
       Coupled, StepsAgree
  <2>3. ASSUME NEW d \in Commitment, Turn(d) \/ ConditionInterrupted(d)
        PROVE  /\ effect'[p] = "unknown" => attempt'[p] \in {"failed", "timed-out", "unknown"}
               /\ host' = "up" /\ Interrupted(p)' => pc'[p] \in {"recorded", "claimed", "running"}
    BY <2>3 DEF Turn, ResumeCommitment, CancelCommitment, RecordOwnerVerdict, FailLeadTurn,
            ConditionInterrupted
  <2>4. ASSUME NEW o \in Op, Recover(o)
        PROVE  /\ effect'[p] = "unknown" => attempt'[p] \in {"failed", "timed-out", "unknown"}
               /\ host' # "up"
    BY <2>4 DEF Recover, RecoverAttempt, RecoverCommitment, RecoverThrows, Stop
  <2>5. CASE Crash \/ Restart \/ FinishRecovery \/ UNCHANGED vars
    BY <2>5 DEF Crash, Stop, Restart, FinishRecovery, Recovered, vars
  <2> QED BY <2>1, <2>2, <2>3, <2>4, <2>5 DEF Next
<1>3. ASSUME NEW p \in Op, pc'[p] = "reconciled" PROVE Kind[p] = "forge"
  <2> USE OpAssumption DEF TypeOK
  <2>1. CASE pc[p] = "reconciled"
    BY <2>1 DEF Uncertain
  <2>2. CASE pc[p] # "reconciled"
    <3>1. ASSUME NEW o \in Op, Request(o) PROVE FALSE
      BY <1>3, <2>2, <3>1 DEF Request, Discover, RefuseDiscovery, FailPreflight, Throw, Thrown,
         RecordIntent, Claim, Dispatch, Settle, Observe, ObserveThrows
    <3>2. ASSUME NEW o \in Op, Evidence(o) \/ World(o) PROVE Kind[p] = "forge"
      BY <1>3, <2>2, <3>2 DEF Evidence, World, ReconcileEffect, ReadBack, SettleReadBack, TakeEffect,
         EndCall
    <3>3. ASSUME NEW o \in Op, Recover(o) PROVE FALSE
      BY <1>3, <2>2, <3>3 DEF Recover, RecoverAttempt, RecoverCommitment, RecoverThrows, Stop, AfterCrash
    <3>4. ASSUME NEW d \in Commitment, Turn(d) \/ ConditionInterrupted(d) PROVE FALSE
      BY <1>3, <2>2, <3>4 DEF Turn, ResumeCommitment, CancelCommitment, RecordOwnerVerdict,
         FailLeadTurn, ConditionInterrupted
    <3>5. CASE Crash \/ Restart \/ FinishRecovery \/ UNCHANGED vars
      BY <1>3, <2>2, <3>5 DEF Crash, Stop, AfterCrash, Restart, FinishRecovery, vars
    <3> QED BY <3>1, <3>2, <3>3, <3>4, <3>5 DEF Next
  <2> QED BY <2>1, <2>2
<1> QED BY <1>1, <1>2, <1>3 DEF Uncertain

\* What UncertainHoldsCommitment says of one operation.
Holds(o) ==
    host = "up" /\ effect[o] = "unknown" =>
        \/ ~Unblocked(CommitmentOf[o])
        \/ pc[o] = "settled"
        \/ \E v \in Op : /\ Origin[v] = "verification" /\ v \notin linked
                         /\ CommitmentOf[v] = CommitmentOf[o] /\ pc[v] # "idle"

\* A step that keeps the Commitment of p, what p waits for, and its witnesses.
LEMMA HoldsStay ==
    ASSUME NEW p \in Op, Holds(p), host = "up", linked' = linked,
           effect'[p] = "unknown" => effect[p] = "unknown",
           Unblocked(CommitmentOf[p])' => Unblocked(CommitmentOf[p]),
           effect[p] = "unknown" /\ pc[p] = "settled" => pc'[p] = "settled" \/ ~Unblocked(CommitmentOf[p])',
           \A v \in Op : pc'[v] = "idle" => pc[v] = "idle"
    PROVE  Holds(p)'
BY DEF Holds

LEMMA ConditionedBlocks ==
    ASSUME TypeOK, NEW c \in Commitment, NEW d, NEW e \in Commitment, commitment' = Conditioned(c, d)
    PROVE  /\ d # "none" => (Unblocked(e)' => Unblocked(e)) /\ ~Unblocked(c)'
           /\ e # c => (Unblocked(e)' <=> Unblocked(e))
<1>1. commitment[c] \in CommitmentRecord
  BY DEF TypeOK
<1>2. commitment'[c].condition = d
  BY <1>1 DEF Conditioned, CommitmentRecord, TypeOK
<1>3. e # c => commitment'[e] = commitment[e]
  BY DEF Conditioned, TypeOK
<1> QED BY <1>2, <1>3 DEF Unblocked

LEMMA HoldsStep ==
    ASSUME TypeOK, Coupled, Uncertain, UncertainHoldsCommitment, [Next]_vars PROVE UncertainHoldsCommitment'
<1>0. ASSUME NEW p \in Op PROVE Holds(p) /\ CommitmentOf[p] \in Commitment
  BY <1>0, OpAssumption DEF UncertainHoldsCommitment, Holds
<1>1. ASSUME NEW o \in Op, NEW p \in Op, Request(o) PROVE Holds(p)'
  <2>0. pc \in [Op -> Steps] /\ effect \in [Op -> Effects] /\ host = "up"
    BY <1>1 DEF TypeOK, Request, Discover, RefuseDiscovery, FailPreflight, Throw, RecordIntent,
         Claim, Dispatch, Settle, Observe, ObserveThrows, Running
  <2>1. CASE Discover(o) \/ RefuseDiscovery(o) \/ FailPreflight(o) \/ Throw(o) \/ RecordIntent(o)
             \/ Claim(o) \/ Dispatch(o)
    <3>1. linked' = linked /\ commitment' = commitment
      BY <2>1 DEF Discover, RefuseDiscovery, FailPreflight, Throw, RecordIntent, Claim, Dispatch, durable
    <3>2. \A v \in Op : (pc'[v] = "idle" => pc[v] = "idle") /\ (pc[v] = "settled" => pc'[v] = "settled")
      BY <2>0, <2>1 DEF Discover, RefuseDiscovery, FailPreflight, Throw, Thrown, RecordIntent, Claim,
         Dispatch
    <3>3. effect'[p] = "unknown" => effect[p] = "unknown"
      BY <2>0, <2>1 DEF Discover, RefuseDiscovery, FailPreflight, Throw, RecordIntent, Claim, Dispatch,
         durable, WriteRows
    <3> QED BY <1>0, <2>0, <3>1, <3>2, <3>3, HoldsStay DEF Unblocked
  <2>2. ASSUME NEW status \in Results \ Refusals, Settle(o, status) PROVE Holds(p)'
    <3>1. UNCHANGED <<linked, commitment>> /\ pc' = [pc EXCEPT ![o] = "settled"]
          /\ \E e : effect' = [effect EXCEPT ![o] = e]
      BY <2>2 DEF Settle, WriteRows
    <3>2. CASE p = o
      BY <2>0, <3>1, <3>2 DEF Holds
    <3>3. CASE p # o
      BY <1>0, <2>0, <3>1, <3>3, HoldsStay DEF Unblocked
    <3> QED BY <3>2, <3>3
  <2>3. CASE Observe(o)
    <3>1. /\ ~Unblocked(CommitmentOf[o])'
          /\ \A d \in Commitment : d # CommitmentOf[o] => commitment'[d] = commitment[d]
      <4>0. commitment[CommitmentOf[o]] \in CommitmentRecord
        BY <1>0 DEF TypeOK
      <4>1. CASE UNCHANGED commitment /\ AlreadyRecorded(o)
        BY <4>1 DEF AlreadyRecorded, Unblocked
      <4>2. CASE commitment' = [commitment EXCEPT ![CommitmentOf[o]] = Verified(o, FailureCondition(o))]
        <5>1. commitment'[CommitmentOf[o]] = Verified(o, FailureCondition(o))
          BY <1>0, <4>2 DEF TypeOK
        <5>2. Verified(o, FailureCondition(o)).state = "accepted"
              \/ Verified(o, FailureCondition(o)).condition # "none"
          BY <4>0 DEF Verified, FailureCondition, CommitmentRecord
        <5> QED BY <4>2, <5>1, <5>2 DEF Unblocked, TypeOK
      <4> QED BY <2>3, <4>1, <4>2 DEF Observe
    <3>2. CASE CommitmentOf[p] = CommitmentOf[o]
      BY <3>1, <3>2 DEF Holds
    <3>3. CASE CommitmentOf[p] # CommitmentOf[o]
      <4>1. /\ UNCHANGED <<effect, host>> /\ pc' = [pc EXCEPT ![o] = "done"]
            /\ linked' \subseteq linked \cup {o}
            /\ linked \subseteq linked'
        BY <2>3 DEF Observe, Link
      <4>2. Unblocked(CommitmentOf[p])' <=> Unblocked(CommitmentOf[p])
        BY <1>0, <3>1, <3>3 DEF Unblocked
      <4>3. \A v \in Op : v # o => pc'[v] = pc[v]
        BY <2>0, <4>1
      <4> QED BY <1>0, <3>3, <4>1, <4>2, <4>3 DEF Holds
    <3> QED BY <3>2, <3>3
  <2>4. CASE ObserveThrows(o)
    <3>1. /\ UNCHANGED durable /\ pc' = [pc EXCEPT ![o] = Thrown(o)] /\ ~Verifies(o)
      BY <2>4 DEF ObserveThrows
    <3>2. effect[o] = "unknown" => ~Unblocked(CommitmentOf[o])
      <4>1. effect[o] = "unknown" => Attributed(o)
        BY DEF Uncertain, Attributed, ExpectedEffect, Refusals
      <4> QED BY <3>1, <4>1 DEF Verifies
    <3>3. \A v \in Op : (pc'[v] = "idle" => pc[v] = "idle") /\ (v # o => pc'[v] = pc[v])
      BY <2>0, <3>1 DEF Thrown
    <3> QED BY <1>0, <2>0, <3>1, <3>2, <3>3, HoldsStay DEF durable, Unblocked
  <2> QED BY <1>1, <2>1, <2>2, <2>3, <2>4 DEF Request
<1>2. ASSUME NEW o \in Op, NEW p \in Op, Evidence(o) \/ World(o) PROVE Holds(p)'
  <2>0. pc \in [Op -> Steps] /\ effect \in [Op -> Effects]
    BY DEF TypeOK
  <2>1. CASE SettleReadBack(o)
    <3>1. UNCHANGED <<effect, linked>> /\ pc' = [pc EXCEPT ![o] = "done"] /\ pc[o] = "reconciled"
          /\ host = "up"
      BY <2>1 DEF SettleReadBack
    <3>2. \A v \in Op : (pc'[v] = "idle" => pc[v] = "idle") /\ (pc[v] = "settled" => pc'[v] = "settled")
      BY <2>0, <3>1
    <3>3. CASE CommitmentOf[p] = CommitmentOf[o]
      <4>1. effect[p] # "unknown"
        <5>1. Kind[o] = "forge"
          BY <3>1 DEF Uncertain
        <5> QED BY <3>1, <3>3, <5>1 DEF Uncertain, Undone, Coupled, StepsAgree
      <4> QED BY <3>1, <4>1 DEF Holds
    <3>4. CASE CommitmentOf[p] # CommitmentOf[o]
      <4>1. commitment'[CommitmentOf[p]] = commitment[CommitmentOf[p]]
        BY <1>0, <2>1, <3>4 DEF SettleReadBack, Conditioned, TypeOK
      <4> QED BY <1>0, <3>1, <3>2, <4>1, HoldsStay DEF Unblocked
    <3> QED BY <3>3, <3>4
  <2>2. CASE ~SettleReadBack(o)
    <3>1. UNCHANGED <<commitment, linked, host>>
      BY <1>2, <2>2 DEF Evidence, World, ReconcileEffect, ReadBack, TakeEffect, EndCall, durable
    <3>2. effect'[p] = "unknown" => effect[p] = "unknown"
      BY <1>2, <2>0, <2>2 DEF Evidence, World, ReconcileEffect, ReadBack, TakeEffect, EndCall, durable,
         Reconciles
    <3>3. \A v \in Op : (pc'[v] = "idle" => pc[v] = "idle") /\ (pc[v] = "settled" => pc'[v] = "settled")
      BY <1>2, <2>0, <2>2 DEF Evidence, World, ReconcileEffect, ReadBack, TakeEffect, EndCall
    <3>4. host # "up" => Holds(p)'
      BY <3>1 DEF Holds
    <3> QED BY <1>0, <3>1, <3>2, <3>3, <3>4, HoldsStay DEF Unblocked
  <2> QED BY <2>1, <2>2
<1>3. ASSUME NEW c \in Commitment, NEW p \in Op, Turn(c) \/ ConditionInterrupted(c) PROVE Holds(p)'
  <2>0. UNCHANGED <<effect, linked, pc, host>>
    BY <1>3 DEF Turn, ResumeCommitment, CancelCommitment, RecordOwnerVerdict, FailLeadTurn,
            ConditionInterrupted
  <2>1. CASE ResumeCommitment(c)
    <3>1. CASE CommitmentOf[p] = c
      BY <2>0, <2>1, <3>1 DEF ResumeCommitment, Holds
    <3>2. CASE CommitmentOf[p] # c
      <4>1. Unblocked(CommitmentOf[p])' <=> Unblocked(CommitmentOf[p])
        BY <1>0, <2>1, <3>2, ConditionedBlocks DEF ResumeCommitment
      <4> QED BY <1>0, <2>0, <4>1 DEF Holds
    <3> QED BY <3>1, <3>2
  <2>2. CASE ~ResumeCommitment(c)
    <3>1. Unblocked(CommitmentOf[p])' => Unblocked(CommitmentOf[p])
      <4>1. CASE FailLeadTurn(c) \/ ConditionInterrupted(c)
        BY <1>0, <4>1, ConditionedBlocks DEF FailLeadTurn, ConditionInterrupted
      <4>2. CASE CancelCommitment(c) \/ RecordOwnerVerdict(c)
        <5>1. commitment[c] \in CommitmentRecord
          BY DEF TypeOK
        <5>2. commitment'[c].state # "active"
              /\ \A d \in Commitment : d # c => commitment'[d] = commitment[d]
          <6>0. commitment \in [Commitment -> CommitmentRecord]
            BY DEF TypeOK
          <6>1. \E r : commitment' = [commitment EXCEPT ![c] = r] /\ r.state # "active"
            <7>1. CASE CancelCommitment(c)
              <8> DEFINE r == [commitment[c] EXCEPT !.state = "cancelled", !.condition = "none"]
              <8>1. commitment' = [commitment EXCEPT ![c] = r]
                BY <6>0, <7>1 DEF CancelCommitment
              <8>2. r.state = "cancelled"
                BY <5>1 DEF CommitmentRecord
              <8> QED BY <8>1, <8>2
            <7>2. CASE RecordOwnerVerdict(c)
              <8> DEFINE r == [commitment[c] EXCEPT !.state = "accepted", !.condition = "none",
                                                    !.by = "owner"]
              <8>1. commitment' = [commitment EXCEPT ![c] = r]
                BY <6>0, <7>2 DEF RecordOwnerVerdict
              <8>2. r.state = "accepted"
                BY <5>1 DEF CommitmentRecord
              <8> QED BY <8>1, <8>2
            <7> QED BY <4>2, <7>1, <7>2
          <6> QED BY <6>0, <6>1
        <5> QED BY <1>0, <5>2 DEF Unblocked
      <4> QED BY <1>3, <2>2, <4>1, <4>2 DEF Turn
    <3> QED BY <1>0, <2>0, <3>1 DEF Holds
  <2> QED BY <2>1, <2>2
<1>4. ASSUME NEW p \in Op, host' # "up" PROVE Holds(p)'
  BY <1>4 DEF Holds
<1>5. ASSUME NEW o \in Op, NEW p \in Op, Recover(o) PROVE Holds(p)'
  BY <1>4, <1>5 DEF Recover, RecoverAttempt, RecoverCommitment, RecoverThrows, Stop
<1>6. ASSUME NEW p \in Op, FinishRecovery PROVE Holds(p)'
  <2>1. Unblocked(CommitmentOf[p]) => Awaiting(CommitmentOf[p])
    BY <1>0, <1>6 DEF FinishRecovery
  <2> QED BY <1>6, <2>1 DEF FinishRecovery, durable, Holds, Awaiting, Unblocked
<1>7. ASSUME NEW p \in Op, Crash \/ Restart PROVE Holds(p)'
  BY <1>4, <1>7 DEF Crash, Stop, Restart
<1>8. ASSUME NEW p \in Op, UNCHANGED vars PROVE Holds(p)'
  BY <1>0, <1>8 DEF vars, Holds, Unblocked
<1>9. \A p \in Op : Holds(p)'
  BY <1>1, <1>2, <1>3, <1>5, <1>6, <1>7, <1>8 DEF Next
<1> QED BY <1>9 DEF UncertainHoldsCommitment, Holds

(* While the host serves, an uncertain effect holds its Commitment back:   *)
(* no read-back and no resumption of another operation of the Commitment   *)
(* frees it (observe*Result, reconcileForgeEffect, resumeCommitment).      *)
THEOREM UncertaintyHolds == Spec => []UncertainHoldsCommitment
<1> DEFINE UInv == Uncertain /\ UncertainHoldsCommitment
<1>1. Init => UInv
  BY DEF Init, Uncertain, UncertainHoldsCommitment, Undone, Interrupted
<1>2. IInv /\ UInv /\ [Next]_vars => UInv'
  BY UncertainStep, HoldsStep DEF IInv, Coupled
<1>3. UInv => UncertainHoldsCommitment
  OBVIOUS
<1> HIDE DEF UInv
<1> QED BY Inductive, <1>1, <1>2, <1>3, PTL DEF Spec

-----------------------------------------------------------------------------
(* The ledger implements scope reservation.                                *)

Rewrites(o, e) == effect' = [effect EXCEPT ![o] = e]

\* All that happens to the effect rows, one row a step.
EffectMoves(o) ==
    \/ effect[o] = "absent" /\ Rewrites(o, "rejected")
    \/ effect[o] = "absent" /\ ~Conflict(o) /\ Rewrites(o, "pending")
    \/ effect[o] = "pending" /\ Rewrites(o, "dispatching")
    \/ effect[o] = "pending" /\ Rewrites(o, "rejected")
    \/ effect[o] = "dispatching" /\ Rewrites(o, "succeeded")
    \/ effect[o] = "dispatching" /\ Rewrites(o, "unknown")
    \/ effect[o] = "unknown" /\ Rewrites(o, "reconciled")

LEMMA EffectStep ==
    ASSUME IInv, [Next]_vars
    PROVE  UNCHANGED effect \/ \E o \in Op : EffectMoves(o)
<1> USE DEF durable, EffectMoves, Rewrites, WriteRows, Reconciles
<1>1. ASSUME NEW o \in Op, Request(o) PROVE UNCHANGED effect \/ EffectMoves(o)
  BY <1>1 DEF Request, Discover, RefuseDiscovery, FailPreflight, Throw, RecordIntent,
       Claim, Dispatch, Settle, Observe, ObserveThrows, IInv, StepsAgree
<1>2. ASSUME NEW o \in Op, Evidence(o) \/ World(o) PROVE UNCHANGED effect \/ EffectMoves(o)
  BY <1>2 DEF Evidence, World, ReconcileEffect, ReadBack, SettleReadBack, TakeEffect, EndCall
<1>3. ASSUME NEW d \in Commitment, Turn(d) \/ ConditionInterrupted(d) PROVE UNCHANGED effect
  BY <1>3 DEF Turn, ResumeCommitment, CancelCommitment, RecordOwnerVerdict, FailLeadTurn,
          ConditionInterrupted
<1>4. ASSUME NEW o \in Op, Recover(o) PROVE UNCHANGED effect \/ EffectMoves(o)
  BY <1>4 DEF Recover, RecoverAttempt, RecoverCommitment, RecoverThrows, Interrupted
<1>5. CASE Crash \/ Restart \/ FinishRecovery \/ UNCHANGED vars
  BY <1>5 DEF Crash, Restart, FinishRecovery, vars
<1> QED BY <1>1, <1>2, <1>3, <1>4, <1>5 DEF Next

\* The holder of a scope is its open operation.
LEMMA HolderIsOpen ==
    ASSUME OneOpenEffectPerScope, NEW o \in Op, Open(o)
    PROVE  HolderOf(ScopeOf[o]) = o
BY DEF OneOpenEffectPerScope, HolderOf

LEMMA NoHolder ==
    ASSUME NEW s, \A o \in Op : ScopeOf[o] = s => ~Open(o)
    PROVE  HolderOf(s) = NoOp
BY DEF HolderOf

phaseBar  == [o \in Op |-> Phase(effect[o])]
holderBar == [s \in Scope |-> HolderOf(s)]

\* A move within the open states, or within the closed ones, moves no holder.
LEMMA HoldersStay ==
    ASSUME NEW p \in Op, NEW e, TypeOK, Rewrites(p, e),
           Open(p) <=> e \in {"pending", "dispatching", "unknown"}
    PROVE  holderBar' = holderBar
<1>1. \A o \in Op : Open(o)' <=> Open(o)
  BY DEF TypeOK, Rewrites, Open
<1>2. \A s \in Scope : HolderOf(s)' = HolderOf(s)
  BY <1>1 DEF HolderOf
<1> QED BY <1>2 DEF holderBar

\* A row that opens takes its scope; a row that closes gives it back.
LEMMA HolderTakes ==
    ASSUME NEW p \in Op, NEW e \in {"pending", "dispatching", "unknown"},
           TypeOK, Rewrites(p, e), ~Conflict(p), OneOpenEffectPerScope'
    PROVE  /\ HolderOf(ScopeOf[p]) = NoOp
           /\ holderBar' = [holderBar EXCEPT ![ScopeOf[p]] = p]
<1>1. HolderOf(ScopeOf[p]) = NoOp
  BY NoHolder DEF Conflict
<1>2. Open(p)' /\ \A o \in Op \ {p} : Open(o)' <=> Open(o)
  BY DEF TypeOK, Rewrites, Open
<1>3. HolderOf(ScopeOf[p])' = p
  BY <1>2 DEF OneOpenEffectPerScope, HolderOf
<1>4. \A s \in Scope \ {ScopeOf[p]} : HolderOf(s)' = HolderOf(s)
  BY <1>2 DEF HolderOf
<1> QED BY <1>1, <1>3, <1>4 DEF holderBar

LEMMA HolderLeaves ==
    ASSUME NEW p \in Op, NEW e \in {"succeeded", "rejected", "reconciled"},
           TypeOK, Rewrites(p, e), Open(p), OneOpenEffectPerScope
    PROVE  holderBar' = [holderBar EXCEPT ![ScopeOf[p]] = NoOp]
<1>1. ~Open(p)' /\ \A o \in Op \ {p} : Open(o)' <=> Open(o)
  BY DEF TypeOK, Rewrites, Open
<1>2. \A o \in Op : ScopeOf[o] = ScopeOf[p] => ~Open(o)'
  BY <1>1 DEF OneOpenEffectPerScope
<1>3. HolderOf(ScopeOf[p])' = NoOp
  BY <1>2 DEF HolderOf
<1>4. \A s \in Scope \ {ScopeOf[p]} : HolderOf(s)' = HolderOf(s)
  BY <1>1 DEF HolderOf
<1> QED BY <1>3, <1>4 DEF holderBar

\* Every row that moves is a move of its phase.
LEMMA PhaseMoves ==
    ASSUME NEW p \in Op, NEW e, TypeOK, Rewrites(p, e)
    PROVE  /\ phaseBar[p] = Phase(effect[p])
           /\ phaseBar' = [phaseBar EXCEPT ![p] = Phase(e)]
BY DEF phaseBar, TypeOK, Rewrites

\* The step of the ledger is a step of the reservation, or none.
LEMMA ReservationStep ==
    ASSUME IInv, IInv', [Next]_vars
    PROVE  [Reservation!Next]_(Reservation!vars)
<1> USE OpAssumption
<1>1. CASE UNCHANGED effect
  <2>1. \A o \in Op : Open(o)' <=> Open(o)
    BY <1>1 DEF Open
  <2>2. \A s \in Scope : HolderOf(s)' = HolderOf(s)
    BY <2>1 DEF HolderOf
  <2> QED BY <1>1, <2>2 DEF Reservation!vars, Phase
<1>2. ASSUME NEW p \in Op, EffectMoves(p) PROVE Reservation!Next
  <2> USE DEF IInv
  <2> SUFFICES
        \/ Reservation!Refuse(p) \/ Reservation!Reserve(p) \/ Reservation!Dispatch(p)
        \/ Reservation!Withdraw(p) \/ Reservation!Finish(p) \/ Reservation!Doubt(p)
        \/ Reservation!Prove(p)
    BY DEF Reservation!Next
  <2>0. ScopeOf[p] \in Scope
    OBVIOUS
  <2>1. CASE effect[p] = "absent" /\ Rewrites(p, "rejected")
    <3>1. holderBar' = holderBar
      BY <2>1, HoldersStay DEF Open
    <3>2. phaseBar[p] = "new" /\ phaseBar' = [phaseBar EXCEPT ![p] = "closed"]
      BY <2>1, PhaseMoves DEF Phase
    <3> QED BY <3>1, <3>2 DEF Reservation!Refuse, Reservation!Move, phaseBar, holderBar
  <2>2. CASE effect[p] = "absent" /\ ~Conflict(p) /\ Rewrites(p, "pending")
    <3>1. holderBar[ScopeOf[p]] = NoOp /\ holderBar' = [holderBar EXCEPT ![ScopeOf[p]] = p]
      BY <2>0, <2>2, HolderTakes DEF holderBar
    <3>2. phaseBar[p] = "new" /\ phaseBar' = [phaseBar EXCEPT ![p] = "reserved"]
      BY <2>2, PhaseMoves DEF Phase
    <3> QED BY <3>1, <3>2 DEF Reservation!Reserve, Reservation!Move, phaseBar, holderBar
  <2>3. CASE effect[p] = "pending" /\ Rewrites(p, "dispatching")
    <3>1. holderBar' = holderBar /\ holderBar[ScopeOf[p]] = p
      BY <2>0, <2>3, HoldersStay, HolderIsOpen DEF Open, holderBar
    <3>2. phaseBar[p] = "reserved" /\ phaseBar' = [phaseBar EXCEPT ![p] = "dispatched"]
      BY <2>3, PhaseMoves DEF Phase
    <3> QED BY <3>1, <3>2 DEF Reservation!Dispatch, Reservation!Move, Reservation!Keep,
                              phaseBar, holderBar
  <2>4. CASE effect[p] = "pending" /\ Rewrites(p, "rejected")
    <3>1. holderBar[ScopeOf[p]] = p /\ holderBar' = [holderBar EXCEPT ![ScopeOf[p]] = NoOp]
      BY <2>0, <2>4, HolderLeaves, HolderIsOpen DEF Open, holderBar
    <3>2. phaseBar[p] = "reserved" /\ phaseBar' = [phaseBar EXCEPT ![p] = "closed"]
      BY <2>4, PhaseMoves DEF Phase
    <3> QED BY <3>1, <3>2 DEF Reservation!Withdraw, Reservation!Move, Reservation!Free,
                              phaseBar, holderBar
  <2>5. CASE effect[p] = "dispatching" /\ Rewrites(p, "succeeded")
    <3>1. holderBar[ScopeOf[p]] = p /\ holderBar' = [holderBar EXCEPT ![ScopeOf[p]] = NoOp]
      BY <2>0, <2>5, HolderLeaves, HolderIsOpen DEF Open, holderBar
    <3>2. phaseBar[p] = "dispatched" /\ phaseBar' = [phaseBar EXCEPT ![p] = "closed"]
      BY <2>5, PhaseMoves DEF Phase
    <3> QED BY <3>1, <3>2 DEF Reservation!Finish, Reservation!Move, Reservation!Free,
                              phaseBar, holderBar
  <2>6. CASE effect[p] = "dispatching" /\ Rewrites(p, "unknown")
    <3>1. holderBar' = holderBar /\ holderBar[ScopeOf[p]] = p
      BY <2>0, <2>6, HoldersStay, HolderIsOpen DEF Open, holderBar
    <3>2. phaseBar[p] = "dispatched" /\ phaseBar' = [phaseBar EXCEPT ![p] = "uncertain"]
      BY <2>6, PhaseMoves DEF Phase
    <3> QED BY <3>1, <3>2 DEF Reservation!Doubt, Reservation!Move, Reservation!Keep,
                              phaseBar, holderBar
  <2>7. CASE effect[p] = "unknown" /\ Rewrites(p, "reconciled")
    <3>1. holderBar[ScopeOf[p]] = p /\ holderBar' = [holderBar EXCEPT ![ScopeOf[p]] = NoOp]
      BY <2>0, <2>7, HolderLeaves, HolderIsOpen DEF Open, holderBar
    <3>2. phaseBar[p] = "uncertain" /\ phaseBar' = [phaseBar EXCEPT ![p] = "closed"]
      BY <2>7, PhaseMoves DEF Phase
    <3> QED BY <3>1, <3>2 DEF Reservation!Prove, Reservation!Move, Reservation!Free,
                              phaseBar, holderBar
  <2> QED BY <1>2, <2>1, <2>2, <2>3, <2>4, <2>5, <2>6, <2>7 DEF EffectMoves
<1> QED BY <1>1, <1>2, EffectStep

(* The ledger implements scope reservation: through crashes and recoveries *)
(* the effect rows dispatch nothing in a scope they do not hold.           *)
THEOREM Refinement == Spec => ImplementsReservation
<1>1. Init => Reservation!Init
  BY OpAssumption DEF Init, Reservation!Init, Phase, HolderOf, Open
<1>2. IInv /\ IInv' /\ [Next]_vars => [Reservation!Next]_(Reservation!vars)
  BY ReservationStep
<1> QED BY Inductive, <1>1, <1>2, PTL DEF Spec, ImplementsReservation, Reservation!Spec

=============================================================================
