------------------------- MODULE MCWorkerSettlement -------------------------
(* Instances of WorkerSettlement: one Commitment, w1 with a managed          *)
(* Execution Checkout and p1 in place, each on either harness.               *)
EXTENDS WorkerSettlementRefinement

CONSTANTS w1, p1, c1, claude, codex

OneCommitment  == [w \in Worker |-> c1]
MCManaged      == Worker \ {p1}
OneSupervisor  == <<claude>>
TwoSupervisors == <<claude, codex>>
=============================================================================
