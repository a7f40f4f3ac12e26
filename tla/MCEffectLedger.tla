--------------------------- MODULE MCEffectLedger ---------------------------
(* Instances of EffectLedger.  The tasks share one write root and one       *)
(* Commitment: t1 is requested in a Lead turn, v1 is the Verification of a  *)
(* finished Worker.  The Forge mutations share one issue: f1 and f3 work    *)
(* for one Commitment, f2 for another; f3 is a comment, which no read-back  *)
(* can find.                                                                *)
EXTENDS EffectLedgerRefinement, TLC

CONSTANTS t1, v1, f1, f2, f3, c1, c2, c3, root, issue

Forge == {f1, f2, f3}

MCKind         == [o \in Op |-> IF o \in Forge THEN "forge" ELSE "task"]
MCOrigin       == [o \in Op |-> IF o = v1 THEN "verification" ELSE "lead"]
MCScopeOf      == [o \in Op |-> IF o \in Forge THEN issue ELSE root]
MCObservable   == Op \cap {f1, f2}
MCCommitmentOf == [o \in Op |-> CASE o \in {f1, f3} -> c3 [] o = f2 -> c2 [] OTHER -> c1]
=============================================================================
