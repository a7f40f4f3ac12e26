----------------------------- MODULE MCLeadTurns -----------------------------
(* Instances of LeadTurns: Owner inputs and observations are model values,   *)
(* declared one by one so that a configuration can choose among them.        *)
EXTENDS LeadTurns, TLC

CONSTANTS i1, e1, e2
=============================================================================
