--------------------------- MODULE MCStateRecovery ---------------------------
(* An instance of StateRecovery for TLC.                                     *)
EXTENDS StateRecovery, TLC

Interchangeable == Permutations(Writer) \cup Permutations(Effect)
=============================================================================
