--------------------------- MODULE MCHostSession ---------------------------
(* Two turns of one scope: the second interrupts the first and waits for it. *)
EXTENDS HostSession, TLC

CONSTANTS t1, t2, p1

OneScope == (t1 :> p1 @@ t2 :> p1)
=============================================================================
