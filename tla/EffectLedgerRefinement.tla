----------------------- MODULE EffectLedgerRefinement -----------------------
(* The ledger implements scope reservation: the effect rows alone decide    *)
(* who holds a scope, through every crash and recovery.                     *)
EXTENDS EffectLedger

Phase(e) == CASE e = "absent"      -> "new"
              [] e = "pending"     -> "reserved"
              [] e = "dispatching" -> "dispatched"
              [] e = "unknown"     -> "uncertain"
              [] OTHER             -> "closed"

HolderOf(s) == IF \E o \in Op : ScopeOf[o] = s /\ Open(o)
               THEN CHOOSE o \in Op : ScopeOf[o] = s /\ Open(o)
               ELSE NoOp

Reservation == INSTANCE ScopeReservation
    WITH phase  <- [o \in Op |-> Phase(effect[o])],
         holder <- [s \in Scope |-> HolderOf(s)]

(* Every behaviour of the ledger is a behaviour of scope reservation: what  *)
(* startTargetProjectOperation, the claims, the settlements and restart     *)
(* recovery write never dispatches without holding the scope.               *)
ImplementsReservation == Reservation!Spec
=============================================================================
