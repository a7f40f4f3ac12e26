--------------------- MODULE WorkerSettlementRefinement ---------------------
(* Workers implement scope reservation: the effects of Workers and the      *)
(* Verifications of their results hold the Target Project's root, and those *)
(* of managed Workers their own checkout, over launches, settlements and    *)
(* the recovery by several supervisors.                                     *)
EXTENDS WorkerSettlement

\* A Worker stands for two operations: its own effect and its Verification.
Op == [kind : {"work", "check"}, of : Worker]
Work(w)  == [kind |-> "work", of |-> w]
Check(w) == [kind |-> "check", of |-> w]

Root    == NoWorker
Scope   == Worker \cup {Root}
ScopeOf == [o \in Op |-> IF o.kind = "work" /\ o.of \in Managed THEN o.of ELSE Root]

EffectPhase(e) == CASE e = "absent"                 -> "new"
                    [] e \in {"pending", "claimed"} -> "reserved"
                    [] e = "dispatching"            -> "dispatched"
                    [] e = "unknown"                -> "uncertain"
                    [] OTHER                        -> "closed"

CheckPhase(s) == CASE s = "none"    -> "new"
                   [] s = "running" -> "dispatched"
                   [] s = "failed"  -> "uncertain"
                   [] OTHER         -> "closed"

PhaseOf(o) == IF o.kind = "work" THEN EffectPhase(effect[o.of]) ELSE CheckPhase(op[o.of])

IsHeld(o) == PhaseOf(o) \in {"reserved", "dispatched", "uncertain"}

HolderOf(s) == IF \E o \in Op : ScopeOf[o] = s /\ IsHeld(o)
               THEN CHOOSE o \in Op : ScopeOf[o] = s /\ IsHeld(o)
               ELSE NoWorker

Reservation == INSTANCE ScopeReservation
    WITH phase  <- [o \in Op |-> PhaseOf(o)],
         holder <- [s \in Scope |-> HolderOf(s)],
         NoOp   <- NoWorker

(* Every behaviour of the Workers is a behaviour of scope reservation:      *)
(* whichever supervisor launches, settles or recovers, nothing is           *)
(* dispatched in a scope that is not held, and what is uncertain holds it.  *)
ImplementsReservation == Reservation!Spec
=============================================================================
