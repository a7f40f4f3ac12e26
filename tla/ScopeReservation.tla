-------------------------- MODULE ScopeReservation --------------------------
(***************************************************************************)
(* What the effect rows promise, without hosts, crashes or Commitments, to *)
(* the Lead's operations (EffectLedger) and to Workers (WorkerSettlement): *)
(* an effect scope is held by one operation from the record of its intent  *)
(* until its outcome is certain or proven, and nothing is dispatched in a  *)
(* scope by an operation that does not hold it.                            *)
(***************************************************************************)
CONSTANTS Op, Scope, ScopeOf, NoOp

VARIABLES phase,   \* how far each operation has come
          holder   \* the operation that holds each scope

vars == <<phase, holder>>

Phases == {"new", "reserved", "dispatched", "uncertain", "closed"}

Init == /\ phase = [o \in Op |-> "new"]
        /\ holder = [s \in Scope |-> NoOp]

Move(o, from, to) == phase[o] = from /\ phase' = [phase EXCEPT ![o] = to]

Keep(o) == holder[ScopeOf[o]] = o /\ UNCHANGED holder
Free(o) == holder[ScopeOf[o]] = o /\ holder' = [holder EXCEPT ![ScopeOf[o]] = NoOp]

Refuse(o)   == Move(o, "new", "closed") /\ UNCHANGED holder
Reserve(o)  == /\ Move(o, "new", "reserved")
               /\ holder[ScopeOf[o]] = NoOp
               /\ holder' = [holder EXCEPT ![ScopeOf[o]] = o]
Dispatch(o) == Move(o, "reserved", "dispatched") /\ Keep(o)
Withdraw(o) == Move(o, "reserved", "closed") /\ Free(o)
Finish(o)   == Move(o, "dispatched", "closed") /\ Free(o)
Doubt(o)    == Move(o, "dispatched", "uncertain") /\ Keep(o)
Prove(o)    == Move(o, "uncertain", "closed") /\ Free(o)

\* Two of these at once: an intent that is dispatched before anybody else comes
\* (Reserve, Dispatch), and a dispatch that is in doubt from the start.
Take(o)     == /\ Move(o, "new", "dispatched")
               /\ holder[ScopeOf[o]] = NoOp
               /\ holder' = [holder EXCEPT ![ScopeOf[o]] = o]
Lose(o)     == Move(o, "reserved", "uncertain") /\ Keep(o)

Next == \E o \in Op : \/ Refuse(o) \/ Reserve(o) \/ Dispatch(o) \/ Withdraw(o)
                      \/ Finish(o) \/ Doubt(o) \/ Prove(o) \/ Take(o) \/ Lose(o)

Spec == Init /\ [][Next]_vars
=============================================================================
