-------------------------- MODULE MCWorkerContinuity --------------------------
(* Instances of WorkerContinuity: the supervisors a host may start with.     *)
EXTENDS WorkerContinuity

AllOrders == {<<"own">>, <<"own", "other">>, <<"other", "own">>, <<"other">>, <<>>}
=============================================================================
