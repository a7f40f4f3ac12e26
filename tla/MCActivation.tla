---------------------------- MODULE MCActivation ----------------------------
(* Instances of Activation.  Runners are interchangeable, invocations are    *)
(* not: they begin in their order.                                           *)
EXTENDS Activation, TLC

\* Once a claim is misjudged, no fourth operation begins.
Bounded == misjudged => Cardinality({p \in Proc : pc[p] # "new"}) < 4

Symmetry == Permutations(Runner)
=============================================================================
