------------------------ MODULE MCIndependentReview ------------------------
(* Instances of IndependentReview: Workers and findings are interchangeable. *)
EXTENDS IndependentReview, TLC

Symmetry == Permutations(Implementer) \cup Permutations(Reviewer) \cup Permutations(Finding)
=============================================================================
