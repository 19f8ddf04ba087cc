-------------------------- MODULE MCRunSubmission ---------------------------
(* Instances of RunSubmission for TLC. *)
EXTENDS RunSubmission, TLC

Symmetric == Permutations(Callers) \cup Permutations(Keys)
=============================================================================
