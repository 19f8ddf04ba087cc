---------------------------- MODULE MCApproval ------------------------------
(* Instances of Approval for TLC. *)
EXTENDS Approval, TLC

Symmetric == Permutations(Callers)
=============================================================================
