----------------------------- MODULE MCAfterRun -----------------------------
(* Two runs, each of a pipeline of another tenant, and two indexers. *)
EXTENDS AfterRun, TLC

CONSTANTS r1, r2, p1, p2, t1, t2

Pipes   == r1 :> p1 @@ r2 :> p2
Owners  == p1 :> t1 @@ p2 :> t2
Symmetry == Permutations(Indexers)
=============================================================================
