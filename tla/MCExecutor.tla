----------------------------- MODULE MCExecutor -----------------------------
(* Instances of Executor for TLC. *)
EXTENDS Executor, TLC

\* The steps of the pipeline: two with one retry between them.
TwoSteps  == <<1, 0>>
OneStep   == <<1>>
NoRetries == <<0>>

Symmetric == Permutations(Runs) \cup Permutations(Workers)
=============================================================================
