---------------------------- MODULE AtomicSubmit ----------------------------
(***************************************************************************)
(* What an idempotency key promises to the callers of                      *)
(* create_pipeline_run_service: each call behaves as if it ran alone, in   *)
(* one step.  It creates a run, or it is handed the run its key already    *)
(* has, or it fails; a caller whose run was created may still not learn of *)
(* it.  CreateRun.tla is shown to implement this.                          *)
(***************************************************************************)
EXTENDS Naturals

CONSTANTS Callers, Keys, NoKey, NoRun

VARIABLES rows,      \* the runs of the pipeline: [id, key]
          next,      \* the next run id
          key,       \* the idempotency key each caller sends, NoKey for none
          outcome,   \* what the call came to
          run        \* the run it was handed

vars == <<rows, next, key, outcome, run>>

Init == /\ rows = {}
        /\ next = 1
        /\ key \in [Callers -> Keys \cup {NoKey}]
        /\ outcome = [c \in Callers |-> "pending"]
        /\ run = [c \in Callers |-> NoRun]

Finish(c, o) == outcome' = [outcome EXCEPT ![c] = o]

SameKey(c) == {row \in rows : key[c] # NoKey /\ row.key = key[c]}

CreateAlone(c) ==
    /\ outcome[c] = "pending"
    /\ SameKey(c) = {}
    /\ rows' = rows \cup {[id |-> next, key |-> key[c]]}
    /\ run' = [run EXCEPT ![c] = next]
    /\ next' = next + 1
    /\ Finish(c, "created")
    /\ UNCHANGED key

ReplayAlone(c) ==
    /\ outcome[c] = "pending"
    /\ \E row \in SameKey(c) : run' = [run EXCEPT ![c] = row.id]
    /\ Finish(c, "replayed")
    /\ UNCHANGED <<rows, next, key>>

\* An error, or no answer at all; after "created" the row is there and the
\* caller does not know.
FailAlone(c) ==
    /\ outcome[c] \in {"pending", "created", "replayed"}
    /\ run' = [run EXCEPT ![c] = NoRun]
    /\ Finish(c, "failed")
    /\ UNCHANGED <<rows, next, key>>

\* The pipeline is deleted, and its runs with it.
RunsDeleted == /\ rows' = {}
               /\ UNCHANGED <<next, key, outcome, run>>

Next == \/ \E c \in Callers : CreateAlone(c) \/ ReplayAlone(c) \/ FailAlone(c)
        \/ RunsDeleted

Spec == Init /\ [][Next]_vars
=============================================================================
