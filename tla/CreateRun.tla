----------------------------- MODULE CreateRun ------------------------------
(***************************************************************************)
(* create_pipeline_run_service (control_plane/app/services/                *)
(* pipeline_runs.py:47-90) called by several requests at the same time,    *)
(* for one pipeline.  Each statement or commit is a step.  RunSubmission   *)
(* (POST .../runs) and Approval (PUT .../recommendations) say what their   *)
(* routes do with the outcome.                                             *)
(***************************************************************************)
EXTENDS Naturals, FiniteSets

CONSTANTS Callers,    \* requests that call the service, once each
          Keys,       \* idempotency keys
          NoKey,      \* the request carries no key
          NoRun,      \* no run was handed out
          MaxFaults   \* bound: database errors, Redis errors and process deaths

ASSUME CreateRunAssumption == /\ IsFiniteSet(Callers)
                              /\ NoKey \notin Keys
                              /\ NoRun \notin Nat
                              /\ MaxFaults \in Nat

VARIABLES pipeline,   \* the pipeline's row exists
          rows,       \* its rows in pipeline_runs: [id, key]
          next,       \* the next value of the id sequence
          at,         \* the statement each caller is about to execute
          key,        \* the Idempotency-Key of each caller
          run,        \* the run each caller holds
          faults

serviceVars == <<pipeline, rows, next, at, key, run, faults>>

MaxRuns == Cardinality(Callers)
Ids == 1..MaxRuns
Row == [id: Ids, key: Keys \cup {NoKey}]

\* The statements of the service, and what it returns or raises.
InService == {"check", "lookup", "insert", "refresh", "reread"}
Outcome   == {"created", "replayed", "missing", "integrity", "dberror"}

ServiceTypeOK(labels) ==
    /\ pipeline \in BOOLEAN
    /\ rows \subseteq Row
    /\ next \in 1..MaxRuns + 1
    /\ at \in [Callers -> InService \cup Outcome \cup labels]
    /\ key \in [Callers -> Keys \cup {NoKey}]
    /\ run \in [Callers -> Ids \cup {NoRun}]
    /\ faults \in 0..MaxFaults

ServiceInit(first) ==
    /\ pipeline = TRUE
    /\ rows = {}
    /\ next = 1
    /\ at = [c \in Callers |-> first]
    /\ run = [c \in Callers |-> NoRun]
    /\ faults = 0

-----------------------------------------------------------------------------
Goto(c, label) == at' = [at EXCEPT ![c] = label]

Fault == /\ faults < MaxFaults
         /\ faults' = faults + 1

\* Rows with the caller's key; two NULL keys are never equal.
SameKey(c) == {row \in rows : key[c] # NoKey /\ row.key = key[c]}

AddRow(c) ==
    /\ rows' = rows \cup {[id |-> next, key |-> key[c]]}
    /\ next' = next + 1
    /\ run' = [run EXCEPT ![c] = next]
    /\ Goto(c, "refresh")

CheckPipeline(c) ==
    /\ at[c] = "check"
    /\ Goto(c, IF ~pipeline THEN "missing" ELSE IF key[c] = NoKey THEN "insert" ELSE "lookup")
    /\ UNCHANGED <<pipeline, rows, next, key, run, faults>>

\* Hands the caller the run with its key.
HandOut(c) ==
    /\ \E row \in SameKey(c) : run' = [run EXCEPT ![c] = row.id]
    /\ Goto(c, "replayed")

\* The fast path; finding nothing proves nothing once the INSERT runs.
Lookup(c) ==
    /\ at[c] = "lookup"
    /\ \/ HandOut(c)
       \/ SameKey(c) = {} /\ Goto(c, "insert") /\ UNCHANGED run
    /\ UNCHANGED <<pipeline, rows, next, key, faults>>

\* Mutant of Insert: without the unique constraint, only the fast path is left.
Insert_NoConstraint(c) ==
    /\ at[c] = "insert"
    /\ IF pipeline
         THEN AddRow(c)
         ELSE Goto(c, "integrity") /\ UNCHANGED <<rows, next, run>>
    /\ UNCHANGED <<pipeline, key, faults>>

\* INSERT and commit; UNIQUE (pipeline_id, idempotency_key) or the foreign key
\* to the pipeline may refuse it.
Insert(c) ==
    /\ at[c] = "insert"
    /\ IF pipeline /\ SameKey(c) = {}
         THEN AddRow(c)
         ELSE /\ Goto(c, IF key[c] = NoKey THEN "integrity" ELSE "reread")
              /\ UNCHANGED <<rows, next, run>>
    /\ UNCHANGED <<pipeline, key, faults>>

\* The refresh cannot find a row that was deleted in the meantime.
Refresh(c) ==
    /\ at[c] = "refresh"
    /\ IF \E row \in rows : row.id = run[c]
         THEN Goto(c, "created") /\ UNCHANGED run
         ELSE Goto(c, "dberror") /\ run' = [run EXCEPT ![c] = NoRun]
    /\ UNCHANGED <<pipeline, rows, next, key, faults>>

\* Mutant of Reread: the IntegrityError is not taken for a lost race.
Reread_Raises(c) ==
    /\ at[c] = "reread"
    /\ Goto(c, "integrity")
    /\ UNCHANGED <<pipeline, rows, next, key, run, faults>>

\* Lost the race: hand out the winner's row, if it is still there.
Reread(c) ==
    /\ at[c] = "reread"
    /\ \/ HandOut(c)
       \/ SameKey(c) = {} /\ Goto(c, "integrity") /\ UNCHANGED run
    /\ UNCHANGED <<pipeline, rows, next, key, faults>>

\* Any statement may raise another SQLAlchemyError; after the commit, in the
\* refresh, the row stays.
DatabaseFails(c) ==
    /\ at[c] \in InService
    /\ Fault
    /\ Goto(c, "dberror")
    /\ run' = [run EXCEPT ![c] = NoRun]
    /\ UNCHANGED <<pipeline, rows, next, key>>

ServiceStep(c) == \/ CheckPipeline(c) \/ Lookup(c) \/ Insert(c) \/ Refresh(c)
                  \/ Reread(c) \/ DatabaseFails(c)
=============================================================================
