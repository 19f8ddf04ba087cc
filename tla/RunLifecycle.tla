---------------------------- MODULE RunLifecycle ----------------------------
(***************************************************************************)
(* What the platform promises about a pipeline run, whatever happens to    *)
(* the queue and to the processes: a run is executed by one worker for its *)
(* whole life, only that worker changes its row once it has claimed it,    *)
(* and a row that ended as "failed" or "blocked" never changes again.      *)
(* Executor.tla is shown to implement this specification.                  *)
(*                                                                         *)
(* The statuses are the ones worker/app/executor.py writes and             *)
(* control_plane/app/models/pipeline_runs.py:16 defaults to.               *)
(***************************************************************************)
CONSTANTS Runs, Workers, NoWorker   \* NoWorker is not a worker

VARIABLES status,   \* the status column of each run, "absent" before the row exists
          owner     \* the worker executing the run, NoWorker before and after

vars == <<status, owner>>

Active == {"running", "retrying"}
Ended  == {"success", "failed", "blocked"}
Status == {"absent", "queued"} \cup Active \cup Ended

TypeOK == /\ status \in [Runs -> Status]
          /\ owner \in [Runs -> Workers \cup {NoWorker}]

Init == /\ status = [r \in Runs |-> "absent"]
        /\ owner = [r \in Runs |-> NoWorker]

Become(r, s) == status' = [status EXCEPT ![r] = s]

Create(r) == /\ status[r] = "absent"
             /\ Become(r, "queued")
             /\ UNCHANGED owner

\* The breaker was open: the run ends without ever having an owner.
Block(r) == /\ status[r] = "queued"
            /\ Become(r, "blocked")
            /\ UNCHANGED owner

Start(r) == /\ status[r] = "queued"
            /\ Become(r, "running")
            /\ \E w \in Workers : owner' = [owner EXCEPT ![r] = w]

Owned(r) == owner[r] # NoWorker

Retry(r) == /\ Owned(r)
            /\ status[r] \in Active
            /\ Become(r, "retrying")
            /\ UNCHANGED owner

Succeed(r) == /\ Owned(r)
              /\ status[r] \in Active
              /\ Become(r, "success")
              /\ UNCHANGED owner

\* The owner may still turn a success into a failure: an error after the row
\* was committed as "success" takes the same path as a failed step.
Fail(r) == /\ Owned(r)
           /\ status[r] \in Active \cup {"success"}
           /\ Become(r, "failed")
           /\ UNCHANGED owner

\* The owner is done with the run, or is gone; nobody ever takes it over.
Release(r) == /\ Owned(r)
              /\ owner' = [owner EXCEPT ![r] = NoWorker]
              /\ UNCHANGED status

Next == \E r \in Runs : \/ Create(r)
                        \/ Block(r)
                        \/ Start(r)
                        \/ Retry(r)
                        \/ Succeed(r)
                        \/ Fail(r)
                        \/ Release(r)

Spec == Init /\ [][Next]_vars
=============================================================================
