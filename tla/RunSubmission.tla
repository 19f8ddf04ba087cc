--------------------------- MODULE RunSubmission ----------------------------
(***************************************************************************)
(* POST /tenants/{t}/pipelines/{p}/runs (control_plane/app/routes/         *)
(* pipeline_runs.py:66-90): several requests, some with the same           *)
(* idempotency key, each creating a run through CreateRun and then pushing *)
(* its id to the Redis list the workers pop.                               *)
(***************************************************************************)
EXTENDS CreateRun

VARIABLES pushed,   \* how often each run id was pushed
          answer    \* the HTTP status each request got, 0 for none yet

vars == <<serviceVars, pushed, answer>>

\* Labels of the route: about to push, answered, or its process is gone.
RouteLabel == {"push", "answered", "gone"}

TypeOK == /\ ServiceTypeOK(RouteLabel)
          /\ pushed \in [Ids -> Nat]
          /\ answer \in [Callers -> {0, 200, 201, 404, 409, 500}]

Init == /\ ServiceInit("check")
        /\ key \in [Callers -> Keys \cup {NoKey}]
        /\ pushed = [id \in Ids |-> 0]
        /\ answer = [c \in Callers |-> 0]

-----------------------------------------------------------------------------
Answer(c, code) == /\ answer' = [answer EXCEPT ![c] = code]
                   /\ Goto(c, "answered")

Call(c) == ServiceStep(c) /\ UNCHANGED <<pushed, answer>>

\* Mutant of Created: every answer enqueues.
Created_ReplaysToo(c) ==
    /\ at[c] \in {"created", "replayed"}
    /\ Goto(c, "push")
    /\ UNCHANGED <<pipeline, rows, next, key, run, faults, pushed, answer>>

\* Only a new run is pushed.
Created(c) ==
    /\ at[c] = "created"
    /\ Goto(c, "push")
    /\ UNCHANGED <<pipeline, rows, next, key, run, faults, pushed, answer>>

\* Mutant of Replayed: the status code stays at the route's default.
Replayed_DefaultStatus(c) ==
    /\ at[c] = "replayed"
    /\ Answer(c, 201)
    /\ UNCHANGED <<pipeline, rows, next, key, run, faults, pushed>>

\* An idempotent replay is answered without a push.
Replayed(c) ==
    /\ at[c] = "replayed"
    /\ Answer(c, 200)
    /\ UNCHANGED <<pipeline, rows, next, key, run, faults, pushed>>

\* Mutant of Refused: a missing pipeline is answered as a bad request.
Refused_BadRequest(c) ==
    /\ \/ at[c] = "missing"   /\ Answer(c, 400)
       \/ at[c] = "integrity" /\ Answer(c, 409)
       \/ at[c] = "dberror"   /\ Answer(c, 500)
    /\ UNCHANGED <<pipeline, rows, next, key, run, faults, pushed>>

\* The service returned nothing or raised.
Refused(c) ==
    /\ \/ at[c] = "missing"   /\ Answer(c, 404)
       \/ at[c] = "integrity" /\ Answer(c, 409)
       \/ at[c] = "dberror"   /\ Answer(c, 500)
    /\ UNCHANGED <<pipeline, rows, next, key, run, faults, pushed>>

Push(id, n) == pushed' = [pushed EXCEPT ![id] = @ + n]

Rpush(c) ==
    /\ at[c] = "push"
    /\ Push(run[c], 1)
    /\ Answer(c, 201)
    /\ UNCHANGED <<pipeline, rows, next, key, run, faults>>

\* The connection to Redis breaks. The client re-sends the command when it
\* reconnects, also if the list had already got it; if it gives up the answer
\* is 500, whether or not the list got the id.
RpushBreaks(c) ==
    /\ at[c] = "push"
    /\ Fault
    /\ \/ /\ Push(run[c], 2)
          /\ Answer(c, 201)
          /\ UNCHANGED run
       \/ /\ \E n \in {0, 1} : Push(run[c], n)
          /\ Answer(c, 500)
          /\ run' = [run EXCEPT ![c] = NoRun]
    /\ UNCHANGED <<pipeline, rows, next, key>>

\* The control plane's process dies with the request in it.
Die(c) ==
    /\ at[c] \notin {"answered", "gone"}
    /\ Fault
    /\ Goto(c, "gone")
    /\ run' = [run EXCEPT ![c] = NoRun]
    /\ UNCHANGED <<pipeline, rows, next, key, pushed, answer>>

\* DELETE of the pipeline; its runs are deleted in cascade.
DeletePipeline ==
    /\ pipeline
    /\ pipeline' = FALSE
    /\ rows' = {}
    /\ UNCHANGED <<next, at, key, run, faults, pushed, answer>>

Route(c) == Call(c) \/ Created(c) \/ Replayed(c) \/ Refused(c) \/ Rpush(c) \/ RpushBreaks(c)

AllOver == \A c \in Callers : at[c] \in {"answered", "gone"}

\* Nothing is left to do.
Quiet == AllOver /\ UNCHANGED vars

Next == (\E c \in Callers : Route(c) \/ Die(c)) \/ DeletePipeline \/ Quiet

Spec == Init /\ [][Next]_vars

-----------------------------------------------------------------------------
(* Safety *)

Got(c) == answer[c] \in {200, 201}

\* Requests with the same key that succeed are given the same run, whatever
\* the order of their statements and whatever fails in between.
SameKeySameRun ==
    \A c, d \in Callers : Got(c) /\ Got(d) /\ key[c] = key[d] /\ key[c] # NoKey => run[c] = run[d]

\* At most one request of a key is told that it created a run; requests
\* without a key never share one.
OneCreator ==
    \A c, d \in Callers : c # d =>
        /\ answer[c] = 201 /\ answer[d] = 201 /\ key[c] # NoKey => key[c] # key[d]
        /\ Got(c) /\ Got(d) /\ key[c] = NoKey => run[c] # run[d]

\* Without a fault no run id is pushed twice, and once every request is
\* answered each run that exists is on the list exactly once.
QueuedOnce ==
    faults = 0 =>
        /\ \A id \in Ids : pushed[id] <= 1
        /\ AllOver => \A row \in rows : pushed[row.id] = 1

\* "The except IntegrityError block closes that race" (pipeline_runs.py:54):
\* without a fault and while the pipeline exists, no request is refused.
RaceIsInvisible ==
    faults = 0 /\ pipeline => \A c \in Callers : answer[c] \in {0, 200, 201}

-----------------------------------------------------------------------------
(* Refinement *)

OutcomeOf(c) ==
    CASE at[c] \in InService \ {"refresh"} -> "pending"
      [] at[c] \in {"refresh", "created", "push"} \/ answer[c] = 201 -> "created"
      [] at[c] = "replayed" \/ answer[c] = 200 -> "replayed"
      [] OTHER -> "failed"

Atomic == INSTANCE AtomicSubmit WITH outcome <- [c \in Callers |-> OutcomeOf(c)]

\* The interleaved statements of the requests act as one atomic step each: the
\* committed INSERT, or the SELECT that finds the row.
ActsAtomically == Atomic!Spec

-----------------------------------------------------------------------------
(* What the source says, and the code does not do *)

\* "idempotent replay: this run was already enqueued once"
\* (control_plane/app/routes/pipeline_runs.py:79): the creator's push may have
\* failed, or may never come.
ReplayMeansEnqueued ==
    \A c \in Callers : AllOver /\ answer[c] = 200 => pushed[run[c]] > 0

=============================================================================
