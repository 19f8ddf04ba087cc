------------------------------ MODULE Approval ------------------------------
(***************************************************************************)
(* PUT /tenants/{t}/recommendations/{id} (control_plane/app/routes/        *)
(* agent_recommendations.py:73-95 and services/agent_recommendations.py:   *)
(* 67-127): several people decide about the same recommendation at the     *)
(* same time.  Applying a retry creates a run through CreateRun with the   *)
(* idempotency key "recommendation-{id}"; that service commits on its own, *)
(* before the decision is committed.                                       *)
(***************************************************************************)
EXTENDS CreateRun

VARIABLES action,     \* recommended_action: what applying it does
          decision,   \* the status each request asks for
          status,     \* the recommendation's status column
          scheduled,  \* the schedule's is_active column
          enqueue,    \* enqueue_run_id of each request's session, NoRun for none
          pushed,     \* how often each run id was pushed
          answer      \* the HTTP status each request got, 0 for none yet

put  == <<decision, action, enqueue, answer>>
vars == <<serviceVars, put, status, scheduled, pushed>>

\* retry and retry_with_backoff; pause_schedule; the actions only recorded.
Action   == {"retry", "pause", "record"}
Status   == {"pending", "applied", "dismissed"}

\* Labels of the route: load the recommendation, commit the decision, refresh the
\* recommendation, push.
RouteLabel == {"read", "save", "reload", "push", "answered", "gone"}

TypeOK ==
    /\ ServiceTypeOK(RouteLabel)
    /\ action \in Action
    /\ decision \in [Callers -> Status]
    /\ status \in Status
    /\ scheduled \in BOOLEAN
    /\ enqueue \in [Callers -> Ids \cup {NoRun}]
    /\ pushed \in [Ids -> Nat]
    /\ answer \in [Callers -> {0, 200, 400, 404, 409, 500}]

\* One recommendation, so one key for all its approvals.
Init ==
    /\ ServiceInit("read")
    /\ \E k \in Keys : key = [c \in Callers |-> k]
    /\ action \in Action
    /\ decision \in [Callers -> Status]
    /\ status = "pending"
    /\ scheduled = TRUE
    /\ enqueue = [c \in Callers |-> NoRun]
    /\ pushed = [id \in Ids |-> 0]
    /\ answer = [c \in Callers |-> 0]

-----------------------------------------------------------------------------
Answer(c, code) == /\ answer' = [answer EXCEPT ![c] = code]
                   /\ Goto(c, "answered")

Applies(c) == decision[c] = "applied"

\* Where a request that found the recommendation pending goes.
Act(c) == IF Applies(c) /\ action = "retry" THEN "check" ELSE "save"

\* Mutant of Read: the schedule is paused, and committed, before the decision.
Read_PausesEarly(c) ==
    /\ at[c] = "read"
    /\ IF status = "pending"
         THEN Goto(c, Act(c)) /\ UNCHANGED answer
         ELSE Answer(c, 400)
    /\ scheduled' = (scheduled /\ ~(status = "pending" /\ Applies(c) /\ action = "pause"))
    /\ UNCHANGED <<pipeline, rows, next, key, run, faults, decision, action, enqueue, status, pushed>>

\* A person decides once: only a pending recommendation is acted on, and never
\* put back to pending.
Read(c) ==
    /\ at[c] = "read"
    /\ IF ~pipeline THEN Answer(c, 404)
       ELSE IF status # "pending" \/ decision[c] = "pending" THEN Answer(c, 400)
       ELSE Goto(c, Act(c)) /\ UNCHANGED answer
    /\ UNCHANGED <<pipeline, rows, next, key, run, faults, decision, action, enqueue,
                   status, scheduled, pushed>>

StartRun(c) ==
    /\ ServiceStep(c)
    /\ UNCHANGED <<put, status, scheduled, pushed>>

\* Mutant of RunStarted: a run that was already there is pushed as well.
RunStarted_Always(c) ==
    /\ at[c] \in {"created", "replayed"}
    /\ enqueue' = [enqueue EXCEPT ![c] = run[c]]
    /\ Goto(c, "save")
    /\ UNCHANGED <<pipeline, rows, next, key, run, faults, decision, action, answer,
                   status, scheduled, pushed>>

\* Mutant of RunStarted: nothing is kept for the route to push.
RunStarted_Forgets(c) ==
    /\ at[c] \in {"created", "replayed"}
    /\ Goto(c, "save")
    /\ UNCHANGED <<pipeline, rows, next, key, run, faults, put, status, scheduled, pushed>>

\* Only the request that created the run will push it.
RunStarted(c) ==
    /\ at[c] \in {"created", "replayed"}
    /\ enqueue' = [enqueue EXCEPT ![c] = IF at[c] = "created" THEN run[c] ELSE NoRun]
    /\ Goto(c, "save")
    /\ UNCHANGED <<pipeline, rows, next, key, run, faults, decision, action, answer,
                   status, scheduled, pushed>>

\* The pipeline is gone, a constraint was violated, or the database failed.
RunRefused(c) ==
    /\ \/ at[c] = "missing"   /\ Answer(c, 400)
       \/ at[c] = "integrity" /\ Answer(c, 409)
       \/ at[c] = "dberror"   /\ Answer(c, 500)
    /\ UNCHANGED <<pipeline, rows, next, key, run, faults, decision, action, enqueue,
                   status, scheduled, pushed>>

\* The decision is committed, and with it the paused schedule, whatever the
\* status has become since it was read.
Save(c) ==
    /\ at[c] = "save"
    /\ pipeline
    /\ status' = decision[c]
    /\ scheduled' = (scheduled /\ ~(Applies(c) /\ action = "pause"))
    /\ Goto(c, "reload")
    /\ UNCHANGED <<pipeline, rows, next, key, run, faults, put, pushed>>

\* The refresh finds the recommendation; a created run is pushed next.
Reload(c) ==
    /\ at[c] = "reload"
    /\ pipeline
    /\ IF enqueue[c] # NoRun
         THEN Goto(c, "push") /\ UNCHANGED answer
         ELSE Answer(c, 200)
    /\ UNCHANGED <<pipeline, rows, next, key, run, faults, decision, action, enqueue,
                   status, scheduled, pushed>>

\* The load, the commit or the refresh raises, or the row to update or to refresh is
\* gone with its pipeline: rolled back, answered with 500. A run that was created
\* stays, unpushed; and once at the refresh, so does the decision.
DecisionFails(c) ==
    /\ \/ at[c] \in {"read", "save", "reload"} /\ Fault
       \/ at[c] \in {"save", "reload"} /\ ~pipeline /\ UNCHANGED faults
    /\ Answer(c, 500)
    /\ UNCHANGED <<pipeline, rows, next, key, run, decision, action, enqueue,
                   status, scheduled, pushed>>

Push(id, n) == pushed' = [pushed EXCEPT ![id] = @ + n]

Rpush(c) ==
    /\ at[c] = "push"
    /\ Push(enqueue[c], 1)
    /\ Answer(c, 200)
    /\ UNCHANGED <<pipeline, rows, next, key, run, faults, decision, action, enqueue,
                   status, scheduled>>

\* As in RunSubmission: sent twice, or given up after zero or one.
RpushBreaks(c) ==
    /\ at[c] = "push"
    /\ Fault
    /\ \/ Push(enqueue[c], 2) /\ Answer(c, 200)
       \/ \E n \in {0, 1} : Push(enqueue[c], n) /\ Answer(c, 500)
    /\ UNCHANGED <<pipeline, rows, next, key, run, decision, action, enqueue, status, scheduled>>

Die(c) ==
    /\ at[c] \notin {"answered", "gone"}
    /\ Fault
    /\ Goto(c, "gone")
    /\ UNCHANGED <<pipeline, rows, next, key, run, put, status, scheduled, pushed>>

\* The recommendation, the schedule and the runs are deleted in cascade.
DeletePipeline ==
    /\ pipeline
    /\ pipeline' = FALSE
    /\ rows' = {}
    /\ UNCHANGED <<next, at, key, run, faults, put, status, scheduled, pushed>>

Route(c) == \/ Read(c) \/ StartRun(c) \/ RunStarted(c) \/ RunRefused(c) \/ Save(c)
            \/ Reload(c) \/ DecisionFails(c) \/ Rpush(c) \/ RpushBreaks(c)

AllOver == \A c \in Callers : at[c] \in {"answered", "gone"}

Quiet == AllOver /\ UNCHANGED vars

Next == (\E c \in Callers : Route(c) \/ Die(c)) \/ DeletePipeline \/ Quiet

Spec == Init /\ [][Next]_vars

-----------------------------------------------------------------------------
(* Safety *)

\* "approving the same recommendation twice cannot start two runs"
\* (README.md:71): one run at most, created and pushed by one request at most,
\* however the approvals interleave or fail.
OneRetryRun ==
    /\ Cardinality(rows) <= 1
    /\ \A c, d \in Callers : enqueue[c] # NoRun /\ enqueue[d] # NoRun => c = d
    /\ faults = 0 => \A id \in Ids : pushed[id] <= 1

\* However approvals race and fail, requests and rows stay what they can be, and
\* there is one retry run.
RetrySound == TypeOK /\ OneRetryRun

\* "the status changes in the same commit" (services/agent_recommendations.py:
\* 112): true of pausing the schedule, nobody sees that without the decision.
PauseWithDecision == [][scheduled' # scheduled => status' = "applied"]_vars

\* When all is over, the run of a retry that reads applied is on the list, whatever
\* failed in between - unless somebody who approved it was told of an error, or died.
AppliedIsQueued ==
    pipeline /\ AllOver /\ status = "applied" /\ action = "retry" =>
        /\ rows # {}
        /\ \A row \in rows : \/ pushed[row.id] >= 1
                            \/ \E c \in Callers : Applies(c) /\ (answer[c] = 500 \/ at[c] = "gone")

-----------------------------------------------------------------------------
(* What the source and the README say, and the code does not do *)

\* "A decision is final" (README.md:71); "an applied recommendation cannot be
\* dismissed" (services/agent_recommendations.py:102).
DecisionIsFinal == [][status # "pending" => status' = status]_vars

=============================================================================
