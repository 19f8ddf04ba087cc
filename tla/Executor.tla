------------------------------ MODULE Executor ------------------------------
(***************************************************************************)
(* The worker processes of one pipeline: the BLPOP loop                    *)
(* (worker/app/main.py) and the executor it calls for every run id it pops *)
(* (worker/app/executor.py), running against the shared run table, the     *)
(* pipeline's circuit breaker row and the Redis list, with a person        *)
(* changing the breaker through the control plane at the same time.        *)
(*                                                                         *)
(* A step of a worker is one database statement or commit: everything      *)
(* between two awaits.  A database error may hit any of them and a worker  *)
(* may die between any two (both bounded by MaxFaults).                    *)
(***************************************************************************)
EXTENDS Naturals, Sequences, FiniteSets, Functions

CONSTANTS Runs,         \* runs of the pipeline that may be submitted
          Workers,      \* worker processes
          NoRun,        \* the job of an idle worker
          NoWorker,     \* the owner of a run nobody executes
          Errors,       \* failure messages a run can end with
          NoReason,     \* failure_reason is null
          Retries,      \* Retries[i]: config["retry"]["max_retries"] of the i-th step
          Thresholds,   \* values of failure_count_threshold a person may set
          MaxPushes,    \* bound: how often one run id is pushed to the queue
          MaxFaults     \* bound: database errors and worker deaths in a behaviour

ASSUME ConstantsAssumption ==
    /\ NoRun \notin Runs
    /\ NoWorker \notin Workers
    /\ Errors # {}
    /\ NoReason \notin Errors
    /\ Retries \in Seq(Nat)
    /\ Thresholds \subseteq Nat \ {0}
    /\ Thresholds # {}
    /\ MaxPushes \in Nat
    /\ MaxFaults \in Nat

VARIABLES queue,        \* the Redis list "pipeline_runs"
          status,       \* PipelineRun.status, "absent" before the row exists
          retryCount,   \* PipelineRun.retry_count
          recent,       \* failed runs whose ended_at is inside the failure window
          breaker,      \* the PipelineCircuitBreaker row
          pc, job,      \* where each worker is, and the run it popped
          seen,         \* the breaker as loaded in the worker's session
          step, attempt,  \* the step being executed and the number of its attempt
          person,       \* a PUT on the breaker: its session's copy of the row
          pushes,       \* how often each run id was pushed
          faults,       \* database errors and deaths so far
          abandoned,    \* history: runs that a fault took out of a worker's hands
          forgiven      \* history: failures on record when the breaker last closed

shared == <<queue, status, retryCount, recent, breaker>>
local  == <<pc, job, seen, step, attempt>>
trouble == <<faults, abandoned>>
vars   == <<shared, local, person, pushes, trouble, forgiven>>

-----------------------------------------------------------------------------
(* Types and initial state *)

BreakerState == {"closed", "open", "half-open"}
Breaker == [state: BreakerState, reason: Errors \cup {NoReason}, threshold: Thresholds]

Status == {"absent", "queued", "running", "retrying", "success", "failed", "blocked"}
Active == {"running", "retrying"}
Ended  == {"success", "failed", "blocked"}

\* Labels of a worker, in the order the code reaches them.
Unclaimed  == {"gate", "decide"}
Evaluating == {"trip", "count", "open"}
Executing  == {"refetch", "steps", "close", "fail", "finally"} \cup Evaluating
Label      == {"idle"} \cup Unclaimed \cup Executing

Types ==
    /\ queue \in Seq(Runs)
    /\ status \in [Runs -> Status]
    /\ retryCount \in [Runs -> Nat]
    /\ recent \subseteq Runs
    /\ breaker \in Breaker
    /\ pc \in [Workers -> Label]
    /\ job \in [Workers -> Runs \cup {NoRun}]
    /\ seen \in [Workers -> Breaker]
    /\ step \in [Workers -> 1..Len(Retries) + 1]
    /\ attempt \in [Workers -> Nat \ {0}]
    /\ person \in [busy: BOOLEAN, seen: Breaker]
    /\ pushes \in [Runs -> 0..MaxPushes]
    /\ faults \in 0..MaxFaults
    /\ abandoned \subseteq Runs
    /\ forgiven \subseteq Runs

\* A worker has a run exactly while it is not waiting in BLPOP.
BusyHasJob == \A w \in Workers : job[w] = NoRun <=> pc[w] = "idle"

TypeOK == Types /\ BusyHasJob

NewBreaker == [state |-> "closed", reason |-> NoReason,
               threshold |-> CHOOSE t \in Thresholds : TRUE]

Init ==
    /\ queue = <<>>
    /\ status = [r \in Runs |-> "absent"]
    /\ retryCount = [r \in Runs |-> 0]
    /\ recent = {}
    /\ breaker = NewBreaker
    /\ pc = [w \in Workers |-> "idle"]
    /\ job = [w \in Workers |-> NoRun]
    /\ seen = [w \in Workers |-> NewBreaker]
    /\ step = [w \in Workers |-> 1]
    /\ attempt = [w \in Workers |-> 1]
    /\ person = [busy |-> FALSE, seen |-> NewBreaker]
    /\ pushes = [r \in Runs |-> 0]
    /\ faults = 0
    /\ abandoned = {}
    /\ forgiven = {}

-----------------------------------------------------------------------------
(* What the actions are made of *)

Goto(w, label) == pc' = [pc EXCEPT ![w] = label]

SetStatus(r, s) == status' = [status EXCEPT ![r] = s]

\* A database statement or commit raises, or a worker dies.
Fault == /\ faults < MaxFaults
         /\ faults' = faults + 1

\* The worker loses its run by it: it forgets the run, or gives up on its row.
Abandons(w) == /\ Fault
               /\ abandoned' = abandoned \cup {job[w]}

\* The worker goes on with its run.
Survives == /\ Fault
            /\ UNCHANGED abandoned

\* What a commit writes: its UPDATE names the columns whose value differs from
\* the one the session loaded, and leaves the others as they are in the row.
Flush(loaded, wanted) ==
    [column \in DOMAIN breaker |->
        IF wanted[column] = loaded[column] THEN breaker[column] ELSE wanted[column]]

SaveBreaker(loaded, wanted) ==
    /\ breaker' = Flush(loaded, wanted)
    /\ forgiven' = IF breaker.state # "closed" /\ breaker'.state = "closed"
                     THEN recent ELSE forgiven

\* Mutant of BackToLoop: the job is not dropped when the executor ends.
BackToLoop_KeepsJob(w) ==
    /\ pc' = [pc EXCEPT ![w] = "idle"]
    /\ seen' = [seen EXCEPT ![w] = NewBreaker]
    /\ step' = [step EXCEPT ![w] = 1]
    /\ attempt' = [attempt EXCEPT ![w] = 1]
    /\ UNCHANGED job

\* The executor returned or raised; the loop logs the error and pops again.
BackToLoop(w) ==
    /\ Goto(w, "idle")
    /\ job' = [job EXCEPT ![w] = NoRun]
    /\ seen' = [seen EXCEPT ![w] = NewBreaker]
    /\ step' = [step EXCEPT ![w] = 1]
    /\ attempt' = [attempt EXCEPT ![w] = 1]

\* The loop over the steps is over, its counters are dead.
LeaveSteps(w, label) ==
    /\ Goto(w, label)
    /\ step' = [step EXCEPT ![w] = 1]
    /\ attempt' = [attempt EXCEPT ![w] = 1]
    /\ UNCHANGED <<job, seen>>

-----------------------------------------------------------------------------
(* Plausible bugs in the worker, each the mutated form of the operator it is   *)
(* named after; the runs show which property catches it.                       *)

\* A failed run is put back in place instead of a new one being created.
Create_Requeues(r) ==
    /\ status[r] \in {"absent", "failed"}
    /\ SetStatus(r, "queued")
    /\ UNCHANGED <<queue, retryCount, recent, breaker, local, person, pushes, trouble, forgiven>>

\* A worker waits at the gate for the breaker to leave "open".
ReadGate_Waits(w) ==
    /\ pc[w] = "gate"
    /\ breaker.state # "open"
    /\ Goto(w, "decide")
    /\ seen' = [seen EXCEPT ![w] = breaker]
    /\ UNCHANGED <<shared, job, step, attempt, person, pushes, trouble, forgiven>>

\* WHERE status='queued' is missing from the UPDATE that blocks.
Block_Unconditional(w) ==
    /\ pc[w] = "decide"
    /\ seen[w].state = "open"
    /\ SetStatus(job[w], "blocked")
    /\ BackToLoop(w)
    /\ UNCHANGED <<queue, retryCount, recent, breaker, person, pushes, trouble, forgiven>>

\* The early return comes before the UPDATE.
Block_ReturnsFirst(w) ==
    /\ pc[w] = "decide"
    /\ seen[w].state = "open"
    /\ BackToLoop(w)
    /\ UNCHANGED <<shared, person, pushes, trouble, forgiven>>

\* The claim reads first and updates whatever it read.
Claim_Unconditional(w) ==
    /\ pc[w] = "decide"
    /\ seen[w].state # "open"
    /\ SetStatus(job[w], "running")
    /\ Goto(w, "refetch")
    /\ UNCHANGED <<queue, retryCount, recent, breaker, job, seen, step, attempt, person,
                   pushes, trouble, forgiven>>

\* The claim also takes over a run that looks abandoned.
Claim_TakesOver(w) ==
    /\ pc[w] = "decide"
    /\ seen[w].state # "open"
    /\ IF status[job[w]] \in {"queued"} \cup Active
         THEN /\ SetStatus(job[w], "running")
              /\ Goto(w, "refetch")
              /\ UNCHANGED <<job, seen, step, attempt>>
         ELSE /\ UNCHANGED status
              /\ BackToLoop(w)
    /\ UNCHANGED <<queue, retryCount, recent, breaker, person, pushes, trouble, forgiven>>

\* One attempt too many.
FinalAttempt_OffByOne(w) == attempt[w] = Retries[step[w]] + 2

\* A breaker that is not half-open leaves the worker waiting.
CloseBreaker_NoElse(w) ==
    /\ pc[w] = "close"
    /\ seen[w].state = "half-open"
    /\ SaveBreaker(seen[w], [seen[w] EXCEPT !.state = "closed", !.reason = NoReason])
    /\ Goto(w, "finally")
    /\ UNCHANGED <<queue, status, retryCount, recent, job, seen, step, attempt, person, pushes, trouble>>

\* A success that cannot be saved is logged, and the run is not marked failed.
SucceedFails_OnlyLogs(w) ==
    /\ pc[w] = "steps"
    /\ step[w] > Len(Retries)
    /\ Survives
    /\ SetStatus(job[w], "success") \/ UNCHANGED status
    /\ LeaveSteps(w, "finally")
    /\ UNCHANGED <<queue, retryCount, recent, breaker, person, pushes, forgiven>>

\* The failure that is being handled is not counted.
CountFailures_OthersOnly(w) ==
    /\ pc[w] = "count"
    /\ Goto(w, IF Cardinality(recent \ {job[w]}) >= seen[w].threshold THEN "open" ELSE "finally")
    /\ UNCHANGED <<shared, job, seen, step, attempt, person, pushes, trouble, forgiven>>

-----------------------------------------------------------------------------
(* The control plane *)

\* A run row is committed as "queued" (details: RunSubmission.tla).
Create(r) ==
    /\ status[r] = "absent"
    /\ SetStatus(r, "queued")
    /\ UNCHANGED <<queue, retryCount, recent, breaker, local, person, pushes, trouble, forgiven>>

\* RPUSH of a committed run; again when the client re-sends it after a broken
\* connection, or when somebody re-drives it by hand.
Push(r) ==
    /\ status[r] # "absent"
    /\ pushes[r] < MaxPushes
    /\ pushes' = [pushes EXCEPT ![r] = @ + 1]
    /\ queue' = Append(queue, r)
    /\ UNCHANGED <<status, retryCount, recent, breaker, local, person, trouble, forgiven>>

\* PUT .../circuit_breakers/ loads the row ...
PersonReads ==
    /\ ~person.busy
    /\ person' = [busy |-> TRUE, seen |-> breaker]
    /\ UNCHANGED <<shared, local, pushes, trouble, forgiven>>

\* ... and commits the fields of the request; a request that sets the state to
\* "closed" also clears the reason.
PersonWrites ==
    /\ person.busy
    /\ \E t \in Thresholds :
          LET request == [person.seen EXCEPT !.threshold = t] IN
          \/ SaveBreaker(person.seen, request)
          \/ \E s \in BreakerState \ {"closed"} :
                SaveBreaker(person.seen, [request EXCEPT !.state = s])
          \/ SaveBreaker(person.seen, [request EXCEPT !.state = "closed", !.reason = NoReason])
    /\ person' = [busy |-> FALSE, seen |-> NewBreaker]
    /\ UNCHANGED <<queue, status, retryCount, recent, local, pushes, trouble>>

\* A failure leaves the window (failure_window_minutes have passed).
WindowSlides(r) ==
    /\ r \in recent
    /\ recent' = recent \ {r}
    /\ forgiven' = forgiven \ {r}
    /\ UNCHANGED <<queue, status, retryCount, breaker, local, person, pushes, trouble>>

-----------------------------------------------------------------------------
(* A worker: up to the claim *)

\* BLPOP: the id leaves the list for good.
Pop(w) ==
    /\ pc[w] = "idle"
    /\ queue # <<>>
    /\ Goto(w, "gate")
    /\ job' = [job EXCEPT ![w] = Head(queue)]
    /\ queue' = Tail(queue)
    /\ UNCHANGED <<status, retryCount, recent, breaker, seen, step, attempt, person,
                   pushes, trouble, forgiven>>

\* The run and its breaker are loaded; this copy of the breaker stays in the
\* session until a rollback.
ReadGate(w) ==
    /\ pc[w] = "gate"
    /\ Goto(w, "decide")
    /\ seen' = [seen EXCEPT ![w] = breaker]
    /\ UNCHANGED <<shared, job, step, attempt, person, pushes, trouble, forgiven>>

\* UPDATE ... SET status='blocked' WHERE status='queued'.
Block(w) ==
    /\ pc[w] = "decide"
    /\ seen[w].state = "open"
    /\ IF status[job[w]] = "queued" THEN SetStatus(job[w], "blocked") ELSE UNCHANGED status
    /\ BackToLoop(w)
    /\ UNCHANGED <<queue, retryCount, recent, breaker, person, pushes, trouble, forgiven>>

\* UPDATE ... SET status='running' WHERE status='queued'; no row updated means
\* the run is no longer queued, and the delivery is dropped.
Claim(w) ==
    /\ pc[w] = "decide"
    /\ seen[w].state # "open"
    /\ IF status[job[w]] = "queued"
         THEN /\ SetStatus(job[w], "running")
              /\ Goto(w, "refetch")
              /\ UNCHANGED <<job, seen, step, attempt>>
         ELSE /\ UNCHANGED status
              /\ BackToLoop(w)
    /\ UNCHANGED <<queue, retryCount, recent, breaker, person, pushes, trouble, forgiven>>

\* A database error before the claim is committed: rolled back and raised.
ClaimFails(w) ==
    /\ pc[w] \in Unclaimed
    /\ Abandons(w)
    /\ BackToLoop(w)
    /\ UNCHANGED <<shared, person, pushes, forgiven>>

Refetch(w) ==
    /\ pc[w] = "refetch"
    /\ Goto(w, "steps")
    /\ UNCHANGED <<shared, job, seen, step, attempt, person, pushes, trouble, forgiven>>

\* The re-fetch is outside every try: the row stays "running".
RefetchFails(w) ==
    /\ pc[w] = "refetch"
    /\ Abandons(w)
    /\ BackToLoop(w)
    /\ UNCHANGED <<shared, person, pushes, forgiven>>

-----------------------------------------------------------------------------
(* A worker: the steps *)

AtStep(w) == pc[w] = "steps" /\ step[w] <= Len(Retries)

FinalAttempt(w) == attempt[w] = Retries[step[w]] + 1

StepSucceeds(w) ==
    /\ AtStep(w)
    /\ step' = [step EXCEPT ![w] = @ + 1]
    /\ attempt' = [attempt EXCEPT ![w] = 1]
    /\ UNCHANGED <<shared, pc, job, seen, person, pushes, trouble, forgiven>>

SaveRetry(w) ==
    /\ SetStatus(job[w], "retrying")
    /\ retryCount' = [retryCount EXCEPT ![job[w]] = @ + 1]

StepRetries(w) ==
    /\ AtStep(w)
    /\ ~FinalAttempt(w)
    /\ SaveRetry(w)
    /\ attempt' = [attempt EXCEPT ![w] = @ + 1]
    /\ UNCHANGED <<queue, recent, breaker, pc, job, seen, step, person, pushes, trouble, forgiven>>

\* The commit or the refresh of the retry raises. The rollback expires the step
\* and run objects, so the next attempt cannot read its configuration and the
\* run fails.
RetryNotSaved(w) ==
    /\ AtStep(w)
    /\ ~FinalAttempt(w)
    /\ Survives
    /\ \/ SaveRetry(w)
       \/ UNCHANGED <<status, retryCount>>
    /\ LeaveSteps(w, "fail")
    /\ UNCHANGED <<queue, recent, breaker, person, pushes, forgiven>>

\* The last attempt raised, or the step has no handler.
StepGivesUp(w) ==
    /\ AtStep(w)
    /\ FinalAttempt(w) \/ attempt[w] = 1
    /\ LeaveSteps(w, "fail")
    /\ UNCHANGED <<shared, person, pushes, trouble, forgiven>>

\* The SELECT of the steps raises.
StepsNotLoaded(w) ==
    /\ pc[w] = "steps"
    /\ step[w] = 1 /\ attempt[w] = 1
    /\ Survives
    /\ LeaveSteps(w, "fail")
    /\ UNCHANGED <<shared, person, pushes, forgiven>>

-----------------------------------------------------------------------------
(* A worker: the outcome *)

Succeed(w) ==
    /\ pc[w] = "steps"
    /\ step[w] > Len(Retries)
    /\ SetStatus(job[w], "success")
    /\ LeaveSteps(w, "close")
    /\ UNCHANGED <<queue, retryCount, recent, breaker, person, pushes, trouble, forgiven>>

\* The commit raises, or the refresh after it does: either way the run is
\* handled as a failed one.
SucceedFails(w) ==
    /\ pc[w] = "steps"
    /\ step[w] > Len(Retries)
    /\ Survives
    /\ SetStatus(job[w], "success") \/ UNCHANGED status
    /\ LeaveSteps(w, "fail")
    /\ UNCHANGED <<queue, retryCount, recent, breaker, person, pushes, forgiven>>

\* The SELECT returns the object already in the session, as it was at the gate.
CloseBreaker(w) ==
    /\ pc[w] = "close"
    /\ IF seen[w].state = "half-open"
         THEN SaveBreaker(seen[w], [seen[w] EXCEPT !.state = "closed", !.reason = NoReason])
         ELSE UNCHANGED <<breaker, forgiven>>
    /\ Goto(w, "finally")
    /\ UNCHANGED <<queue, status, retryCount, recent, job, seen, step, attempt, person, pushes, trouble>>

\* Rolled back and logged only.
CloseBreakerFails(w) ==
    /\ pc[w] = "close"
    /\ Survives
    /\ Goto(w, "finally")
    /\ UNCHANGED <<shared, job, seen, step, attempt, person, pushes, forgiven>>

MarkFailed(w) ==
    /\ pc[w] = "fail"
    /\ SetStatus(job[w], "failed")
    /\ recent' = recent \cup {job[w]}
    /\ Goto(w, "trip")
    /\ UNCHANGED <<queue, retryCount, breaker, job, seen, step, attempt, person, pushes, trouble, forgiven>>

\* Logged only; the breaker is evaluated all the same. (Here and below, a
\* refresh that raises after its commit leaves the same rows as one that works.)
MarkFailedFails(w) ==
    /\ pc[w] = "fail"
    /\ Abandons(w)
    /\ Goto(w, "trip")
    /\ UNCHANGED <<shared, job, seen, step, attempt, person, pushes, forgiven>>

-----------------------------------------------------------------------------
(* A worker: the breaker after a failure *)

\* The rollback expired the session's copy, so this SELECT reads the row.
ReadBreaker(w) ==
    /\ pc[w] = "trip"
    /\ seen' = [seen EXCEPT ![w] = breaker]
    /\ Goto(w, CASE breaker.state = "half-open" -> "open"
                 [] breaker.state = "closed"    -> "count"
                 [] breaker.state = "open"      -> "finally")
    /\ UNCHANGED <<shared, job, step, attempt, person, pushes, trouble, forgiven>>

CountFailures(w) ==
    /\ pc[w] = "count"
    /\ Goto(w, IF Cardinality(recent) >= seen[w].threshold THEN "open" ELSE "finally")
    /\ UNCHANGED <<shared, job, seen, step, attempt, person, pushes, trouble, forgiven>>

Opened(b, e) == [b EXCEPT !.state = "open", !.reason = e]

\* The failure that opened the breaker is its reason.
OpenBreaker(w) ==
    /\ pc[w] = "open"
    /\ \E e \in Errors : SaveBreaker(seen[w], Opened(seen[w], e))
    /\ Goto(w, "finally")
    /\ UNCHANGED <<queue, status, retryCount, recent, job, seen, step, attempt, person, pushes, trouble>>

\* Rolled back and logged only.
EvaluationFails(w) ==
    /\ pc[w] \in Evaluating
    /\ Survives
    /\ Goto(w, "finally")
    /\ UNCHANGED <<shared, job, seen, step, attempt, person, pushes, forgiven>>

\* run_context.json, the diagnostic agent and the webhook, then back to the loop.
Finally(w) ==
    /\ pc[w] = "finally"
    /\ BackToLoop(w)
    /\ UNCHANGED <<shared, person, pushes, trouble, forgiven>>

\* The process dies and is started again; its run stays as it is.
Die(w) ==
    /\ pc[w] # "idle"
    /\ Abandons(w)
    /\ BackToLoop(w)
    /\ UNCHANGED <<shared, person, pushes, forgiven>>

-----------------------------------------------------------------------------
\* What a worker does, and what goes wrong while it does it.
WorkerStep(w) ==
    \/ Pop(w) \/ ReadGate(w) \/ Block(w) \/ Claim(w) \/ Refetch(w)
    \/ StepSucceeds(w) \/ StepRetries(w) \/ StepGivesUp(w)
    \/ Succeed(w) \/ CloseBreaker(w)
    \/ MarkFailed(w) \/ ReadBreaker(w) \/ CountFailures(w) \/ OpenBreaker(w)
    \/ Finally(w)

WorkerFault(w) ==
    \/ ClaimFails(w) \/ RefetchFails(w) \/ StepsNotLoaded(w) \/ RetryNotSaved(w)
    \/ SucceedFails(w) \/ CloseBreakerFails(w) \/ MarkFailedFails(w) \/ EvaluationFails(w)
    \/ Die(w)

Next ==
    \/ \E r \in Runs : Create(r) \/ Push(r) \/ WindowSlides(r)
    \/ PersonReads
    \/ PersonWrites
    \/ \E w \in Workers : WorkerStep(w) \/ WorkerFault(w)

Spec == Init /\ [][Next]_vars

\* A worker that can go on does so: an await returns, a step function ends, and
\* a worker is restarted when it dies. Faults may happen and never have to.
FairSpec == Spec /\ \A w \in Workers : WF_vars(WorkerStep(w))

-----------------------------------------------------------------------------
(* Safety *)

\* Workers that own the run: from the committed claim to the end of finally.
Owners(r) == {w \in Workers : pc[w] \in Executing /\ job[w] = r}

\* A run is executed by one worker, however often its id was pushed and
\* whoever popped it (executor.py:70-77, the conditional UPDATE).
OneOwner == \A r \in Runs : \A v, w \in Owners(r) : v = w

\* What the row of a run with an owner says at each point of the execution: it
\* is never back in "queued", so a second delivery of the id is dropped.
OwnerHoldsRow ==
    \A w \in Workers :
        /\ pc[w] \in {"refetch", "steps"} => status[job[w]] \in Active
        /\ pc[w] = "close" => status[job[w]] = "success"
        /\ pc[w] \in Executing => status[job[w]] \in Active \cup {"success", "failed"}

\* The retries that the first n steps allow together.
Allowed[n \in 0..Len(Retries)] == IF n = 0 THEN 0 ELSE Allowed[n - 1] + Retries[n]

\* The retries recorded in the row stay within what the steps allow, also
\* when the id is delivered again or a worker dies (executor.py:126-160).
RetryBudget == \A r \in Runs : retryCount[r] <= Allowed[Len(Retries)]

\* A run that says it is running or retrying is in the hands of a worker,
\* through every fault the worker survives: a retry, a success or a breaker that
\* is not saved, steps that are not loaded, all end in the run being marked
\* (executor.py:204-233). Only a failed re-fetch (94), a failure that cannot be
\* written (230-233) and a death leave an orphan.
NoOrphan ==
    \A r \in Runs : status[r] \in Active => Owners(r) # {} \/ r \in abandoned

\* A queued run whose id was pushed is still on the list or with a worker that
\* has not decided yet, unless a worker lost it before the claim was committed
\* (executor.py:79-81) or died: the destructive pop loses nothing else, whatever
\* goes wrong with the other runs (main.py:40-56).
NoLostRun ==
    \A r \in Runs : status[r] = "queued" /\ pushes[r] > 0 =>
        \/ r \in Range(queue)
        \/ \E w \in Workers : pc[w] \in Unclaimed /\ job[w] = r
        \/ r \in abandoned

\* Without a fault, once no worker is evaluating the breaker, it is not closed
\* while the failures in the window that came after it last closed reach the
\* largest threshold in use: two workers that fail at the same time cannot both
\* miss each other's failure (executor.py:224 commits before 259 counts).
NoMissedTrip ==
    faults = 0 /\ (\A w \in Workers : pc[w] \notin Evaluating) =>
        \/ breaker.state # "closed"
        \/ \E t \in Thresholds : Cardinality(recent \ forgiven) < t

-----------------------------------------------------------------------------
(* What a step may do *)

\* A blocked or failed run is never touched again, not even by a second
\* delivery of its id, a dying worker or a database error.
EndedIsFinal ==
    [][\A r \in Runs : status[r] \in {"blocked", "failed"} => status'[r] = status[r]]_vars

\* Executor implements RunLifecycle.
OwnerOf(r) == IF Owners(r) = {} THEN NoWorker ELSE CHOOSE w \in Owners(r) : TRUE

OwnerMap == [r \in Runs |-> OwnerOf(r)]

Lifecycle == INSTANCE RunLifecycle WITH owner <- OwnerMap

\* Every step of the workers, the queue and the people is a step of the run
\* life cycle or leaves it alone: one owner for life, no takeover.
ImplementsLifecycle == Lifecycle!Spec

-----------------------------------------------------------------------------
(* What the documentation says of the breaker, and the code does not do *)

\* "A breaker does not reset itself. Nothing in the worker moves it out of
\* `open`" (docs/runbooks/pipeline-failures.md:37): only a PUT does. The
\* closing of the breaker after a success (executor.py:184-194) is what breaks it.
OnlyAPersonLeavesOpen ==
    [][breaker.state = "open" /\ breaker'.state # "open" => person.busy /\ ~person'.busy]_vars

-----------------------------------------------------------------------------
(* Liveness *)

\* A run whose id is on the list ends as success, failed or blocked, unless a
\* worker that has it loses it: a fault in another run, or one the worker
\* survives, delays nobody for good (executor.py:204-233, main.py:49-56).
DeliveredRunEnds ==
    \A r \in Runs : r \in Range(queue) ~> (status[r] \in Ended \/ r \in abandoned)

\* Whatever goes wrong in a run, the worker comes back to the loop
\* (main.py:49-56).
WorkerComesBack == \A w \in Workers : pc[w] # "idle" ~> pc[w] = "idle"

=============================================================================
