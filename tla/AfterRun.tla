------------------------------ MODULE AfterRun ------------------------------
(***************************************************************************)
(* What follows the steps of a run: the end of _run_executor_service and   *)
(* its finally block (worker/app/executor.py), the diagnostic agent it     *)
(* awaits (worker/app/agent), the two tasks nobody awaits (the webhook and *)
(* the indexing of the incident), and the runbook indexer, while tenants   *)
(* and pipelines are deleted.                                              *)
(*                                                                         *)
(* Texts, embeddings and distances are left out: a row of the vector table *)
(* is its source_type, its tenant and the thing it describes, and the k    *)
(* nearest rows are any k rows.  A worker's death takes the run and the    *)
(* tasks it started with it.                                               *)
(***************************************************************************)
EXTENDS Naturals, FiniteSets, FiniteSetsExt

CONSTANTS Runs, Pipelines, Tenants,
          PipelineOf,     \* run -> its pipeline
          TenantOf,       \* pipeline -> its tenant
          WithCallback,   \* the pipelines with a callback_url
          Indexers,       \* executions of index_runbooks.py
          Chunks,         \* the chunks of the runbooks
          K_RUNBOOKS, K_INCIDENTS,
          RecommendedAction,   \* "escalate" among them
          None,
          MaxFaults       \* bound: failures and deaths in a behaviour

ASSUME AfterRunAssumption ==
    /\ PipelineOf \in [Runs -> Pipelines]
    /\ TenantOf \in [Pipelines -> Tenants]
    /\ None \notin Tenants \cup RecommendedAction
    /\ None \notin {"loaded", "expired", "success", "failed", "started", "post", "done", "step", "other"}
    /\ "escalate" \in RecommendedAction

VARIABLES tenants, pipelines,  \* the rows there are
          recommendations,     \* run -> its recommended_action, or None
          webhook_callbacks,   \* run -> the status of its audit row, or None
          embeddings,          \* incident_embeddings
          exe,                 \* run -> its executor and agent
          indexing, hook,      \* run -> its two background tasks
          indexer,             \* an execution of index_runbooks.py
          history              \* run -> what happened to it, for the properties

db     == <<tenants, pipelines, recommendations, webhook_callbacks, embeddings>>
tasks  == <<indexing, hook>>
vars   == <<db, exe, tasks, indexer, history>>

-----------------------------------------------------------------------------
(* State *)

Row(source, tenant, ref) == [source_type |-> source, tenant_id |-> tenant, source_ref |-> ref]
Runbook(i) == {Row("runbook", None, <<i, c>>) : c \in Chunks}
Incident(r) == {Row(s, TenantOf[PipelineOf[r]], r) : s \in {"past_run", "past_recommendation"}}
EveryRow == (UNION {Runbook(i) : i \in Indexers}) \cup (UNION {Incident(r) : r \in Runs})
Runbooks == {row \in embeddings : row.source_type = "runbook"}

Graph == {"log_analysis", "classification", "retrieval", "incidents", "recovery_planning"}
Alive == {"gate", "steps", "close", "mark", "breaker", "record", "persist", "refresh", "webhook"} \cup Graph
Faults == {"database", "llm", "graph", "mkdir", "write", "death"}

TypeOK ==
    /\ tenants \subseteq Tenants
    /\ pipelines \subseteq Pipelines
    /\ recommendations \in [Runs -> RecommendedAction \cup {None}]
    /\ webhook_callbacks \in [Runs -> {"success", "failed", None}]
    /\ embeddings \subseteq EveryRow
    /\ exe \in [Runs -> [pc: Alive \cup {"over"}, run: {"loaded", "expired", None},
                         status: {"success", "failed", None},
                         filled: SUBSET {"log_analysis", "classification", "recovery_plan"},
                         context: SUBSET EveryRow, plan: RecommendedAction \cup {None},
                         recommendation_id: BOOLEAN]]
    /\ indexing \in [Runs -> {None, "started", "done"}]
    /\ hook \in [Runs -> {None, "post", "success", "failed", "done"}]
    /\ indexer \in [Indexers -> [pc: {"ready", "delete", "insert", "done"}, doomed: SUBSET EveryRow]]
    /\ history \in [Runs -> [hurt: SUBSET Faults, raised: {None, "step", "other"},
                             accepted: BOOLEAN, linked: BOOLEAN]]

Init ==
    /\ tenants = Tenants
    /\ pipelines = Pipelines
    /\ recommendations = [r \in Runs |-> None]
    /\ webhook_callbacks = [r \in Runs |-> None]
    /\ embeddings = {}
    /\ exe = [r \in Runs |-> [pc |-> "gate", run |-> "loaded", status |-> None, filled |-> {},
                              context |-> {}, plan |-> None, recommendation_id |-> FALSE]]
    /\ indexing = [r \in Runs |-> None]
    /\ hook = [r \in Runs |-> None]
    /\ indexer = [i \in Indexers |-> [pc |-> "ready", doomed |-> {}]]
    /\ history = [r \in Runs |-> [hurt |-> {}, raised |-> None, accepted |-> FALSE, linked |-> FALSE]]

-----------------------------------------------------------------------------
(* What the actions are made of *)

Exists(r) == PipelineOf[r] \in pipelines
At(r, label) == exe[r].pc = label

\* The next state of the executor of r; it goes on to label.
Step(r, state, label) == exe' = [exe EXCEPT ![r] = [state EXCEPT !.pc = label]]

\* run_executor_service returns or raises: its locals are gone.
Ends(r, state, error) ==
    /\ Step(r, [state EXCEPT !.run = None, !.filled = {}, !.context = {}, !.plan = None,
                             !.recommendation_id = FALSE], "over")
    /\ history' = [history EXCEPT ![r].raised = error]

\* What a run that ends as it should raises: the error of its step, if any.
OwnError(r) == IF exe[r].status = "failed" THEN "step" ELSE None

\* Something fails under r, once or for good: a statement, a call to the model,
\* a file.
Strikes(r, fault) ==
    \/ fault \in history[r].hurt
    \/ MapThenSumSet(LAMBDA x : Cardinality(history[x].hurt), Runs) < MaxFaults

Hurt(r, fault) ==
    /\ Strikes(r, fault)
    /\ history' = [history EXCEPT ![r].hurt = @ \cup {fault}]

\* A rollback expires the loaded run.
Expired(run) == IF run = None THEN None ELSE "expired"

-----------------------------------------------------------------------------
(* The end of the run *)

\* The breaker is open: the run is blocked, and returns before the finally.
Block(r) ==
    /\ At(r, "gate")
    /\ Exists(r)
    /\ Ends(r, exe[r], None)
    /\ UNCHANGED <<db, tasks, indexer>>

\* The claim (its database errors are in Executor.tla).
Claim(r) ==
    /\ At(r, "gate")
    /\ IF Exists(r) THEN Step(r, exe[r], "steps") /\ UNCHANGED history
                    ELSE Ends(r, exe[r], "other")
    /\ UNCHANGED <<db, tasks, indexer>>

\* The steps are done; the UPDATE of a run that is deleted matches no row, and
\* is handled like the failure of a step.
Succeed(r) ==
    /\ At(r, "steps")
    /\ IF Exists(r)
         THEN Step(r, [exe[r] EXCEPT !.status = "success"], "close")
         ELSE Step(r, [exe[r] EXCEPT !.status = "failed", !.run = "expired"], "mark")
    /\ UNCHANGED <<db, tasks, indexer, history>>

\* A step fails for the last time, or the commit of the success does.
StepFails(r) ==
    /\ At(r, "steps")
    /\ Step(r, [exe[r] EXCEPT !.status = "failed", !.run = "expired"], "mark")
    /\ UNCHANGED <<db, tasks, indexer, history>>

\* A half-open breaker is closed (Executor.tla); an error is rolled back.
CloseBreaker(r) ==
    /\ At(r, "close")
    /\ \/ Step(r, exe[r], "record") /\ UNCHANGED history
       \/ Step(r, [exe[r] EXCEPT !.run = Expired(@)], "record") /\ Hurt(r, "database")
    /\ UNCHANGED <<db, tasks, indexer>>

\* The run is read again and marked as failed; None when it is deleted.
MarkFailed(r) ==
    /\ At(r, "mark")
    /\ \/ Step(r, [exe[r] EXCEPT !.run = IF Exists(r) THEN "loaded" ELSE None], "breaker") /\ UNCHANGED history
       \/ Step(r, exe[r], "breaker") /\ Hurt(r, "database")
    /\ UNCHANGED <<db, tasks, indexer>>

EvaluateBreaker(r) ==
    /\ At(r, "breaker")
    /\ \/ Step(r, exe[r], "record") /\ UNCHANGED history
       \/ Step(r, [exe[r] EXCEPT !.run = Expired(@)], "record") /\ Hurt(r, "database")
    /\ UNCHANGED <<db, tasks, indexer>>

-----------------------------------------------------------------------------
(* The finally block: run_context.json, the agent, the webhook *)

\* Plausible bug: open and json.dump are outside the try as well.
run_observability_recording_NoTry(r) ==
    /\ At(r, "record")
    /\ \/ Step(r, exe[r], IF exe[r].status = "failed" THEN "log_analysis" ELSE "webhook") /\ UNCHANGED history
       \/ \E fault \in {"mkdir", "write"} :
             /\ Strikes(r, fault)
             /\ Step(r, [exe[r] EXCEPT !.run = None], "over")
             /\ history' = [history EXCEPT ![r].hurt = @ \cup {fault}, ![r].raised = "other"]
    /\ UNCHANGED <<db, tasks, indexer>>

\* A failure to write the file is logged; mkdir is outside the try, and its
\* error leaves the finally block. The agent has nothing to do for a success.
run_observability_recording(r) ==
    LET next == IF exe[r].status = "failed" THEN "log_analysis" ELSE "webhook" IN
    /\ At(r, "record")
    /\ \/ Step(r, exe[r], next) /\ UNCHANGED history
       \/ Step(r, exe[r], next) /\ Hurt(r, "write")
       \/ /\ Strikes(r, "mkdir")
          /\ Step(r, [exe[r] EXCEPT !.run = None], "over")
          /\ history' = [history EXCEPT ![r].hurt = @ \cup {"mkdir"}, ![r].raised = "other"]
    /\ UNCHANGED <<db, tasks, indexer>>

\* The model answers, or raises and a sentinel takes the place of its answer.
log_analysis_node(r) ==
    /\ At(r, "log_analysis")
    /\ Step(r, [exe[r] EXCEPT !.filled = @ \cup {"log_analysis"}], "classification")
    /\ UNCHANGED history \/ Hurt(r, "llm")
    /\ UNCHANGED <<db, tasks, indexer>>

\* Plausible bug: a failed call returns no classification.
classification_node_NoSentinel(r) ==
    /\ At(r, "classification")
    /\ \/ Step(r, [exe[r] EXCEPT !.filled = @ \cup {"classification"}], "retrieval") /\ UNCHANGED history
       \/ Step(r, exe[r], "retrieval") /\ Hurt(r, "llm")
    /\ UNCHANGED <<db, tasks, indexer>>

classification_node(r) ==
    /\ At(r, "classification")
    /\ Step(r, [exe[r] EXCEPT !.filled = @ \cup {"classification"}], "retrieval")
    /\ UNCHANGED history \/ Hurt(r, "llm")
    /\ UNCHANGED <<db, tasks, indexer>>

\* ORDER BY distance LIMIT k.
Nearest(k, rows) == IF Cardinality(rows) <= k THEN {rows} ELSE kSubset(k, rows)

_RUNBOOK_QUERY == Nearest(K_RUNBOOKS, Runbooks)

\* Plausible bug: the filter on tenant_id is missing.
_INCIDENT_QUERY_AnyTenant(t) == Nearest(K_INCIDENTS, embeddings \ Runbooks)

_INCIDENT_QUERY(t) ==
    Nearest(K_INCIDENTS, {row \in embeddings : row.source_type # "runbook" /\ row.tenant_id = t})

\* The query is embedded, and the two statements run one after the other; any
\* failure means no context at all.
retrieval_node(r) ==
    /\ \/ /\ At(r, "retrieval")
          /\ \E rows \in _RUNBOOK_QUERY : Step(r, [exe[r] EXCEPT !.context = rows], "incidents")
       \/ /\ At(r, "incidents")
          /\ \E rows \in _INCIDENT_QUERY(TenantOf[PipelineOf[r]]) :
                Step(r, [exe[r] EXCEPT !.context = @ \cup rows], "recovery_planning")
    /\ UNCHANGED <<db, tasks, indexer, history>>

RetrievalFails(r) ==
    /\ \/ At(r, "retrieval") /\ Hurt(r, "llm")
       \/ exe[r].pc \in {"retrieval", "incidents"} /\ Hurt(r, "database")
    /\ Step(r, [exe[r] EXCEPT !.context = {}], "recovery_planning")
    /\ UNCHANGED <<db, tasks, indexer>>

\* Plausible bug: the sentinel has no recommended action.
recovery_plan_sentinel_Unknown == "unknown"

recovery_plan_sentinel == "escalate"

\* The check of the breaker that the model may ask for only changes the prompt.
recovery_planning_node(r) ==
    /\ At(r, "recovery_planning")
    /\ LET written(action) == [exe[r] EXCEPT !.filled = @ \cup {"recovery_plan"}, !.plan = action, !.context = {}] IN
       \/ /\ \E action \in RecommendedAction : Step(r, written(action), "persist")
          /\ UNCHANGED history
       \/ /\ Step(r, written(recovery_plan_sentinel), "persist")
          /\ Hurt(r, "llm")
    /\ UNCHANGED <<db, tasks, indexer>>

\* Plausible bug: the executor does not catch what the agent raises.
GraphBreaks_Escapes(r) ==
    /\ exe[r].pc \in Graph
    /\ Strikes(r, "graph")
    /\ Step(r, [exe[r] EXCEPT !.run = None, !.filled = {}, !.context = {}], "over")
    /\ history' = [history EXCEPT ![r].hurt = @ \cup {"graph"}, ![r].raised = "other"]
    /\ UNCHANGED <<db, tasks, indexer>>

\* An error of the graph itself, or a run_context that json.dumps rejects: the
\* agent returns None.
GraphBreaks(r) ==
    /\ exe[r].pc \in Graph
    /\ Hurt(r, "graph")
    /\ Step(r, [exe[r] EXCEPT !.context = {}, !.filled = {}], "webhook")
    /\ UNCHANGED <<db, tasks, indexer>>

\* The recommendation is inserted if the graph filled in what it needs; the
\* foreign key fails when the run is deleted.
Persist(r) ==
    /\ At(r, "persist")
    /\ IF {"classification", "recovery_plan"} \subseteq exe[r].filled /\ Exists(r)
         THEN /\ recommendations' = [recommendations EXCEPT ![r] = exe[r].plan]
              /\ Step(r, exe[r], "refresh")
         ELSE /\ Step(r, exe[r], "webhook")
              /\ UNCHANGED recommendations
    /\ UNCHANGED <<tenants, pipelines, webhook_callbacks, embeddings, tasks, indexer, history>>

\* Plausible bug: the id is returned although the commit failed.
PersistFails_ReturnsId(r) ==
    /\ exe[r].pc \in {"persist", "refresh"}
    /\ Hurt(r, "database")
    /\ Step(r, [exe[r] EXCEPT !.recommendation_id = TRUE], "webhook")
    /\ UNCHANGED <<db, tasks, indexer>>

\* The commit fails, or the refresh after it: then the row is there, and the
\* agent returns None all the same.
PersistFails(r) ==
    /\ exe[r].pc \in {"persist", "refresh"}
    /\ Hurt(r, "database")
    /\ Step(r, exe[r], "webhook")
    /\ UNCHANGED <<db, tasks, indexer>>

\* The row is read back and the indexing of the incident started.
RefreshRecommendation(r) ==
    /\ At(r, "refresh")
    /\ IF Exists(r)
         THEN /\ Step(r, [exe[r] EXCEPT !.recommendation_id = TRUE], "webhook")
              /\ indexing' = [indexing EXCEPT ![r] = "started"]
         ELSE Step(r, exe[r], "webhook") /\ UNCHANGED indexing
    /\ UNCHANGED <<db, hook, indexer, history>>

\* The pipeline is read and the webhook started. An expired run raises a
\* SQLAlchemyError, which is caught; a run that is None an AttributeError,
\* which is not.
SendCallback(r) ==
    /\ At(r, "webhook")
    /\ IF exe[r].run = "loaded" /\ Exists(r) /\ PipelineOf[r] \in WithCallback
         THEN /\ hook' = [hook EXCEPT ![r] = "post"]
              /\ Step(r, [exe[r] EXCEPT !.run = None, !.filled = {}, !.plan = None, !.recommendation_id = FALSE], "over")
              /\ history' = [history EXCEPT ![r].raised = OwnError(r), ![r].linked = exe[r].recommendation_id]
         ELSE /\ Ends(r, exe[r], IF exe[r].run = None THEN "other" ELSE OwnError(r))
              /\ UNCHANGED hook
    /\ UNCHANGED <<db, indexing, indexer>>

CallbackNotRead(r) ==
    /\ At(r, "webhook")
    /\ exe[r].run = "loaded"
    /\ Strikes(r, "database")
    /\ Step(r, [exe[r] EXCEPT !.run = None, !.filled = {}, !.plan = None, !.recommendation_id = FALSE], "over")
    /\ history' = [history EXCEPT ![r].raised = OwnError(r), ![r].hurt = @ \cup {"database"}]
    /\ UNCHANGED <<db, tasks, indexer>>

-----------------------------------------------------------------------------
(* The tasks nobody awaits *)

\* Plausible bug: any answer counts as a delivery.
Delivered_AnyAnswer(answer) == answer # "lost"

\* 200 <= status_code < 300.
Delivered(answer) == answer = "2xx"

\* One POST: answered, or lost before or after the receiver took it.
Post(r) ==
    /\ hook[r] = "post"
    /\ \E answer \in {"2xx", "other", "lost"}, taken \in BOOLEAN :
          /\ answer = "2xx" => taken
          /\ answer = "other" => ~taken
          /\ hook' = [hook EXCEPT ![r] = IF Delivered(answer) THEN "success" ELSE "failed"]
          /\ history' = [history EXCEPT ![r].accepted = taken]
    /\ UNCHANGED <<db, exe, indexing, indexer>>

\* The audit row, whatever the outcome; its foreign keys fail when the run is
\* deleted.
Audit(r) ==
    /\ hook[r] \in {"success", "failed"}
    /\ hook' = [hook EXCEPT ![r] = "done"]
    /\ webhook_callbacks' = [webhook_callbacks EXCEPT ![r] = IF Exists(r) THEN hook[r] ELSE @]
    /\ UNCHANGED <<tenants, pipelines, recommendations, embeddings, exe, indexing, indexer, history>>

AuditFails(r) ==
    /\ hook[r] \in {"success", "failed"}
    /\ hook' = [hook EXCEPT ![r] = "done"]
    /\ Hurt(r, "database")
    /\ UNCHANGED <<db, exe, indexing, indexer>>

\* Plausible bug: each of the two rows has its own commit.
index_incident_TwoCommits(r) ==
    /\ indexing[r] = "started"
    /\ \E rows \in SUBSET {row \in Incident(r) : row.tenant_id \in tenants} :
          /\ embeddings' = embeddings \cup rows
          /\ indexing' = [indexing EXCEPT ![r] = IF Incident(r) \subseteq embeddings' THEN "done" ELSE @]
    /\ UNCHANGED <<tenants, pipelines, recommendations, webhook_callbacks, exe, hook, indexer, history>>

\* Both texts are embedded, then both rows inserted in one transaction, which
\* only needs the tenant to be there.
index_incident(r) ==
    /\ indexing[r] = "started"
    /\ indexing' = [indexing EXCEPT ![r] = "done"]
    /\ embeddings' = embeddings \cup {row \in Incident(r) : row.tenant_id \in tenants}
    /\ UNCHANGED <<tenants, pipelines, recommendations, webhook_callbacks, exe, hook, indexer, history>>

IndexingFails(r) ==
    /\ indexing[r] = "started"
    /\ Hurt(r, "llm") \/ Hurt(r, "database")
    /\ indexing' = [indexing EXCEPT ![r] = "done"]
    /\ UNCHANGED <<db, exe, hook, indexer>>

Die(r) ==
    /\ exe[r].pc \in Alive \ {"gate"} \/ hook[r] \notin {None, "done"} \/ indexing[r] = "started"
    /\ Hurt(r, "death")
    /\ Step(r, [exe[r] EXCEPT !.run = None, !.filled = {}, !.context = {}, !.plan = None,
                              !.recommendation_id = FALSE], "over")
    /\ hook' = [hook EXCEPT ![r] = IF @ = None THEN @ ELSE "done"]
    /\ indexing' = [indexing EXCEPT ![r] = IF @ = None THEN @ ELSE "done"]
    /\ UNCHANGED <<db, indexer>>

-----------------------------------------------------------------------------
(* index_runbooks.py *)

\* Plausible bug: the DELETE is committed before the new rows are inserted.
main_TwoTransactions(i) ==
    /\ \/ /\ indexer[i].pc = "ready"
          /\ indexer' = [indexer EXCEPT ![i] = [pc |-> "insert", doomed |-> {}]]
          /\ embeddings' = embeddings \ Runbooks
       \/ /\ indexer[i].pc = "insert"
          /\ indexer' = [indexer EXCEPT ![i] = [pc |-> "done", doomed |-> {}]]
          /\ embeddings' = embeddings \cup Runbook(i)
    /\ UNCHANGED <<tenants, pipelines, recommendations, webhook_callbacks, exe, tasks, history>>

\* One transaction: DELETE the runbook rows its snapshot shows, waiting for
\* another indexer that is deleting one of them; INSERT the new rows; COMMIT.
main(i) ==
    /\ \/ /\ indexer[i].pc = "ready"
          /\ indexer' = [indexer EXCEPT ![i] = [pc |-> "delete", doomed |-> Runbooks]]
          /\ UNCHANGED embeddings
       \/ /\ indexer[i].pc = "delete"
          /\ \A j \in Indexers \ {i} :
                indexer[j].pc = "insert" => indexer[j].doomed \cap indexer[i].doomed = {}
          /\ indexer' = [indexer EXCEPT ![i].pc = "insert"]
          /\ UNCHANGED embeddings
       \/ /\ indexer[i].pc = "insert"
          /\ indexer' = [indexer EXCEPT ![i] = [pc |-> "done", doomed |-> {}]]
          /\ embeddings' = (embeddings \ indexer[i].doomed) \cup Runbook(i)
    /\ UNCHANGED <<tenants, pipelines, recommendations, webhook_callbacks, exe, tasks, history>>

\* An error, or the end of the process, rolls the transaction back; somebody
\* may run it again.
IndexerFails(i) ==
    /\ indexer[i].pc \in {"delete", "insert"}
    /\ indexer' = [indexer EXCEPT ![i] = [pc |-> "ready", doomed |-> {}]]
    /\ UNCHANGED <<db, exe, tasks, history>>

-----------------------------------------------------------------------------
(* The control plane deletes; the foreign keys cascade *)

Forget(gone) ==
    /\ pipelines' = pipelines \ gone
    /\ recommendations' = [r \in Runs |-> IF PipelineOf[r] \in gone THEN None ELSE recommendations[r]]
    /\ webhook_callbacks' = [r \in Runs |-> IF PipelineOf[r] \in gone THEN None ELSE webhook_callbacks[r]]

DeletePipeline(p) ==
    /\ p \in pipelines
    /\ Forget({p})
    /\ UNCHANGED <<tenants, embeddings, exe, tasks, indexer, history>>

DeleteTenant(t) ==
    /\ t \in tenants
    /\ tenants' = tenants \ {t}
    /\ Forget({p \in Pipelines : TenantOf[p] = t})
    /\ embeddings' = {row \in embeddings : row.tenant_id # t}
    /\ UNCHANGED <<exe, tasks, indexer, history>>

-----------------------------------------------------------------------------

RunStep(r) ==
    \/ Block(r) \/ Claim(r) \/ Succeed(r) \/ StepFails(r)
    \/ CloseBreaker(r) \/ MarkFailed(r) \/ EvaluateBreaker(r)
    \/ run_observability_recording(r)
    \/ log_analysis_node(r) \/ classification_node(r) \/ retrieval_node(r) \/ RetrievalFails(r)
    \/ recovery_planning_node(r) \/ GraphBreaks(r)
    \/ Persist(r) \/ PersistFails(r) \/ RefreshRecommendation(r)
    \/ SendCallback(r) \/ CallbackNotRead(r)
    \/ Post(r) \/ Audit(r) \/ AuditFails(r) \/ index_incident(r) \/ IndexingFails(r)

Next ==
    \/ \E r \in Runs : RunStep(r) \/ Die(r)
    \/ \E i \in Indexers : main(i) \/ IndexerFails(i)
    \/ \E p \in Pipelines : DeletePipeline(p)
    \/ \E t \in Tenants : DeleteTenant(t)

Spec == Init /\ [][Next]_vars

-----------------------------------------------------------------------------
(* Properties *)

\* What the executor of r did not get to do.
Missed(r, faults) == history[r].hurt \cap faults = {} /\ Exists(r) /\ At(r, "over")

\* A failed run that still has its row ends with a recommendation, whatever the
\* model, the retrieval and the run_context.json do: only the database, the
\* graph itself, mkdir or a death takes it away.
DiagnosedUnless == \A r \in Runs :
    /\ exe[r].status = "failed"
    /\ Missed(r, {"database", "graph", "mkdir", "death"})
    => recommendations[r] # None

\* A run that was not blocked and still has its row ends with the webhook of its
\* pipeline started; a failing agent does not cost the tenant the webhook.
AnnouncedUnless == \A r \in Runs :
    /\ exe[r].status # None
    /\ PipelineOf[r] \in WithCallback
    /\ Missed(r, {"database", "mkdir", "death"})
    => hook[r] # None

\* What run_executor_service raises is the error of the step, and nothing for a
\* success: only mkdir and the deletion of the run put another error in its place.
ErrorNotMasked == \A r \in Runs :
    history[r].raised = "other" => "mkdir" \in history[r].hurt \/ ~Exists(r)

\* A webhook carries a link only to a recommendation of its run that is there.
LinkIsGood == \A r \in Runs :
    history[r].linked /\ Exists(r) => recommendations[r] # None

\* The audit table calls a delivery successful only if the receiver took it, and
\* has no row for a webhook that was tried only if the database or a death took it.
AuditTruthful == \A r \in Runs :
    /\ webhook_callbacks[r] = "success" => history[r].accepted
    /\ hook[r] = "done" /\ webhook_callbacks[r] = None =>
          history[r].hurt \cap {"database", "death"} # {} \/ ~Exists(r)

\* The context of a diagnosis is runbooks and incidents of the run's own tenant.
ContextIsOwn == \A r \in Runs : \A row \in exe[r].context :
    row.tenant_id \in {None, TenantOf[PipelineOf[r]]}

\* An incident has both its rows or none, belongs to a tenant that is there, and
\* has its recommendation as long as the run has its row.
IncidentPairs == \A r \in Runs :
    Incident(r) \cap embeddings # {} =>
       /\ Incident(r) \subseteq embeddings
       /\ TenantOf[PipelineOf[r]] \in tenants
       /\ Exists(r) => recommendations[r] # None

\* Once the runbooks are indexed, every chunk can always be retrieved, also while
\* they are indexed again, by several indexers or by one that fails.
RunbooksAlwaysThere ==
    (\E i \in Indexers : indexer[i].pc = "done") =>
       \A c \in Chunks : \E i \in Indexers : Row("runbook", None, <<i, c>>) \in embeddings

\* The finally block: only the named failures cost a run its recommendation or
\* its webhook, and the link of the webhook is good.
Finalized == DiagnosedUnless /\ AnnouncedUnless /\ LinkIsGood

\* The rows that outlive the run: well typed, and incidents never by halves.
RowsSound == TypeOK /\ IncidentPairs
=============================================================================
