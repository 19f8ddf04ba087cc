--------------------------- MODULE AfterRunProofs ----------------------------
(***************************************************************************)
(* Proofs about AfterRun for any number of runs, pipelines, tenants,       *)
(* indexers, chunks and faults.                                            *)
(***************************************************************************)
EXTENDS AfterRun, TLAPS

USE DEF db, tasks, At, Alive, Graph, Faults

-----------------------------------------------------------------------------
(* Type correctness *)

Exec == [pc: Alive \cup {"over"}, run: {"loaded", "expired", None},
         status: {"success", "failed", None},
         filled: SUBSET {"log_analysis", "classification", "recovery_plan"},
         context: SUBSET EveryRow, plan: RecommendedAction \cup {None},
         recommendation_id: BOOLEAN]

Hist == [hurt: SUBSET Faults, raised: {None, "step", "other"}, accepted: BOOLEAN, linked: BOOLEAN]

Label == Alive \cup {"over"}

\* Changing fields of an executor's state to values of their types gives one.
LEMMA ExecLabel == ASSUME NEW e \in Exec, NEW l \in Label PROVE [e EXCEPT !.pc = l] \in Exec
  BY DEF Exec, Label

\* The run that is loaded.
LEMMA ExecRun ==
    ASSUME NEW e \in Exec, NEW run \in {"loaded", "expired", None}
    PROVE  [e EXCEPT !.run = run] \in Exec
  BY DEF Exec

\* The outcome of the steps.
LEMMA ExecStatus ==
    ASSUME NEW e \in Exec
    PROVE  /\ [e EXCEPT !.status = "success"] \in Exec
           /\ [e EXCEPT !.status = "failed", !.run = "expired"] \in Exec
  BY DEF Exec

\* What the graph fills in.
LEMMA ExecFilled ==
    ASSUME NEW e \in Exec, NEW field \in {"log_analysis", "classification", "recovery_plan"}
    PROVE  [e EXCEPT !.filled = @ \cup {field}] \in Exec
  BY DEF Exec

\* The context of the diagnosis.
LEMMA ExecContext ==
    ASSUME NEW e \in Exec, NEW rows \in SUBSET EveryRow
    PROVE  /\ [e EXCEPT !.context = rows] \in Exec
           /\ [e EXCEPT !.context = @ \cup rows] \in Exec
           /\ [e EXCEPT !.context = {}, !.filled = {}] \in Exec
  BY DEF Exec

\* The recovery plan.
LEMMA ExecPlan ==
    ASSUME NEW e \in Exec, NEW action \in RecommendedAction
    PROVE  [e EXCEPT !.filled = @ \cup {"recovery_plan"}, !.plan = action, !.context = {}] \in Exec
  BY DEF Exec

\* The end of the run, and the id the agent returns.
LEMMA ExecOver ==
    ASSUME NEW e \in Exec
    PROVE  /\ [e EXCEPT !.run = None, !.filled = {}, !.context = {}, !.plan = None,
                        !.recommendation_id = FALSE] \in Exec
           /\ [e EXCEPT !.run = None, !.filled = {}, !.plan = None, !.recommendation_id = FALSE] \in Exec
           /\ [e EXCEPT !.recommendation_id = TRUE] \in Exec
  BY DEF Exec

\* A step to a label of an executor's state.
LEMMA StepType ==
    ASSUME exe \in [Runs -> Exec], NEW r \in Runs, NEW state \in Exec, NEW label \in Label,
           Step(r, state, label)
    PROVE  exe' \in [Runs -> Exec]
  BY ExecLabel DEF Step

\* What a step leaves in the state of each executor.
LEMMA StepMoves ==
    ASSUME exe \in [Runs -> Exec], NEW r \in Runs, NEW state \in Exec, NEW label \in Label,
           Step(r, state, label)
    PROVE  /\ exe'[r].pc = label
           /\ exe'[r].plan = state.plan
           /\ exe'[r].context = state.context
           /\ \A q \in Runs : q # r => exe'[q] = exe[q]
  BY DEF Step, Exec

\* And the other fields.
LEMMA StepFields ==
    ASSUME exe \in [Runs -> Exec], NEW r \in Runs, NEW state \in Exec, NEW label \in Label,
           Step(r, state, label)
    PROVE  /\ exe'[r].pc = label
           /\ exe'[r].run = state.run
           /\ exe'[r].status = state.status
           /\ exe'[r].filled = state.filled
           /\ exe'[r].recommendation_id = state.recommendation_id
  BY DEF Step, Exec

\* A history stays one.
LEMMA HistoryType ==
    ASSUME history \in [Runs -> Hist], NEW r \in Runs, NEW fault \in Faults, Hurt(r, fault)
    PROVE  history' \in [Runs -> Hist]
  BY DEF Hurt, Hist

Types ==
    /\ tenants \subseteq Tenants
    /\ pipelines \subseteq Pipelines
    /\ recommendations \in [Runs -> RecommendedAction \cup {None}]
    /\ webhook_callbacks \in [Runs -> {"success", "failed", None}]
    /\ embeddings \subseteq EveryRow
    /\ exe \in [Runs -> Exec]
    /\ indexing \in [Runs -> {None, "started", "done"}]
    /\ hook \in [Runs -> {None, "post", "success", "failed", "done"}]
    /\ indexer \in [Indexers -> [pc: {"ready", "delete", "insert", "done"}, doomed: SUBSET EveryRow]]
    /\ history \in [Runs -> Hist]

\* TypeOK, with its sets named.
LEMMA TypeParts == TypeOK <=> Types
  BY DEF TypeOK, Types, Exec, Hist

\* What a run raises is noted.
LEMMA RaisedType ==
    ASSUME history \in [Runs -> Hist], NEW r \in Runs, NEW error \in {None, "step", "other"},
           NEW fault \in Faults, NEW link \in BOOLEAN,
           \/ history' = [history EXCEPT ![r].raised = error]
           \/ history' = [history EXCEPT ![r].raised = error, ![r].linked = link]
           \/ history' = [history EXCEPT ![r].raised = error, ![r].hurt = @ \cup {fault}]
           \/ history' = [history EXCEPT ![r].hurt = @ \cup {fault}, ![r].raised = error]
    PROVE  history' \in [Runs -> Hist]
  BY DEF Hist

\* The error of a step is one of the errors a run may raise.
LEMMA OwnErrorType == ASSUME NEW r \in Runs PROVE OwnError(r) \in {None, "step", "other"}
  BY DEF OwnError

\* The k nearest rows are some of the rows.
LEMMA NearestRows ==
    ASSUME NEW k, NEW rows, NEW chosen \in Nearest(k, rows)
    PROVE  chosen \subseteq rows
  BY DEF Nearest, kSubset

\* Every step leaves each variable in its set.
LEMMA NextTypes ==
    ASSUME Types, [Next]_vars
    PROVE  Types'
  <1>types. Types
    OBVIOUS
  <1>exec. \A x \in Runs : exe[x] \in Exec
    BY DEF Types
  <1> USE AfterRunAssumption DEF Types
  <1>Block. ASSUME NEW r \in Runs, Block(r) PROVE Types'
    <2>1. [exe[r] EXCEPT !.run = None, !.filled = {}, !.context = {}, !.plan = None,
                      !.recommendation_id = FALSE] \in Exec
      BY <1>exec, ExecOver
    <2>2. exe' \in [Runs -> Exec]
      BY <1>Block, <2>1, <1>exec, <1>types, StepType DEF Block, Label, Ends
    <2>3. history' \in [Runs -> Hist]
      BY <1>Block, <1>types, RaisedType DEF Block, Ends
    <2> QED
      BY <1>Block, <2>2, <2>3, <1>types DEF Block, Ends
  <1>Claim. ASSUME NEW r \in Runs, Claim(r) PROVE Types'
    <2>1. [exe[r] EXCEPT !.run = None, !.filled = {}, !.context = {}, !.plan = None,
                      !.recommendation_id = FALSE] \in Exec
      BY <1>exec, ExecOver
    <2>2. exe' \in [Runs -> Exec]
      BY <1>Claim, <2>1, <1>exec, <1>types, StepType DEF Claim, Label, Ends
    <2>3. history' \in [Runs -> Hist]
      BY <1>Claim, <1>types, RaisedType DEF Claim, Ends
    <2> QED
      BY <1>Claim, <2>2, <2>3, <1>types DEF Claim, Ends
  <1>Succeed. ASSUME NEW r \in Runs, Succeed(r) PROVE Types'
    <2>1. /\ [exe[r] EXCEPT !.status = "success"] \in Exec
          /\ [exe[r] EXCEPT !.status = "failed", !.run = "expired"] \in Exec
      BY <1>exec, ExecStatus
    <2>2. exe' \in [Runs -> Exec]
      BY <1>Succeed, <2>1, <1>exec, <1>types, StepType DEF Succeed, Label
    <2> QED
      BY <1>Succeed, <2>2, <1>types DEF Succeed
  <1>StepFails. ASSUME NEW r \in Runs, StepFails(r) PROVE Types'
    <2>1. [exe[r] EXCEPT !.status = "failed", !.run = "expired"] \in Exec
      BY <1>exec, ExecStatus
    <2>2. exe' \in [Runs -> Exec]
      BY <1>StepFails, <2>1, <1>exec, <1>types, StepType DEF StepFails, Label
    <2> QED
      BY <1>StepFails, <2>2, <1>types DEF StepFails
  <1>CloseBreaker. ASSUME NEW r \in Runs, CloseBreaker(r) PROVE Types'
    <2>1. [exe[r] EXCEPT !.run = Expired(@)] \in Exec
      BY <1>exec, ExecRun DEF Expired
    <2>2. exe' \in [Runs -> Exec]
      BY <1>CloseBreaker, <2>1, <1>exec, <1>types, StepType DEF CloseBreaker, Label
    <2>3. history' \in [Runs -> Hist]
      BY <1>CloseBreaker, <1>types, HistoryType DEF CloseBreaker
    <2> QED
      BY <1>CloseBreaker, <2>2, <2>3, <1>types DEF CloseBreaker
  <1>MarkFailed. ASSUME NEW r \in Runs, MarkFailed(r) PROVE Types'
    <2>1. [exe[r] EXCEPT !.run = IF Exists(r) THEN "loaded" ELSE None] \in Exec
      BY <1>exec, ExecRun
    <2>2. exe' \in [Runs -> Exec]
      BY <1>MarkFailed, <2>1, <1>exec, <1>types, StepType DEF MarkFailed, Label
    <2>3. history' \in [Runs -> Hist]
      BY <1>MarkFailed, <1>types, HistoryType DEF MarkFailed
    <2> QED
      BY <1>MarkFailed, <2>2, <2>3, <1>types DEF MarkFailed
  <1>EvaluateBreaker. ASSUME NEW r \in Runs, EvaluateBreaker(r) PROVE Types'
    <2>1. [exe[r] EXCEPT !.run = Expired(@)] \in Exec
      BY <1>exec, ExecRun DEF Expired
    <2>2. exe' \in [Runs -> Exec]
      BY <1>EvaluateBreaker, <2>1, <1>exec, <1>types, StepType DEF EvaluateBreaker, Label
    <2>3. history' \in [Runs -> Hist]
      BY <1>EvaluateBreaker, <1>types, HistoryType DEF EvaluateBreaker
    <2> QED
      BY <1>EvaluateBreaker, <2>2, <2>3, <1>types DEF EvaluateBreaker
  <1>run_observability_recording. ASSUME NEW r \in Runs, run_observability_recording(r) PROVE Types'
    <2>1. [exe[r] EXCEPT !.run = None] \in Exec
      BY <1>exec, ExecRun
    <2>2. exe' \in [Runs -> Exec]
      BY <1>run_observability_recording, <2>1, <1>exec, <1>types, StepType DEF run_observability_recording, Label
    <2>3. history' \in [Runs -> Hist]
      BY <1>run_observability_recording, <1>types, HistoryType, RaisedType DEF run_observability_recording
    <2> QED
      BY <1>run_observability_recording, <2>2, <2>3, <1>types DEF run_observability_recording
  <1>log_analysis_node. ASSUME NEW r \in Runs, log_analysis_node(r) PROVE Types'
    <2>1. [exe[r] EXCEPT !.filled = @ \cup {"log_analysis"}] \in Exec
      BY <1>exec, ExecFilled
    <2>2. exe' \in [Runs -> Exec]
      BY <1>log_analysis_node, <2>1, <1>exec, <1>types, StepType DEF log_analysis_node, Label
    <2>3. history' \in [Runs -> Hist]
      BY <1>log_analysis_node, <1>types, HistoryType DEF log_analysis_node
    <2> QED
      BY <1>log_analysis_node, <2>2, <2>3, <1>types DEF log_analysis_node
  <1>classification_node. ASSUME NEW r \in Runs, classification_node(r) PROVE Types'
    <2>1. [exe[r] EXCEPT !.filled = @ \cup {"classification"}] \in Exec
      BY <1>exec, ExecFilled
    <2>2. exe' \in [Runs -> Exec]
      BY <1>classification_node, <2>1, <1>exec, <1>types, StepType DEF classification_node, Label
    <2>3. history' \in [Runs -> Hist]
      BY <1>classification_node, <1>types, HistoryType DEF classification_node
    <2> QED
      BY <1>classification_node, <2>2, <2>3, <1>types DEF classification_node
  <1>retrieval_node. ASSUME NEW r \in Runs, retrieval_node(r) PROVE Types'
    <2>1. \A rows \in _RUNBOOK_QUERY : rows \subseteq EveryRow
      BY <1>types, NearestRows DEF _RUNBOOK_QUERY, Runbooks
    <2>2. \A t : \A rows \in _INCIDENT_QUERY(t) : rows \subseteq EveryRow
      BY <1>types, NearestRows DEF _INCIDENT_QUERY
    <2>3. \A rows \in SUBSET EveryRow : /\ [exe[r] EXCEPT !.context = rows] \in Exec
                                        /\ [exe[r] EXCEPT !.context = @ \cup rows] \in Exec
      BY <1>exec, ExecContext
    <2>4. exe' \in [Runs -> Exec]
      <3>1. CASE At(r, "retrieval") /\
                 \E rows \in _RUNBOOK_QUERY : Step(r, [exe[r] EXCEPT !.context = rows], "incidents")
        BY <3>1, <2>1, <2>3, <1>types, StepType DEF Label
      <3>2. CASE At(r, "incidents") /\ \E rows \in _INCIDENT_QUERY(TenantOf[PipelineOf[r]]) :
                    Step(r, [exe[r] EXCEPT !.context = @ \cup rows], "recovery_planning")
        BY <3>2, <2>2, <2>3, <1>types, StepType DEF Label
      <3> QED
        BY <1>retrieval_node, <3>1, <3>2 DEF retrieval_node
    <2> QED
      BY <1>retrieval_node, <2>4, <1>types DEF retrieval_node
  <1>RetrievalFails. ASSUME NEW r \in Runs, RetrievalFails(r) PROVE Types'
    <2>1. [exe[r] EXCEPT !.context = {}] \in Exec
      BY <1>exec, ExecContext
    <2>2. exe' \in [Runs -> Exec]
      BY <1>RetrievalFails, <2>1, <1>exec, <1>types, StepType DEF RetrievalFails, Label
    <2>3. history' \in [Runs -> Hist]
      BY <1>RetrievalFails, <1>types, HistoryType DEF RetrievalFails
    <2> QED
      BY <1>RetrievalFails, <2>2, <2>3, <1>types DEF RetrievalFails
  <1>recovery_planning_node. ASSUME NEW r \in Runs, recovery_planning_node(r) PROVE Types'
    <2>1. \A action \in RecommendedAction :
            [exe[r] EXCEPT !.filled = @ \cup {"recovery_plan"}, !.plan = action, !.context = {}] \in Exec
      BY <1>exec, ExecPlan
    <2>2. exe' \in [Runs -> Exec]
      BY <1>recovery_planning_node, <2>1, <1>exec, <1>types, StepType
      DEF recovery_planning_node, Label, recovery_plan_sentinel
    <2>3. history' \in [Runs -> Hist]
      BY <1>recovery_planning_node, <1>types, HistoryType DEF recovery_planning_node, recovery_plan_sentinel
    <2> QED
      BY <1>recovery_planning_node, <2>2, <2>3, <1>types DEF recovery_planning_node, recovery_plan_sentinel
  <1>GraphBreaks. ASSUME NEW r \in Runs, GraphBreaks(r) PROVE Types'
    <2>1. [exe[r] EXCEPT !.context = {}, !.filled = {}] \in Exec
      BY <1>exec, ExecContext
    <2>2. exe' \in [Runs -> Exec]
      BY <1>GraphBreaks, <2>1, <1>exec, <1>types, StepType DEF GraphBreaks, Label
    <2>3. history' \in [Runs -> Hist]
      BY <1>GraphBreaks, <1>types, HistoryType DEF GraphBreaks
    <2> QED
      BY <1>GraphBreaks, <2>2, <2>3, <1>types DEF GraphBreaks
  <1>Persist. ASSUME NEW r \in Runs, Persist(r) PROVE Types'
    <2>1. exe' \in [Runs -> Exec]
      BY <1>Persist, <1>exec, <1>types, StepType DEF Persist, Label
    <2>2. exe[r].plan \in RecommendedAction \cup {None}
      BY <1>exec DEF Exec
    <2> QED
      BY <1>Persist, <2>1, <2>2, <1>types DEF Persist
  <1>PersistFails. ASSUME NEW r \in Runs, PersistFails(r) PROVE Types'
    <2>2. exe' \in [Runs -> Exec]
      BY <1>PersistFails, <1>exec, <1>types, StepType DEF PersistFails, Label
    <2>3. history' \in [Runs -> Hist]
      BY <1>PersistFails, <1>types, HistoryType DEF PersistFails
    <2> QED
      BY <1>PersistFails, <2>2, <2>3, <1>types DEF PersistFails
  <1>RefreshRecommendation. ASSUME NEW r \in Runs, RefreshRecommendation(r) PROVE Types'
    <2>1. [exe[r] EXCEPT !.recommendation_id = TRUE] \in Exec
      BY <1>exec, ExecOver
    <2>2. exe' \in [Runs -> Exec]
      BY <1>RefreshRecommendation, <2>1, <1>exec, <1>types, StepType DEF RefreshRecommendation, Label
    <2> QED
      BY <1>RefreshRecommendation, <2>2, <1>types DEF RefreshRecommendation
  <1>SendCallback. ASSUME NEW r \in Runs, SendCallback(r) PROVE Types'
    <2>1. /\ [exe[r] EXCEPT !.run = None, !.filled = {}, !.plan = None, !.recommendation_id = FALSE] \in Exec
          /\ [exe[r] EXCEPT !.run = None, !.filled = {}, !.context = {}, !.plan = None,
                         !.recommendation_id = FALSE] \in Exec
      BY <1>exec, ExecOver
    <2>2. exe' \in [Runs -> Exec]
      BY <1>SendCallback, <2>1, <1>exec, <1>types, StepType DEF SendCallback, Label, Ends, Exec
    <2>3. history' \in [Runs -> Hist]
      <3>1. exe[r].recommendation_id \in BOOLEAN /\ OwnError(r) \in {None, "step", "other"}
        BY <1>exec, OwnErrorType DEF Exec
      <3>2. history \in [Runs -> Hist]
        BY <1>types
      <3>3. \/ history' = [history EXCEPT ![r].raised = OwnError(r), ![r].linked = exe[r].recommendation_id]
            \/ \E error \in {None, "step", "other"} : history' = [history EXCEPT ![r].raised = error]
        BY <1>SendCallback, <3>1 DEF SendCallback, Ends
      <3> QED
        BY <3>1, <3>2, <3>3, RaisedType
    <2> QED
      BY <1>SendCallback, <2>2, <2>3, <1>types DEF SendCallback, Ends, Exec
  <1>CallbackNotRead. ASSUME NEW r \in Runs, CallbackNotRead(r) PROVE Types'
    <2>1. [exe[r] EXCEPT !.run = None, !.filled = {}, !.plan = None, !.recommendation_id = FALSE] \in Exec
      BY <1>exec, ExecOver
    <2>2. exe' \in [Runs -> Exec]
      BY <1>CallbackNotRead, <2>1, <1>exec, <1>types, StepType DEF CallbackNotRead, Label
    <2>3. history' \in [Runs -> Hist]
      BY <1>CallbackNotRead, <1>types, RaisedType, OwnErrorType DEF CallbackNotRead
    <2> QED
      BY <1>CallbackNotRead, <2>2, <2>3, <1>types DEF CallbackNotRead
  <1>Post. ASSUME NEW r \in Runs, Post(r) PROVE Types'
    <2>1. PICK taken \in BOOLEAN : history' = [history EXCEPT ![r].accepted = taken]
      BY <1>Post DEF Post
    <2>2. history' \in [Runs -> Hist]
      BY <2>1, <1>types DEF Hist
    <2> QED
      BY <1>Post, <2>2, <1>types DEF Post
  <1>Audit. ASSUME NEW r \in Runs, Audit(r) PROVE Types'
    BY <1>Audit, <1>types DEF Audit
  <1>AuditFails. ASSUME NEW r \in Runs, AuditFails(r) PROVE Types'
    <2>1. history' \in [Runs -> Hist]
      BY <1>AuditFails, <1>types, HistoryType DEF AuditFails
    <2> QED
      BY <1>AuditFails, <2>1, <1>types DEF AuditFails
  <1>index_incident. ASSUME NEW r \in Runs, index_incident(r) PROVE Types'
    <2>1. Incident(r) \subseteq UNION {Incident(x) : x \in Runs}
      BY ZenonT(30)
    <2>2. Incident(r) \subseteq EveryRow
      BY <2>1 DEF EveryRow
    <2> QED
      BY <1>index_incident, <2>2, <1>types DEF index_incident
  <1>IndexingFails. ASSUME NEW r \in Runs, IndexingFails(r) PROVE Types'
    <2>1. history' \in [Runs -> Hist]
      BY <1>IndexingFails, <1>types, HistoryType DEF IndexingFails
    <2> QED
      BY <1>IndexingFails, <2>1, <1>types DEF IndexingFails
  <1>Die. ASSUME NEW r \in Runs, Die(r) PROVE Types'
    <2>1. [exe[r] EXCEPT !.run = None, !.filled = {}, !.context = {}, !.plan = None,
                      !.recommendation_id = FALSE] \in Exec
      BY <1>exec, ExecOver
    <2>2. exe' \in [Runs -> Exec]
      BY <1>Die, <2>1, <1>exec, <1>types, StepType DEF Die, Label
    <2>3. history' \in [Runs -> Hist]
      BY <1>Die, <1>types, HistoryType DEF Die
    <2> QED
      BY <1>Die, <2>2, <2>3, <1>types DEF Die
  <1>main. ASSUME NEW i \in Indexers, main(i) PROVE Types'
    <2>1. Runbook(i) \in {Runbook(x) : x \in Indexers}
      OBVIOUS
    <2>2. Runbook(i) \subseteq EveryRow /\ Runbooks \subseteq EveryRow
      BY <2>1, <1>types DEF EveryRow, Runbooks
    <2>3. embeddings' \subseteq EveryRow
      BY <1>main, <2>2, <1>types DEF main
    <2>4. indexer' \in [Indexers -> [pc: {"ready", "delete", "insert", "done"}, doomed: SUBSET EveryRow]]
      BY <1>main, <2>2, <1>types DEF main
    <2> QED
      BY <1>main, <2>3, <2>4, <1>types DEF main
  <1>IndexerFails. ASSUME NEW i \in Indexers, IndexerFails(i) PROVE Types'
    BY <1>IndexerFails, <1>types DEF IndexerFails
  <1>DeletePipeline. ASSUME NEW p \in Pipelines, DeletePipeline(p) PROVE Types'
    BY <1>DeletePipeline, <1>types DEF DeletePipeline, Forget
  <1>DeleteTenant. ASSUME NEW t \in Tenants, DeleteTenant(t) PROVE Types'
    BY <1>DeleteTenant, <1>types DEF DeleteTenant, Forget
  <1>stutter. ASSUME UNCHANGED vars PROVE Types'
    BY <1>stutter, <1>types DEF vars
  <1> QED
    BY <1>Block, <1>Claim, <1>Succeed, <1>StepFails, <1>CloseBreaker,
       <1>MarkFailed, <1>EvaluateBreaker, <1>run_observability_recording, <1>log_analysis_node,
       <1>classification_node,
       <1>retrieval_node, <1>RetrievalFails, <1>recovery_planning_node, <1>GraphBreaks, <1>Persist,
       <1>PersistFails, <1>RefreshRecommendation, <1>SendCallback, <1>CallbackNotRead, <1>Post,
       <1>Audit, <1>AuditFails, <1>index_incident, <1>IndexingFails, <1>Die,
       <1>main, <1>IndexerFails, <1>DeletePipeline, <1>DeleteTenant, <1>stutter
    DEF Next, RunStep

-----------------------------------------------------------------------------
(* Incidents *)

\* The rows of the runbooks and of each run are apart.
LEMMA RowsApart ==
    /\ \A r, s \in Runs : r # s => Incident(r) \cap Incident(s) = {}
    /\ \A r \in Runs : \A row \in Incident(r) : /\ row.source_type # "runbook"
                                                /\ row.tenant_id = TenantOf[PipelineOf[r]]
    /\ \A i \in Indexers : \A row \in Runbook(i) : row.source_type = "runbook" /\ row.tenant_id = None
  BY DEF Incident, Runbook, Row

InTable(r) == Incident(r) \cap embeddings # {}

\* A recommendation comes before the indexing of its incident, and stays for as
\* long as the run does.
Recommended(r) ==
    /\ Exists(r) /\ (InTable(r) \/ indexing[r] = "started" \/ At(r, "refresh")) => recommendations[r] # None
    /\ At(r, "persist") => exe[r].plan # None

Whole(r) == InTable(r) => Incident(r) \subseteq embeddings /\ TenantOf[PipelineOf[r]] \in tenants

\* An indexer only deletes runbooks.
RunbooksDoomed == \A i \in Indexers : \A row \in indexer[i].doomed : row.source_type = "runbook"

\* No step dooms an incident.
LEMMA OnlyRunbooksDoomed ==
    ASSUME Types, RunbooksDoomed, [Next]_vars
    PROVE  RunbooksDoomed'
  <1>facts. /\ exe \in [Runs -> Exec]
            /\ recommendations \in [Runs -> RecommendedAction \cup {None}]
            /\ indexing \in [Runs -> {None, "started", "done"}]
            /\ indexer \in [Indexers -> [pc: {"ready", "delete", "insert", "done"}, doomed: SUBSET EveryRow]]
    BY DEF Types
  <1>Block. ASSUME NEW r \in Runs, Block(r) PROVE RunbooksDoomed'
    BY <1>Block DEF Block, RunbooksDoomed
  <1>Claim. ASSUME NEW r \in Runs, Claim(r) PROVE RunbooksDoomed'
    BY <1>Claim DEF Claim, RunbooksDoomed
  <1>Succeed. ASSUME NEW r \in Runs, Succeed(r) PROVE RunbooksDoomed'
    BY <1>Succeed DEF Succeed, RunbooksDoomed
  <1>StepFails. ASSUME NEW r \in Runs, StepFails(r) PROVE RunbooksDoomed'
    BY <1>StepFails DEF StepFails, RunbooksDoomed
  <1>CloseBreaker. ASSUME NEW r \in Runs, CloseBreaker(r) PROVE RunbooksDoomed'
    BY <1>CloseBreaker DEF CloseBreaker, RunbooksDoomed
  <1>MarkFailed. ASSUME NEW r \in Runs, MarkFailed(r) PROVE RunbooksDoomed'
    BY <1>MarkFailed DEF MarkFailed, RunbooksDoomed
  <1>EvaluateBreaker. ASSUME NEW r \in Runs, EvaluateBreaker(r) PROVE RunbooksDoomed'
    BY <1>EvaluateBreaker DEF EvaluateBreaker, RunbooksDoomed
  <1>run_observability_recording. ASSUME NEW r \in Runs, run_observability_recording(r) PROVE RunbooksDoomed'
    BY <1>run_observability_recording DEF run_observability_recording, RunbooksDoomed
  <1>log_analysis_node. ASSUME NEW r \in Runs, log_analysis_node(r) PROVE RunbooksDoomed'
    BY <1>log_analysis_node DEF log_analysis_node, RunbooksDoomed
  <1>classification_node. ASSUME NEW r \in Runs, classification_node(r) PROVE RunbooksDoomed'
    BY <1>classification_node DEF classification_node, RunbooksDoomed
  <1>retrieval_node. ASSUME NEW r \in Runs, retrieval_node(r) PROVE RunbooksDoomed'
    BY <1>retrieval_node DEF retrieval_node, RunbooksDoomed
  <1>RetrievalFails. ASSUME NEW r \in Runs, RetrievalFails(r) PROVE RunbooksDoomed'
    BY <1>RetrievalFails DEF RetrievalFails, RunbooksDoomed
  <1>recovery_planning_node. ASSUME NEW r \in Runs, recovery_planning_node(r) PROVE RunbooksDoomed'
    BY <1>recovery_planning_node DEF recovery_planning_node, RunbooksDoomed
  <1>GraphBreaks. ASSUME NEW r \in Runs, GraphBreaks(r) PROVE RunbooksDoomed'
    BY <1>GraphBreaks DEF GraphBreaks, RunbooksDoomed
  <1>Persist. ASSUME NEW r \in Runs, Persist(r) PROVE RunbooksDoomed'
    BY <1>Persist DEF Persist, RunbooksDoomed
  <1>PersistFails. ASSUME NEW r \in Runs, PersistFails(r) PROVE RunbooksDoomed'
    BY <1>PersistFails DEF PersistFails, RunbooksDoomed
  <1>RefreshRecommendation. ASSUME NEW r \in Runs, RefreshRecommendation(r) PROVE RunbooksDoomed'
    BY <1>RefreshRecommendation DEF RefreshRecommendation, RunbooksDoomed
  <1>SendCallback. ASSUME NEW r \in Runs, SendCallback(r) PROVE RunbooksDoomed'
    BY <1>SendCallback DEF SendCallback, RunbooksDoomed
  <1>CallbackNotRead. ASSUME NEW r \in Runs, CallbackNotRead(r) PROVE RunbooksDoomed'
    BY <1>CallbackNotRead DEF CallbackNotRead, RunbooksDoomed
  <1>Post. ASSUME NEW r \in Runs, Post(r) PROVE RunbooksDoomed'
    BY <1>Post DEF Post, RunbooksDoomed
  <1>Audit. ASSUME NEW r \in Runs, Audit(r) PROVE RunbooksDoomed'
    BY <1>Audit DEF Audit, RunbooksDoomed
  <1>AuditFails. ASSUME NEW r \in Runs, AuditFails(r) PROVE RunbooksDoomed'
    BY <1>AuditFails DEF AuditFails, RunbooksDoomed
  <1>index_incident. ASSUME NEW r \in Runs, index_incident(r) PROVE RunbooksDoomed'
    BY <1>index_incident DEF index_incident, RunbooksDoomed
  <1>IndexingFails. ASSUME NEW r \in Runs, IndexingFails(r) PROVE RunbooksDoomed'
    BY <1>IndexingFails DEF IndexingFails, RunbooksDoomed
  <1>Die. ASSUME NEW r \in Runs, Die(r) PROVE RunbooksDoomed'
    BY <1>Die DEF Die, RunbooksDoomed
  <1>main. ASSUME NEW i \in Indexers, main(i) PROVE RunbooksDoomed'
    <2>1. CASE indexer[i].pc = "ready"
               /\ indexer' = [indexer EXCEPT ![i] = [pc |-> "delete", doomed |-> Runbooks]]
      BY <2>1, <1>facts DEF RunbooksDoomed, Runbooks
    <2>2. CASE \A j \in Indexers : indexer'[j].doomed \in {indexer[j].doomed, {}}
      BY <2>2 DEF RunbooksDoomed
    <2>3. CASE indexer' = [indexer EXCEPT ![i].pc = "insert"]
      BY <2>2, <2>3, <1>facts
    <2>4. CASE indexer' = [indexer EXCEPT ![i] = [pc |-> "done", doomed |-> {}]]
      BY <2>2, <2>4, <1>facts
    <2> QED
      BY <1>main, <2>1, <2>3, <2>4 DEF main
  <1>IndexerFails. ASSUME NEW i \in Indexers, IndexerFails(i) PROVE RunbooksDoomed'
    BY <1>IndexerFails, <1>facts DEF IndexerFails, RunbooksDoomed
  <1>DeletePipeline. ASSUME NEW p \in Pipelines, DeletePipeline(p) PROVE RunbooksDoomed'
    BY <1>DeletePipeline DEF DeletePipeline, Forget, RunbooksDoomed
  <1>DeleteTenant. ASSUME NEW t \in Tenants, DeleteTenant(t) PROVE RunbooksDoomed'
    BY <1>DeleteTenant DEF DeleteTenant, Forget, RunbooksDoomed
  <1>stutter. ASSUME UNCHANGED vars PROVE RunbooksDoomed'
    BY <1>stutter DEF vars, RunbooksDoomed
  <1> QED
    BY <1>Block, <1>Claim, <1>Succeed, <1>StepFails, <1>CloseBreaker,
       <1>MarkFailed, <1>EvaluateBreaker, <1>run_observability_recording, <1>log_analysis_node,
       <1>classification_node,
       <1>retrieval_node, <1>RetrievalFails, <1>recovery_planning_node, <1>GraphBreaks, <1>Persist,
       <1>PersistFails, <1>RefreshRecommendation, <1>SendCallback, <1>CallbackNotRead, <1>Post,
       <1>Audit, <1>AuditFails, <1>index_incident, <1>IndexingFails, <1>Die,
       <1>main, <1>IndexerFails, <1>DeletePipeline, <1>DeleteTenant, <1>stutter
    DEF Next, RunStep

\* No step leaves half an incident.
LEMMA StaysWhole ==
    ASSUME Types, RunbooksDoomed, NEW q \in Runs, Whole(q), [Next]_vars
    PROVE  Whole(q)'
  <1>Block. ASSUME NEW r \in Runs, Block(r) PROVE Whole(q)'
    BY <1>Block DEF Block, Whole, InTable
  <1>Claim. ASSUME NEW r \in Runs, Claim(r) PROVE Whole(q)'
    BY <1>Claim DEF Claim, Whole, InTable
  <1>Succeed. ASSUME NEW r \in Runs, Succeed(r) PROVE Whole(q)'
    BY <1>Succeed DEF Succeed, Whole, InTable
  <1>StepFails. ASSUME NEW r \in Runs, StepFails(r) PROVE Whole(q)'
    BY <1>StepFails DEF StepFails, Whole, InTable
  <1>CloseBreaker. ASSUME NEW r \in Runs, CloseBreaker(r) PROVE Whole(q)'
    BY <1>CloseBreaker DEF CloseBreaker, Whole, InTable
  <1>MarkFailed. ASSUME NEW r \in Runs, MarkFailed(r) PROVE Whole(q)'
    BY <1>MarkFailed DEF MarkFailed, Whole, InTable
  <1>EvaluateBreaker. ASSUME NEW r \in Runs, EvaluateBreaker(r) PROVE Whole(q)'
    BY <1>EvaluateBreaker DEF EvaluateBreaker, Whole, InTable
  <1>run_observability_recording. ASSUME NEW r \in Runs, run_observability_recording(r) PROVE Whole(q)'
    BY <1>run_observability_recording DEF run_observability_recording, Whole, InTable
  <1>log_analysis_node. ASSUME NEW r \in Runs, log_analysis_node(r) PROVE Whole(q)'
    BY <1>log_analysis_node DEF log_analysis_node, Whole, InTable
  <1>classification_node. ASSUME NEW r \in Runs, classification_node(r) PROVE Whole(q)'
    BY <1>classification_node DEF classification_node, Whole, InTable
  <1>retrieval_node. ASSUME NEW r \in Runs, retrieval_node(r) PROVE Whole(q)'
    BY <1>retrieval_node DEF retrieval_node, Whole, InTable
  <1>RetrievalFails. ASSUME NEW r \in Runs, RetrievalFails(r) PROVE Whole(q)'
    BY <1>RetrievalFails DEF RetrievalFails, Whole, InTable
  <1>recovery_planning_node. ASSUME NEW r \in Runs, recovery_planning_node(r) PROVE Whole(q)'
    BY <1>recovery_planning_node DEF recovery_planning_node, Whole, InTable
  <1>GraphBreaks. ASSUME NEW r \in Runs, GraphBreaks(r) PROVE Whole(q)'
    BY <1>GraphBreaks DEF GraphBreaks, Whole, InTable
  <1>Persist. ASSUME NEW r \in Runs, Persist(r) PROVE Whole(q)'
    BY <1>Persist DEF Persist, Whole, InTable
  <1>PersistFails. ASSUME NEW r \in Runs, PersistFails(r) PROVE Whole(q)'
    BY <1>PersistFails DEF PersistFails, Whole, InTable
  <1>RefreshRecommendation. ASSUME NEW r \in Runs, RefreshRecommendation(r) PROVE Whole(q)'
    BY <1>RefreshRecommendation DEF RefreshRecommendation, Whole, InTable
  <1>SendCallback. ASSUME NEW r \in Runs, SendCallback(r) PROVE Whole(q)'
    BY <1>SendCallback DEF SendCallback, Whole, InTable
  <1>CallbackNotRead. ASSUME NEW r \in Runs, CallbackNotRead(r) PROVE Whole(q)'
    BY <1>CallbackNotRead DEF CallbackNotRead, Whole, InTable
  <1>Post. ASSUME NEW r \in Runs, Post(r) PROVE Whole(q)'
    BY <1>Post DEF Post, Whole, InTable
  <1>Audit. ASSUME NEW r \in Runs, Audit(r) PROVE Whole(q)'
    BY <1>Audit DEF Audit, Whole, InTable
  <1>AuditFails. ASSUME NEW r \in Runs, AuditFails(r) PROVE Whole(q)'
    BY <1>AuditFails DEF AuditFails, Whole, InTable
  <1>index_incident. ASSUME NEW r \in Runs, index_incident(r) PROVE Whole(q)'
    <2>1. tenants' = tenants
      BY <1>index_incident DEF index_incident
    <2>2. CASE q = r
      <3>1. CASE TenantOf[PipelineOf[q]] \in tenants
        <4>1. Incident(q) \subseteq embeddings'
          BY <1>index_incident, <2>2, <3>1, RowsApart DEF index_incident
        <4> QED
          BY <4>1, <3>1, <2>1 DEF Whole
      <3>2. CASE TenantOf[PipelineOf[q]] \notin tenants
        <4>1. embeddings' = embeddings
          BY <1>index_incident, <2>2, <3>2, RowsApart DEF index_incident
        <4> QED
          BY <4>1, <2>1 DEF Whole, InTable
      <3> QED
        BY <3>1, <3>2
    <2>3. CASE q # r
      <3>1. Incident(q) \cap embeddings' = Incident(q) \cap embeddings
        BY <1>index_incident, <2>3, RowsApart DEF index_incident
      <3> QED
        BY <3>1, <2>1 DEF Whole, InTable
    <2> QED
      BY <2>2, <2>3
  <1>IndexingFails. ASSUME NEW r \in Runs, IndexingFails(r) PROVE Whole(q)'
    BY <1>IndexingFails DEF IndexingFails, Whole, InTable
  <1>Die. ASSUME NEW r \in Runs, Die(r) PROVE Whole(q)'
    BY <1>Die DEF Die, Whole, InTable
  <1>main. ASSUME NEW i \in Indexers, main(i) PROVE Whole(q)'
    <2>1. Incident(q) \cap embeddings' = Incident(q) \cap embeddings
      BY <1>main, RowsApart DEF main, RunbooksDoomed
    <2>2. tenants' = tenants
      BY <1>main DEF main
    <2> QED
      BY <2>1, <2>2 DEF Whole, InTable
  <1>IndexerFails. ASSUME NEW i \in Indexers, IndexerFails(i) PROVE Whole(q)'
    BY <1>IndexerFails DEF IndexerFails, Whole, InTable
  <1>DeletePipeline. ASSUME NEW p \in Pipelines, DeletePipeline(p) PROVE Whole(q)'
    BY <1>DeletePipeline DEF DeletePipeline, Whole, InTable, Forget
  <1>DeleteTenant. ASSUME NEW t \in Tenants, DeleteTenant(t) PROVE Whole(q)'
    <2>1. tenants' = tenants \ {t} /\ embeddings' = {row \in embeddings : row.tenant_id # t}
      BY <1>DeleteTenant DEF DeleteTenant
    <2>2. CASE TenantOf[PipelineOf[q]] = t
      <3>1. Incident(q) \cap embeddings' = {}
        BY <2>1, <2>2, RowsApart
      <3> QED
        BY <3>1 DEF Whole, InTable
    <2>3. CASE TenantOf[PipelineOf[q]] # t
      <3>1. Incident(q) \cap embeddings' = Incident(q) \cap embeddings
        BY <2>1, <2>3, RowsApart
      <3> QED
        BY <2>1, <2>3, <3>1 DEF Whole, InTable
    <2> QED
      BY <2>2, <2>3
  <1>stutter. ASSUME UNCHANGED vars PROVE Whole(q)'
    BY <1>stutter DEF vars, Whole, InTable
  <1> QED
    BY <1>Block, <1>Claim, <1>Succeed, <1>StepFails, <1>CloseBreaker,
       <1>MarkFailed, <1>EvaluateBreaker, <1>run_observability_recording, <1>log_analysis_node,
       <1>classification_node,
       <1>retrieval_node, <1>RetrievalFails, <1>recovery_planning_node, <1>GraphBreaks, <1>Persist,
       <1>PersistFails, <1>RefreshRecommendation, <1>SendCallback, <1>CallbackNotRead, <1>Post,
       <1>Audit, <1>AuditFails, <1>index_incident, <1>IndexingFails, <1>Die,
       <1>main, <1>IndexerFails, <1>DeletePipeline, <1>DeleteTenant, <1>stutter
    DEF Next, RunStep

\* A step of an executor to another label than those of the recommendation, with
\* the tables and the task as they are, takes no recommendation from an incident.
LEMMA StepKeeps ==
    ASSUME exe \in [Runs -> Exec], NEW r \in Runs, NEW q \in Runs, NEW state \in Exec,
           NEW label \in Label \ {"persist", "refresh"}, Step(r, state, label),
           UNCHANGED <<pipelines, recommendations, embeddings>>,
           indexing'[q] = "started" => indexing[q] = "started", Recommended(q)
    PROVE  Recommended(q)'
  <1>1. CASE q = r
    <2>1. exe'[q].pc = label
      BY <1>1, StepMoves
    <2> QED
      BY <2>1 DEF Recommended, InTable, Exists
  <1>2. CASE q # r
    <2>1. exe'[q] = exe[q]
      BY <1>2, StepMoves
    <2> QED
      BY <2>1 DEF Recommended, InTable, Exists
  <1> QED
    BY <1>1, <1>2

\* No step takes the recommendation from an incident.
LEMMA StaysRecommended ==
    ASSUME Types, RunbooksDoomed, NEW q \in Runs, Recommended(q), [Next]_vars
    PROVE  Recommended(q)'
  <1>facts. /\ exe \in [Runs -> Exec]
            /\ recommendations \in [Runs -> RecommendedAction \cup {None}]
            /\ indexing \in [Runs -> {None, "started", "done"}]
            /\ indexer \in [Indexers -> [pc: {"ready", "delete", "insert", "done"}, doomed: SUBSET EveryRow]]
    BY DEF Types
  <1>exec. \A x \in Runs : exe[x] \in Exec
    BY <1>facts
  <1>Block. ASSUME NEW r \in Runs, Block(r) PROVE Recommended(q)'
    <2>1. [exe[r] EXCEPT !.run = None, !.filled = {}, !.context = {}, !.plan = None,
                      !.recommendation_id = FALSE] \in Exec
      BY <1>exec, ExecOver
    <2> QED
      BY <1>Block, <2>1, <1>exec, <1>facts, StepKeeps DEF Block, Label, Ends
  <1>Claim. ASSUME NEW r \in Runs, Claim(r) PROVE Recommended(q)'
    <2>1. [exe[r] EXCEPT !.run = None, !.filled = {}, !.context = {}, !.plan = None,
                      !.recommendation_id = FALSE] \in Exec
      BY <1>exec, ExecOver
    <2> QED
      BY <1>Claim, <2>1, <1>exec, <1>facts, StepKeeps DEF Claim, Label, Ends
  <1>Succeed. ASSUME NEW r \in Runs, Succeed(r) PROVE Recommended(q)'
    <2>1. /\ [exe[r] EXCEPT !.status = "success"] \in Exec
          /\ [exe[r] EXCEPT !.status = "failed", !.run = "expired"] \in Exec
      BY <1>exec, ExecStatus
    <2> QED
      BY <1>Succeed, <2>1, <1>exec, <1>facts, StepKeeps DEF Succeed, Label
  <1>StepFails. ASSUME NEW r \in Runs, StepFails(r) PROVE Recommended(q)'
    <2>1. [exe[r] EXCEPT !.status = "failed", !.run = "expired"] \in Exec
      BY <1>exec, ExecStatus
    <2> QED
      BY <1>StepFails, <2>1, <1>exec, <1>facts, StepKeeps DEF StepFails, Label
  <1>CloseBreaker. ASSUME NEW r \in Runs, CloseBreaker(r) PROVE Recommended(q)'
    <2>1. [exe[r] EXCEPT !.run = Expired(@)] \in Exec
      BY <1>exec, ExecRun DEF Expired
    <2> QED
      BY <1>CloseBreaker, <2>1, <1>exec, <1>facts, StepKeeps DEF CloseBreaker, Label
  <1>MarkFailed. ASSUME NEW r \in Runs, MarkFailed(r) PROVE Recommended(q)'
    <2>1. [exe[r] EXCEPT !.run = IF Exists(r) THEN "loaded" ELSE None] \in Exec
      BY <1>exec, ExecRun
    <2> QED
      BY <1>MarkFailed, <2>1, <1>exec, <1>facts, StepKeeps DEF MarkFailed, Label
  <1>EvaluateBreaker. ASSUME NEW r \in Runs, EvaluateBreaker(r) PROVE Recommended(q)'
    <2>1. [exe[r] EXCEPT !.run = Expired(@)] \in Exec
      BY <1>exec, ExecRun DEF Expired
    <2> QED
      BY <1>EvaluateBreaker, <2>1, <1>exec, <1>facts, StepKeeps DEF EvaluateBreaker, Label
  <1>run_observability_recording. ASSUME NEW r \in Runs, run_observability_recording(r) PROVE Recommended(q)'
    <2>1. [exe[r] EXCEPT !.run = None] \in Exec
      BY <1>exec, ExecRun
    <2> QED
      BY <1>run_observability_recording, <2>1, <1>exec, <1>facts, StepKeeps DEF run_observability_recording, Label
  <1>log_analysis_node. ASSUME NEW r \in Runs, log_analysis_node(r) PROVE Recommended(q)'
    <2>1. [exe[r] EXCEPT !.filled = @ \cup {"log_analysis"}] \in Exec
      BY <1>exec, ExecFilled
    <2> QED
      BY <1>log_analysis_node, <2>1, <1>exec, <1>facts, StepKeeps DEF log_analysis_node, Label
  <1>classification_node. ASSUME NEW r \in Runs, classification_node(r) PROVE Recommended(q)'
    <2>1. [exe[r] EXCEPT !.filled = @ \cup {"classification"}] \in Exec
      BY <1>exec, ExecFilled
    <2> QED
      BY <1>classification_node, <2>1, <1>exec, <1>facts, StepKeeps DEF classification_node, Label
  <1>retrieval_node. ASSUME NEW r \in Runs, retrieval_node(r) PROVE Recommended(q)'
    <2>1. \A rows \in _RUNBOOK_QUERY : rows \subseteq EveryRow
      BY NearestRows DEF _RUNBOOK_QUERY, Runbooks, Types
    <2>2. \A t : \A rows \in _INCIDENT_QUERY(t) : rows \subseteq EveryRow
      BY NearestRows DEF _INCIDENT_QUERY, Types
    <2>3. \A rows \in SUBSET EveryRow : /\ [exe[r] EXCEPT !.context = rows] \in Exec
                                        /\ [exe[r] EXCEPT !.context = @ \cup rows] \in Exec
      BY <1>exec, ExecContext
    <2>4. CASE At(r, "retrieval") /\
                 \E rows \in _RUNBOOK_QUERY : Step(r, [exe[r] EXCEPT !.context = rows], "incidents")
      <3>1. PICK rows \in _RUNBOOK_QUERY : Step(r, [exe[r] EXCEPT !.context = rows], "incidents")
        BY <2>4
      <3> QED
        BY <1>retrieval_node, <3>1, <2>1, <2>3, <1>facts, StepKeeps DEF Label, retrieval_node, db
    <2>5. CASE At(r, "incidents") /\ \E rows \in _INCIDENT_QUERY(TenantOf[PipelineOf[r]]) :
                  Step(r, [exe[r] EXCEPT !.context = @ \cup rows], "recovery_planning")
      <3>1. PICK rows \in _INCIDENT_QUERY(TenantOf[PipelineOf[r]]) :
                Step(r, [exe[r] EXCEPT !.context = @ \cup rows], "recovery_planning")
        BY <2>5
      <3> QED
        BY <1>retrieval_node, <3>1, <2>2, <2>3, <1>facts, StepKeeps DEF Label, retrieval_node, db
    <2> QED
      BY <1>retrieval_node, <2>4, <2>5 DEF retrieval_node
  <1>RetrievalFails. ASSUME NEW r \in Runs, RetrievalFails(r) PROVE Recommended(q)'
    <2>1. [exe[r] EXCEPT !.context = {}] \in Exec
      BY <1>exec, ExecContext
    <2> QED
      BY <1>RetrievalFails, <2>1, <1>exec, <1>facts, StepKeeps DEF RetrievalFails, Label
  <1>recovery_planning_node. ASSUME NEW r \in Runs, recovery_planning_node(r) PROVE Recommended(q)'
    <2>1. \A action \in RecommendedAction :
            [exe[r] EXCEPT !.filled = @ \cup {"recovery_plan"}, !.plan = action, !.context = {}] \in Exec
      BY <1>exec, ExecPlan
    <2>2. PICK action \in RecommendedAction :
            Step(r, [exe[r] EXCEPT !.filled = @ \cup {"recovery_plan"}, !.plan = action, !.context = {}], "persist")
      BY <1>recovery_planning_node, AfterRunAssumption DEF recovery_planning_node, recovery_plan_sentinel
    <2>3. exe'[r].pc = "persist" /\ \A x \in Runs : x # r => exe'[x] = exe[x]
      BY <2>1, <2>2, <1>facts, StepMoves DEF Label
    <2>4. [exe[r] EXCEPT !.filled = @ \cup {"recovery_plan"}, !.plan = action, !.context = {}].plan = action
      BY <1>exec DEF Exec
    <2>5. exe'[r].plan = action
      BY <2>1, <2>2, <2>4, <1>facts, StepMoves DEF Label
    <2>6. action # None
      BY AfterRunAssumption
    <2>7. UNCHANGED <<pipelines, recommendations, embeddings, indexing>>
      BY <1>recovery_planning_node DEF recovery_planning_node
    <2> QED
      BY <2>3, <2>5, <2>6, <2>7 DEF Recommended, InTable, Exists
  <1>GraphBreaks. ASSUME NEW r \in Runs, GraphBreaks(r) PROVE Recommended(q)'
    <2>1. [exe[r] EXCEPT !.context = {}, !.filled = {}] \in Exec
      BY <1>exec, ExecContext
    <2> QED
      BY <1>GraphBreaks, <2>1, <1>exec, <1>facts, StepKeeps DEF GraphBreaks, Label
  <1>Persist. ASSUME NEW r \in Runs, Persist(r) PROVE Recommended(q)'
    <2>1. \/ Step(r, exe[r], "webhook") /\ UNCHANGED recommendations
          \/ Step(r, exe[r], "refresh") /\ recommendations' = [recommendations EXCEPT ![r] = exe[r].plan]
      BY <1>Persist DEF Persist
    <2>2. CASE Step(r, exe[r], "webhook") /\ UNCHANGED recommendations
      BY <1>Persist, <2>2, <1>exec, <1>facts, StepKeeps DEF Persist, Label
    <2>3. CASE Step(r, exe[r], "refresh") /\ recommendations' = [recommendations EXCEPT ![r] = exe[r].plan]
      <3>1. q = r => exe'[q].pc = "refresh" /\ exe[r].plan # None
        BY <1>Persist, <2>3, <1>exec, <1>facts, StepMoves DEF Persist, Label, Recommended
      <3>2. q # r => exe'[q] = exe[q]
        BY <2>3, <1>exec, <1>facts, StepMoves DEF Label
      <3>3. recommendations'[q] = IF q = r THEN exe[r].plan ELSE recommendations[q]
        BY <2>3, <1>facts
      <3> QED
        BY <1>Persist, <3>1, <3>2, <3>3 DEF Persist, Recommended, InTable, Exists
    <2> QED
      BY <2>1, <2>2, <2>3
  <1>PersistFails. ASSUME NEW r \in Runs, PersistFails(r) PROVE Recommended(q)'
    <2> QED
      BY <1>PersistFails, <1>exec, <1>facts, StepKeeps DEF PersistFails, Label
  <1>RefreshRecommendation. ASSUME NEW r \in Runs, RefreshRecommendation(r) PROVE Recommended(q)'
    <2>1. [exe[r] EXCEPT !.recommendation_id = TRUE] \in Exec
      BY <1>exec, ExecOver
    <2>2. exe'[r].pc = "webhook" /\ \A x \in Runs : x # r => exe'[x] = exe[x]
      BY <1>RefreshRecommendation, <2>1, <1>exec, <1>facts, StepMoves DEF RefreshRecommendation, Label
    <2>3. UNCHANGED <<pipelines, recommendations, embeddings>>
      BY <1>RefreshRecommendation DEF RefreshRecommendation
    <2>4. q # r => indexing'[q] = indexing[q]
      BY <1>RefreshRecommendation, <1>facts DEF RefreshRecommendation
    <2>5. CASE q = r
      BY <1>RefreshRecommendation, <2>2, <2>3, <2>5 DEF RefreshRecommendation, Recommended, InTable, Exists
    <2>6. CASE q # r
      BY <2>2, <2>3, <2>4, <2>6 DEF Recommended, InTable, Exists
    <2> QED
      BY <2>5, <2>6
  <1>SendCallback. ASSUME NEW r \in Runs, SendCallback(r) PROVE Recommended(q)'
    <2>1. /\ [exe[r] EXCEPT !.run = None, !.filled = {}, !.plan = None, !.recommendation_id = FALSE] \in Exec
          /\ [exe[r] EXCEPT !.run = None, !.filled = {}, !.context = {}, !.plan = None,
                         !.recommendation_id = FALSE] \in Exec
      BY <1>exec, ExecOver
    <2> QED
      BY <1>SendCallback, <2>1, <1>exec, <1>facts, StepKeeps DEF SendCallback, Label, Ends
  <1>CallbackNotRead. ASSUME NEW r \in Runs, CallbackNotRead(r) PROVE Recommended(q)'
    <2>1. [exe[r] EXCEPT !.run = None, !.filled = {}, !.plan = None, !.recommendation_id = FALSE] \in Exec
      BY <1>exec, ExecOver
    <2> QED
      BY <1>CallbackNotRead, <2>1, <1>exec, <1>facts, StepKeeps DEF CallbackNotRead, Label
  <1>Post. ASSUME NEW r \in Runs, Post(r) PROVE Recommended(q)'
    BY <1>Post DEF Post, Recommended, InTable, Exists
  <1>Audit. ASSUME NEW r \in Runs, Audit(r) PROVE Recommended(q)'
    BY <1>Audit DEF Audit, Recommended, InTable, Exists
  <1>AuditFails. ASSUME NEW r \in Runs, AuditFails(r) PROVE Recommended(q)'
    BY <1>AuditFails DEF AuditFails, Recommended, InTable, Exists
  <1>index_incident. ASSUME NEW r \in Runs, index_incident(r) PROVE Recommended(q)'
    <2>1. CASE q = r
      BY <1>index_incident, <2>1, <1>facts DEF index_incident, Recommended, Exists
    <2>2. CASE q # r
      <3>1. Incident(q) \cap embeddings' = Incident(q) \cap embeddings
        BY <1>index_incident, <2>2, RowsApart DEF index_incident
      <3> QED
        BY <1>index_incident, <2>2, <3>1, <1>facts DEF index_incident, Recommended, InTable, Exists
    <2> QED
      BY <2>1, <2>2
  <1>IndexingFails. ASSUME NEW r \in Runs, IndexingFails(r) PROVE Recommended(q)'
    BY <1>IndexingFails, <1>facts DEF IndexingFails, Recommended, InTable, Exists
  <1>Die. ASSUME NEW r \in Runs, Die(r) PROVE Recommended(q)'
    <2>1. [exe[r] EXCEPT !.run = None, !.filled = {}, !.context = {}, !.plan = None,
                      !.recommendation_id = FALSE] \in Exec
      BY <1>exec, ExecOver
    <2> QED
      BY <1>Die, <2>1, <1>exec, <1>facts, StepKeeps DEF Die, Label
  <1>main. ASSUME NEW i \in Indexers, main(i) PROVE Recommended(q)'
    <2>1. Incident(q) \cap embeddings' = Incident(q) \cap embeddings
      BY <1>main, RowsApart DEF main, RunbooksDoomed
    <2> QED
      BY <1>main, <2>1 DEF main, Recommended, InTable, Exists
  <1>IndexerFails. ASSUME NEW i \in Indexers, IndexerFails(i) PROVE Recommended(q)'
    BY <1>IndexerFails DEF IndexerFails, Recommended, InTable, Exists
  <1>DeletePipeline. ASSUME NEW p \in Pipelines, DeletePipeline(p) PROVE Recommended(q)'
    BY <1>DeletePipeline, <1>facts DEF DeletePipeline, Forget, Recommended, InTable, Exists
  <1>DeleteTenant. ASSUME NEW t \in Tenants, DeleteTenant(t) PROVE Recommended(q)'
    BY <1>DeleteTenant, <1>facts, AfterRunAssumption DEF DeleteTenant, Forget, Recommended, InTable, Exists
  <1>stutter. ASSUME UNCHANGED vars PROVE Recommended(q)'
    BY <1>stutter DEF vars, Recommended, InTable, Exists
  <1> QED
    BY <1>Block, <1>Claim, <1>Succeed, <1>StepFails, <1>CloseBreaker,
       <1>MarkFailed, <1>EvaluateBreaker, <1>run_observability_recording, <1>log_analysis_node,
       <1>classification_node,
       <1>retrieval_node, <1>RetrievalFails, <1>recovery_planning_node, <1>GraphBreaks, <1>Persist,
       <1>PersistFails, <1>RefreshRecommendation, <1>SendCallback, <1>CallbackNotRead, <1>Post,
       <1>Audit, <1>AuditFails, <1>index_incident, <1>IndexingFails, <1>Die,
       <1>main, <1>IndexerFails, <1>DeletePipeline, <1>DeleteTenant, <1>stutter
    DEF Next, RunStep

-----------------------------------------------------------------------------
(* Retrieval *)

Own(r) == \A row \in exe[r].context : row.tenant_id \in {None, TenantOf[PipelineOf[r]]}

\* The rows of the runbooks in the table are those the indexers write.
LEMMA RunbookRows ==
    ASSUME Types
    PROVE  /\ \A row \in Runbooks : row.tenant_id = None
           /\ \A i \in Indexers : \A row \in Runbook(i) : row.source_type = "runbook" /\ row.tenant_id = None
  BY RowsApart DEF Types, Runbooks, EveryRow

\* A step that leaves a context of rows of the run's own leaves every context so.
LEMMA StepOwn ==
    ASSUME exe \in [Runs -> Exec], NEW r \in Runs, NEW q \in Runs, NEW state \in Exec,
           NEW label \in Label, Step(r, state, label), Own(q),
           \A row \in state.context : row.tenant_id \in {None, TenantOf[PipelineOf[r]]} \/ row \in exe[r].context
    PROVE  Own(q)'
  <1>1. CASE q = r
    <2>1. exe'[q].context = state.context
      BY <1>1, StepMoves
    <2> QED
      BY <1>1, <2>1 DEF Own
  <1>2. CASE q # r
    BY <1>2, StepMoves DEF Own
  <1> QED
    BY <1>1, <1>2

\* What changing other fields leaves in the context.
LEMMA ContextKept ==
    ASSUME NEW e \in Exec
    PROVE  /\ [e EXCEPT !.status = "success"].context = e.context
           /\ [e EXCEPT !.status = "failed", !.run = "expired"].context = e.context
           /\ [e EXCEPT !.run = None, !.filled = {}, !.plan = None, !.recommendation_id = FALSE].context = e.context
           /\ [e EXCEPT !.context = {}].context = {}
           /\ [e EXCEPT !.context = {}, !.filled = {}].context = {}
           /\ [e EXCEPT !.run = None, !.filled = {}, !.context = {}, !.plan = None,
                        !.recommendation_id = FALSE].context = {}
           /\ \A action : [e EXCEPT !.filled = @ \cup {"recovery_plan"}, !.plan = action, !.context = {}].context = {}
  BY DEF Exec

\* No step puts a row of another tenant into a context.
LEMMA StaysOwn ==
    ASSUME Types, NEW q \in Runs, Own(q), [Next]_vars
    PROVE  Own(q)'
  <1>facts. /\ exe \in [Runs -> Exec]
            /\ recommendations \in [Runs -> RecommendedAction \cup {None}]
            /\ indexing \in [Runs -> {None, "started", "done"}]
            /\ indexer \in [Indexers -> [pc: {"ready", "delete", "insert", "done"}, doomed: SUBSET EveryRow]]
    BY DEF Types
  <1>exec. \A x \in Runs : exe[x] \in Exec
    BY <1>facts
  <1>Block. ASSUME NEW r \in Runs, Block(r) PROVE Own(q)'
    <2>1. [exe[r] EXCEPT !.run = None, !.filled = {}, !.context = {}, !.plan = None,
                      !.recommendation_id = FALSE] \in Exec
      BY <1>exec, ExecOver
    <2> QED
      BY <1>Block, <2>1, <1>exec, <1>facts, StepOwn, ContextKept DEF Block, Label, Ends
  <1>Claim. ASSUME NEW r \in Runs, Claim(r) PROVE Own(q)'
    <2>1. [exe[r] EXCEPT !.run = None, !.filled = {}, !.context = {}, !.plan = None,
                      !.recommendation_id = FALSE] \in Exec
      BY <1>exec, ExecOver
    <2> QED
      BY <1>Claim, <2>1, <1>exec, <1>facts, StepOwn, ContextKept DEF Claim, Label, Ends
  <1>Succeed. ASSUME NEW r \in Runs, Succeed(r) PROVE Own(q)'
    <2>1. /\ [exe[r] EXCEPT !.status = "success"] \in Exec
          /\ [exe[r] EXCEPT !.status = "failed", !.run = "expired"] \in Exec
      BY <1>exec, ExecStatus
    <2> QED
      BY <1>Succeed, <2>1, <1>exec, <1>facts, StepOwn, ContextKept DEF Succeed, Label
  <1>StepFails. ASSUME NEW r \in Runs, StepFails(r) PROVE Own(q)'
    <2>1. [exe[r] EXCEPT !.status = "failed", !.run = "expired"] \in Exec
      BY <1>exec, ExecStatus
    <2>2. [exe[r] EXCEPT !.status = "failed", !.run = "expired"].context = exe[r].context
      BY <1>exec DEF Exec
    <2> QED
      BY <1>StepFails, <2>1, <2>2, <1>exec, <1>facts, StepOwn DEF StepFails, Label
  <1>CloseBreaker. ASSUME NEW r \in Runs, CloseBreaker(r) PROVE Own(q)'
    <2>1. [exe[r] EXCEPT !.run = Expired(@)] \in Exec
      BY <1>exec, ExecRun DEF Expired
    <2>2. [exe[r] EXCEPT !.run = Expired(@)].context = exe[r].context
      BY <1>exec DEF Exec
    <2> QED
      BY <1>CloseBreaker, <2>1, <2>2, <1>exec, <1>facts, StepOwn DEF CloseBreaker, Label
  <1>MarkFailed. ASSUME NEW r \in Runs, MarkFailed(r) PROVE Own(q)'
    <2>1. [exe[r] EXCEPT !.run = IF Exists(r) THEN "loaded" ELSE None] \in Exec
      BY <1>exec, ExecRun
    <2>2. [exe[r] EXCEPT !.run = IF Exists(r) THEN "loaded" ELSE None].context = exe[r].context
      BY <1>exec DEF Exec
    <2> QED
      BY <1>MarkFailed, <2>1, <2>2, <1>exec, <1>facts, StepOwn DEF MarkFailed, Label
  <1>EvaluateBreaker. ASSUME NEW r \in Runs, EvaluateBreaker(r) PROVE Own(q)'
    <2>1. [exe[r] EXCEPT !.run = Expired(@)] \in Exec
      BY <1>exec, ExecRun DEF Expired
    <2>2. [exe[r] EXCEPT !.run = Expired(@)].context = exe[r].context
      BY <1>exec DEF Exec
    <2> QED
      BY <1>EvaluateBreaker, <2>1, <2>2, <1>exec, <1>facts, StepOwn DEF EvaluateBreaker, Label
  <1>run_observability_recording. ASSUME NEW r \in Runs, run_observability_recording(r) PROVE Own(q)'
    <2>1. [exe[r] EXCEPT !.run = None] \in Exec
      BY <1>exec, ExecRun
    <2>2. [exe[r] EXCEPT !.run = None].context = exe[r].context
      BY <1>exec DEF Exec
    <2> QED
      BY <1>run_observability_recording, <2>1, <2>2, <1>exec, <1>facts, StepOwn DEF run_observability_recording, Label
  <1>log_analysis_node. ASSUME NEW r \in Runs, log_analysis_node(r) PROVE Own(q)'
    <2>1. [exe[r] EXCEPT !.filled = @ \cup {"log_analysis"}] \in Exec
      BY <1>exec, ExecFilled
    <2>2. [exe[r] EXCEPT !.filled = @ \cup {"log_analysis"}].context = exe[r].context
      BY <1>exec DEF Exec
    <2> QED
      BY <1>log_analysis_node, <2>1, <2>2, <1>exec, <1>facts, StepOwn DEF log_analysis_node, Label
  <1>classification_node. ASSUME NEW r \in Runs, classification_node(r) PROVE Own(q)'
    <2>1. [exe[r] EXCEPT !.filled = @ \cup {"classification"}] \in Exec
      BY <1>exec, ExecFilled
    <2>2. [exe[r] EXCEPT !.filled = @ \cup {"classification"}].context = exe[r].context
      BY <1>exec DEF Exec
    <2> QED
      BY <1>classification_node, <2>1, <2>2, <1>exec, <1>facts, StepOwn DEF classification_node, Label
  <1>retrieval_node. ASSUME NEW r \in Runs, retrieval_node(r) PROVE Own(q)'
    <2>1. \A rows \in _RUNBOOK_QUERY : rows \subseteq EveryRow
      BY NearestRows DEF _RUNBOOK_QUERY, Runbooks, Types
    <2>2. \A t : \A rows \in _INCIDENT_QUERY(t) : rows \subseteq EveryRow
      BY NearestRows DEF _INCIDENT_QUERY, Types
    <2>3. \A rows \in SUBSET EveryRow : /\ [exe[r] EXCEPT !.context = rows] \in Exec
                                        /\ [exe[r] EXCEPT !.context = @ \cup rows] \in Exec
      BY <1>exec, ExecContext
    <2>4. CASE At(r, "retrieval") /\
                 \E rows \in _RUNBOOK_QUERY : Step(r, [exe[r] EXCEPT !.context = rows], "incidents")
      <3>1. PICK rows \in _RUNBOOK_QUERY : Step(r, [exe[r] EXCEPT !.context = rows], "incidents")
        BY <2>4
      <3>2. \A row \in rows : row.tenant_id = None
        BY <3>1, NearestRows, RunbookRows DEF _RUNBOOK_QUERY
      <3>3. [exe[r] EXCEPT !.context = rows].context = rows
        BY <1>exec DEF Exec
      <3> QED
        BY <3>1, <3>2, <3>3, <2>1, <2>3, <1>facts, StepOwn DEF Label
    <2>5. CASE At(r, "incidents") /\ \E rows \in _INCIDENT_QUERY(TenantOf[PipelineOf[r]]) :
                  Step(r, [exe[r] EXCEPT !.context = @ \cup rows], "recovery_planning")
      <3>1. PICK rows \in _INCIDENT_QUERY(TenantOf[PipelineOf[r]]) :
                Step(r, [exe[r] EXCEPT !.context = @ \cup rows], "recovery_planning")
        BY <2>5
      <3>2. \A row \in rows : row.tenant_id = TenantOf[PipelineOf[r]]
        BY <3>1, NearestRows DEF _INCIDENT_QUERY
      <3>3. [exe[r] EXCEPT !.context = @ \cup rows].context = exe[r].context \cup rows
        BY <1>exec DEF Exec
      <3> QED
        BY <3>1, <3>2, <3>3, <2>2, <2>3, <1>facts, StepOwn DEF Label
    <2> QED
      BY <1>retrieval_node, <2>4, <2>5 DEF retrieval_node
  <1>RetrievalFails. ASSUME NEW r \in Runs, RetrievalFails(r) PROVE Own(q)'
    <2>1. [exe[r] EXCEPT !.context = {}] \in Exec
      BY <1>exec, ExecContext
    <2> QED
      BY <1>RetrievalFails, <2>1, <1>exec, <1>facts, StepOwn, ContextKept DEF RetrievalFails, Label
  <1>recovery_planning_node. ASSUME NEW r \in Runs, recovery_planning_node(r) PROVE Own(q)'
    <2>1. \A action \in RecommendedAction :
            [exe[r] EXCEPT !.filled = @ \cup {"recovery_plan"}, !.plan = action, !.context = {}] \in Exec
      BY <1>exec, ExecPlan
    <2> QED
      BY <1>recovery_planning_node, <2>1, <1>exec, <1>facts, AfterRunAssumption, StepOwn, ContextKept
      DEF recovery_planning_node, Label, recovery_plan_sentinel
  <1>GraphBreaks. ASSUME NEW r \in Runs, GraphBreaks(r) PROVE Own(q)'
    <2>1. [exe[r] EXCEPT !.context = {}, !.filled = {}] \in Exec
      BY <1>exec, ExecContext
    <2> QED
      BY <1>GraphBreaks, <2>1, <1>exec, <1>facts, StepOwn, ContextKept DEF GraphBreaks, Label
  <1>Persist. ASSUME NEW r \in Runs, Persist(r) PROVE Own(q)'
    <2> QED
      BY <1>Persist, <1>exec, <1>facts, StepOwn, ContextKept DEF Persist, Label
  <1>PersistFails. ASSUME NEW r \in Runs, PersistFails(r) PROVE Own(q)'
    <2> QED
      BY <1>PersistFails, <1>exec, <1>facts, StepOwn, ContextKept DEF PersistFails, Label
  <1>RefreshRecommendation. ASSUME NEW r \in Runs, RefreshRecommendation(r) PROVE Own(q)'
    <2>1. [exe[r] EXCEPT !.recommendation_id = TRUE] \in Exec
      BY <1>exec, ExecOver
    <2>2. [exe[r] EXCEPT !.recommendation_id = TRUE].context = exe[r].context
      BY <1>exec DEF Exec
    <2> QED
      BY <1>RefreshRecommendation, <2>1, <2>2, <1>exec, <1>facts, StepOwn DEF RefreshRecommendation, Label
  <1>SendCallback. ASSUME NEW r \in Runs, SendCallback(r) PROVE Own(q)'
    <2>1. /\ [exe[r] EXCEPT !.run = None, !.filled = {}, !.plan = None, !.recommendation_id = FALSE] \in Exec
          /\ [exe[r] EXCEPT !.run = None, !.filled = {}, !.context = {}, !.plan = None,
                         !.recommendation_id = FALSE] \in Exec
      BY <1>exec, ExecOver
    <2> QED
      BY <1>SendCallback, <2>1, <1>exec, <1>facts, StepOwn, ContextKept DEF SendCallback, Label, Ends
  <1>CallbackNotRead. ASSUME NEW r \in Runs, CallbackNotRead(r) PROVE Own(q)'
    <2>1. [exe[r] EXCEPT !.run = None, !.filled = {}, !.plan = None, !.recommendation_id = FALSE] \in Exec
      BY <1>exec, ExecOver
    <2>2. [exe[r] EXCEPT !.run = None, !.filled = {}, !.plan = None, !.recommendation_id = FALSE].context = exe[r].context
      BY <1>exec DEF Exec
    <2> QED
      BY <1>CallbackNotRead, <2>1, <2>2, <1>exec, <1>facts, StepOwn DEF CallbackNotRead, Label
  <1>Post. ASSUME NEW r \in Runs, Post(r) PROVE Own(q)'
    BY <1>Post DEF Post, Own
  <1>Audit. ASSUME NEW r \in Runs, Audit(r) PROVE Own(q)'
    BY <1>Audit DEF Audit, Own
  <1>AuditFails. ASSUME NEW r \in Runs, AuditFails(r) PROVE Own(q)'
    BY <1>AuditFails DEF AuditFails, Own
  <1>index_incident. ASSUME NEW r \in Runs, index_incident(r) PROVE Own(q)'
    BY <1>index_incident DEF index_incident, Own
  <1>IndexingFails. ASSUME NEW r \in Runs, IndexingFails(r) PROVE Own(q)'
    BY <1>IndexingFails DEF IndexingFails, Own
  <1>Die. ASSUME NEW r \in Runs, Die(r) PROVE Own(q)'
    <2>1. [exe[r] EXCEPT !.run = None, !.filled = {}, !.context = {}, !.plan = None,
                      !.recommendation_id = FALSE] \in Exec
      BY <1>exec, ExecOver
    <2> QED
      BY <1>Die, <2>1, <1>exec, <1>facts, StepOwn, ContextKept DEF Die, Label
  <1>main. ASSUME NEW i \in Indexers, main(i) PROVE Own(q)'
    BY <1>main DEF main, Own
  <1>IndexerFails. ASSUME NEW i \in Indexers, IndexerFails(i) PROVE Own(q)'
    BY <1>IndexerFails DEF IndexerFails, Own
  <1>DeletePipeline. ASSUME NEW p \in Pipelines, DeletePipeline(p) PROVE Own(q)'
    BY <1>DeletePipeline DEF DeletePipeline, Own
  <1>DeleteTenant. ASSUME NEW t \in Tenants, DeleteTenant(t) PROVE Own(q)'
    BY <1>DeleteTenant DEF DeleteTenant, Own
  <1>stutter. ASSUME UNCHANGED vars PROVE Own(q)'
    BY <1>stutter DEF vars, Own
  <1> QED
    BY <1>Block, <1>Claim, <1>Succeed, <1>StepFails, <1>CloseBreaker,
       <1>MarkFailed, <1>EvaluateBreaker, <1>run_observability_recording, <1>log_analysis_node,
       <1>classification_node,
       <1>retrieval_node, <1>RetrievalFails, <1>recovery_planning_node, <1>GraphBreaks, <1>Persist,
       <1>PersistFails, <1>RefreshRecommendation, <1>SendCallback, <1>CallbackNotRead, <1>Post,
       <1>Audit, <1>AuditFails, <1>index_incident, <1>IndexingFails, <1>Die,
       <1>main, <1>IndexerFails, <1>DeletePipeline, <1>DeleteTenant, <1>stutter
    DEF Next, RunStep

\* What RunbooksAlwaysThere rests on: the rows of one whole indexing are there.
Indexed == (\E i \in Indexers : indexer[i].pc = "done") => \E i \in Indexers : Runbook(i) \subseteq embeddings

\* No step takes the runbooks away.
LEMMA StaysIndexed ==
    ASSUME Types, Indexed, [Next]_vars
    PROVE  Indexed'
  <1>facts. /\ exe \in [Runs -> Exec]
            /\ recommendations \in [Runs -> RecommendedAction \cup {None}]
            /\ indexing \in [Runs -> {None, "started", "done"}]
            /\ indexer \in [Indexers -> [pc: {"ready", "delete", "insert", "done"}, doomed: SUBSET EveryRow]]
    BY DEF Types
  <1>Block. ASSUME NEW r \in Runs, Block(r) PROVE Indexed'
    BY <1>Block DEF Block, Indexed
  <1>Claim. ASSUME NEW r \in Runs, Claim(r) PROVE Indexed'
    BY <1>Claim DEF Claim, Indexed
  <1>Succeed. ASSUME NEW r \in Runs, Succeed(r) PROVE Indexed'
    BY <1>Succeed DEF Succeed, Indexed
  <1>StepFails. ASSUME NEW r \in Runs, StepFails(r) PROVE Indexed'
    BY <1>StepFails DEF StepFails, Indexed
  <1>CloseBreaker. ASSUME NEW r \in Runs, CloseBreaker(r) PROVE Indexed'
    BY <1>CloseBreaker DEF CloseBreaker, Indexed
  <1>MarkFailed. ASSUME NEW r \in Runs, MarkFailed(r) PROVE Indexed'
    BY <1>MarkFailed DEF MarkFailed, Indexed
  <1>EvaluateBreaker. ASSUME NEW r \in Runs, EvaluateBreaker(r) PROVE Indexed'
    BY <1>EvaluateBreaker DEF EvaluateBreaker, Indexed
  <1>run_observability_recording. ASSUME NEW r \in Runs, run_observability_recording(r) PROVE Indexed'
    BY <1>run_observability_recording DEF run_observability_recording, Indexed
  <1>log_analysis_node. ASSUME NEW r \in Runs, log_analysis_node(r) PROVE Indexed'
    BY <1>log_analysis_node DEF log_analysis_node, Indexed
  <1>classification_node. ASSUME NEW r \in Runs, classification_node(r) PROVE Indexed'
    BY <1>classification_node DEF classification_node, Indexed
  <1>retrieval_node. ASSUME NEW r \in Runs, retrieval_node(r) PROVE Indexed'
    BY <1>retrieval_node DEF retrieval_node, Indexed
  <1>RetrievalFails. ASSUME NEW r \in Runs, RetrievalFails(r) PROVE Indexed'
    BY <1>RetrievalFails DEF RetrievalFails, Indexed
  <1>recovery_planning_node. ASSUME NEW r \in Runs, recovery_planning_node(r) PROVE Indexed'
    BY <1>recovery_planning_node DEF recovery_planning_node, Indexed
  <1>GraphBreaks. ASSUME NEW r \in Runs, GraphBreaks(r) PROVE Indexed'
    BY <1>GraphBreaks DEF GraphBreaks, Indexed
  <1>Persist. ASSUME NEW r \in Runs, Persist(r) PROVE Indexed'
    BY <1>Persist DEF Persist, Indexed
  <1>PersistFails. ASSUME NEW r \in Runs, PersistFails(r) PROVE Indexed'
    BY <1>PersistFails DEF PersistFails, Indexed
  <1>RefreshRecommendation. ASSUME NEW r \in Runs, RefreshRecommendation(r) PROVE Indexed'
    BY <1>RefreshRecommendation DEF RefreshRecommendation, Indexed
  <1>SendCallback. ASSUME NEW r \in Runs, SendCallback(r) PROVE Indexed'
    BY <1>SendCallback DEF SendCallback, Indexed
  <1>CallbackNotRead. ASSUME NEW r \in Runs, CallbackNotRead(r) PROVE Indexed'
    BY <1>CallbackNotRead DEF CallbackNotRead, Indexed
  <1>Post. ASSUME NEW r \in Runs, Post(r) PROVE Indexed'
    BY <1>Post DEF Post, Indexed
  <1>Audit. ASSUME NEW r \in Runs, Audit(r) PROVE Indexed'
    BY <1>Audit DEF Audit, Indexed
  <1>AuditFails. ASSUME NEW r \in Runs, AuditFails(r) PROVE Indexed'
    BY <1>AuditFails DEF AuditFails, Indexed
  <1>index_incident. ASSUME NEW r \in Runs, index_incident(r) PROVE Indexed'
    BY <1>index_incident DEF index_incident, Indexed
  <1>IndexingFails. ASSUME NEW r \in Runs, IndexingFails(r) PROVE Indexed'
    BY <1>IndexingFails DEF IndexingFails, Indexed
  <1>Die. ASSUME NEW r \in Runs, Die(r) PROVE Indexed'
    BY <1>Die DEF Die, Indexed
  <1>main. ASSUME NEW i \in Indexers, main(i) PROVE Indexed'
    <2>1. CASE indexer[i].pc = "insert"
      BY <1>main, <2>1 DEF main, Indexed
    <2>2. CASE indexer[i].pc # "insert"
      <3>1. \A j \in Indexers : indexer'[j].pc = "done" => indexer[j].pc = "done"
        BY <1>main, <2>2, <1>facts DEF main
      <3>2. UNCHANGED embeddings
        BY <1>main, <2>2 DEF main
      <3> QED
        BY <3>1, <3>2 DEF Indexed
    <2> QED
      BY <2>1, <2>2
  <1>IndexerFails. ASSUME NEW i \in Indexers, IndexerFails(i) PROVE Indexed'
    <2>1. \A j \in Indexers : indexer'[j].pc = "done" => indexer[j].pc = "done"
      BY <1>IndexerFails, <1>facts DEF IndexerFails
    <2> QED
      BY <1>IndexerFails, <2>1 DEF IndexerFails, Indexed
  <1>DeletePipeline. ASSUME NEW p \in Pipelines, DeletePipeline(p) PROVE Indexed'
    BY <1>DeletePipeline DEF DeletePipeline, Forget, Indexed
  <1>DeleteTenant. ASSUME NEW t \in Tenants, DeleteTenant(t) PROVE Indexed'
    <2>1. \A i \in Indexers : Runbook(i) \subseteq embeddings => Runbook(i) \subseteq embeddings'
      BY <1>DeleteTenant, RowsApart, AfterRunAssumption DEF DeleteTenant
    <2>2. UNCHANGED indexer
      BY <1>DeleteTenant DEF DeleteTenant
    <2> QED
      BY <2>1, <2>2 DEF Indexed
  <1>stutter. ASSUME UNCHANGED vars PROVE Indexed'
    BY <1>stutter DEF vars, Indexed
  <1> QED
    BY <1>Block, <1>Claim, <1>Succeed, <1>StepFails, <1>CloseBreaker,
       <1>MarkFailed, <1>EvaluateBreaker, <1>run_observability_recording, <1>log_analysis_node,
       <1>classification_node,
       <1>retrieval_node, <1>RetrievalFails, <1>recovery_planning_node, <1>GraphBreaks, <1>Persist,
       <1>PersistFails, <1>RefreshRecommendation, <1>SendCallback, <1>CallbackNotRead, <1>Post,
       <1>Audit, <1>AuditFails, <1>index_incident, <1>IndexingFails, <1>Die,
       <1>main, <1>IndexerFails, <1>DeletePipeline, <1>DeleteTenant, <1>stutter
    DEF Next, RunStep

-----------------------------------------------------------------------------
(* The finally block *)

\* Nothing of faults struck r, and its row is there.
Spared(r, faults) == history[r].hurt \cap faults = {} /\ Exists(r)

\* How far the diagnosis of a failed run is.
Diagnosis(r) ==
    exe[r].status = "failed" =>
       /\ exe[r].pc \notin {"gate", "steps", "close"}
       /\ Spared(r, {"database", "graph", "mkdir", "death"}) =>
             /\ exe[r].pc \in {"retrieval", "incidents", "recovery_planning", "persist"} =>
                   "classification" \in exe[r].filled
             /\ exe[r].pc = "persist" => "recovery_plan" \in exe[r].filled
             /\ exe[r].pc \in {"refresh", "webhook", "over"} => recommendations[r] # None

\* Whether the run is loaded, which the webhook needs.
Loaded(r) ==
    /\ exe[r].run = None /\ exe[r].pc # "over" => ~Exists(r)
    /\ exe[r].pc \notin {"mark", "over"} /\ Spared(r, {"database", "mkdir", "death"}) => exe[r].run = "loaded"

Announced(r) ==
    exe[r].status # None =>
       /\ exe[r].pc \notin {"gate", "steps"}
       /\ At(r, "over") /\ PipelineOf[r] \in WithCallback /\ Spared(r, {"database", "mkdir", "death"}) =>
             hook[r] # None

Unmasked(r) == history[r].raised = "other" => "mkdir" \in history[r].hurt \/ ~Exists(r)

Linked(r) == (exe[r].recommendation_id \/ history[r].linked) /\ Exists(r) => recommendations[r] # None

\* The webhook and its row.
Audited(r) ==
    /\ exe[r].pc # "over" => hook[r] = None
    /\ hook[r] \in {None, "post"} => webhook_callbacks[r] = None
    /\ hook[r] = "success" \/ webhook_callbacks[r] = "success" => history[r].accepted
    /\ hook[r] = "done" /\ webhook_callbacks[r] = None =>
          history[r].hurt \cap {"database", "death"} # {} \/ ~Exists(r)

Ending(r) == Diagnosis(r) /\ Loaded(r) /\ Announced(r) /\ Unmasked(r) /\ Linked(r) /\ Audited(r)

\* What a failure adds to the history of its run.
LEMMA HurtMoves ==
    ASSUME history \in [Runs -> Hist], NEW r \in Runs, NEW fault \in Faults, Hurt(r, fault)
    PROVE  /\ history'[r].hurt = history[r].hurt \cup {fault}
           /\ history'[r].raised = history[r].raised
           /\ history'[r].accepted = history[r].accepted
           /\ history'[r].linked = history[r].linked
           /\ \A q \in Runs : q # r => history'[q] = history[q]
  BY DEF Hurt, Hist

\* A run that a step leaves alone, but for the deletion of its row, stays sound.
LEMMA EndingKept ==
    ASSUME NEW q \in Runs, Ending(q), exe'[q] = exe[q], history'[q] = history[q], hook'[q] = hook[q],
           \/ /\ Exists(q)' <=> Exists(q)
              /\ recommendations'[q] = recommendations[q]
              /\ webhook_callbacks'[q] = webhook_callbacks[q]
           \/ /\ ~(Exists(q)')
              /\ webhook_callbacks'[q] \in {webhook_callbacks[q], None}
    PROVE  Ending(q)'
  <1>1. Diagnosis(q)'
    BY DEF Ending, Diagnosis, Spared
  <1>2. Loaded(q)'
    BY DEF Ending, Loaded, Spared
  <1>3. Announced(q)'
    BY DEF Ending, Announced, Spared
  <1>4. Unmasked(q)'
    BY DEF Ending, Unmasked
  <1>5. Linked(q)'
    BY DEF Ending, Linked
  <1>6. Audited(q)'
    BY AfterRunAssumption DEF Ending, Audited
  <1> QED
    BY <1>1, <1>2, <1>3, <1>4, <1>5, <1>6 DEF Ending

\* No step costs a run its diagnosis, its webhook or its own error but the named ones.
LEMMA StaysEnding ==
    ASSUME Types, NEW q \in Runs, Recommended(q), Ending(q), [Next]_vars
    PROVE  Ending(q)'
  <1>facts. /\ exe \in [Runs -> Exec] /\ history \in [Runs -> Hist]
            /\ recommendations \in [Runs -> RecommendedAction \cup {None}]
            /\ indexing \in [Runs -> {None, "started", "done"}]
            /\ indexer \in [Indexers -> [pc: {"ready", "delete", "insert", "done"}, doomed: SUBSET EveryRow]]
            /\ hook \in [Runs -> {None, "post", "success", "failed", "done"}]
            /\ webhook_callbacks \in [Runs -> {"success", "failed", None}]
    BY DEF Types
  <1>exec. \A x \in Runs : exe[x] \in Exec
    BY <1>facts
  <1>Block. ASSUME NEW r \in Runs, Block(r) PROVE Ending(q)'
    <2>1. /\ exe'[r].pc = "over"
          /\ exe'[r].run = None
          /\ exe'[r].status = exe[r].status
          /\ exe'[r].filled = {}
          /\ exe'[r].recommendation_id = FALSE
          /\ history'[r].hurt = history[r].hurt
          /\ history'[r].raised = None
          /\ history'[r].accepted = history[r].accepted
          /\ history'[r].linked = history[r].linked
      BY <1>Block, <1>facts, HurtMoves DEF Block, Step, Exec, Hist, At, Ends
    <2>2. UNCHANGED <<pipelines, recommendations, webhook_callbacks, hook>>
      BY <1>Block DEF Block
    <2>3. CASE q = r
      <3>1. Diagnosis(q)'
        BY <1>Block, <2>1, <2>2, <2>3, AfterRunAssumption DEF Block, Ending, Diagnosis, Spared, Exists
      <3>2. Loaded(q)'
        BY <1>Block, <2>1, <2>2, <2>3, AfterRunAssumption DEF Block, Ending, Loaded, Spared, Exists
      <3>3. Announced(q)'
        BY <1>Block, <2>1, <2>2, <2>3, AfterRunAssumption DEF Block, Ending, Announced, Spared, Exists
      <3>4. Unmasked(q)'
        BY <1>Block, <2>1, <2>2, <2>3, AfterRunAssumption DEF Block, Ending, Unmasked, Exists
      <3>5. Linked(q)'
        BY <1>Block, <2>1, <2>2, <2>3, AfterRunAssumption DEF Block, Ending, Linked, Exists
      <3>6. Audited(q)'
        BY <1>Block, <2>1, <2>2, <2>3, AfterRunAssumption DEF Block, Ending, Audited, Exists
      <3> QED
        BY <3>1, <3>2, <3>3, <3>4, <3>5, <3>6 DEF Ending
    <2>4. CASE q # r
      <3>1. exe'[q] = exe[q] /\ history'[q] = history[q]
        BY <1>Block, <2>4, <1>facts, HurtMoves DEF Block, Step, Ends
      <3> QED
        BY <2>2, <3>1, EndingKept DEF Exists
    <2> QED
      BY <2>3, <2>4
  <1>Claim. ASSUME NEW r \in Runs, Claim(r) PROVE Ending(q)'
    <2>1. \/ /\ exe'[r].pc = "steps"
             /\ exe'[r].run = exe[r].run
             /\ exe'[r].status = exe[r].status
             /\ exe'[r].filled = exe[r].filled
             /\ exe'[r].recommendation_id = exe[r].recommendation_id
             /\ history'[r].hurt = history[r].hurt
             /\ history'[r].raised = history[r].raised
             /\ history'[r].accepted = history[r].accepted
             /\ history'[r].linked = history[r].linked
             /\ Exists(r)
          \/ /\ exe'[r].pc = "over"
             /\ exe'[r].run = None
             /\ exe'[r].status = exe[r].status
             /\ exe'[r].filled = {}
             /\ exe'[r].recommendation_id = FALSE
             /\ history'[r].hurt = history[r].hurt
             /\ history'[r].raised = "other"
             /\ history'[r].accepted = history[r].accepted
             /\ history'[r].linked = history[r].linked
             /\ ~Exists(r)
      <3>1. CASE Exists(r) /\ Step(r, exe[r], "steps") /\ UNCHANGED history
        BY <3>1, <1>Claim, <1>facts, HurtMoves DEF Claim, Step, Exec, Hist, At, Ends
      <3>2. CASE ~Exists(r) /\ Ends(r, exe[r], "other")
        BY <3>2, <1>Claim, <1>facts, HurtMoves DEF Claim, Step, Exec, Hist, At, Ends
      <3> QED
        BY <1>Claim, <3>1, <3>2 DEF Claim
    <2>2. UNCHANGED <<pipelines, recommendations, webhook_callbacks, hook>>
      BY <1>Claim DEF Claim
    <2>3. CASE q = r
      <3>1. Diagnosis(q)'
        BY <1>Claim, <2>1, <2>2, <2>3, AfterRunAssumption DEF Claim, Ending, Diagnosis, Spared, Exists
      <3>2. Loaded(q)'
        BY <1>Claim, <2>1, <2>2, <2>3, AfterRunAssumption DEF Claim, Ending, Loaded, Spared, Exists
      <3>3. Announced(q)'
        BY <1>Claim, <2>1, <2>2, <2>3, AfterRunAssumption DEF Claim, Ending, Announced, Spared, Exists
      <3>4. Unmasked(q)'
        BY <1>Claim, <2>1, <2>2, <2>3, AfterRunAssumption DEF Claim, Ending, Unmasked, Exists
      <3>5. Linked(q)'
        BY <1>Claim, <2>1, <2>2, <2>3, AfterRunAssumption DEF Claim, Ending, Linked, Exists
      <3>6. Audited(q)'
        BY <1>Claim, <2>1, <2>2, <2>3, AfterRunAssumption DEF Claim, Ending, Audited, Exists
      <3> QED
        BY <3>1, <3>2, <3>3, <3>4, <3>5, <3>6 DEF Ending
    <2>4. CASE q # r
      <3>1. exe'[q] = exe[q] /\ history'[q] = history[q]
        BY <1>Claim, <2>4, <1>facts, HurtMoves DEF Claim, Step, Ends
      <3> QED
        BY <2>2, <3>1, EndingKept DEF Exists
    <2> QED
      BY <2>3, <2>4
  <1>Succeed. ASSUME NEW r \in Runs, Succeed(r) PROVE Ending(q)'
    <2>1. \/ /\ exe'[r].pc = "close"
             /\ exe'[r].run = exe[r].run
             /\ exe'[r].status = "success"
             /\ exe'[r].filled = exe[r].filled
             /\ exe'[r].recommendation_id = exe[r].recommendation_id
             /\ history'[r].hurt = history[r].hurt
             /\ history'[r].raised = history[r].raised
             /\ history'[r].accepted = history[r].accepted
             /\ history'[r].linked = history[r].linked
             /\ Exists(r)
          \/ /\ exe'[r].pc = "mark"
             /\ exe'[r].run = "expired"
             /\ exe'[r].status = "failed"
             /\ exe'[r].filled = exe[r].filled
             /\ exe'[r].recommendation_id = exe[r].recommendation_id
             /\ history'[r].hurt = history[r].hurt
             /\ history'[r].raised = history[r].raised
             /\ history'[r].accepted = history[r].accepted
             /\ history'[r].linked = history[r].linked
      <3>1. CASE Exists(r) /\ Step(r, [exe[r] EXCEPT !.status = "success"], "close")
        BY <3>1, <1>Succeed, <1>facts, HurtMoves DEF Succeed, Step, Exec, Hist, At
      <3>2. CASE Step(r, [exe[r] EXCEPT !.status = "failed", !.run = "expired"], "mark")
        BY <3>2, <1>Succeed, <1>facts, HurtMoves DEF Succeed, Step, Exec, Hist, At
      <3> QED
        BY <1>Succeed, <3>1, <3>2 DEF Succeed
    <2>2. UNCHANGED <<pipelines, recommendations, webhook_callbacks, hook>>
      BY <1>Succeed DEF Succeed
    <2>3. CASE q = r
      <3>1. Diagnosis(q)'
        BY <1>Succeed, <2>1, <2>2, <2>3, AfterRunAssumption DEF Succeed, Ending, Diagnosis, Spared, Exists
      <3>2. Loaded(q)'
        BY <1>Succeed, <2>1, <2>2, <2>3, AfterRunAssumption DEF Succeed, Ending, Loaded, Spared, Exists
      <3>3. Announced(q)'
        BY <1>Succeed, <2>1, <2>2, <2>3, AfterRunAssumption DEF Succeed, Ending, Announced, Spared, Exists
      <3>4. Unmasked(q)'
        BY <1>Succeed, <2>1, <2>2, <2>3, AfterRunAssumption DEF Succeed, Ending, Unmasked, Exists
      <3>5. Linked(q)'
        BY <1>Succeed, <2>1, <2>2, <2>3, AfterRunAssumption DEF Succeed, Ending, Linked, Exists
      <3>6. Audited(q)'
        BY <1>Succeed, <2>1, <2>2, <2>3, AfterRunAssumption DEF Succeed, Ending, Audited, Exists
      <3> QED
        BY <3>1, <3>2, <3>3, <3>4, <3>5, <3>6 DEF Ending
    <2>4. CASE q # r
      <3>1. exe'[q] = exe[q] /\ history'[q] = history[q]
        BY <1>Succeed, <2>4, <1>facts, HurtMoves DEF Succeed, Step
      <3> QED
        BY <2>2, <3>1, EndingKept DEF Exists
    <2> QED
      BY <2>3, <2>4
  <1>StepFails. ASSUME NEW r \in Runs, StepFails(r) PROVE Ending(q)'
    <2>1. /\ exe'[r].pc = "mark"
          /\ exe'[r].run = "expired"
          /\ exe'[r].status = "failed"
          /\ exe'[r].filled = exe[r].filled
          /\ exe'[r].recommendation_id = exe[r].recommendation_id
          /\ history'[r].hurt = history[r].hurt
          /\ history'[r].raised = history[r].raised
          /\ history'[r].accepted = history[r].accepted
          /\ history'[r].linked = history[r].linked
      BY <1>StepFails, <1>facts, HurtMoves DEF StepFails, Step, Exec, Hist, At
    <2>2. UNCHANGED <<pipelines, recommendations, webhook_callbacks, hook>>
      BY <1>StepFails DEF StepFails
    <2>3. CASE q = r
      <3>1. Diagnosis(q)'
        BY <1>StepFails, <2>1, <2>2, <2>3, AfterRunAssumption DEF StepFails, Ending, Diagnosis, Spared, Exists
      <3>2. Loaded(q)'
        BY <1>StepFails, <2>1, <2>2, <2>3, AfterRunAssumption DEF StepFails, Ending, Loaded, Spared, Exists
      <3>3. Announced(q)'
        BY <1>StepFails, <2>1, <2>2, <2>3, AfterRunAssumption DEF StepFails, Ending, Announced, Spared, Exists
      <3>4. Unmasked(q)'
        BY <1>StepFails, <2>1, <2>2, <2>3, AfterRunAssumption DEF StepFails, Ending, Unmasked, Exists
      <3>5. Linked(q)'
        BY <1>StepFails, <2>1, <2>2, <2>3, AfterRunAssumption DEF StepFails, Ending, Linked, Exists
      <3>6. Audited(q)'
        BY <1>StepFails, <2>1, <2>2, <2>3, AfterRunAssumption DEF StepFails, Ending, Audited, Exists
      <3> QED
        BY <3>1, <3>2, <3>3, <3>4, <3>5, <3>6 DEF Ending
    <2>4. CASE q # r
      <3>1. exe'[q] = exe[q] /\ history'[q] = history[q]
        BY <1>StepFails, <2>4, <1>facts, HurtMoves DEF StepFails, Step
      <3> QED
        BY <2>2, <3>1, EndingKept DEF Exists
    <2> QED
      BY <2>3, <2>4
  <1>CloseBreaker. ASSUME NEW r \in Runs, CloseBreaker(r) PROVE Ending(q)'
    <2>1. \/ /\ exe'[r].pc = "record"
             /\ exe'[r].run = exe[r].run
             /\ exe'[r].status = exe[r].status
             /\ exe'[r].filled = exe[r].filled
             /\ exe'[r].recommendation_id = exe[r].recommendation_id
             /\ history'[r].hurt = history[r].hurt
             /\ history'[r].raised = history[r].raised
             /\ history'[r].accepted = history[r].accepted
             /\ history'[r].linked = history[r].linked
          \/ /\ exe'[r].pc = "record"
             /\ exe'[r].run = Expired(exe[r].run)
             /\ exe'[r].status = exe[r].status
             /\ exe'[r].filled = exe[r].filled
             /\ exe'[r].recommendation_id = exe[r].recommendation_id
             /\ history'[r].hurt = history[r].hurt \cup {"database"}
             /\ history'[r].raised = history[r].raised
             /\ history'[r].accepted = history[r].accepted
             /\ history'[r].linked = history[r].linked
      <3>1. CASE Step(r, exe[r], "record") /\ UNCHANGED history
        BY <3>1, <1>CloseBreaker, <1>facts, HurtMoves DEF CloseBreaker, Step, Exec, Hist, At
      <3>2. CASE Step(r, [exe[r] EXCEPT !.run = Expired(@)], "record") /\ Hurt(r, "database")
        BY <3>2, <1>CloseBreaker, <1>facts, HurtMoves DEF CloseBreaker, Step, Exec, Hist, At
      <3> QED
        BY <1>CloseBreaker, <3>1, <3>2 DEF CloseBreaker
    <2>2. UNCHANGED <<pipelines, recommendations, webhook_callbacks, hook>>
      BY <1>CloseBreaker DEF CloseBreaker
    <2>3. CASE q = r
      <3>1. Diagnosis(q)'
        BY <1>CloseBreaker, <2>1, <2>2, <2>3, AfterRunAssumption
        DEF CloseBreaker, Expired, Ending, Diagnosis, Spared, Exists
      <3>2. Loaded(q)'
        BY <1>CloseBreaker, <2>1, <2>2, <2>3, AfterRunAssumption
        DEF CloseBreaker, Expired, Ending, Loaded, Spared, Exists
      <3>3. Announced(q)'
        BY <1>CloseBreaker, <2>1, <2>2, <2>3, AfterRunAssumption
        DEF CloseBreaker, Expired, Ending, Announced, Spared, Exists
      <3>4. Unmasked(q)'
        BY <1>CloseBreaker, <2>1, <2>2, <2>3, AfterRunAssumption DEF CloseBreaker, Expired, Ending, Unmasked, Exists
      <3>5. Linked(q)'
        BY <1>CloseBreaker, <2>1, <2>2, <2>3, AfterRunAssumption DEF CloseBreaker, Expired, Ending, Linked, Exists
      <3>6. Audited(q)'
        BY <1>CloseBreaker, <2>1, <2>2, <2>3, AfterRunAssumption DEF CloseBreaker, Expired, Ending, Audited, Exists
      <3> QED
        BY <3>1, <3>2, <3>3, <3>4, <3>5, <3>6 DEF Ending
    <2>4. CASE q # r
      <3>1. exe'[q] = exe[q] /\ history'[q] = history[q]
        BY <1>CloseBreaker, <2>4, <1>facts, HurtMoves DEF CloseBreaker, Step
      <3> QED
        BY <2>2, <3>1, EndingKept DEF Exists
    <2> QED
      BY <2>3, <2>4
  <1>MarkFailed. ASSUME NEW r \in Runs, MarkFailed(r) PROVE Ending(q)'
    <2>1. \/ /\ exe'[r].pc = "breaker"
             /\ exe'[r].run = IF Exists(r) THEN "loaded" ELSE None
             /\ exe'[r].status = exe[r].status
             /\ exe'[r].filled = exe[r].filled
             /\ exe'[r].recommendation_id = exe[r].recommendation_id
             /\ history'[r].hurt = history[r].hurt
             /\ history'[r].raised = history[r].raised
             /\ history'[r].accepted = history[r].accepted
             /\ history'[r].linked = history[r].linked
          \/ /\ exe'[r].pc = "breaker"
             /\ exe'[r].run = exe[r].run
             /\ exe'[r].status = exe[r].status
             /\ exe'[r].filled = exe[r].filled
             /\ exe'[r].recommendation_id = exe[r].recommendation_id
             /\ history'[r].hurt = history[r].hurt \cup {"database"}
             /\ history'[r].raised = history[r].raised
             /\ history'[r].accepted = history[r].accepted
             /\ history'[r].linked = history[r].linked
      <3>1. CASE Step(r, [exe[r] EXCEPT !.run = IF Exists(r) THEN "loaded" ELSE None], "breaker") /\ UNCHANGED history
        BY <3>1, <1>MarkFailed, <1>facts, HurtMoves DEF MarkFailed, Step, Exec, Hist, At
      <3>2. CASE Step(r, exe[r], "breaker") /\ Hurt(r, "database")
        BY <3>2, <1>MarkFailed, <1>facts, HurtMoves DEF MarkFailed, Step, Exec, Hist, At
      <3> QED
        BY <1>MarkFailed, <3>1, <3>2 DEF MarkFailed
    <2>2. UNCHANGED <<pipelines, recommendations, webhook_callbacks, hook>>
      BY <1>MarkFailed DEF MarkFailed
    <2>3. CASE q = r
      <3>1. Diagnosis(q)'
        BY <1>MarkFailed, <2>1, <2>2, <2>3, AfterRunAssumption DEF MarkFailed, Ending, Diagnosis, Spared, Exists
      <3>2. Loaded(q)'
        BY <1>MarkFailed, <2>1, <2>2, <2>3, AfterRunAssumption DEF MarkFailed, Ending, Loaded, Spared, Exists
      <3>3. Announced(q)'
        BY <1>MarkFailed, <2>1, <2>2, <2>3, AfterRunAssumption DEF MarkFailed, Ending, Announced, Spared, Exists
      <3>4. Unmasked(q)'
        BY <1>MarkFailed, <2>1, <2>2, <2>3, AfterRunAssumption DEF MarkFailed, Ending, Unmasked, Exists
      <3>5. Linked(q)'
        BY <1>MarkFailed, <2>1, <2>2, <2>3, AfterRunAssumption DEF MarkFailed, Ending, Linked, Exists
      <3>6. Audited(q)'
        BY <1>MarkFailed, <2>1, <2>2, <2>3, AfterRunAssumption DEF MarkFailed, Ending, Audited, Exists
      <3> QED
        BY <3>1, <3>2, <3>3, <3>4, <3>5, <3>6 DEF Ending
    <2>4. CASE q # r
      <3>1. exe'[q] = exe[q] /\ history'[q] = history[q]
        BY <1>MarkFailed, <2>4, <1>facts, HurtMoves DEF MarkFailed, Step
      <3> QED
        BY <2>2, <3>1, EndingKept DEF Exists
    <2> QED
      BY <2>3, <2>4
  <1>EvaluateBreaker. ASSUME NEW r \in Runs, EvaluateBreaker(r) PROVE Ending(q)'
    <2>1. \/ /\ exe'[r].pc = "record"
             /\ exe'[r].run = exe[r].run
             /\ exe'[r].status = exe[r].status
             /\ exe'[r].filled = exe[r].filled
             /\ exe'[r].recommendation_id = exe[r].recommendation_id
             /\ history'[r].hurt = history[r].hurt
             /\ history'[r].raised = history[r].raised
             /\ history'[r].accepted = history[r].accepted
             /\ history'[r].linked = history[r].linked
          \/ /\ exe'[r].pc = "record"
             /\ exe'[r].run = Expired(exe[r].run)
             /\ exe'[r].status = exe[r].status
             /\ exe'[r].filled = exe[r].filled
             /\ exe'[r].recommendation_id = exe[r].recommendation_id
             /\ history'[r].hurt = history[r].hurt \cup {"database"}
             /\ history'[r].raised = history[r].raised
             /\ history'[r].accepted = history[r].accepted
             /\ history'[r].linked = history[r].linked
      <3>1. CASE Step(r, exe[r], "record") /\ UNCHANGED history
        BY <3>1, <1>EvaluateBreaker, <1>facts, HurtMoves DEF EvaluateBreaker, Step, Exec, Hist, At
      <3>2. CASE Step(r, [exe[r] EXCEPT !.run = Expired(@)], "record") /\ Hurt(r, "database")
        BY <3>2, <1>EvaluateBreaker, <1>facts, HurtMoves DEF EvaluateBreaker, Step, Exec, Hist, At
      <3> QED
        BY <1>EvaluateBreaker, <3>1, <3>2 DEF EvaluateBreaker
    <2>2. UNCHANGED <<pipelines, recommendations, webhook_callbacks, hook>>
      BY <1>EvaluateBreaker DEF EvaluateBreaker
    <2>3. CASE q = r
      <3>1. Diagnosis(q)'
        BY <1>EvaluateBreaker, <2>1, <2>2, <2>3, AfterRunAssumption
        DEF EvaluateBreaker, Expired, Ending, Diagnosis, Spared, Exists
      <3>2. Loaded(q)'
        BY <1>EvaluateBreaker, <2>1, <2>2, <2>3, AfterRunAssumption
        DEF EvaluateBreaker, Expired, Ending, Loaded, Spared, Exists
      <3>3. Announced(q)'
        BY <1>EvaluateBreaker, <2>1, <2>2, <2>3, AfterRunAssumption
        DEF EvaluateBreaker, Expired, Ending, Announced, Spared, Exists
      <3>4. Unmasked(q)'
        BY <1>EvaluateBreaker, <2>1, <2>2, <2>3, AfterRunAssumption
        DEF EvaluateBreaker, Expired, Ending, Unmasked, Exists
      <3>5. Linked(q)'
        BY <1>EvaluateBreaker, <2>1, <2>2, <2>3, AfterRunAssumption
        DEF EvaluateBreaker, Expired, Ending, Linked, Exists
      <3>6. Audited(q)'
        BY <1>EvaluateBreaker, <2>1, <2>2, <2>3, AfterRunAssumption
        DEF EvaluateBreaker, Expired, Ending, Audited, Exists
      <3> QED
        BY <3>1, <3>2, <3>3, <3>4, <3>5, <3>6 DEF Ending
    <2>4. CASE q # r
      <3>1. exe'[q] = exe[q] /\ history'[q] = history[q]
        BY <1>EvaluateBreaker, <2>4, <1>facts, HurtMoves DEF EvaluateBreaker, Step
      <3> QED
        BY <2>2, <3>1, EndingKept DEF Exists
    <2> QED
      BY <2>3, <2>4
  <1>run_observability_recording. ASSUME NEW r \in Runs, run_observability_recording(r) PROVE Ending(q)'
    <2>1. \/ /\ exe'[r].pc = (IF exe[r].status = "failed" THEN "log_analysis" ELSE "webhook")
             /\ exe'[r].run = exe[r].run
             /\ exe'[r].status = exe[r].status
             /\ exe'[r].filled = exe[r].filled
             /\ exe'[r].recommendation_id = exe[r].recommendation_id
             /\ history'[r].hurt = history[r].hurt
             /\ history'[r].raised = history[r].raised
             /\ history'[r].accepted = history[r].accepted
             /\ history'[r].linked = history[r].linked
          \/ /\ exe'[r].pc = (IF exe[r].status = "failed" THEN "log_analysis" ELSE "webhook")
             /\ exe'[r].run = exe[r].run
             /\ exe'[r].status = exe[r].status
             /\ exe'[r].filled = exe[r].filled
             /\ exe'[r].recommendation_id = exe[r].recommendation_id
             /\ history'[r].hurt = history[r].hurt \cup {"write"}
             /\ history'[r].raised = history[r].raised
             /\ history'[r].accepted = history[r].accepted
             /\ history'[r].linked = history[r].linked
          \/ /\ exe'[r].pc = "over"
             /\ exe'[r].run = None
             /\ exe'[r].status = exe[r].status
             /\ exe'[r].filled = exe[r].filled
             /\ exe'[r].recommendation_id = exe[r].recommendation_id
             /\ history'[r].hurt = history[r].hurt \cup {"mkdir"}
             /\ history'[r].raised = "other"
             /\ history'[r].accepted = history[r].accepted
             /\ history'[r].linked = history[r].linked
      <3>1. CASE Step(r, exe[r], (IF exe[r].status = "failed" THEN "log_analysis" ELSE "webhook")) /\ UNCHANGED history
        BY <3>1, <1>run_observability_recording, <1>facts, HurtMoves
        DEF run_observability_recording, Step, Exec, Hist, At
      <3>2. CASE Step(r, exe[r], (IF exe[r].status = "failed" THEN "log_analysis" ELSE "webhook")) /\ Hurt(r, "write")
        BY <3>2, <1>run_observability_recording, <1>facts, HurtMoves
        DEF run_observability_recording, Step, Exec, Hist, At
      <3>3. CASE /\ Step(r, [exe[r] EXCEPT !.run = None], "over")
               /\ history' = [history EXCEPT ![r].hurt = @ \cup {"mkdir"}, ![r].raised = "other"]
        BY <3>3, <1>run_observability_recording, <1>facts, HurtMoves
        DEF run_observability_recording, Step, Exec, Hist, At
      <3> QED
        BY <1>run_observability_recording, <3>1, <3>2, <3>3 DEF run_observability_recording
    <2>2. UNCHANGED <<pipelines, recommendations, webhook_callbacks, hook>>
      BY <1>run_observability_recording DEF run_observability_recording
    <2>3. CASE q = r
      BY <1>run_observability_recording, <2>1, <2>2, <2>3
      DEF run_observability_recording, Ending, Diagnosis, Loaded, Announced, Unmasked, Linked, Audited,
          Spared, Exists
    <2>4. CASE q # r
      <3>1. exe'[q] = exe[q] /\ history'[q] = history[q]
        BY <1>run_observability_recording, <2>4, <1>facts, HurtMoves DEF run_observability_recording, Step
      <3> QED
        BY <2>2, <3>1, EndingKept DEF Exists
    <2> QED
      BY <2>3, <2>4
  <1>log_analysis_node. ASSUME NEW r \in Runs, log_analysis_node(r) PROVE Ending(q)'
    <2>1. \/ /\ exe'[r].pc = "classification"
             /\ exe'[r].run = exe[r].run
             /\ exe'[r].status = exe[r].status
             /\ exe'[r].filled = exe[r].filled \cup {"log_analysis"}
             /\ exe'[r].recommendation_id = exe[r].recommendation_id
             /\ history'[r].hurt = history[r].hurt
             /\ history'[r].raised = history[r].raised
             /\ history'[r].accepted = history[r].accepted
             /\ history'[r].linked = history[r].linked
          \/ /\ exe'[r].pc = "classification"
             /\ exe'[r].run = exe[r].run
             /\ exe'[r].status = exe[r].status
             /\ exe'[r].filled = exe[r].filled \cup {"log_analysis"}
             /\ exe'[r].recommendation_id = exe[r].recommendation_id
             /\ history'[r].hurt = history[r].hurt \cup {"llm"}
             /\ history'[r].raised = history[r].raised
             /\ history'[r].accepted = history[r].accepted
             /\ history'[r].linked = history[r].linked
      BY <1>log_analysis_node, <1>facts, HurtMoves DEF log_analysis_node, Step, Exec, Hist, At
    <2>2. UNCHANGED <<pipelines, recommendations, webhook_callbacks, hook>>
      BY <1>log_analysis_node DEF log_analysis_node
    <2>3. CASE q = r
      BY <1>log_analysis_node, <2>1, <2>2, <2>3
      DEF log_analysis_node, Ending, Diagnosis, Loaded, Announced, Unmasked, Linked, Audited, Spared, Exists
    <2>4. CASE q # r
      <3>1. exe'[q] = exe[q] /\ history'[q] = history[q]
        BY <1>log_analysis_node, <2>4, <1>facts, HurtMoves DEF log_analysis_node, Step
      <3> QED
        BY <2>2, <3>1, EndingKept DEF Exists
    <2> QED
      BY <2>3, <2>4
  <1>classification_node. ASSUME NEW r \in Runs, classification_node(r) PROVE Ending(q)'
    <2>1. \/ /\ exe'[r].pc = "retrieval"
             /\ exe'[r].run = exe[r].run
             /\ exe'[r].status = exe[r].status
             /\ exe'[r].filled = exe[r].filled \cup {"classification"}
             /\ exe'[r].recommendation_id = exe[r].recommendation_id
             /\ history'[r].hurt = history[r].hurt
             /\ history'[r].raised = history[r].raised
             /\ history'[r].accepted = history[r].accepted
             /\ history'[r].linked = history[r].linked
          \/ /\ exe'[r].pc = "retrieval"
             /\ exe'[r].run = exe[r].run
             /\ exe'[r].status = exe[r].status
             /\ exe'[r].filled = exe[r].filled \cup {"classification"}
             /\ exe'[r].recommendation_id = exe[r].recommendation_id
             /\ history'[r].hurt = history[r].hurt \cup {"llm"}
             /\ history'[r].raised = history[r].raised
             /\ history'[r].accepted = history[r].accepted
             /\ history'[r].linked = history[r].linked
      BY <1>classification_node, <1>facts, HurtMoves DEF classification_node, Step, Exec, Hist, At
    <2>2. UNCHANGED <<pipelines, recommendations, webhook_callbacks, hook>>
      BY <1>classification_node DEF classification_node
    <2>3. CASE q = r
      BY <1>classification_node, <2>1, <2>2, <2>3
      DEF classification_node, Ending, Diagnosis, Loaded, Announced, Unmasked, Linked, Audited, Spared, Exists
    <2>4. CASE q # r
      <3>1. exe'[q] = exe[q] /\ history'[q] = history[q]
        BY <1>classification_node, <2>4, <1>facts, HurtMoves DEF classification_node, Step
      <3> QED
        BY <2>2, <3>1, EndingKept DEF Exists
    <2> QED
      BY <2>3, <2>4
  <1>retrieval_node. ASSUME NEW r \in Runs, retrieval_node(r) PROVE Ending(q)'
    <2>rows. /\ \A rows \in _RUNBOOK_QUERY : rows \subseteq EveryRow
             /\ \A t : \A rows \in _INCIDENT_QUERY(t) : rows \subseteq EveryRow
      BY NearestRows DEF _RUNBOOK_QUERY, _INCIDENT_QUERY, Runbooks, Types
    <2>1. \/ /\ exe'[r].pc = "incidents"
             /\ exe'[r].run = exe[r].run
             /\ exe'[r].status = exe[r].status
             /\ exe'[r].filled = exe[r].filled
             /\ exe'[r].recommendation_id = exe[r].recommendation_id
             /\ history'[r].hurt = history[r].hurt
             /\ history'[r].raised = history[r].raised
             /\ history'[r].accepted = history[r].accepted
             /\ history'[r].linked = history[r].linked
             /\ At(r, "retrieval")
          \/ /\ exe'[r].pc = "recovery_planning"
             /\ exe'[r].run = exe[r].run
             /\ exe'[r].status = exe[r].status
             /\ exe'[r].filled = exe[r].filled
             /\ exe'[r].recommendation_id = exe[r].recommendation_id
             /\ history'[r].hurt = history[r].hurt
             /\ history'[r].raised = history[r].raised
             /\ history'[r].accepted = history[r].accepted
             /\ history'[r].linked = history[r].linked
             /\ At(r, "incidents")
      <3>1. CASE At(r, "retrieval") /\ \E rows \in SUBSET EveryRow :
                 Step(r, [exe[r] EXCEPT !.context = rows], "incidents")
        <4> DEFINE After(rows) == [exe[r] EXCEPT !.context = rows]
        <4>1. PICK rows \in SUBSET EveryRow : Step(r, After(rows), "incidents")
          BY <3>1
        <4>2. /\ After(rows).run = exe[r].run
              /\ After(rows).status = exe[r].status
              /\ After(rows).filled = exe[r].filled
              /\ After(rows).recommendation_id = exe[r].recommendation_id
          BY <1>exec DEF Exec
        <4>3. After(rows) \in Exec
          BY <1>exec, ExecContext, ExecPlan
        <4>4. /\ exe'[r].pc = "incidents"
              /\ exe'[r].run = After(rows).run
              /\ exe'[r].status = After(rows).status
              /\ exe'[r].filled = After(rows).filled
              /\ exe'[r].recommendation_id = After(rows).recommendation_id
          BY <4>1, <4>3, <1>facts, StepFields DEF Label
        <4>5. UNCHANGED history
          BY <3>1, <1>retrieval_node DEF retrieval_node
        <4> HIDE DEF After
        <4> QED
          BY <3>1, <4>2, <4>4, <4>5, <1>facts, HurtMoves DEF At, Hist
      <3>2. CASE At(r, "incidents") /\ \E rows \in SUBSET EveryRow :
                 Step(r, [exe[r] EXCEPT !.context = @ \cup rows], "recovery_planning")
        <4> DEFINE After(rows) == [exe[r] EXCEPT !.context = @ \cup rows]
        <4>1. PICK rows \in SUBSET EveryRow : Step(r, After(rows), "recovery_planning")
          BY <3>2
        <4>2. /\ After(rows).run = exe[r].run
              /\ After(rows).status = exe[r].status
              /\ After(rows).filled = exe[r].filled
              /\ After(rows).recommendation_id = exe[r].recommendation_id
          BY <1>exec DEF Exec
        <4>3. After(rows) \in Exec
          BY <1>exec, ExecContext, ExecPlan
        <4>4. /\ exe'[r].pc = "recovery_planning"
              /\ exe'[r].run = After(rows).run
              /\ exe'[r].status = After(rows).status
              /\ exe'[r].filled = After(rows).filled
              /\ exe'[r].recommendation_id = After(rows).recommendation_id
          BY <4>1, <4>3, <1>facts, StepFields DEF Label
        <4>5. UNCHANGED history
          BY <3>2, <1>retrieval_node DEF retrieval_node
        <4> HIDE DEF After
        <4> QED
          BY <3>2, <4>2, <4>4, <4>5, <1>facts, HurtMoves DEF At, Hist
      <3> QED
        BY <1>retrieval_node, <2>rows, <3>1, <3>2 DEF retrieval_node
    <2>2. UNCHANGED <<pipelines, recommendations, webhook_callbacks, hook>>
      BY <1>retrieval_node DEF retrieval_node
    <2>3. CASE q = r
      BY <1>retrieval_node, <2>1, <2>2, <2>3
      DEF retrieval_node, Ending, Diagnosis, Loaded, Announced, Unmasked, Linked, Audited, Spared, Exists
    <2>4. CASE q # r
      <3>1. exe'[q] = exe[q] /\ history'[q] = history[q]
        BY <1>retrieval_node, <2>4, <1>facts, HurtMoves DEF retrieval_node, Step
      <3> QED
        BY <2>2, <3>1, EndingKept DEF Exists
    <2> QED
      BY <2>3, <2>4
  <1>RetrievalFails. ASSUME NEW r \in Runs, RetrievalFails(r) PROVE Ending(q)'
    <2>1. \/ /\ exe'[r].pc = "recovery_planning"
             /\ exe'[r].run = exe[r].run
             /\ exe'[r].status = exe[r].status
             /\ exe'[r].filled = exe[r].filled
             /\ exe'[r].recommendation_id = exe[r].recommendation_id
             /\ history'[r].hurt = history[r].hurt \cup {"llm"}
             /\ history'[r].raised = history[r].raised
             /\ history'[r].accepted = history[r].accepted
             /\ history'[r].linked = history[r].linked
          \/ /\ exe'[r].pc = "recovery_planning"
             /\ exe'[r].run = exe[r].run
             /\ exe'[r].status = exe[r].status
             /\ exe'[r].filled = exe[r].filled
             /\ exe'[r].recommendation_id = exe[r].recommendation_id
             /\ history'[r].hurt = history[r].hurt \cup {"database"}
             /\ history'[r].raised = history[r].raised
             /\ history'[r].accepted = history[r].accepted
             /\ history'[r].linked = history[r].linked
      BY <1>RetrievalFails, <1>facts, HurtMoves DEF RetrievalFails, Step, Exec, Hist, At
    <2>2. UNCHANGED <<pipelines, recommendations, webhook_callbacks, hook>>
      BY <1>RetrievalFails DEF RetrievalFails
    <2>3. CASE q = r
      BY <1>RetrievalFails, <2>1, <2>2, <2>3
      DEF RetrievalFails, Ending, Diagnosis, Loaded, Announced, Unmasked, Linked, Audited, Spared, Exists
    <2>4. CASE q # r
      <3>1. exe'[q] = exe[q] /\ history'[q] = history[q]
        BY <1>RetrievalFails, <2>4, <1>facts, HurtMoves DEF RetrievalFails, Step
      <3> QED
        BY <2>2, <3>1, EndingKept DEF Exists
    <2> QED
      BY <2>3, <2>4
  <1>recovery_planning_node. ASSUME NEW r \in Runs, recovery_planning_node(r) PROVE Ending(q)'
    <2>1. \/ /\ exe'[r].pc = "persist"
             /\ exe'[r].run = exe[r].run
             /\ exe'[r].status = exe[r].status
             /\ exe'[r].filled = exe[r].filled \cup {"recovery_plan"}
             /\ exe'[r].recommendation_id = exe[r].recommendation_id
             /\ history'[r].hurt = history[r].hurt
             /\ history'[r].raised = history[r].raised
             /\ history'[r].accepted = history[r].accepted
             /\ history'[r].linked = history[r].linked
          \/ /\ exe'[r].pc = "persist"
             /\ exe'[r].run = exe[r].run
             /\ exe'[r].status = exe[r].status
             /\ exe'[r].filled = exe[r].filled \cup {"recovery_plan"}
             /\ exe'[r].recommendation_id = exe[r].recommendation_id
             /\ history'[r].hurt = history[r].hurt \cup {"llm"}
             /\ history'[r].raised = history[r].raised
             /\ history'[r].accepted = history[r].accepted
             /\ history'[r].linked = history[r].linked
      <3>1. CASE \E action \in RecommendedAction :
                 /\ Step(r, [exe[r] EXCEPT !.filled = @ \cup {"recovery_plan"}, !.plan = action, !.context = {}], "persist")
                 /\ UNCHANGED history
        <4> DEFINE After(action) == [exe[r] EXCEPT !.filled = @ \cup {"recovery_plan"}, !.plan = action, !.context = {}]
        <4>1. PICK action \in RecommendedAction : Step(r, After(action), "persist")
          BY <3>1
        <4>2. /\ After(action).run = exe[r].run
              /\ After(action).status = exe[r].status
              /\ After(action).filled = exe[r].filled \cup {"recovery_plan"}
              /\ After(action).recommendation_id = exe[r].recommendation_id
          BY <1>exec DEF Exec
        <4>3. After(action) \in Exec
          BY <1>exec, ExecContext, ExecPlan
        <4>4. /\ exe'[r].pc = "persist"
              /\ exe'[r].run = After(action).run
              /\ exe'[r].status = After(action).status
              /\ exe'[r].filled = After(action).filled
              /\ exe'[r].recommendation_id = After(action).recommendation_id
          BY <4>1, <4>3, <1>facts, StepFields DEF Label
        <4>5. UNCHANGED history \/ Hurt(r, "llm")
          BY <3>1, <1>recovery_planning_node DEF recovery_planning_node
        <4> HIDE DEF After
        <4> QED
          BY <3>1, <4>2, <4>4, <4>5, <1>facts, HurtMoves DEF At, Hist
      <3>2. CASE \E action \in RecommendedAction :
                 /\ Step(r, [exe[r] EXCEPT !.filled = @ \cup {"recovery_plan"}, !.plan = action, !.context = {}], "persist")
                 /\ Hurt(r, "llm")
        <4> DEFINE After(action) == [exe[r] EXCEPT !.filled = @ \cup {"recovery_plan"}, !.plan = action, !.context = {}]
        <4>1. PICK action \in RecommendedAction : Step(r, After(action), "persist")
          BY <3>2
        <4>2. /\ After(action).run = exe[r].run
              /\ After(action).status = exe[r].status
              /\ After(action).filled = exe[r].filled \cup {"recovery_plan"}
              /\ After(action).recommendation_id = exe[r].recommendation_id
          BY <1>exec DEF Exec
        <4>3. After(action) \in Exec
          BY <1>exec, ExecContext, ExecPlan
        <4>4. /\ exe'[r].pc = "persist"
              /\ exe'[r].run = After(action).run
              /\ exe'[r].status = After(action).status
              /\ exe'[r].filled = After(action).filled
              /\ exe'[r].recommendation_id = After(action).recommendation_id
          BY <4>1, <4>3, <1>facts, StepFields DEF Label
        <4>5. UNCHANGED history \/ Hurt(r, "llm")
          BY <3>2, <1>recovery_planning_node DEF recovery_planning_node
        <4> HIDE DEF After
        <4> QED
          BY <3>2, <4>2, <4>4, <4>5, <1>facts, HurtMoves DEF At, Hist
      <3> QED
        BY <1>recovery_planning_node, AfterRunAssumption, <3>1, <3>2
        DEF recovery_planning_node, recovery_plan_sentinel
    <2>2. UNCHANGED <<pipelines, recommendations, webhook_callbacks, hook>>
      BY <1>recovery_planning_node DEF recovery_planning_node
    <2>3. CASE q = r
      BY <1>recovery_planning_node, <2>1, <2>2, <2>3
      DEF recovery_planning_node, Ending, Diagnosis, Loaded, Announced, Unmasked, Linked, Audited, Spared,
          Exists
    <2>4. CASE q # r
      <3>1. exe'[q] = exe[q] /\ history'[q] = history[q]
        BY <1>recovery_planning_node, <2>4, <1>facts, HurtMoves
        DEF recovery_planning_node, Step, recovery_plan_sentinel
      <3> QED
        BY <2>2, <3>1, EndingKept DEF Exists
    <2> QED
      BY <2>3, <2>4
  <1>GraphBreaks. ASSUME NEW r \in Runs, GraphBreaks(r) PROVE Ending(q)'
    <2>1. /\ exe'[r].pc = "webhook"
          /\ exe'[r].run = exe[r].run
          /\ exe'[r].status = exe[r].status
          /\ exe'[r].filled = {}
          /\ exe'[r].recommendation_id = exe[r].recommendation_id
          /\ history'[r].hurt = history[r].hurt \cup {"graph"}
          /\ history'[r].raised = history[r].raised
          /\ history'[r].accepted = history[r].accepted
          /\ history'[r].linked = history[r].linked
      BY <1>GraphBreaks, <1>facts, HurtMoves DEF GraphBreaks, Step, Exec, Hist, At
    <2>2. UNCHANGED <<pipelines, recommendations, webhook_callbacks, hook>>
      BY <1>GraphBreaks DEF GraphBreaks
    <2>3. CASE q = r
      BY <1>GraphBreaks, <2>1, <2>2, <2>3
      DEF GraphBreaks, Ending, Diagnosis, Loaded, Announced, Unmasked, Linked, Audited, Spared, Exists
    <2>4. CASE q # r
      <3>1. exe'[q] = exe[q] /\ history'[q] = history[q]
        BY <1>GraphBreaks, <2>4, <1>facts, HurtMoves DEF GraphBreaks, Step
      <3> QED
        BY <2>2, <3>1, EndingKept DEF Exists
    <2> QED
      BY <2>3, <2>4
  <1>Persist. ASSUME NEW r \in Runs, Persist(r) PROVE Ending(q)'
    <2>1. \/ /\ exe'[r].pc = "refresh"
             /\ exe'[r].run = exe[r].run
             /\ exe'[r].status = exe[r].status
             /\ exe'[r].filled = exe[r].filled
             /\ exe'[r].recommendation_id = exe[r].recommendation_id
             /\ history'[r].hurt = history[r].hurt
             /\ history'[r].raised = history[r].raised
             /\ history'[r].accepted = history[r].accepted
             /\ history'[r].linked = history[r].linked
             /\ Exists(r)
             /\ recommendations'[r] = exe[r].plan
          \/ /\ exe'[r].pc = "webhook"
             /\ exe'[r].run = exe[r].run
             /\ exe'[r].status = exe[r].status
             /\ exe'[r].filled = exe[r].filled
             /\ exe'[r].recommendation_id = exe[r].recommendation_id
             /\ history'[r].hurt = history[r].hurt
             /\ history'[r].raised = history[r].raised
             /\ history'[r].accepted = history[r].accepted
             /\ history'[r].linked = history[r].linked
             /\ ~({"classification", "recovery_plan"} \subseteq exe[r].filled /\ Exists(r))
             /\ recommendations'[r] = recommendations[r]
      BY <1>Persist, <1>facts, HurtMoves DEF Persist, Step, Exec, Hist, At
    <2>2. UNCHANGED <<pipelines, webhook_callbacks, hook>>
      BY <1>Persist DEF Persist
    <2>3. CASE q = r
      BY <1>Persist, <2>1, <2>2, <2>3
      DEF Persist, Recommended, Ending, Diagnosis, Loaded, Announced, Unmasked, Linked, Audited, Spared, Exists
    <2>4. CASE q # r
      <3>1. exe'[q] = exe[q] /\ history'[q] = history[q] /\ recommendations'[q] = recommendations[q]
        BY <1>Persist, <2>4, <1>facts, HurtMoves DEF Persist, Step
      <3> QED
        BY <2>2, <3>1, EndingKept DEF Exists
    <2> QED
      BY <2>3, <2>4
  <1>PersistFails. ASSUME NEW r \in Runs, PersistFails(r) PROVE Ending(q)'
    <2>1. /\ exe'[r].pc = "webhook"
          /\ exe'[r].run = exe[r].run
          /\ exe'[r].status = exe[r].status
          /\ exe'[r].filled = exe[r].filled
          /\ exe'[r].recommendation_id = exe[r].recommendation_id
          /\ history'[r].hurt = history[r].hurt \cup {"database"}
          /\ history'[r].raised = history[r].raised
          /\ history'[r].accepted = history[r].accepted
          /\ history'[r].linked = history[r].linked
      BY <1>PersistFails, <1>facts, HurtMoves DEF PersistFails, Step, Exec, Hist, At
    <2>2. UNCHANGED <<pipelines, recommendations, webhook_callbacks, hook>>
      BY <1>PersistFails DEF PersistFails
    <2>3. CASE q = r
      BY <1>PersistFails, <2>1, <2>2, <2>3
      DEF PersistFails, Ending, Diagnosis, Loaded, Announced, Unmasked, Linked, Audited, Spared, Exists
    <2>4. CASE q # r
      <3>1. exe'[q] = exe[q] /\ history'[q] = history[q]
        BY <1>PersistFails, <2>4, <1>facts, HurtMoves DEF PersistFails, Step
      <3> QED
        BY <2>2, <3>1, EndingKept DEF Exists
    <2> QED
      BY <2>3, <2>4
  <1>RefreshRecommendation. ASSUME NEW r \in Runs, RefreshRecommendation(r) PROVE Ending(q)'
    <2>1. \/ /\ exe'[r].pc = "webhook"
             /\ exe'[r].run = exe[r].run
             /\ exe'[r].status = exe[r].status
             /\ exe'[r].filled = exe[r].filled
             /\ exe'[r].recommendation_id = TRUE
             /\ history'[r].hurt = history[r].hurt
             /\ history'[r].raised = history[r].raised
             /\ history'[r].accepted = history[r].accepted
             /\ history'[r].linked = history[r].linked
             /\ Exists(r)
          \/ /\ exe'[r].pc = "webhook"
             /\ exe'[r].run = exe[r].run
             /\ exe'[r].status = exe[r].status
             /\ exe'[r].filled = exe[r].filled
             /\ exe'[r].recommendation_id = exe[r].recommendation_id
             /\ history'[r].hurt = history[r].hurt
             /\ history'[r].raised = history[r].raised
             /\ history'[r].accepted = history[r].accepted
             /\ history'[r].linked = history[r].linked
             /\ ~Exists(r)
      <3>1. CASE Exists(r) /\ Step(r, [exe[r] EXCEPT !.recommendation_id = TRUE], "webhook")
        BY <3>1, <1>RefreshRecommendation, <1>facts, HurtMoves DEF RefreshRecommendation, Step, Exec, Hist, At
      <3>2. CASE ~Exists(r) /\ Step(r, exe[r], "webhook")
        BY <3>2, <1>RefreshRecommendation, <1>facts, HurtMoves DEF RefreshRecommendation, Step, Exec, Hist, At
      <3> QED
        BY <1>RefreshRecommendation, <3>1, <3>2 DEF RefreshRecommendation
    <2>2. UNCHANGED <<pipelines, recommendations, webhook_callbacks, hook>>
      BY <1>RefreshRecommendation DEF RefreshRecommendation
    <2>3. CASE q = r
      BY <1>RefreshRecommendation, <2>1, <2>2, <2>3
      DEF RefreshRecommendation, Recommended, Ending, Diagnosis, Loaded, Announced, Unmasked, Linked,
          Audited, Spared, Exists
    <2>4. CASE q # r
      <3>1. exe'[q] = exe[q] /\ history'[q] = history[q]
        BY <1>RefreshRecommendation, <2>4, <1>facts, HurtMoves DEF RefreshRecommendation, Step
      <3> QED
        BY <2>2, <3>1, EndingKept DEF Exists
    <2> QED
      BY <2>3, <2>4
  <1>SendCallback. ASSUME NEW r \in Runs, SendCallback(r) PROVE Ending(q)'
    <2>1. \/ /\ exe'[r].pc = "over"
             /\ exe'[r].run = None
             /\ exe'[r].status = exe[r].status
             /\ exe'[r].filled = {}
             /\ exe'[r].recommendation_id = FALSE
             /\ history'[r].hurt = history[r].hurt
             /\ history'[r].raised = OwnError(r)
             /\ history'[r].accepted = history[r].accepted
             /\ history'[r].linked = exe[r].recommendation_id
             /\ exe[r].run = "loaded"
             /\ hook'[r] = "post"
          \/ /\ exe'[r].pc = "over"
             /\ exe'[r].run = None
             /\ exe'[r].status = exe[r].status
             /\ exe'[r].filled = {}
             /\ exe'[r].recommendation_id = FALSE
             /\ history'[r].hurt = history[r].hurt
             /\ history'[r].raised = IF exe[r].run = None THEN "other" ELSE OwnError(r)
             /\ history'[r].accepted = history[r].accepted
             /\ history'[r].linked = history[r].linked
             /\ ~(exe[r].run = "loaded" /\ Exists(r) /\ PipelineOf[r] \in WithCallback)
             /\ hook'[r] = hook[r]
      <3>1. CASE /\ exe[r].run = "loaded" /\ hook' = [hook EXCEPT ![r] = "post"]
               /\ Step(r, [exe[r] EXCEPT !.run = None, !.filled = {}, !.plan = None, !.recommendation_id = FALSE], "over")
               /\ history' = [history EXCEPT ![r].raised = OwnError(r), ![r].linked = exe[r].recommendation_id]
        BY <3>1, <1>SendCallback, <1>facts, HurtMoves DEF SendCallback, Step, Exec, Hist, At, Ends
      <3>2. CASE /\ ~(exe[r].run = "loaded" /\ Exists(r) /\ PipelineOf[r] \in WithCallback)
               /\ UNCHANGED hook
               /\ Ends(r, exe[r], IF exe[r].run = None THEN "other" ELSE OwnError(r))
        BY <3>2, <1>SendCallback, <1>facts, HurtMoves DEF SendCallback, Step, Exec, Hist, At, Ends
      <3> QED
        BY <1>SendCallback, <3>1, <3>2 DEF SendCallback
    <2>2. UNCHANGED <<pipelines, recommendations, webhook_callbacks>>
      BY <1>SendCallback DEF SendCallback
    <2>3. CASE q = r
      <3>1. Diagnosis(q)'
        BY <1>SendCallback, <2>1, <2>2, <2>3, AfterRunAssumption
        DEF SendCallback, OwnError, Ending, Loaded, Diagnosis, Spared, Exists
      <3>2. Loaded(q)'
        BY <1>SendCallback, <2>1, <2>2, <2>3, AfterRunAssumption
        DEF SendCallback, OwnError, Ending, Loaded, Spared, Exists
      <3>3. Announced(q)'
        BY <1>SendCallback, <2>1, <2>2, <2>3, AfterRunAssumption
        DEF SendCallback, OwnError, Ending, Loaded, Announced, Spared, Exists
      <3>4. Unmasked(q)'
        BY <1>SendCallback, <2>1, <2>2, <2>3, AfterRunAssumption
        DEF SendCallback, OwnError, Ending, Loaded, Unmasked, Spared, Exists
      <3>5. Linked(q)'
        BY <1>SendCallback, <2>1, <2>2, <2>3, AfterRunAssumption
        DEF SendCallback, OwnError, Ending, Loaded, Linked, Spared, Exists
      <3>6. Audited(q)'
        BY <1>SendCallback, <2>1, <2>2, <2>3, AfterRunAssumption
        DEF SendCallback, OwnError, Ending, Loaded, Audited, Spared, Exists
      <3> QED
        BY <3>1, <3>2, <3>3, <3>4, <3>5, <3>6 DEF Ending
    <2>4. CASE q # r
      <3>1. exe'[q] = exe[q] /\ history'[q] = history[q] /\ hook'[q] = hook[q]
        BY <1>SendCallback, <2>4, <1>facts, HurtMoves DEF SendCallback, Step, Ends
      <3> QED
        BY <2>2, <3>1, EndingKept DEF Exists
    <2> QED
      BY <2>3, <2>4
  <1>CallbackNotRead. ASSUME NEW r \in Runs, CallbackNotRead(r) PROVE Ending(q)'
    <2>1. /\ exe'[r].pc = "over"
          /\ exe'[r].run = None
          /\ exe'[r].status = exe[r].status
          /\ exe'[r].filled = {}
          /\ exe'[r].recommendation_id = FALSE
          /\ history'[r].hurt = history[r].hurt \cup {"database"}
          /\ history'[r].raised = OwnError(r)
          /\ history'[r].accepted = history[r].accepted
          /\ history'[r].linked = history[r].linked
      BY <1>CallbackNotRead, <1>facts, HurtMoves DEF CallbackNotRead, Step, Exec, Hist, At
    <2>2. UNCHANGED <<pipelines, recommendations, webhook_callbacks, hook>>
      BY <1>CallbackNotRead DEF CallbackNotRead
    <2>3. CASE q = r
      <3>1. Diagnosis(q)'
        BY <1>CallbackNotRead, <2>1, <2>2, <2>3, AfterRunAssumption
        DEF CallbackNotRead, OwnError, Ending, Diagnosis, Spared, Exists
      <3>2. Loaded(q)'
        BY <1>CallbackNotRead, <2>1, <2>2, <2>3, AfterRunAssumption
        DEF CallbackNotRead, OwnError, Ending, Loaded, Spared, Exists
      <3>3. Announced(q)'
        BY <1>CallbackNotRead, <2>1, <2>2, <2>3, AfterRunAssumption
        DEF CallbackNotRead, OwnError, Ending, Announced, Spared, Exists
      <3>4. Unmasked(q)'
        BY <1>CallbackNotRead, <2>1, <2>2, <2>3, AfterRunAssumption
        DEF CallbackNotRead, OwnError, Ending, Unmasked, Exists
      <3>5. Linked(q)'
        BY <1>CallbackNotRead, <2>1, <2>2, <2>3, AfterRunAssumption
        DEF CallbackNotRead, OwnError, Ending, Linked, Exists
      <3>6. Audited(q)'
        BY <1>CallbackNotRead, <2>1, <2>2, <2>3, AfterRunAssumption
        DEF CallbackNotRead, OwnError, Ending, Audited, Exists
      <3> QED
        BY <3>1, <3>2, <3>3, <3>4, <3>5, <3>6 DEF Ending
    <2>4. CASE q # r
      <3>1. exe'[q] = exe[q] /\ history'[q] = history[q]
        BY <1>CallbackNotRead, <2>4, <1>facts, HurtMoves DEF CallbackNotRead, Step
      <3> QED
        BY <2>2, <3>1, EndingKept DEF Exists
    <2> QED
      BY <2>3, <2>4
  <1>Post. ASSUME NEW r \in Runs, Post(r) PROVE Ending(q)'
    <2>1. /\ hook'[r] \in {"success", "failed"}
          /\ hook'[r] = "success" => history'[r].accepted
          /\ history'[r].hurt = history[r].hurt
          /\ history'[r].raised = history[r].raised
          /\ history'[r].linked = history[r].linked
      BY <1>Post, <1>facts, HurtMoves DEF Post, Hist, Delivered
    <2>2. UNCHANGED <<exe, pipelines, recommendations, webhook_callbacks>>
      BY <1>Post DEF Post
    <2>3. CASE q = r
      <3>1. Diagnosis(q)'
        BY <1>Post, <2>1, <2>2, <2>3, <1>facts, AfterRunAssumption DEF Post, Ending, Diagnosis, Spared, Exists
      <3>2. Loaded(q)'
        BY <1>Post, <2>1, <2>2, <2>3, <1>facts, AfterRunAssumption DEF Post, Ending, Loaded, Spared, Exists
      <3>3. Announced(q)'
        BY <1>Post, <2>1, <2>2, <2>3, <1>facts, AfterRunAssumption DEF Post, Ending, Announced, Spared, Exists
      <3>4. Unmasked(q)'
        BY <1>Post, <2>1, <2>2, <2>3, <1>facts, AfterRunAssumption DEF Post, Ending, Unmasked, Exists
      <3>5. Linked(q)'
        BY <1>Post, <2>1, <2>2, <2>3, <1>facts, AfterRunAssumption DEF Post, Ending, Linked, Exists
      <3>6. Audited(q)'
        BY <1>Post, <2>1, <2>2, <2>3, <1>facts, AfterRunAssumption DEF Post, Ending, Audited, Exists
      <3> QED
        BY <3>1, <3>2, <3>3, <3>4, <3>5, <3>6 DEF Ending
    <2>4. CASE q # r
      <3>1. history'[q] = history[q] /\ hook'[q] = hook[q]
        BY <1>Post, <2>4, <1>facts, HurtMoves DEF Post
      <3> QED
        BY <2>2, <3>1, EndingKept DEF Exists
    <2> QED
      BY <2>3, <2>4
  <1>Audit. ASSUME NEW r \in Runs, Audit(r) PROVE Ending(q)'
    <2>1. /\ hook'[r] = "done"
          /\ webhook_callbacks'[r] = IF Exists(r) THEN hook[r] ELSE webhook_callbacks[r]
      BY <1>Audit, <1>facts, HurtMoves DEF Audit, Hist, Delivered
    <2>2. UNCHANGED <<exe, pipelines, recommendations, history>>
      BY <1>Audit DEF Audit
    <2>3. CASE q = r
      <3>1. Diagnosis(q)'
        BY <1>Audit, <2>1, <2>2, <2>3, <1>facts, AfterRunAssumption DEF Audit, Ending, Diagnosis, Spared, Exists
      <3>2. Loaded(q)'
        BY <1>Audit, <2>1, <2>2, <2>3, <1>facts, AfterRunAssumption DEF Audit, Ending, Loaded, Spared, Exists
      <3>3. Announced(q)'
        BY <1>Audit, <2>1, <2>2, <2>3, <1>facts, AfterRunAssumption DEF Audit, Ending, Announced, Spared, Exists
      <3>4. Unmasked(q)'
        BY <1>Audit, <2>1, <2>2, <2>3, <1>facts, AfterRunAssumption DEF Audit, Ending, Unmasked, Exists
      <3>5. Linked(q)'
        BY <1>Audit, <2>1, <2>2, <2>3, <1>facts, AfterRunAssumption DEF Audit, Ending, Linked, Exists
      <3>6. Audited(q)'
        BY <1>Audit, <2>1, <2>2, <2>3, <1>facts, AfterRunAssumption DEF Audit, Ending, Audited, Exists
      <3> QED
        BY <3>1, <3>2, <3>3, <3>4, <3>5, <3>6 DEF Ending
    <2>4. CASE q # r
      <3>1. hook'[q] = hook[q] /\ webhook_callbacks'[q] = webhook_callbacks[q]
        BY <1>Audit, <2>4, <1>facts, HurtMoves DEF Audit
      <3> QED
        BY <2>2, <3>1, EndingKept DEF Exists
    <2> QED
      BY <2>3, <2>4
  <1>AuditFails. ASSUME NEW r \in Runs, AuditFails(r) PROVE Ending(q)'
    <2>1. /\ hook'[r] = "done"
          /\ history'[r].hurt = history[r].hurt \cup {"database"}
          /\ history'[r].raised = history[r].raised
          /\ history'[r].accepted = history[r].accepted
          /\ history'[r].linked = history[r].linked
      BY <1>AuditFails, <1>facts, HurtMoves DEF AuditFails, Hist, Delivered
    <2>2. UNCHANGED <<exe, pipelines, recommendations, webhook_callbacks>>
      BY <1>AuditFails DEF AuditFails
    <2>3. CASE q = r
      <3>1. Diagnosis(q)'
        BY <1>AuditFails, <2>1, <2>2, <2>3, <1>facts, AfterRunAssumption
        DEF AuditFails, Ending, Diagnosis, Spared, Exists
      <3>2. Loaded(q)'
        BY <1>AuditFails, <2>1, <2>2, <2>3, <1>facts, AfterRunAssumption
        DEF AuditFails, Ending, Loaded, Spared, Exists
      <3>3. Announced(q)'
        BY <1>AuditFails, <2>1, <2>2, <2>3, <1>facts, AfterRunAssumption
        DEF AuditFails, Ending, Announced, Spared, Exists
      <3>4. Unmasked(q)'
        BY <1>AuditFails, <2>1, <2>2, <2>3, <1>facts, AfterRunAssumption DEF AuditFails, Ending, Unmasked, Exists
      <3>5. Linked(q)'
        BY <1>AuditFails, <2>1, <2>2, <2>3, <1>facts, AfterRunAssumption DEF AuditFails, Ending, Linked, Exists
      <3>6. Audited(q)'
        BY <1>AuditFails, <2>1, <2>2, <2>3, <1>facts, AfterRunAssumption DEF AuditFails, Ending, Audited, Exists
      <3> QED
        BY <3>1, <3>2, <3>3, <3>4, <3>5, <3>6 DEF Ending
    <2>4. CASE q # r
      <3>1. history'[q] = history[q] /\ hook'[q] = hook[q]
        BY <1>AuditFails, <2>4, <1>facts, HurtMoves DEF AuditFails
      <3> QED
        BY <2>2, <3>1, EndingKept DEF Exists
    <2> QED
      BY <2>3, <2>4
  <1>index_incident. ASSUME NEW r \in Runs, index_incident(r) PROVE Ending(q)'
    BY <1>index_incident, EndingKept DEF index_incident, Exists
  <1>IndexingFails. ASSUME NEW r \in Runs, IndexingFails(r) PROVE Ending(q)'
    <2>1. \E fault \in {"llm", "database"} : history'[r].hurt = history[r].hurt \cup {fault} /\ history'[r].raised = history[r].raised
                                             /\ history'[r].accepted = history[r].accepted /\ history'[r].linked = history[r].linked
      BY <1>IndexingFails, <1>facts, HurtMoves DEF IndexingFails
    <2>2. UNCHANGED <<exe, hook, pipelines, recommendations, webhook_callbacks>>
      BY <1>IndexingFails DEF IndexingFails
    <2>3. CASE q = r
      BY <2>1, <2>2, <2>3 DEF Ending, Diagnosis, Loaded, Announced, Unmasked, Linked, Audited, Spared, Exists
    <2>4. CASE q # r
      <3>1. history'[q] = history[q]
        BY <1>IndexingFails, <2>4, <1>facts, HurtMoves DEF IndexingFails
      <3> QED
        BY <2>2, <3>1, EndingKept DEF Exists
    <2> QED
      BY <2>3, <2>4
  <1>Die. ASSUME NEW r \in Runs, Die(r) PROVE Ending(q)'
    <2>1. /\ exe'[r].pc = "over"
          /\ exe'[r].run = None
          /\ exe'[r].status = exe[r].status
          /\ exe'[r].filled = {}
          /\ exe'[r].recommendation_id = FALSE
          /\ history'[r].hurt = history[r].hurt \cup {"death"}
          /\ history'[r].raised = history[r].raised
          /\ history'[r].accepted = history[r].accepted
          /\ history'[r].linked = history[r].linked
          /\ hook'[r] = IF hook[r] = None THEN None ELSE "done"
      BY <1>Die, <1>facts, HurtMoves DEF Die, Step, Exec, Hist, At
    <2>2. UNCHANGED <<pipelines, recommendations, webhook_callbacks>>
      BY <1>Die DEF Die
    <2>3. CASE q = r
      <3>1. Diagnosis(q)'
        BY <1>Die, <2>1, <2>2, <2>3, AfterRunAssumption DEF Die, Ending, Diagnosis, Spared, Exists
      <3>2. Loaded(q)'
        BY <1>Die, <2>1, <2>2, <2>3, AfterRunAssumption DEF Die, Ending, Loaded, Spared, Exists
      <3>3. Announced(q)'
        BY <1>Die, <2>1, <2>2, <2>3, AfterRunAssumption DEF Die, Ending, Announced, Spared, Exists
      <3>4. Unmasked(q)'
        BY <1>Die, <2>1, <2>2, <2>3, AfterRunAssumption DEF Die, Ending, Unmasked, Exists
      <3>5. Linked(q)'
        BY <1>Die, <2>1, <2>2, <2>3, AfterRunAssumption DEF Die, Ending, Linked, Exists
      <3>6. Audited(q)'
        BY <1>Die, <2>1, <2>2, <2>3, AfterRunAssumption DEF Die, Ending, Audited, Exists
      <3> QED
        BY <3>1, <3>2, <3>3, <3>4, <3>5, <3>6 DEF Ending
    <2>4. CASE q # r
      <3>1. exe'[q] = exe[q] /\ history'[q] = history[q] /\ hook'[q] = hook[q]
        BY <1>Die, <2>4, <1>facts, HurtMoves DEF Die, Step
      <3> QED
        BY <2>2, <3>1, EndingKept DEF Exists
    <2> QED
      BY <2>3, <2>4
  <1>main. ASSUME NEW i \in Indexers, main(i) PROVE Ending(q)'
    BY <1>main, EndingKept DEF main, Exists
  <1>IndexerFails. ASSUME NEW i \in Indexers, IndexerFails(i) PROVE Ending(q)'
    BY <1>IndexerFails, EndingKept DEF IndexerFails, Exists
  <1>DeletePipeline. ASSUME NEW p \in Pipelines, DeletePipeline(p) PROVE Ending(q)'
    <2>1. UNCHANGED <<exe, history, hook>>
      BY <1>DeletePipeline DEF DeletePipeline
    <2>2. CASE PipelineOf[q] \in {p}
      BY <1>DeletePipeline, <2>1, <2>2, EndingKept, <1>facts DEF DeletePipeline, Forget, Exists
    <2>3. CASE PipelineOf[q] \notin {p}
      BY <1>DeletePipeline, <2>1, <2>3, EndingKept, <1>facts DEF DeletePipeline, Forget, Exists
    <2> QED
      BY <2>2, <2>3
  <1>DeleteTenant. ASSUME NEW t \in Tenants, DeleteTenant(t) PROVE Ending(q)'
    <2>1. UNCHANGED <<exe, history, hook>>
      BY <1>DeleteTenant DEF DeleteTenant
    <2>2. CASE PipelineOf[q] \in {p \in Pipelines : TenantOf[p] = t}
      BY <1>DeleteTenant, <2>1, <2>2, EndingKept, <1>facts DEF DeleteTenant, Forget, Exists
    <2>3. CASE PipelineOf[q] \notin {p \in Pipelines : TenantOf[p] = t}
      BY <1>DeleteTenant, <2>1, <2>3, EndingKept, <1>facts DEF DeleteTenant, Forget, Exists
    <2> QED
      BY <2>2, <2>3
  <1>stutter. ASSUME UNCHANGED vars PROVE Ending(q)'
    BY <1>stutter, EndingKept DEF vars, Exists
  <1> QED
    BY <1>Block, <1>Claim, <1>Succeed, <1>StepFails, <1>CloseBreaker,
       <1>MarkFailed, <1>EvaluateBreaker, <1>run_observability_recording, <1>log_analysis_node,
       <1>classification_node,
       <1>retrieval_node, <1>RetrievalFails, <1>recovery_planning_node, <1>GraphBreaks, <1>Persist,
       <1>PersistFails, <1>RefreshRecommendation, <1>SendCallback, <1>CallbackNotRead, <1>Post,
       <1>Audit, <1>AuditFails, <1>index_incident, <1>IndexingFails, <1>Die,
       <1>main, <1>IndexerFails, <1>DeletePipeline, <1>DeleteTenant, <1>stutter
    DEF Next, RunStep

-----------------------------------------------------------------------------
(* The theorems *)

\* The inductive invariant.
IInv ==
    /\ Types
    /\ RunbooksDoomed
    /\ Indexed
    /\ \A r \in Runs : Whole(r) /\ Recommended(r) /\ Own(r) /\ Ending(r)

\* It holds when nothing has happened yet.
LEMMA InitIInv == Init => IInv
  <1> SUFFICES ASSUME Init PROVE IInv
    OBVIOUS
  <1>1. Types
    BY AfterRunAssumption DEF Init, Types, Exec, Hist
  <1>2. RunbooksDoomed /\ Indexed
    BY DEF Init, RunbooksDoomed, Indexed
  <1>3. ASSUME NEW r \in Runs PROVE Whole(r) /\ Recommended(r) /\ Own(r)
    BY AfterRunAssumption DEF Init, Whole, Recommended, Own, InTable
  <1>4. ASSUME NEW r \in Runs PROVE Ending(r)
    BY AfterRunAssumption DEF Init, Ending, Diagnosis, Loaded, Announced, Unmasked, Linked, Audited, Spared, Exists
  <1> QED
    BY <1>1, <1>2, <1>3, <1>4 DEF IInv

\* Every step preserves it.
LEMMA NextIInv == IInv /\ [Next]_vars => IInv'
  <1> SUFFICES ASSUME IInv, [Next]_vars PROVE IInv'
    OBVIOUS
  <1>1. Types'
    BY NextTypes DEF IInv
  <1>2. RunbooksDoomed'
    BY OnlyRunbooksDoomed DEF IInv
  <1>3. Indexed'
    BY StaysIndexed DEF IInv
  <1>4. ASSUME NEW r \in Runs PROVE (Whole(r) /\ Recommended(r) /\ Own(r) /\ Ending(r))'
    BY StaysWhole, StaysRecommended, StaysOwn, StaysEnding DEF IInv
  <1> QED
    BY <1>1, <1>2, <1>3, <1>4 DEF IInv

\* It always holds.
LEMMA Invariance == Spec => []IInv
  BY InitIInv, NextIInv, PTL DEF Spec

\* The state is of its type, and an incident is in the table with both its rows or
\* not at all, of a tenant that is there, and with its recommendation.
THEOREM RowsSoundAlways == Spec => []RowsSound
  <1>1. IInv => RowsSound
    <2> SUFFICES ASSUME IInv PROVE TypeOK /\ IncidentPairs
      BY DEF RowsSound
    <2>1. TypeOK
      BY TypeParts DEF IInv
    <2>2. IncidentPairs
      BY DEF IInv, IncidentPairs, Whole, Recommended, InTable
    <2> QED
      BY <2>1, <2>2
  <1> QED
    BY <1>1, Invariance, PTL

\* A failed run gets its recommendation, a run its webhook, and the webhook a good
\* link, unless one of the named failures strikes it.
THEOREM FinalizedAlways == Spec => []Finalized
  <1>1. IInv => Finalized
    <2> SUFFICES ASSUME IInv PROVE DiagnosedUnless /\ AnnouncedUnless /\ LinkIsGood
      BY DEF Finalized
    <2>1. DiagnosedUnless
      BY DEF IInv, DiagnosedUnless, Missed, Ending, Diagnosis, Spared
    <2>2. AnnouncedUnless
      BY DEF IInv, AnnouncedUnless, Missed, Ending, Announced, Spared
    <2>3. LinkIsGood
      BY DEF IInv, LinkIsGood, Ending, Linked
    <2> QED
      BY <2>1, <2>2, <2>3
  <1> QED
    BY <1>1, Invariance, PTL

\* Nothing but mkdir and the deletion of the run replaces the error of the step.
THEOREM ErrorNotMaskedAlways == Spec => []ErrorNotMasked
  <1>1. IInv => ErrorNotMasked
    BY DEF IInv, ErrorNotMasked, Ending, Unmasked
  <1> QED
    BY <1>1, Invariance, PTL

\* The audit of the webhooks is true, and complete but for the named failures.
THEOREM AuditTruthfulAlways == Spec => []AuditTruthful
  <1>1. IInv => AuditTruthful
    BY DEF IInv, AuditTruthful, Ending, Audited
  <1> QED
    BY <1>1, Invariance, PTL

\* No diagnosis sees an incident of another tenant.
THEOREM ContextIsOwnAlways == Spec => []ContextIsOwn
  <1>1. IInv => ContextIsOwn
    BY DEF IInv, ContextIsOwn, Own
  <1> QED
    BY <1>1, Invariance, PTL

\* Once indexed, the runbooks can always be retrieved.
THEOREM RunbooksAlwaysThereAlways == Spec => []RunbooksAlwaysThere
  <1>1. IInv => RunbooksAlwaysThere
    BY DEF IInv, RunbooksAlwaysThere, Indexed, Runbook
  <1> QED
    BY <1>1, Invariance, PTL

=============================================================================
