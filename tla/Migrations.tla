----------------------------- MODULE Migrations -----------------------------
(***************************************************************************)
(* The Alembic migrations (alembic/versions), each a list of statements up *)
(* and a list down, run by alembic/env.py in one transaction while other   *)
(* migrators run and the application inserts rows; and the tables that the *)
(* models in control_plane/app/models declare.                             *)
(*                                                                         *)
(* A table is its nullable and its NOT NULL columns, its foreign keys (all *)
(* ON DELETE CASCADE) and its indexes; a unique constraint is an index.    *)
(* The primary key, the types and the server default now() are left out.   *)
(***************************************************************************)
EXTENDS Integers, Sequences, SequencesExt

CONSTANTS Migrators, Targets,   \* who runs alembic, and the versions asked for
          Filled,               \* the tables that may have rows
          MaxCrashes

VARIABLES tables,    \* the committed schema: table name -> table
          vector,    \* whether the pgvector extension is installed
          version,   \* the number of revisions applied, alembic_version
          rows,      \* the tables that have rows
          mig,       \* each migrator and its transaction
          crashes

vars == <<tables, vector, version, rows, mig, crashes>>

-----------------------------------------------------------------------------
(* Statements *)

Index(on, unique) == [on |-> on, unique |-> unique]
Table(null, notnull, fks, indexes) == [null |-> null, notnull |-> notnull, fks |-> fks, indexes |-> indexes]

create_table(t, null, notnull, fks, uniques) ==
    [op |-> "create_table", table |-> t, as |-> Table(null, notnull, fks, {Index(u, TRUE) : u \in uniques})]
drop_table(t) == [op |-> "drop_table", table |-> t]
create_index(t, c, unique) == [op |-> "create_index", table |-> t, index |-> Index({c}, unique)]
create_unique_constraint(t, on) == [op |-> "create_index", table |-> t, index |-> Index(on, TRUE)]
drop_index(t, c, unique) == [op |-> "drop_index", table |-> t, index |-> Index({c}, unique)]
drop_constraint(t, on) == [op |-> "drop_index", table |-> t, index |-> Index(on, TRUE)]
add_column(t, c, null, default) == [op |-> "add_column", table |-> t, col |-> c, null |-> null, default |-> default]
drop_column(t, c) == [op |-> "drop_column", table |-> t, col |-> c]
drop_default(t, c) == [op |-> "drop_default", table |-> t, col |-> c]
create_extension == [op |-> "create_extension", table |-> "vector"]

Columns(table) == table.null \cup table.notnull \cup {"id"}

\* What PostgreSQL checks before it runs s on schema S, with tables R filled.
Accepts(s, S, ext, R) ==
    CASE s.op = "create_table" -> /\ s.table \notin DOMAIN S
                                  /\ \A fk \in s.as.fks : fk[2] \in DOMAIN S
                                  /\ "embedding" \in s.as.notnull => ext
      [] s.op = "drop_table" -> /\ s.table \in DOMAIN S
                                /\ \A t \in DOMAIN S \ {s.table} : \A fk \in S[t].fks : fk[2] # s.table
      [] s.op = "create_extension" -> TRUE
      [] s.table \notin DOMAIN S -> FALSE
      [] s.op = "create_index" -> /\ s.index \notin S[s.table].indexes
                                  /\ s.index.on \subseteq Columns(S[s.table])
                                  /\ s.index.unique /\ s.table \in R => s.index.on \cap S[s.table].null # {}
      [] s.op = "drop_index" -> s.index \in S[s.table].indexes
      [] s.op = "add_column" -> /\ s.col \notin Columns(S[s.table])
                                /\ s.null \/ s.default \/ s.table \notin R
      [] OTHER -> s.col \in Columns(S[s.table])

Put(S, t, table) == [x \in DOMAIN S \cup {t} |-> IF x = t THEN table ELSE S[x]]

\* The schema after s. DROP COLUMN takes the indexes on the column with it.
Run(s, S) ==
    CASE s.op = "create_table" -> Put(S, s.table, s.as)
      [] s.op = "drop_table" -> [t \in DOMAIN S \ {s.table} |-> S[t]]
      [] s.op = "create_index" -> Put(S, s.table, [S[s.table] EXCEPT !.indexes = @ \cup {s.index}])
      [] s.op = "drop_index" -> Put(S, s.table, [S[s.table] EXCEPT !.indexes = @ \ {s.index}])
      [] s.op = "add_column" /\ s.null -> Put(S, s.table, [S[s.table] EXCEPT !.null = @ \cup {s.col}])
      [] s.op = "add_column" /\ ~s.null -> Put(S, s.table, [S[s.table] EXCEPT !.notnull = @ \cup {s.col}])
      [] s.op = "drop_column" -> Put(S, s.table, [S[s.table] EXCEPT !.null = @ \ {s.col}, !.notnull = @ \ {s.col},
                                                                   !.indexes = {i \in @ : s.col \notin i.on}])
      [] OTHER -> S

-----------------------------------------------------------------------------
(* The revisions, in the order of their down_revision *)

OfTenant == <<"tenant_id", "tenants">>
OfPipeline == <<"pipeline_id", "pipelines">>
OfRun == <<"run_id", "pipeline_runs">>

create_tenants_table ==
    [up |-> <<create_table("tenants", {}, {"name", "created_at", "is_active"}, {}, {})>>,
     down |-> <<drop_table("tenants")>>]

create_pipelines_table ==
    [up |-> <<create_table("pipelines", {"description"}, {"tenant_id", "name", "created_at", "is_active"},
                           {OfTenant}, {}),
              create_index("pipelines", "tenant_id", FALSE)>>,
     down |-> <<drop_index("pipelines", "tenant_id", FALSE), drop_table("pipelines")>>]

create_pipeline_steps_table ==
    [up |-> <<create_table("pipeline_steps", {"config"},
                           {"pipeline_id", "step_type", "step_order", "created_at", "is_active"},
                           {OfPipeline}, {{"pipeline_id", "step_order"}}),
              create_index("pipeline_steps", "pipeline_id", FALSE)>>,
     down |-> <<drop_index("pipeline_steps", "pipeline_id", FALSE), drop_table("pipeline_steps")>>]

create_schedules_table ==
    [up |-> <<create_table("schedules", {}, {"pipeline_id", "cron_expression", "timezone", "created_at", "is_active"},
                           {OfPipeline}, {}),
              create_index("schedules", "pipeline_id", TRUE)>>,
     down |-> <<drop_index("schedules", "pipeline_id", TRUE), drop_table("schedules")>>]

create_pipeline_runs_table ==
    [up |-> <<create_table("pipeline_runs",
                           {"started_at", "updated_at", "ended_at", "error_type", "error_message"},
                           {"tenant_id", "pipeline_id", "status", "created_at", "retry_count"},
                           {OfTenant, OfPipeline}, {}),
              create_index("pipeline_runs", "pipeline_id", FALSE), create_index("pipeline_runs", "tenant_id", FALSE)>>,
     down |-> <<drop_index("pipeline_runs", "tenant_id", FALSE), drop_index("pipeline_runs", "pipeline_id", FALSE),
                drop_table("pipeline_runs")>>]

create_agent_recommendations_table ==
    [up |-> <<create_table("agent_recommendations", {"updated_at"},
                           {"tenant_id", "pipeline_id", "run_id", "failure_classification", "recommended_action",
                            "explanation", "status", "created_at"}, {OfTenant, OfPipeline, OfRun}, {}),
              create_index("agent_recommendations", "pipeline_id", FALSE),
              create_index("agent_recommendations", "run_id", FALSE),
              create_index("agent_recommendations", "tenant_id", FALSE)>>,
     down |-> <<drop_index("agent_recommendations", "tenant_id", FALSE),
                drop_index("agent_recommendations", "run_id", FALSE),
                drop_index("agent_recommendations", "pipeline_id", FALSE), drop_table("agent_recommendations")>>]

create_pipeline_circuit_breakers_table ==
    [up |-> <<create_table("pipeline_circuit_breakers", {"failure_reason", "retry_after", "updated_at"},
                           {"tenant_id", "pipeline_id", "state", "created_at"}, {OfTenant, OfPipeline}, {}),
              create_index("pipeline_circuit_breakers", "pipeline_id", TRUE),
              create_index("pipeline_circuit_breakers", "tenant_id", FALSE)>>,
     down |-> <<drop_index("pipeline_circuit_breakers", "tenant_id", FALSE),
                drop_index("pipeline_circuit_breakers", "pipeline_id", TRUE),
                drop_table("pipeline_circuit_breakers")>>]

create_pipeline_webhook_callbacks_table ==
    [up |-> <<create_table("webhook_callbacks", {"payload", "http_status_code", "error_message"},
                           {"tenant_id", "pipeline_id", "run_id", "callback_url", "status", "created_at"},
                           {OfTenant, OfPipeline, OfRun}, {}),
              create_index("webhook_callbacks", "pipeline_id", FALSE),
              create_index("webhook_callbacks", "run_id", FALSE), create_index("webhook_callbacks", "tenant_id", FALSE)>>,
     down |-> <<drop_index("webhook_callbacks", "tenant_id", FALSE), drop_index("webhook_callbacks", "run_id", FALSE),
                drop_index("webhook_callbacks", "pipeline_id", FALSE), drop_table("webhook_callbacks")>>]

add_callback_url_to_pipelines ==
    [up |-> <<add_column("pipelines", "callback_url", TRUE, FALSE)>>,
     down |-> <<drop_column("pipelines", "callback_url")>>]

create_api_keys_table ==
    [up |-> <<create_table("api_keys", {"revoked_at"}, {"tenant_id", "name", "key_prefix", "key_hash", "created_at"},
                           {OfTenant}, {{"tenant_id", "name"}}),
              create_index("api_keys", "key_hash", TRUE), create_index("api_keys", "tenant_id", FALSE)>>,
     down |-> <<drop_index("api_keys", "tenant_id", FALSE), drop_index("api_keys", "key_hash", TRUE),
                drop_table("api_keys")>>]

\* The breakers that exist get 3 and 60; the defaults are then left to the code.
add_failure_threshold_variables ==
    [up |-> <<add_column("pipeline_circuit_breakers", "failure_count_threshold", FALSE, TRUE),
              add_column("pipeline_circuit_breakers", "failure_window_minutes", FALSE, TRUE),
              drop_default("pipeline_circuit_breakers", "failure_count_threshold"),
              drop_default("pipeline_circuit_breakers", "failure_window_minutes")>>,
     down |-> <<drop_column("pipeline_circuit_breakers", "failure_window_minutes"),
                drop_column("pipeline_circuit_breakers", "failure_count_threshold")>>]

\* The extension is created if it is missing, and never dropped.
create_incident_embeddings_table ==
    [up |-> <<create_extension,
              create_table("incident_embeddings", {"source_id", "source_ref", "tenant_id", "meta"},
                           {"source_type", "chunk_text", "embedding", "created_at"}, {OfTenant}, {}),
              create_index("incident_embeddings", "source_type", FALSE),
              create_index("incident_embeddings", "tenant_id", FALSE),
              create_index("incident_embeddings", "embedding", FALSE)>>,
     down |-> <<drop_index("incident_embeddings", "embedding", FALSE),
                drop_index("incident_embeddings", "tenant_id", FALSE),
                drop_index("incident_embeddings", "source_type", FALSE), drop_table("incident_embeddings")>>]

add_idempotency_key_to_pipeline_runs ==
    [up |-> <<add_column("pipeline_runs", "idempotency_key", TRUE, FALSE),
              create_unique_constraint("pipeline_runs", {"pipeline_id", "idempotency_key"})>>,
     down |-> <<drop_constraint("pipeline_runs", {"pipeline_id", "idempotency_key"}),
                drop_column("pipeline_runs", "idempotency_key")>>]

Revisions ==
    <<create_tenants_table, create_pipelines_table, create_pipeline_steps_table, create_schedules_table,
      create_pipeline_runs_table, create_agent_recommendations_table, create_pipeline_circuit_breakers_table,
      create_pipeline_webhook_callbacks_table, add_callback_url_to_pipelines, create_api_keys_table,
      add_failure_threshold_variables, create_incident_embeddings_table, add_idempotency_key_to_pipeline_runs>>

Newest == Len(Revisions)
NoTables == [t \in {} |-> {}]

ASSUME TargetsAssumption == Targets \subseteq 0..Newest
ASSUME CrashesAssumption == MaxCrashes \in Nat

\* The schema of each version, as the upgrades build it.
SchemaOf(v) == FoldLeft(LAMBDA S, s : Run(s, S), NoTables, FlattenSeq([i \in 1..v |-> Revisions[i].up]))

-----------------------------------------------------------------------------
(* The tables of the models: control_plane/app/models *)

Plain(cs) == {Index({c}, FALSE) : c \in cs}

Tenant == Table({}, {"name", "created_at", "is_active"}, {}, {})
Pipeline == Table({"description", "callback_url"}, {"tenant_id", "name", "created_at", "is_active"},
                  {OfTenant}, Plain({"tenant_id"}))
PipelineStep == Table({"config"}, {"pipeline_id", "step_type", "step_order", "created_at", "is_active"}, {OfPipeline},
                      Plain({"pipeline_id"}) \cup {Index({"pipeline_id", "step_order"}, TRUE)})
Schedule == Table({}, {"pipeline_id", "cron_expression", "timezone", "created_at", "is_active"},
                  {OfPipeline}, {Index({"pipeline_id"}, TRUE)})
PipelineRun ==
    Table({"started_at", "updated_at", "ended_at", "error_type", "error_message", "idempotency_key"},
          {"tenant_id", "pipeline_id", "status", "created_at", "retry_count"}, {OfTenant, OfPipeline},
          Plain({"tenant_id", "pipeline_id"}) \cup {Index({"pipeline_id", "idempotency_key"}, TRUE)})
AgentRecommendation ==
    Table({"updated_at"}, {"tenant_id", "pipeline_id", "run_id", "failure_classification", "recommended_action",
                           "explanation", "status", "created_at"},
          {OfTenant, OfPipeline, OfRun}, Plain({"tenant_id", "pipeline_id", "run_id"}))
PipelineCircuitBreaker ==
    Table({"failure_reason", "retry_after", "updated_at"},
          {"tenant_id", "pipeline_id", "state", "created_at", "failure_count_threshold", "failure_window_minutes"},
          {OfTenant, OfPipeline}, Plain({"tenant_id"}) \cup {Index({"pipeline_id"}, TRUE)})
WebhookCallback ==
    Table({"payload", "http_status_code", "error_message"},
          {"tenant_id", "pipeline_id", "run_id", "callback_url", "status", "created_at"},
          {OfTenant, OfPipeline, OfRun}, Plain({"tenant_id", "pipeline_id", "run_id"}))
APIKey == Table({"revoked_at"}, {"tenant_id", "name", "key_prefix", "key_hash", "created_at"}, {OfTenant},
                Plain({"tenant_id"}) \cup {Index({"tenant_id", "name"}, TRUE), Index({"key_hash"}, TRUE)})
IncidentEmbedding ==
    Table({"source_id", "source_ref", "tenant_id", "meta"}, {"source_type", "chunk_text", "embedding", "created_at"},
          {OfTenant}, Plain({"source_type", "tenant_id"}))

Models == [tenants |-> Tenant, pipelines |-> Pipeline, pipeline_steps |-> PipelineStep, schedules |-> Schedule,
           pipeline_runs |-> PipelineRun, agent_recommendations |-> AgentRecommendation,
           pipeline_circuit_breakers |-> PipelineCircuitBreaker, webhook_callbacks |-> WebhookCallback,
           api_keys |-> APIKey, incident_embeddings |-> IncidentEmbedding]

\* The HNSW index, which only the migration knows.
OnlyInDatabase == [incident_embeddings |-> Plain({"embedding"})]

Declared == [t \in DOMAIN Models |-> IF t \in DOMAIN OnlyInDatabase
                                     THEN [Models[t] EXCEPT !.indexes = @ \cup OnlyInDatabase[t]] ELSE Models[t]]

-----------------------------------------------------------------------------
(* alembic/env.py *)

\* A migrator: the version it read, the one it is asked for and the one its
\* transaction has reached, the transaction's copy of the schema, what is left
\* of the current revision, and whether it holds locks.
Idle == [at |-> "idle", from |-> 0, to |-> 0, now |-> 0, work |-> NoTables, ext |-> FALSE,
         todo |-> <<>>, locked |-> {}]

\* Statements of the revision that leads from version v towards version to.
Script(v, to) == IF to > v THEN Revisions[v + 1].up ELSE Revisions[v].down

\* The tables and the row of alembic_version are locked by a transaction.
Blocked(m) == \E n \in Migrators \ {m} : mig[n].locked # {}

Rollback(m, label) == /\ mig' = [mig EXCEPT ![m] = [Idle EXCEPT !.at = label]]
                      /\ UNCHANGED <<tables, vector, version, rows>>

\* The version is read and the revisions to run are planned.
Connect(m) ==
    /\ mig[m].at = "idle"
    /\ \E to \in Targets \ {version} :
         mig' = [mig EXCEPT ![m] = [Idle EXCEPT !.at = "migrating", !.from = version, !.now = version, !.to = to,
                                                !.todo = Script(version, to)]]
    /\ UNCHANGED <<tables, vector, version, rows, crashes>>

\* Another migrator was first: the UPDATE of alembic_version matches no row, or
\* a statement fails before that.
Lost(m) ==
    /\ mig[m].at = "migrating" /\ mig[m].locked = {} /\ ~Blocked(m)
    /\ mig[m].from # version
    /\ Rollback(m, "idle") /\ UNCHANGED crashes

\* Plausible bug: every statement commits by itself.
Statement_Autocommit(m) ==
    /\ mig[m].at = "migrating" /\ mig[m].todo # <<>> /\ ~Blocked(m)
    /\ mig[m].locked = {} => mig[m].from = version
    /\ LET s == Head(mig[m].todo)
       IN  IF Accepts(s, tables, vector, rows)
           THEN /\ tables' = Run(s, tables)
                /\ vector' = (vector \/ s.op = "create_extension")
                /\ mig' = [mig EXCEPT ![m].work = tables', ![m].ext = vector', ![m].todo = Tail(@),
                                      ![m].locked = @ \cup {s.table}]
                /\ UNCHANGED <<version, rows>>
           ELSE Rollback(m, "rejected")
    /\ UNCHANGED crashes

\* The next statement, inside the transaction.
Statement(m) ==
    /\ mig[m].at = "migrating" /\ mig[m].todo # <<>> /\ ~Blocked(m)
    /\ mig[m].locked = {} => mig[m].from = version
    /\ LET s == Head(mig[m].todo)
           S == IF mig[m].locked = {} THEN tables ELSE mig[m].work
           ext == IF mig[m].locked = {} THEN vector ELSE mig[m].ext
       IN  IF Accepts(s, S, ext, rows)
           THEN /\ mig' = [mig EXCEPT ![m].work = Run(s, S), ![m].ext = ext \/ s.op = "create_extension",
                                      ![m].todo = Tail(@), ![m].locked = @ \cup {s.table}]
                /\ UNCHANGED <<tables, vector, version, rows>>
           ELSE Rollback(m, "rejected")
    /\ UNCHANGED crashes

\* Plausible bug: a downgrade records the version below the one it reached.
Advance_DownTooFar(m) ==
    /\ mig[m].at = "migrating" /\ mig[m].todo = <<>>
    /\ LET v == IF mig[m].to > mig[m].now THEN mig[m].now + 1 ELSE mig[m].now - 1
       IN  IF v # mig[m].to
           THEN /\ mig' = [mig EXCEPT ![m].now = v, ![m].todo = Script(v, mig[m].to)]
                /\ UNCHANGED <<tables, vector, version, rows>>
           ELSE /\ tables' = mig[m].work /\ vector' = mig[m].ext /\ version' = IF v < mig[m].from THEN v - 1 ELSE v
                /\ rows' = rows \cap DOMAIN mig[m].work
                /\ mig' = [mig EXCEPT ![m] = Idle]
    /\ UNCHANGED crashes

\* A revision is complete: go on to the next one, or commit.
Advance(m) ==
    /\ mig[m].at = "migrating" /\ mig[m].todo = <<>>
    /\ LET v == IF mig[m].to > mig[m].now THEN mig[m].now + 1 ELSE mig[m].now - 1
       IN  IF v # mig[m].to
           THEN /\ mig' = [mig EXCEPT ![m].now = v, ![m].todo = Script(v, mig[m].to)]
                /\ UNCHANGED <<tables, vector, version, rows>>
           ELSE /\ tables' = mig[m].work /\ vector' = mig[m].ext /\ version' = v
                /\ rows' = rows \cap DOMAIN mig[m].work
                /\ mig' = [mig EXCEPT ![m] = Idle]
    /\ UNCHANGED crashes

\* The migrator or its connection dies; PostgreSQL rolls back.
Crash(m) == /\ mig[m].at = "migrating" /\ crashes < MaxCrashes /\ crashes' = crashes + 1
            /\ Rollback(m, "idle")

\* The application inserts into a table no transaction has touched.
Insert(t) == /\ t \in DOMAIN tables \ rows
             /\ \A m \in Migrators : t \notin mig[m].locked
             /\ \A fk \in tables[t].fks : fk[2] \in rows
             /\ rows' = rows \cup {t}
             /\ UNCHANGED <<tables, vector, version, mig, crashes>>

Init == /\ tables = NoTables /\ vector = FALSE /\ version = 0 /\ rows = {}
        /\ mig = [m \in Migrators |-> Idle] /\ crashes = 0

Next == \/ \E m \in Migrators : Connect(m) \/ Lost(m) \/ Statement(m) \/ Advance(m) \/ Crash(m)
        \/ \E t \in Filled : Insert(t)

Spec == Init /\ [][Next]_vars

-----------------------------------------------------------------------------
(* Properties *)

\* A column is nullable or not, the version is one there is, and only tables
\* that exist have rows.
TypeOK == /\ \A t \in DOMAIN tables : tables[t].null \cap tables[t].notnull = {}
          /\ vector \in BOOLEAN /\ version \in 0..Newest /\ crashes \in 0..MaxCrashes
          /\ rows \subseteq Filled \cap DOMAIN tables
          /\ \A m \in Migrators : mig[m].at \in {"idle", "migrating", "rejected"} /\ mig[m].now \in 0..Newest

\* The committed schema is that of the recorded version, at every moment:
\* a downgrade undoes its upgrade, and neither a crash nor a second migrator
\* leaves a part of a revision behind.
SchemaIsRevision == tables = SchemaOf(version)

\* At the newest version the database is what the models declare, and the
\* vector index.
HeadMatchesModels == version = Newest => tables = Declared

\* No statement of any revision, up or down, is rejected by PostgreSQL, with
\* rows in the tables or without, from any version.
NoMigrationFails == \A m \in Migrators : mig[m].at # "rejected"

\* The committed schema is always that of a version, and the newest version is
\* what the models declare.
SchemaSound == TypeOK /\ SchemaIsRevision /\ HeadMatchesModels
=============================================================================
