---------------------------- MODULE ControlPlane ----------------------------
(***************************************************************************)
(* The control plane's resource API: tenants, API keys, pipelines, steps   *)
(* and schedules (control_plane/app/routes and services), with the checks  *)
(* of control_plane/app/dependencies.py at its door.  Several requests are *)
(* served at the same time; each of their SQL statements is a step.        *)
(*                                                                         *)
(* A row has a kind, an id, the id of the row it belongs to, the value of  *)
(* its unique column (key name, step_order) in "slot", and a flag: is_active *)
(* of a tenant, pipeline, step or schedule, "revoked_at is null" of a key. *)
(* A request that creates a row gives it its own name as the id.           *)
(***************************************************************************)
EXTENDS Integers, FiniteSets

CONSTANTS Callers,        \* the requests
          Requests(_),    \* what a caller may ask for
          Seed,           \* the rows at the start
          Admin,          \* the admin secret, given in place of a key
          NoRequest,
          MaxFaults       \* database errors

VARIABLES db,       \* the rows
          req,      \* the request of each caller
          at,       \* where its handler is
          saw,      \* the rows it has loaded, and at the end returned
          answer,   \* its HTTP status, 0 for none yet
          wrote,    \* the callers whose transaction changed the tables
          barred,   \* the callers whose key was dead when they arrived
          bereft,   \* the callers who had loaded a row that was then deleted
          faults

vars == <<db, req, at, saw, answer, wrote, barred, bereft, faults>>

Kinds == {"tenant", "key", "pipeline", "breaker", "step", "schedule"}

\* The table a foreign key refers to.
Parent == [key |-> "tenant", pipeline |-> "tenant",
           breaker |-> "pipeline", step |-> "pipeline", schedule |-> "pipeline"]

Row(kind, id, of, slot) == [kind |-> kind, id |-> id, of |-> of, slot |-> slot, active |-> "on"]
Of(kind, id) == {r \in db : r.kind = kind /\ r.id = id}
In(kind, of) == {r \in db : r.kind = kind /\ r.of = of}

\* Plausible bug: the cascade stops at the first level.
Below_OneLevel(rows) ==
    rows \cup {r \in db : \E p \in rows : r.kind # "tenant" /\ Parent[r.kind] = p.kind /\ r.of = p.id}

\* What ON DELETE CASCADE deletes together with rows.
Below(rows) ==
    LET Children(ps) == {r \in db : \E p \in ps : r.kind # "tenant" /\ Parent[r.kind] = p.kind /\ r.of = p.id}
    IN  rows \cup Children(rows) \cup Children(Children(rows))

\* Plausible bug: no unique constraint on (pipeline_id, step_order).
UniqueColumns_NoStepOrder == {"key", "breaker", "schedule"}

\* uq_tenant_key_name, uq_pipeline_step_order, and the unique pipeline_id of
\* breakers and schedules, whose slot is always the same.
UniqueColumns == {"key", "breaker", "step", "schedule"}

\* Plausible bug: the columns are left nullable.
Accepted_Nullable(r, others) ==
    /\ r.kind # "tenant" => \E p \in others : p.kind = Parent[r.kind] /\ p.id = r.of
    /\ r.kind \in UniqueColumns =>
           ~\E s \in others : s.kind = r.kind /\ s.of = r.of /\ s.slot = r.slot /\ s.id # r.id

\* The constraints a statement that leaves the table with r is checked for.
Accepted(r, others) ==
    /\ r.kind # "tenant" => \E p \in others : p.kind = Parent[r.kind] /\ p.id = r.of
    /\ r.kind \in UniqueColumns =>
           ~\E s \in others : s.kind = r.kind /\ s.of = r.of /\ s.slot = r.slot /\ s.id # r.id
    /\ r.slot # "null" /\ r.active # "null"

\* Rows of every table, each with an id and unique columns of its own, below the
\* row it belongs to, each pipeline with its breaker; new rows get new ids.
ASSUME SeedAssumption ==
    /\ \A r \in Seed : /\ r = [kind |-> r.kind, id |-> r.id, of |-> r.of, slot |-> r.slot, active |-> r.active]
                       /\ r.kind \in Kinds /\ r.slot # "null" /\ r.active \in {"on", "off"}
                       /\ r.id \notin Callers
                       /\ r.kind # "tenant" => \E p \in Seed : p.kind = Parent[r.kind] /\ p.id = r.of
    /\ \A r, s \in Seed : /\ r.kind = s.kind /\ r.id = s.id => r = s
                          /\ r.kind \in UniqueColumns /\ r.kind = s.kind /\ r.of = s.of /\ r.slot = s.slot => r = s
    /\ \A p \in Seed : p.kind = "pipeline" =>
           \E b \in Seed : {r \in Seed : r.kind = "breaker" /\ r.of = p.id} = {b}

UpdateOps == {"update_tenant", "update_pipeline", "update_pipeline_step", "update_schedule"}

\* A PUT may leave every column out, and a column it gives may be null.
ASSUME RequestsAssumption ==
    \A c \in Callers : \A q \in Requests(c) : q.op \in UpdateOps =>
        /\ q.column \in {"none", "slot", "active"}
        /\ q.column = "active" => q.value \in {"on", "off", "null"}

ASSUME FaultsAssumption == MaxFaults \in Nat

-----------------------------------------------------------------------------
(* Control of one request *)

Goto(c, label, rows) == /\ at' = [at EXCEPT ![c] = label]
                        /\ saw' = [saw EXCEPT ![c] = rows]
                        /\ UNCHANGED <<req, answer, barred>>

Done(c, code, rows) == /\ at' = [at EXCEPT ![c] = "done"]
                       /\ saw' = [saw EXCEPT ![c] = rows]
                       /\ answer' = [answer EXCEPT ![c] = code]
                       /\ req' = [req EXCEPT ![c] = NoRequest]
                       /\ UNCHANGED barred

Keep == UNCHANGED <<db, wrote, bereft>>

Commit(c, rows) == /\ db' = rows
                   /\ wrote' = IF rows = db THEN wrote ELSE wrote \cup {c}
                   /\ bereft' = bereft \cup {d \in Callers : \E r \in saw[d] :
                                                ~\E s \in rows : s.kind = r.kind /\ s.id = r.id}

Fault == faults < MaxFaults /\ faults' = faults + 1

\* A COMMIT that is the last statement: its confirmation may be lost.
Committed(c, code) == \/ Done(c, code, {}) /\ UNCHANGED faults
                      \/ Done(c, 500, {}) /\ Fault

\* SELECT of the row the new or deleted row belongs to.
LoadOwner(c, owner, codes, next) ==
    /\ at[c] = "load" /\ Keep /\ UNCHANGED faults
    /\ IF owner = {} THEN Done(c, codes.none, {}) ELSE Goto(c, next, {})

Get(c, found, codes) ==
    /\ at[c] = "load" /\ Keep /\ UNCHANGED faults
    /\ Done(c, IF found = {} THEN codes.none ELSE codes.ok, found)

List(c, found, codes) == /\ at[c] = "list" /\ Keep /\ UNCHANGED faults
                         /\ Done(c, codes.ok, found)

\* Plausible bug: the row is fetched again, and a missing one means 404.
Refresh_Gone(c, codes) ==
    /\ at[c] = "refresh" /\ Keep /\ UNCHANGED faults
    /\ \E r \in saw[c] : Done(c, IF Of(r.kind, r.id) = {} THEN 404 ELSE codes.ok, {})

\* session.refresh: a row that is gone by now is an error.
Refresh(c, codes) ==
    /\ at[c] = "refresh" /\ Keep /\ UNCHANGED faults
    /\ \E r \in saw[c] : Done(c, IF Of(r.kind, r.id) = {} THEN codes.error ELSE codes.ok, {})

\* The first of the new rows is the one the request asked for.
Insert(c, new, codes) ==
    /\ at[c] = "insert" /\ UNCHANGED faults
    /\ IF \A i \in DOMAIN new : Accepted(new[i], db \cup {new[j] : j \in DOMAIN new})
       THEN Commit(c, db \cup {new[i] : i \in DOMAIN new}) /\ Goto(c, "refresh", {new[1]})
       ELSE Keep /\ Done(c, codes.integrity, {})

\* The exception a service raises after its own SELECT for a duplicate.
CheckFree(c, found, codes) ==
    /\ at[c] = "check" /\ Keep /\ UNCHANGED faults
    /\ IF found # {} THEN Done(c, codes.duplicate, {}) ELSE Goto(c, "insert", {})

LoadForUpdate(c, found, codes) ==
    /\ at[c] = "load" /\ Keep /\ UNCHANGED faults
    /\ IF found = {} THEN Done(c, codes.none, {})
       ELSE IF req[c].column = "none" THEN Done(c, codes.value, {})
       ELSE Goto(c, "update", found)

\* The flush writes the column only if it differs from the loaded object; an
\* UPDATE that matches no row is an error.
Update(c, codes) ==
    /\ at[c] = "update" /\ UNCHANGED faults
    /\ \E r \in saw[c] :
         LET now == Of(r.kind, r.id)
             new == {[s EXCEPT ![req[c].column] = req[c].value] : s \in now}
         IN  IF r[req[c].column] = req[c].value THEN Keep /\ Goto(c, "refresh", saw[c])
             ELSE IF now = {} THEN Keep /\ Done(c, codes.error, {})
             ELSE IF \A s \in new : Accepted(s, db \ now)
             THEN Commit(c, (db \ now) \cup new) /\ Goto(c, "refresh", saw[c])
             ELSE Keep /\ Done(c, codes.integrity, {})

Delete(c, found, codes) ==
    /\ at[c] = "delete"
    /\ IF found = {} THEN Keep /\ UNCHANGED faults /\ Done(c, codes.none, {})
       ELSE Commit(c, db \ Below(found)) /\ Committed(c, codes.ok)

-----------------------------------------------------------------------------
(* Tenants: services/tenants.py and routes/tenants.py *)

Tenant(c) == Of("tenant", req[c].tenant)

create_tenant == [ok |-> 201, integrity |-> 409, error |-> 500]
get_tenant == [ok |-> 200, none |-> 404]
get_all_tenants == [ok |-> 200]
delete_tenant == [ok |-> 204, none |-> 404]
update_tenant == [ok |-> 200, none |-> 404, value |-> 400, integrity |-> 409, error |-> 500]

\* A tenant and its key "primary", in one transaction.
create_tenant_service(c) ==
    \/ at[c] = "load" /\ Keep /\ Goto(c, "insert", {}) /\ UNCHANGED faults
    \/ Insert(c, <<Row("tenant", c, c, "-"), Row("key", c, c, "primary")>>, create_tenant)
    \/ Refresh(c, create_tenant)

get_tenant_service(c) == Get(c, Tenant(c), get_tenant)

get_all_tenants_service(c) ==
    \/ at[c] = "load" /\ Keep /\ Goto(c, "list", {}) /\ UNCHANGED faults
    \/ List(c, {r \in db : r.kind = "tenant"}, get_all_tenants)

delete_tenant_service(c) ==
    \/ at[c] = "load" /\ Keep /\ Goto(c, "delete", {}) /\ UNCHANGED faults
    \/ Delete(c, Tenant(c), delete_tenant)

update_tenant_service(c) ==
    LoadForUpdate(c, Tenant(c), update_tenant) \/ Update(c, update_tenant) \/ Refresh(c, update_tenant)

-----------------------------------------------------------------------------
(* API keys: services/api_keys.py and routes/api_keys.py *)

create_api_key == [ok |-> 201, none |-> 404, integrity |-> 409, error |-> 500]
get_api_key == [ok |-> 200, none |-> 404]
get_all_api_keys == [ok |-> 200, none |-> 404]
revoke_api_key == [ok |-> 200, none |-> 404, error |-> 500]

\* The SELECT by id and tenant that get and revoke share.
ApiKey(c) == Of("key", req[c].row) \cap In("key", req[c].tenant)

create_api_key_service(c) ==
    \/ LoadOwner(c, Tenant(c), create_api_key, "insert")
    \/ Insert(c, <<Row("key", c, req[c].tenant, req[c].value)>>, create_api_key)
    \/ Refresh(c, create_api_key)

get_api_key_service(c) == Get(c, ApiKey(c), get_api_key)

get_all_api_keys_service(c) == \/ LoadOwner(c, Tenant(c), get_all_api_keys, "list")
                               \/ List(c, In("key", req[c].tenant), get_all_api_keys)

\* A key that is revoked already is answered as it is; there is no refresh.
revoke_api_key_service(c) ==
    \/ /\ at[c] = "load" /\ Keep /\ UNCHANGED faults
       /\ LET found == ApiKey(c)
          IN  IF found = {} THEN Done(c, revoke_api_key.none, {})
              ELSE IF \E r \in found : r.active = "off" THEN Done(c, revoke_api_key.ok, {})
              ELSE Goto(c, "revoke", found)
    \/ /\ at[c] = "revoke"
       /\ \E r \in saw[c] :
            LET now == Of("key", r.id)
            IN  IF now = {} THEN Keep /\ Done(c, revoke_api_key.error, {}) /\ UNCHANGED faults
                ELSE /\ Commit(c, (db \ now) \cup {[s EXCEPT !.active = "off"] : s \in now})
                     /\ Committed(c, revoke_api_key.ok)

-----------------------------------------------------------------------------
(* Pipelines: services/pipelines.py and routes/pipelines.py *)

create_pipeline == [ok |-> 201, none |-> 404, integrity |-> 409, error |-> 500]
get_pipeline == [ok |-> 200, none |-> 404]
get_all_pipelines == [ok |-> 200, none |-> 404]
delete_pipeline == [ok |-> 204, none |-> 404]
update_pipeline == [ok |-> 200, none |-> 404, value |-> 400, integrity |-> 409, error |-> 500]

\* The SELECT by id and tenant.
Pipeline(c) == Of("pipeline", req[c].pipeline) \cap In("pipeline", req[c].tenant)

\* Plausible bug: the breaker is left to be created when it is first needed.
create_pipeline_service_NoBreaker(c) ==
    \/ LoadOwner(c, Tenant(c), create_pipeline, "insert")
    \/ Insert(c, <<Row("pipeline", c, req[c].tenant, "-")>>, create_pipeline)
    \/ Refresh(c, create_pipeline)

\* A pipeline and its circuit breaker, in one transaction.
create_pipeline_service(c) ==
    \/ LoadOwner(c, Tenant(c), create_pipeline, "insert")
    \/ Insert(c, <<Row("pipeline", c, req[c].tenant, "-"), Row("breaker", c, c, "-")>>, create_pipeline)
    \/ Refresh(c, create_pipeline)

get_pipeline_service(c) == Get(c, Pipeline(c), get_pipeline)

get_all_pipelines_service(c) == \/ LoadOwner(c, Tenant(c), get_all_pipelines, "list")
                                \/ List(c, In("pipeline", req[c].tenant), get_all_pipelines)

delete_pipeline_service(c) ==
    \/ at[c] = "load" /\ Keep /\ Goto(c, "delete", {}) /\ UNCHANGED faults
    \/ Delete(c, Pipeline(c), delete_pipeline)

update_pipeline_service(c) ==
    LoadForUpdate(c, Pipeline(c), update_pipeline) \/ Update(c, update_pipeline) \/ Refresh(c, update_pipeline)

-----------------------------------------------------------------------------
(* Steps: services/pipeline_steps.py and routes/pipeline_steps.py *)

\* Plausible bug: only the service's own exception is turned into a 409.
create_pipeline_step_NoIntegrity == [ok |-> 201, none |-> 404, duplicate |-> 409, integrity |-> 500, error |-> 500]

create_pipeline_step == [ok |-> 201, none |-> 404, duplicate |-> 409, integrity |-> 409, error |-> 500]
get_pipeline_step == [ok |-> 200, none |-> 404]
get_all_pipeline_steps == [ok |-> 200, none |-> 404]
delete_pipeline_step == [ok |-> 204, none |-> 404]
update_pipeline_step == [ok |-> 200, none |-> 404, value |-> 400, integrity |-> 409, error |-> 500]

\* The join of a step with its pipeline that get and update share.
Step(c) == Of("step", req[c].row) \cap In("step", req[c].pipeline) \cap {r \in db : Pipeline(c) # {}}

create_pipeline_step_service(c) ==
    \/ LoadOwner(c, Pipeline(c), create_pipeline_step, "check")
    \/ CheckFree(c, {r \in In("step", req[c].pipeline) : r.slot = req[c].value}, create_pipeline_step)
    \/ Insert(c, <<Row("step", c, req[c].pipeline, req[c].value)>>, create_pipeline_step)
    \/ Refresh(c, create_pipeline_step)

get_pipeline_step_service(c) == Get(c, Step(c), get_pipeline_step)

\* Plausible bug: the steps are listed by the pipeline's id alone.
get_all_pipeline_steps_service_AnyOwner(c) ==
    \/ LoadOwner(c, Of("pipeline", req[c].pipeline), get_all_pipeline_steps, "list")
    \/ List(c, In("step", req[c].pipeline), get_all_pipeline_steps)

get_all_pipeline_steps_service(c) ==
    \/ LoadOwner(c, Pipeline(c), get_all_pipeline_steps, "list")
    \/ List(c, In("step", req[c].pipeline), get_all_pipeline_steps)

delete_pipeline_step_service(c) ==
    \/ LoadOwner(c, Pipeline(c), delete_pipeline_step, "delete")
    \/ Delete(c, Of("step", req[c].row) \cap In("step", req[c].pipeline), delete_pipeline_step)

\* Plausible bug: the step is looked up by its id and pipeline, without the join.
update_pipeline_step_service_NoJoin(c) ==
    \/ LoadForUpdate(c, Of("step", req[c].row) \cap In("step", req[c].pipeline), update_pipeline_step)
    \/ Update(c, update_pipeline_step)
    \/ Refresh(c, update_pipeline_step)

update_pipeline_step_service(c) ==
    LoadForUpdate(c, Step(c), update_pipeline_step) \/ Update(c, update_pipeline_step)
        \/ Refresh(c, update_pipeline_step)

-----------------------------------------------------------------------------
(* Schedules: services/schedules.py and routes/schedules.py *)

create_schedule == [ok |-> 201, none |-> 404, duplicate |-> 409, integrity |-> 409, error |-> 500]
get_schedule == [ok |-> 200, none |-> 404]
delete_schedule == [ok |-> 204, none |-> 404]
update_schedule == [ok |-> 200, none |-> 404, value |-> 400, integrity |-> 409, error |-> 500]

\* The join of the schedule with its pipeline that get and update share.
Schedule(c) == {r \in In("schedule", req[c].pipeline) : Pipeline(c) # {}}

create_schedule_service(c) ==
    \/ LoadOwner(c, Pipeline(c), create_schedule, "check")
    \/ CheckFree(c, In("schedule", req[c].pipeline), create_schedule)
    \/ Insert(c, <<Row("schedule", c, req[c].pipeline, "-")>>, create_schedule)
    \/ Refresh(c, create_schedule)

get_schedule_service(c) == Get(c, Schedule(c), get_schedule)

delete_schedule_service(c) == \/ LoadOwner(c, Pipeline(c), delete_schedule, "delete")
                              \/ Delete(c, In("schedule", req[c].pipeline), delete_schedule)

update_schedule_service(c) ==
    LoadForUpdate(c, Schedule(c), update_schedule) \/ Update(c, update_schedule) \/ Refresh(c, update_schedule)

-----------------------------------------------------------------------------
(* The door: dependencies.py and the routers of main.py *)

verify_admin(c) ==
    IF req[c].key = Admin THEN Goto(c, "load", {}) ELSE Done(c, 401, {})

\* Plausible bug: the lookup does not ask whether the key was revoked.
verify_tenant_AnyKey(c) ==
    LET keys == Of("key", req[c].key)
    IN  IF keys = {} THEN Done(c, 401, {})
        ELSE IF Tenant(c) = {} \/ \E k \in keys : k.of # req[c].tenant THEN Done(c, 403, {})
        ELSE IF \E t \in Tenant(c) : t.active # "on" THEN Done(c, 403, {})
        ELSE Goto(c, "load", {})

\* Plausible bug: the path may name any tenant.
verify_tenant_AnyTenant(c) ==
    LET keys == {k \in Of("key", req[c].key) : k.active = "on"}
    IN  IF keys = {} THEN Done(c, 401, {})
        ELSE IF \E k \in keys, t \in db : t.kind = "tenant" /\ t.id = k.of /\ t.active # "on" THEN Done(c, 403, {})
        ELSE Goto(c, "load", {})

\* The key's hash is looked up among the keys that are not revoked, joined
\* with their tenant; then the path must name that tenant, and it be active.
verify_tenant(c) ==
    LET keys == {k \in Of("key", req[c].key) : k.active = "on"}
    IN  IF keys = {} THEN Done(c, 401, {})
        ELSE IF \E k \in keys : k.of # req[c].tenant THEN Done(c, 403, {})
        ELSE IF \E t \in Tenant(c) : t.active # "on" THEN Done(c, 403, {})
        ELSE Goto(c, "load", {})

TenantOps == {"create_tenant", "get_tenant", "get_all_tenants", "delete_tenant", "update_tenant"}

\* Plausible bug: the routes of the API keys are given to the admin.
Door_KeysToAdmin(c) ==
    /\ at[c] = "verify" /\ Keep /\ UNCHANGED faults
    /\ IF req[c].op \in TenantOps \cup {"create_api_key"} THEN verify_admin(c) ELSE verify_tenant(c)

\* Every router but the tenants' is included with verify_tenant.
Door(c) ==
    /\ at[c] = "verify" /\ Keep /\ UNCHANGED faults
    /\ IF req[c].op \in TenantOps THEN verify_admin(c) ELSE verify_tenant(c)

Serve(c) ==
    /\ at[c] \notin {"idle", "verify", "done"}
    /\ \/ req[c].op = "create_tenant" /\ create_tenant_service(c)
       \/ req[c].op = "get_tenant" /\ get_tenant_service(c)
       \/ req[c].op = "get_all_tenants" /\ get_all_tenants_service(c)
       \/ req[c].op = "delete_tenant" /\ delete_tenant_service(c)
       \/ req[c].op = "update_tenant" /\ update_tenant_service(c)
       \/ req[c].op = "create_api_key" /\ create_api_key_service(c)
       \/ req[c].op = "get_api_key" /\ get_api_key_service(c)
       \/ req[c].op = "get_all_api_keys" /\ get_all_api_keys_service(c)
       \/ req[c].op = "revoke_api_key" /\ revoke_api_key_service(c)
       \/ req[c].op = "create_pipeline" /\ create_pipeline_service(c)
       \/ req[c].op = "get_pipeline" /\ get_pipeline_service(c)
       \/ req[c].op = "get_all_pipelines" /\ get_all_pipelines_service(c)
       \/ req[c].op = "delete_pipeline" /\ delete_pipeline_service(c)
       \/ req[c].op = "update_pipeline" /\ update_pipeline_service(c)
       \/ req[c].op = "create_pipeline_step" /\ create_pipeline_step_service(c)
       \/ req[c].op = "get_pipeline_step" /\ get_pipeline_step_service(c)
       \/ req[c].op = "get_all_pipeline_steps" /\ get_all_pipeline_steps_service(c)
       \/ req[c].op = "delete_pipeline_step" /\ delete_pipeline_step_service(c)
       \/ req[c].op = "update_pipeline_step" /\ update_pipeline_step_service(c)
       \/ req[c].op = "create_schedule" /\ create_schedule_service(c)
       \/ req[c].op = "get_schedule" /\ get_schedule_service(c)
       \/ req[c].op = "delete_schedule" /\ delete_schedule_service(c)
       \/ req[c].op = "update_schedule" /\ update_schedule_service(c)

LiveKey(k) == \E r \in Of("key", k) : r.active = "on"

\* A new key is known to nobody before its creation is answered.
Arrive(c) ==
    /\ at[c] = "idle"
    /\ \E q \in Requests(c) :
         /\ q.key \in Callers => answer[q.key] = 201
         /\ req' = [req EXCEPT ![c] = q]
         /\ barred' = IF q.op \in TenantOps \/ LiveKey(q.key) THEN barred ELSE barred \cup {c}
    /\ at' = [at EXCEPT ![c] = "verify"]
    /\ UNCHANGED <<db, saw, answer, wrote, bereft, faults>>

\* A statement fails, or the connection is lost: the transaction is rolled
\* back and the answer is 500, from the route or from the framework.
DatabaseFails(c) == /\ at[c] \notin {"idle", "done"}
                    /\ Fault /\ Keep /\ Done(c, 500, {})

Init == /\ db = Seed
        /\ req = [c \in Callers |-> NoRequest]
        /\ at = [c \in Callers |-> "idle"]
        /\ saw = [c \in Callers |-> {}]
        /\ answer = [c \in Callers |-> 0]
        /\ wrote = {} /\ barred = {} /\ bereft = {} /\ faults = 0

Quiet == (\A c \in Callers : at[c] = "done") /\ UNCHANGED vars

Next == (\E c \in Callers : Arrive(c) \/ Door(c) \/ Serve(c) \/ DatabaseFails(c)) \/ Quiet

Spec == Init /\ [][Next]_vars

-----------------------------------------------------------------------------
(* Properties *)

Labels == {"idle", "verify", "load", "list", "check", "insert", "update", "revoke", "delete", "refresh", "done"}

\* The tables hold rows of their kind, each id once, and each handler is at a
\* label, with a status exactly when it is done.
TypeOK == /\ \A r \in db : r.kind \in Kinds /\ r.active \in {"on", "off"}
          /\ \A r, s \in db : r.kind = s.kind /\ r.id = s.id => r = s
          /\ at \in [Callers -> Labels]
          /\ answer \in [Callers -> {0, 200, 201, 204, 400, 401, 403, 404, 409, 500}]
          /\ \A c \in Callers : at[c] = "done" <=> answer[c] # 0
          /\ wrote \subseteq Callers /\ barred \subseteq Callers /\ bereft \subseteq Callers
          /\ faults \in 0..MaxFaults

\* Every pipeline has one circuit breaker, which the executor's gate relies on
\* (executor.py:40), in every interleaving with deletions and after any fault.
OneBreakerEach ==
    \A p \in db : p.kind = "pipeline" => Cardinality(In("breaker", p.id)) = 1

\* Two requests that both saw a step_order, a schedule or a key name as free
\* do not both take it: the SELECT before the INSERT cannot prevent that.
UniqueSlots ==
    \A r, s \in db : r.kind \in {"key", "breaker", "step", "schedule"}
                       /\ r.kind = s.kind /\ r.of = s.of /\ r.slot = s.slot => r = s

\* No row is left behind by a deletion, nor inserted under an owner that was
\* deleted after the request had seen it.
NothingOutlivesOwner ==
    \A r \in db : r.kind # "tenant" => Of(Parent[r.kind], r.of) # {}

\* A request that is answered 4xx has changed nothing.
RefusedChangesNothing == \A c \in wrote : ~(answer[c] \in 400..499)

\* Without a database error a request is answered 500 only when a row that it had
\* loaded or inserted itself was deleted under it: every race of two creations is
\* a 409, and a deletion somewhere else excuses nothing.
ServerErrorMeansDeletion ==
    faults = 0 => \A c \in Callers : answer[c] = 500 => c \in bereft

\* What belongs to tenant t, itself included.
Estate(t) ==
    LET own == Of("tenant", t) \cup In("pipeline", t) \cup In("key", t)
    IN  own \cup {r \in db : \E p \in In("pipeline", t) : r.kind \in {"breaker", "step", "schedule"} /\ r.of = p.id}

TenantIds == {r.id : r \in {s \in db : s.kind = "tenant"}}

\* The key the request came with is a key of t (a key's row goes only with its
\* tenant's, so it is there as long as t is).
HoldsKeyOf(c, t) == \E k \in Of("key", req[c].key) : k.of = t

\* What belongs to a tenant is changed only by the admin's requests about tenants,
\* and by requests that came through the door with a key that this tenant owns,
\* whatever tenant, pipeline or row the path names.
ActsForItsTenant ==
    [][\A t \in TenantIds : Estate(t) # Estate(t)' =>
         \E c \in Callers : /\ at[c] \notin {"idle", "verify", "done"} /\ at'[c] # at[c]
                            /\ HoldsKeyOf(c, t) \/ (req[c].key = Admin /\ req[c].op \in TenantOps)]_vars

\* A request that is not the admin's is given rows of the one tenant that owns the
\* key it came with, and of no other, whatever the path names.
ReadsOnlyItsOwn ==
    [][\A c \in Callers : at[c] # "done" /\ at'[c] = "done" /\ req[c].op \notin TenantOps =>
         saw'[c] \subseteq UNION {Estate(k.of) : k \in Of("key", req[c].key)}]_vars

\* A key that was revoked, or deleted, when a request arrived lets it through
\* in no interleaving.
RevokedIsRefused ==
    \A c \in barred : at[c] \in {"verify", "done"} /\ answer[c] \in {0, 401, 500}

HasKey(t) == \E k \in In("key", t) : k.active = "on"

\* Only a live key of the tenant makes a new key (the admin cannot, nor another
\* tenant): a tenant whose keys are all revoked gets one only from a request with
\* one of them, which arrived before the last was revoked.
LockedOutStays ==
    [][\A t \in TenantIds : ~HasKey(t) /\ HasKey(t)' =>
         \E c \in Callers \ barred : /\ at[c] = "insert" /\ at'[c] # "insert"
                                     /\ req[c].op = "create_api_key" /\ HoldsKeyOf(c, t)]_vars

\* The tables after any interleaving, deletion or fault: well typed, each pipeline
\* with one breaker, no slot taken twice, and no row without its owner.
TablesSound == TypeOK /\ OneBreakerEach /\ UniqueSlots /\ NothingOutlivesOwner

\* A refusal has changed nothing, and a server error is never the answer to a
\* race of two creations.
AnswersTrue == RefusedChangesNothing /\ ServerErrorMeansDeletion
=============================================================================
