-------------------------- MODULE MCControlPlane ----------------------------
(***************************************************************************)
(* An instance of ControlPlane for TLC: tenant 1 with a key, a pipeline    *)
(* and a step, tenant 2 with a key and a pipeline.  c1 and c2 ask anything; *)
(* c3 only revokes a key, pauses or deletes.                               *)
(***************************************************************************)
EXTENDS ControlPlane, TLC

CONSTANTS c1, c2, c3

SeedRows ==
    UNION {{Row("tenant", t, t, "-"), Row("key", t, t, "primary"),
            Row("pipeline", t, t, "-"), Row("breaker", t, t, "-")} : t \in {1, 2}}
        \cup {Row("step", 1, 1, "1")}

Ask(op, t, k, p, r, col, val) ==
    [op |-> op, tenant |-> t, key |-> k, pipeline |-> p, row |-> r, column |-> col, value |-> val]

Plain(op, t, k, p) == Ask(op, t, k, p, 1, "-", "-")

Disturbing == {Plain("delete_tenant", 1, Admin, 1), Plain("delete_pipeline", 1, 1, 1),
               Plain("revoke_api_key", 1, 1, 1), Ask("update_tenant", 1, Admin, 1, 1, "active", "off")}

Changes(op, t, k) == {Ask(op, t, k, 1, 1, col, "off") : col \in {"none", "active"}}

ByAdmin == {Plain(op, 1, Admin, 1) : op \in {"create_tenant", "get_tenant", "get_all_tenants", "create_api_key"}}
           \cup {Ask("update_tenant", 1, Admin, 1, 1, "active", v) : v \in {"on", "null"}}
           \cup {Ask("update_tenant", 1, Admin, 1, 1, "none", "-"), Plain("delete_tenant", 1, 1, 1)}

ForTenant1 == {Plain(op, 1, 1, 1) : op \in {"get_api_key", "get_all_api_keys", "create_pipeline", "get_all_pipelines"}}
              \cup {Ask("create_api_key", 1, 1, 1, 1, "-", v) : v \in {"primary", "2"}}
              \cup Changes("update_pipeline", 1, 1)

\* Requests about pipeline 1, its steps and schedule: tenant 1's, and tenant
\* 2's, which must not reach them.
AboutPipeline1(t) ==
    {Plain(op, t, t, 1) : op \in {"get_pipeline", "delete_pipeline", "get_pipeline_step", "get_all_pipeline_steps",
                                  "delete_pipeline_step", "create_schedule", "get_schedule", "delete_schedule"}}
    \cup {Ask("create_pipeline_step", t, t, 1, 1, "-", v) : v \in {"1", "2"}}
    \cup {Ask("update_pipeline_step", t, t, 1, 1, "slot", v) : v \in {"1", "2", "null"}}
    \cup Changes("update_schedule", t, t)

\* Requests with a key, or about a tenant or pipeline, that another one made; and
\* requests that name tenant 1 and come with the key of tenant 2.
AboutNew(c) == {Plain("get_pipeline", 1, c, 1), Plain("create_pipeline", c, c, c),
                Plain("create_schedule", 1, 1, c), Plain("revoke_api_key", 1, 2, 1),
                Plain("get_pipeline", 1, 2, 1), Ask("create_api_key", 1, 2, 1, 1, "-", "2")}

MCRequests(c) ==
    IF c = c3 THEN Disturbing
    ELSE Disturbing \cup ByAdmin \cup ForTenant1 \cup AboutPipeline1(1) \cup AboutPipeline1(2)
         \cup UNION {AboutNew(d) : d \in Callers \ {c, c3}}

Symmetry == Permutations({c1, c2} \cap Callers)
=============================================================================
