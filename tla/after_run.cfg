SPECIFICATION Spec
CONSTANTS
    r1 = r1
    r2 = r2
    p1 = p1
    p2 = p2
    t1 = t1
    t2 = t2
    Runs = {r1, r2}
    Pipelines = {p1, p2}
    Tenants = {t1, t2}
    PipelineOf <- Pipes
    TenantOf <- Owners
    WithCallback = {p1}
    Indexers = {i1, i2}
    Chunks = {c1}
    K_RUNBOOKS = 1
    K_INCIDENTS = 3
    RecommendedAction = {"escalate"}
    None = None
    MaxFaults = 1
SYMMETRY Symmetry
CHECK_DEADLOCK FALSE
INVARIANTS Finalized RowsSound ErrorNotMasked AuditTruthful ContextIsOwn RunbooksAlwaysThere
