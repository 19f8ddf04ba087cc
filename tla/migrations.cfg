SPECIFICATION Spec
CONSTANTS
    Migrators = {m1, m2}
    Targets = {0, 6, 10, 11, 13}
    Filled = {"tenants", "pipelines", "pipeline_runs", "pipeline_circuit_breakers"}
    MaxCrashes = 1
SYMMETRY Symmetry
INVARIANTS SchemaSound NoMigrationFails
