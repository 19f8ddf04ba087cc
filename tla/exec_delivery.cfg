SPECIFICATION Spec
CONSTANTS
    Runs = {r1}
    Workers = {w1, w2, w3}
    NoRun = NoRun
    NoWorker = NoWorker
    Errors = {e1, e2}
    NoReason = NoReason
    Retries <- TwoSteps
    Thresholds = {1, 2}
    MaxPushes = 3
    MaxFaults = 2
SYMMETRY Symmetric
INVARIANTS TypeOK OneOwner OwnerHoldsRow RetryBudget NoOrphan NoLostRun
PROPERTIES EndedIsFinal ImplementsLifecycle
