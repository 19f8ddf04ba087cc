SPECIFICATION Spec
CONSTANTS
    Runs = {r1, r2, r3}
    Workers = {w1, w2}
    NoRun = NoRun
    NoWorker = NoWorker
    Errors = {e1}
    NoReason = NoReason
    Retries <- NoRetries
    Thresholds = {1, 2}
    MaxPushes = 1
    MaxFaults = 0
SYMMETRY Symmetric
INVARIANTS NoMissedTrip
