SPECIFICATION Spec
CONSTANTS
    Runs = {r1}
    Workers = {w1}
    NoRun = NoRun
    NoWorker = NoWorker
    Errors = {e1}
    NoReason = NoReason
    Retries <- NoRetries
    Thresholds = {1}
    MaxPushes = 1
    MaxFaults = 0
PROPERTIES OnlyAPersonLeavesOpen
