SPECIFICATION FairSpec
CONSTANTS
    Runs = {r1, r2}
    Workers = {w1, w2}
    NoRun = NoRun
    NoWorker = NoWorker
    Errors = {e1}
    NoReason = NoReason
    Retries <- NoRetries
    Thresholds = {1}
    MaxPushes = 1
    MaxFaults = 1
PROPERTIES DeliveredRunEnds WorkerComesBack
