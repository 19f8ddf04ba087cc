SPECIFICATION Spec
CONSTANTS
    Callers = {c1, c2}
    Keys = {k1}
    NoKey = NoKey
    NoRun = NoRun
    MaxFaults = 1
INVARIANTS ReplayMeansEnqueued
