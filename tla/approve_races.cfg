SPECIFICATION Spec
CONSTANTS
    Callers = {c1, c2, c3}
    Keys = {k1}
    NoKey = NoKey
    NoRun = NoRun
    MaxFaults = 2
SYMMETRY Symmetric
INVARIANTS RetrySound AppliedIsQueued
PROPERTIES PauseWithDecision
