SPECIFICATION Spec
CONSTANTS
    Callers = {c1, c2, c3, c4}
    Keys = {k1, k2}
    NoKey = NoKey
    NoRun = NoRun
    MaxFaults = 1
SYMMETRY Symmetric
INVARIANTS TypeOK SameKeySameRun OneCreator QueuedOnce RaceIsInvisible
PROPERTIES ActsAtomically
