SPECIFICATION Spec
CONSTANTS
    Runs = {r1, r2}
    Plans <- MCPlans
    Sources <- MCSources
    Null = Null
    None = None
    MaxSeconds = 1
SYMMETRY Symmetry
CHECK_DEADLOCK FALSE
INVARIANTS StepsInOrder LoadedWasValidated BackoffGrows BlamesTheRightStep
