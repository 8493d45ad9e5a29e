SPECIFICATION Spec
CONSTANTS
    None = None
    Notes = {n1}
    Sources = {s1}
    Grids = {1, 3}
    Durations = {2}
    Block = 2
    Lookahead = 3
    MaxBeat = 5
    MaxGestures = 4
INVARIANTS HoldsFollowGestures RollingKeysAreDownUnlessDropped EveryLineSoundsOnce ProcessRollGivesBack
