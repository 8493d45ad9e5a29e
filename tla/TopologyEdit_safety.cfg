SPECIFICATION Spec
CONSTANTS
    ta = ta
    tb = tb
    tc = tc
    Tracks <- MCTracks
    InitialLayout <- MCLayout3
    Kinds = {"delete", "append"}
    CanTimeOut = TRUE
    Lookahead = 2
    MaxSwing = 1
    MaxEvents = 1
    MaxCommands = 3
    None = None
INVARIANTS PlaysItsTrack RuntimeFollowsTracks
PROPERTY HandoffIsQuiet
CHECK_DEADLOCK FALSE
