SPECIFICATION LiveSpec
CONSTANTS
    ta = ta
    tb = tb
    tc = tc
    Tracks <- MCTracks
    InitialLayout <- MCLayout2
    Kinds = {"delete", "append", "delete_many", "replay_deletion", "replay_restore"}
    CanTimeOut = TRUE
    Lookahead = 2
    MaxSwing = 0
    MaxEvents = 1
    MaxCommands = 2
    None = None
PROPERTIES BoundaryReached
CHECK_DEADLOCK FALSE
