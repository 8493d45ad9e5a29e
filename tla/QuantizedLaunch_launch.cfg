SPECIFICATION Spec
CONSTANTS
  Tracks = {1, 2}
  Scenes = {1, 2}
  FirstScene = 1
  Transport = "transport"
  Owners = {"transport", "clip"}
  TracksOf <- MCTracksOf
  Commands = {"transport", "clip", "release", "live"}
  CanFail = TRUE
  MaxToken = 2
  MaxToggles = 3
  MaxBeat = 4
  Grid = 1
  Block = 2
  Lookahead = 2
  RequestCapacity = 6
  DueCapacity = 1
CHECK_DEADLOCK FALSE
INVARIANTS ValidIsLive BoundaryNotPassed OverrideIsOwed
PROPERTY MirrorIsSilent
