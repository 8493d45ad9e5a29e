SPECIFICATION Spec
CONSTANTS
    Clocks = {"stamp", "anchor"}
    MaxBlocks = 4
    MaxToggles = 4
    Tries = 2
INVARIANT AnchorIsOfThisRunUnlessCrossed
PROPERTY StampReadsAreWhole
CHECK_DEADLOCK FALSE
