SPECIFICATION Spec
CONSTANTS
    None = None
    low = low
    middle = middle
    high = high
    Keys = {low, middle, high}
    Pitch <- MCPitch
    Notes = {x, y}
    Gates = {1, 2, 4}
    Frames = 2
    HeldCapacity = 2
    MaxHolds = 2
INVARIANTS NoHangingNote BestKeyOwnsTheVoice NewestRunningNoteSounds
PROPERTY OnlyItsOwnEndClosesAGate
