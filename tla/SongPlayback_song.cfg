SPECIFICATION Spec
CONSTANTS
    long = long
    short = short
    x = x
    y = y
    None = None
    Arrangements <- MCArrangements
    Compiled <- MCCompiled
    Sources = {x, y}
    Tempos = {2, 3}
    Cursors = {1, 9}
    Block = 2
    Lookahead = 2
    MaxLate = 1
    CommandCapacity = 2
    NoticeCapacity = 2
    MaxGestures = 3
    MaxBeat = 6
INVARIANTS PlansTheSong EditsAreHeardUnlessMissed 
 
