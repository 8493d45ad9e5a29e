SPECIFICATION Spec
CONSTANTS
    cutoff = cutoff
    slices = slices
    Params <- MCParams
    Values = {0, 1}
    BlankValue = 0
    SliceParams <- MCSliceParams
    Files = {f1}
    MaxEntries = 2
    MaxRevision = 5
    MaxSaves = 2
    MaxGeneration = 1
    None = None
INVARIANTS HistoryDescribesDocument CleanMeansSaved
PROPERTY TransactionIsAtomic
CHECK_DEADLOCK FALSE
CONSTRAINT Explored
