SPECIFICATION PlayingSpec
CONSTANTS
    Capacity = 3
    Events <- MCEvents
    Producers <- MCProducers
    RejectedCap = 1
    None = None
    e1 = e1
    e2 = e2
    e3 = e3
    e4 = e4
    scheduler = scheduler
    audition = audition
INVARIANTS QueueTypes AdmittedEventHasRoom OutstandingIsRetained
PROPERTIES FreedOnlyByProducer EventuallyReclaimed
