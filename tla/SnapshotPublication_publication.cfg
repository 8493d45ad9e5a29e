\* The UI, with nested scopes, and a native on the scheduler's VM publish.
SPECIFICATION PublicationSpec
CONSTANTS
    Tracks = {k1, k2}
    Transport = transport
    Threads = {ui, vm}
    Scoped = {ui}
    MaxEdits = 2
    MaxNest = 2
INVARIANTS PublishedIsCurrent DeferralIsOwed
PROPERTY ScopesAreSilent
