SPECIFICATION LiveSpec
CONSTANTS
    Publishers <- MCTwo
    PublishedCapacity = 2
    RetiredCapacity = 5
    MaxVersion = 8
    Nobody = Nobody
    ui = ui
    vm = vm
INVARIANTS
    TypeOK
    NeverFreedInline
    NewestIsReachable
    OnePublicationInFlight
PROPERTIES
    RegisterSafe
    RegisterLive
CHECK_DEADLOCK FALSE
