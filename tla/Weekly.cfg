CONSTANTS
    a1 = a1
    Accounts = {a1}
    NoSlot = NoSlot
    MaxClock = 7
    DateAt <- MCDates
    OpenAt <- MCOpen
    RetryDelay <- Delays
    Lease = 2
    Batch = 1
    MaxVersion = 2
SPECIFICATION FairSpec
INVARIANTS OneRecordPerSlot
PROPERTIES NoBackdating FreshBasis JobsSettle
