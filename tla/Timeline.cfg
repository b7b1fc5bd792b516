CONSTANTS
    Legacy <- GappyLegacy
    Published0 = 3
    Pinned = 2
    PageSize = 2
    PageLimit = 2
    MaxPost = 5
    MaxRemovals = 1
    MaxFaults = 2
SPECIFICATION TimelineFairSpec
INVARIANTS NoGap
PROPERTIES EventuallyStored
