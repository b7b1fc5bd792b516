CONSTANTS
    e1 = e1
    e2 = e2
    auto = auto
    Ids <- MCIds
    Event = auto
    Drafts <- MCDrafts
    CashInputs = {1}
    Holdings <- MCHoldings
    Foreign = TRUE
    ExDate = 2
    LastEntitled = 1
    Announcements <- MCAnnouncements
    SplitDate = 1
    MaxDay = 3
    MaxVersion = 4
SPECIFICATION Spec
CHECK_DEADLOCK FALSE
PROPERTIES PaidOnce
