SPECIFICATION FairSpec
CONSTANTS
    c1 = c1
    c2 = c2
    Clients <- MCClients
    Worker = worker
    None = none
    Dates <- MCDates
    MaxRuns = 3
    MaxFaults = 2
INVARIANTS RunIsSomewhere RunStaysOurs
PROPERTIES RunsEnd ShutdownEnds
