CONSTANTS
    a1 = a1
    a2 = a2
    Nothing = Nothing
    Accounts = {a1, a2}
    Dates = {1, 2, 3, 4, 5}
    Saturdays = {2, 5}
    YearOf <- MCYearOf
    Entries <- MCEntries
    MaxRecords = 3
    Rates <- MCRates
SPECIFICATION Spec
INVARIANT FlowsAreABasis
