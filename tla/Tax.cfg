CONSTANTS
    a1 = a1
    a2 = a2
    p1 = p1
    f1 = f1
    Files <- MCFiles
    MaxImports = 2
    MaxRecords = 4
    Dates = {1, 2, 3}
    YearOf <- MCYearOf
    Rates <- MCRates
    Anyone = Anyone
SPECIFICATION Spec
INVARIANTS FeesAddUp DeferredIsCarried FirstInFirstOut DetailsAddUp
