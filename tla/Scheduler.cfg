CONSTANTS
    web1 = web1
    web2 = web2
    timer1 = timer1
    NoThread = NoThread
    NoKind = NoKind
    NoProgram = NoProgram
    Threads <- MCThreads
    ProgramsOf <- MCPrograms
SPECIFICATION SchedulerFairSpec
INVARIANTS OneWeiboCrawl OneXueqiuPipeline RunningIsTruth
PROPERTIES CancelStopsJob JobsTerminate
