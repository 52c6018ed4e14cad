\* Every graph over four jobs with two needs at most, every acyclic shape in two opposite
\* sort orders, graphs with an unknown name; every limit up to 4.
CONSTANTS
    Jobs = {1, 2, 3, 4}
    Unknown = 0
    Graphs <- SomeGraphs
    Limits = {0, 1, 2, 3, 4}
SPECIFICATION CheckedFairSpec
INVARIANTS SchedulerInv SearchHolds ReportedCycleIsReal ReturnsFullOutcome NothingRunsAfterEnd
PROPERTIES Termination ImplementsScheduler ImplementsDagExecution
