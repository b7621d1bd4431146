CONSTANTS
    NumWorkers = 2
    Submitters = {s1, s2}
    Tasks = {a, b, c}
    NoTask = NoTask
SPECIFICATION FairSpec
INVARIANTS
    SomebodyWillLook
PROPERTIES
    EveryTaskRuns
    SettledShutdownReturns
    Implements
CHECK_DEADLOCK FALSE
