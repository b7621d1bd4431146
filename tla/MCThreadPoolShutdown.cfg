CONSTANTS
    NumWorkers = 2
    Submitters = {s1}
    Tasks = {a, b}
    NoTask = NoTask
SPECIFICATION FairSpec
PROPERTIES
    ShutdownReturns
CHECK_DEADLOCK FALSE
