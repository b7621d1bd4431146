CONSTANTS
    NumWorkers = 2
    Submitters = {s1}
    Tasks = {a, b}
    NoTask = NoTask
SPECIFICATION FairSpecLongTasks
PROPERTIES
    EveryTaskStarts
CHECK_DEADLOCK FALSE
