CONSTANTS
    Workers = {w1, w2}
    Submitters = {s1, s2}
    Tasks = {a, b, c}
    NoTask = NoTask
SPECIFICATION FairSpec
INVARIANTS
    WakeupOwed
PROPERTIES
    EveryTaskStarts
    Implements
CHECK_DEADLOCK FALSE
