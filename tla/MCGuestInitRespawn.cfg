SPECIFICATION Spec
CONSTANTS
    Keys = {"rcS", "sh", "umount", "log", "long", "cut", "init"}
    Cut <- CutNames
    Tables <- ThreeTables
    Single <- SingleUser
    Pids = {2, 3, 4, 5}
    MaxSignals = 2
    MaxFaults = 1
INVARIANT PidMeansRunning
CHECK_DEADLOCK FALSE
