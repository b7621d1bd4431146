SPECIFICATION Spec
CONSTANTS
    Commands = {"lwp", "net", "ipc", "sm", "fs"}
    Keys = {"servert", "blockiot", "ipct", "fsapit"}
    Nums <- MCNums
    Default <- MCDefault
    MaxArgs = 2
    NSIG = 4
    SIGINT = 2
    Loops = 3
    MaxFailures = 1
    MaxEvents = 2
    Size = 3
    Numbers = 3
    Capacity = 4
INVARIANT SignalCaught
CHECK_DEADLOCK FALSE
