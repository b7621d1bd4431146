SPECIFICATION Spec
CONSTANTS
    Clients = {c1, c2}
    Workers = {w1, w2}
    None = None
    Messages = 2
    Backlog = 2
    Size = 3
    MaxFaults = 1
    MaxEvents = 1
    ServerTypes = {"epoll"}
INVARIANT DoUseFdNeverBlocks
CHECK_DEADLOCK FALSE
