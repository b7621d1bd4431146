SPECIFICATION FairSpec
CONSTANTS
    Clients = {c1, c2}
    Workers = {w1, w2}
    None = None
    Messages = 2
    Backlog = 2
    Size = 3
    MaxFaults = 1
    MaxEvents = 1
    ServerTypes = {"multi_p", "single_p_multi_t", "select", "poll", "epoll", "unknown"}
INVARIANTS OneReader TableMatchesFds MultiplexerNeverBlocks NreadyExact
PROPERTIES EveryMessageRead ConnectionsEnd
CHECK_DEADLOCK FALSE
