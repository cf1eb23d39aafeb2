\* Two workers with a pool of one, two list pages and a WebSocket.
SPECIFICATION Spec
CONSTANTS
    l1 = l1
    a1 = a1
    l2 = l2
    a2 = a2
    s1 = s1
    w1 = w1
    w2 = w2
    Workers = {w1, w2}
    Requests <- MCRequests
    Kind <- MCKind
    Asks <- MCAsks
    PoolSize = 1
    Nobody = Nobody
INVARIANTS
    NothingLeaks
PROPERTIES
    EveryRequestIsAnswered
CHECK_DEADLOCK FALSE
