\* Two process ids, two invocations of stop, four events.
SPECIFICATION Spec
CONSTANTS
    p1 = p1
    p2 = p2
    s1 = s1
    s2 = s2
    Pids <- TwoPids
    Stops <- TwoStops
    Ports = {1, 2}
    Absent = Absent
    Empty = Empty
    Nobody = Nobody
    MaxConns = 1
    MaxEvents = 4
INVARIANTS
    ProcessTypeOK
    FilesTellOfTheServer
    LeftoverHasAReason
PROPERTIES
    StopEndsTheServer
CHECK_DEADLOCK FALSE
