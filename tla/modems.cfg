\* Two workers, two modems, three requests, three changes of the users.
SPECIFICATION Spec
CONSTANTS
    Workers = {w1, w2}
    Modems = {m1, m2}
    Users = {u1, u2}
    Ips = {i1, i2}
    Emails = {e1, e2}
    None = None
    MaxRequests = 3
    MaxEdits = 3
SYMMETRY Interchangeable
INVARIANTS
    TypeOK
    BoundToSomebody
    TwinsHaveAReason
    LinkOpensListedIp
CHECK_DEADLOCK FALSE
