\* Two registrations in one worker: does every mail get to whom it was written for?
SPECIFICATION Spec
CONSTANTS
    Mails = {o1, o2}
    Processes = {w1}
    Addresses = {e1, e2}
    Ids = {u1, u2}
    None = None
    MaxEvents = 0
INVARIANTS
    DocumentsReachTheirAddressee
CHECK_DEADLOCK FALSE
