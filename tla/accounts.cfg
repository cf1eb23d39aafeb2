\* Two workers, two accounts, two codes.
SPECIFICATION Spec
CONSTANTS
    Mails = {o1, o2}
    Processes = {w1, w2}
    Addresses = {e1, e2}
    Ids = {u1, u2}
    None = None
    MaxEvents = 1
SYMMETRY Interchangeable
INVARIANTS
    TypeOK
    OwnDocumentUnlessOverlapped
    EmailsAreUnique
    NoOrphanOtp
    VerifiedByItsReader
    AcceptedOncePerWorker
CHECK_DEADLOCK FALSE
