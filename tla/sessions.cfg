\* Two accounts and addresses, two requests at a time, four requests in all.
SPECIFICATION Spec
CONSTANTS
    e1 = e1
    e2 = e2
    r1 = r1
    r2 = r2
    Emails <- TwoEmails
    Reqs <- TwoReqs
    Nobody = Nobody
    Own = Own
    MaxIds = 2
    MaxLogins = 2
    MaxEvents = 4
SYMMETRY Interchangeable
INVARIANTS
    SessionsTypeOK
    CookiesOfOneLogin
    DisconnectedMeansRevoked
PROPERTIES
    DeletesItsOwn
    LinkDiesWithItsToken
CHECK_DEADLOCK FALSE
