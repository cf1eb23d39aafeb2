\* Two browsers, one modem, administrators at work, addresses that may repeat.
SPECIFICATION Safety
CONSTANTS
    r1 = r1
    r2 = r2
    m1 = m1
    w1 = w1
    Rows = {w1}
    RowOf <- MCRowOf
    Null = Null
    Given = Given
    MaxEdits = 1
    Conns = {r1, r2}
    m2 = m2
    Modems = {m1, m2}
    ModemOf <- MCModemOf
    IPs = {1, 2}
    NoIP = 0
    FirstIP <- MCFirstIP
    Leases <- AnyLeases
    FetchAttempts = 1
    RebootAttempts = 1
    ApiOutcomes = {"accepted"}
    MaxCrashes = 1
    MaxDrops = 0
SYMMETRY Interchangeable
INVARIANTS
    ChangeIpTypeOK
    WhatIsShownIsTrue
    StampMeansRebooted
    NoOrphanConnection
CHECK_DEADLOCK FALSE
