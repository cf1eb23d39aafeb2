\* Two clients of one modem, every API outcome, addresses that may repeat.
SPECIFICATION ServerSafety
CONSTANTS
    c1 = c1
    c2 = c2
    c3 = c3
    m1 = m1
    Conns = {c1, c2}
    Modems = {m1}
    ModemOf <- MCModemOf
    IPs = {1, 2}
    NoIP = 0
    FirstIP <- MCFirstIP
    Leases <- AnyLeases
    FetchAttempts = 2
    RebootAttempts = 2
    ApiOutcomes = {"accepted", "notOK", "errorString", "raises"}
    MaxCrashes = 1
    MaxDrops = 1
SYMMETRY Interchangeable
INVARIANTS
    ServerTypeOK
    RebootedAtMostOnce
    FailureMeansNotRebooted
    ReportIsTruthful
    RegistryIsConsistent
PROPERTIES
    KeepsPromise
CHECK_DEADLOCK FALSE
