\* One browser, and a modem whose API answers with an error: does the request end?
SPECIFICATION Spec
CONSTANTS
    r1 = r1
    r2 = r2
    m1 = m1
    m2 = m2
    w1 = w1
    Rows = {w1}
    RowOf <- MCRowOf
    Null = Null
    Given = Given
    MaxEdits = 0
    Conns = {r1}
    Modems = {m1}
    ModemOf <- MCModemOf
    IPs = {1, 2}
    NoIP = 0
    FirstIP <- MCFirstIP
    Leases <- FreshLeases
    FetchAttempts = 1
    RebootAttempts = 2
    ApiOutcomes = {"errorString"}
    MaxCrashes = 0
    MaxDrops = 0
PROPERTIES
    EveryRequestEnds
CHECK_DEADLOCK FALSE
