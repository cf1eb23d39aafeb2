\* One page that opens up to two sockets, an address never leased before after each reboot.
SPECIFICATION PageSpec
CONSTANTS
    r1 = r1
    r2 = r2
    m1 = m1
    w1 = w1
    Rows = {w1}
    RowOf <- MCRowOf
    Null = Null
    Given = Given
    MaxEdits = 0
    Conns <- TwoSockets
    Modems <- OneModem
    ModemOf <- MCModemOf
    IPs = {1, 2, 3}
    NoIP = 0
    FirstIP <- MCFirstIP
    Leases <- FreshLeases
    FetchAttempts = 1
    RebootAttempts = 1
    ApiOutcomes = {"accepted"}
    MaxCrashes = 0
    MaxDrops = 0
    MaxCuts = 1
INVARIANTS
    OneRebootAtATime
PROPERTIES
    ServerSafety
    RebootsUnderSpinner
    EveryRequestEnds
    ReleasedAfterHangup
CHECK_DEADLOCK FALSE
