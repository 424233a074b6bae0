CONSTANTS
    a = a
    b = b
    c = c
    d = d
    h1 = h1
    h2 = h2
    IPs <- MCIPs
    Endpoints <- MidEndpoints
    GroupOf <- MCGroupOf
    LocalIPs = {b}
    BannedIPs = {d}
    Hosts <- MCHosts
    ResolvesTo <- MidResolvesTo
    MinimumTcpConnections = 2
    InboundMaximum = 2

SPECIFICATION Spec

INVARIANTS
    TypeOK
    TopUpBound

PROPERTIES
    DeadEntriesPruned
    ConnectionTableSpec


CHECK_DEADLOCK FALSE
