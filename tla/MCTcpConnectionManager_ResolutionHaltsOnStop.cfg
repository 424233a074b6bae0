CONSTANTS
    a = a
    b = b
    c = c
    d = d
    h1 = h1
    h2 = h2
    IPs <- MCIPs
    Endpoints <- MCEndpoints
    GroupOf <- MCGroupOf
    LocalIPs = {c}
    BannedIPs = {d}
    Hosts <- MCHosts
    ResolvesTo <- MCResolvesTo
    MinimumTcpConnections = 2
    InboundMaximum = 2

SPECIFICATION Spec

PROPERTIES
    ResolutionHaltsOnStop

CHECK_DEADLOCK FALSE
