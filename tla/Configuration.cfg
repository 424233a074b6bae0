\* A user file may hold a port past 16 bits (65543 is stored as 7) and an
\* inbound maximum below the minimum (0) or above it (4).
CONSTANTS
    DefaultTcpPort = 5
    TcpInboundMinimum = 2
    TcpInboundMaximum = 3
    FilePorts = {7, 65543}
    FileInbounds = {0, 4}
SPECIFICATION Spec
INVARIANTS
    InboundAtLeastMinimum
PROPERTIES
    LoadRestoresSaved
