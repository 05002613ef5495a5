SPECIFICATION FairSpec
CONSTANTS
    MaxTcp = 2
    MaxWs = 2
    MaxWsPerPeer = 1
    MaxPeers = 2
    IdleRetention = 1
    Loopback = "lo"
    Proxies <- MCSockets
    SeatCount = 1
    Connections = {c1, c2}
    Sockets <- MCSockets
    Requests <- MCRequests
    MaxPipelined = 2
    MaxRequests = 3
    MaxTime = 1
INVARIANTS
    ConnectionsAreAccounted
PROPERTIES
    StopIsNotLost
    ShutdownCompletes
