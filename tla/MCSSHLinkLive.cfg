SPECIFICATION LinkFairSpec
CONSTANTS
    request1 = request1
    request2 = request2
    Requests <- MCOneRequest
    Nobody = Nobody
    KeepaliveMax = 1
    Probing = TRUE
    BackoffMax = 1
    MaxConns = 2
PROPERTIES
    EveryDialReturns
    DeadConnectionsAreCollected
