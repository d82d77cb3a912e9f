SPECIFICATION LinkSpec
CONSTANTS
    request1 = request1
    request2 = request2
    Requests <- MCRequests
    Nobody = Nobody
    KeepaliveMax = 2
    Probing = TRUE
    BackoffMax = 3
    MaxConns = 2
SYMMETRY MCSymmetry
INVARIANTS
    LinkTypeOK
    NoConnectionLeaks
    RetryIsFresh
PROPERTIES
    NewConnectionIsSpared
    DialsAreSpaced
