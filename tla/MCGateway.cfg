CONSTANTS
    r1 = r1
    r2 = r2
    Requests <- MCRequests
    Layers <- MCLayers
    Worlds <- MCWorlds
    NoWorld = NoWorld
    Missing = Missing
    Torn = Torn
    MaxKeys = 2
    Blocked <- MCBlocked
    Star = "*"
    Forms <- MCForms
    NoForm = NoForm
    StatusPath <- MCStatusPath
    CAPath <- MCCAPath
    MaxTokens = 2
    MaxSamples = 2
SYMMETRY MCSymmetry
SPECIFICATION Spec
INVARIANTS
    GatewayTypeOK
    IdentityIsKept
    OneAnswerNothingOpen
PROPERTIES
    OnlyListedIsBlocked
    NothingIsIgnored
