SPECIFICATION TunnelSpec
CONSTANTS
    Forms <- MCProxied
    ChosenHosts <- MCHosts
    Window = 2
INVARIANTS
    TwoRoutesAgree
CHECK_DEADLOCK FALSE
