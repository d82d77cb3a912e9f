SPECIFICATION TunnelFairSpec
CONSTANTS
    Forms <- MCForms
    ChosenHosts <- MCHosts
    Window = 2
INVARIANTS
    TunnelTypeOK
    BytesArriveInOrder
    OneAnswerFirst
    OnlyForgedIsDecrypted
PROPERTIES
    KeepsPromise
    SilenceIsBounded
    AllIsTakenDown
CHECK_DEADLOCK FALSE
