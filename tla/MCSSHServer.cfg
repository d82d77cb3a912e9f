CONSTANTS
    laptop = laptop
    phone = phone
    k1 = k1
    k2 = k2
    d1 = d1
    d2 = d2
    ch1 = ch1
    ch2 = ch2
    target = target
    Conns <- MCConns
    Keys <- MCKeys
    Devices <- MCDevices
    NoDevice = NoDevice
    NoKey = NoKey
    NoAsk = NoAsk
    Lists <- MCLists
    Broken = Broken
    Missing = Missing
    Nobody = Nobody
    MaxWrites = 2
    Holds <- MCHolds
    Claims <- MCClaims
    Chans <- MCChans
    Owner <- MCOwner
    Asks <- MCAsks
    Permit <- MCPermit
SPECIFICATION FairSpec
INVARIANTS
    ServerTypeOK
    DeviceIsTheKeys
PROPERTY GoneIsForgotten
CHECK_DEADLOCK FALSE
