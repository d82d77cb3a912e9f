CONSTANTS
    handler = handler
    watcher = watcher
    c1 = c1
    c2 = c2
    Procs <- MCProcs
    Creds <- MCCreds
    Rejected = Rejected
    Missing = Missing
    NoToken = NoToken
    NoProc = NoProc
    Watcher = watcher
    MaxWrites = 3
SPECIFICATION TokenFairSpec
INVARIANTS
    TokenTypeOK
    ChangeIsDetectable
    RecoveryIsCurrent
PROPERTIES
    MemoryNeverGoesBack
    ChangeIsPickedUp
    CallsReturn
