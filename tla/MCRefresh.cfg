CONSTANTS
    handler = handler
    watcher = watcher
    Procs <- MCProcs
    Creds <- MCCreds
    Rejected = Rejected
    Missing = Missing
    NoToken = NoToken
    NoProc = NoProc
    Watcher = watcher
    MaxWrites = 3
    Unrefreshable <- MCNone
    MinInterval = 2
    BackoffMin = 2
    BackoffMax = 3
    MaxCred = 3
    Foreign <- MCNone
SPECIFICATION Spec
INVARIANTS
    RefreshTypeOK
    OneChildAtATime
PROPERTIES
    ReplayIsNewer
    SpentTokenStaysSpent
    ImplementsPromise
    RefreshesAreSpaced
    SuccessIsRecognized
