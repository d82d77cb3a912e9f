CONSTANTS
    handler = handler
    watcher = watcher
    Procs <- MCProcs
    Creds <- MCCreds
    Rejected = Rejected
    Missing = Missing
    NoToken = NoToken
    NoProc = NoProc
    Watcher = watcher
    MaxWrites = 2
    Unrefreshable <- MCNone
    MinInterval = 1
    BackoffMin = 1
    BackoffMax = 1
    MaxCred = 2
    Foreign <- MCNone
SPECIFICATION Spec
PROPERTY PresentsTheFilesToken
