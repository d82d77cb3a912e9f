SPECIFICATION ExpiryFairSpec
CONSTANTS
    AccessStages <- MCAccessStages
    RefreshStages <- MCRefreshStages
    Margin = 2
    AccessLife = 3
    LoginLife = 5
    MaxLogins = 1
    Horizon = 7
INVARIANT ExpiryTypeOK
PROPERTIES
    ToldIsTightest
    PassedIsTold
