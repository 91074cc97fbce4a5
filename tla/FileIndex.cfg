SPECIFICATION FairSpec
CONSTANTS
    Paths <- MCPaths
    Touched = {1}
    MaxPending = 1
    MaxUpsets = 2
INVARIANT NothingForgotten
PROPERTY ScanAccounts
PROPERTY OpenWorkIsDone
