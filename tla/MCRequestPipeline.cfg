SPECIFICATION FairSpec
CONSTANTS
    Requests <- MCRequests
    Trusted = {"proxy", "inner"}
    Exposed = {"docs"}
    AllowedMethods = {"GET", "POST", "HEAD", "OPTIONS"}
    CorsMethods = {"GET", "POST"}
    MaxCount = 3
    MaxSingle = 3
    MaxTotal = 4
    MaxBody = 2
INVARIANTS
    GuardsHold
    ReplyFollowsPolicy

    
CHECK_DEADLOCK FALSE
