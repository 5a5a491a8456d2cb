SPECIFICATION Spec
CONSTANTS
    Absent = Absent
    Doc <- MCDoc
    Source = "commit"
    Packages = {"api"}
    Content <- MCContent
    Builds <- MCBuilds
    Returned <- MCReturned
    Horizon = 2
    Reports <- MCReports
    Policies <- MCPolicies
    Jobs = {"static", "mysql"}
    Outcomes <- MCOutcomes
    Fresh = 0
    MaxTime = 1
    MaxAttempts = 2
    MaxTrouble = 2
INVARIANTS
    ReleaseIsEarned
PROPERTIES
    EvidenceIsConsistent
CHECK_DEADLOCK FALSE
