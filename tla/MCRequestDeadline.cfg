SPECIFICATION FairSpec
CONSTANTS
    Messages = 3
    Chunks = 1
INVARIANTS
    ResponseIsSound
    OutcomeIsTrue
    CancelSparesMutation
    OutlivingWorkIsAbandoned
PROPERTIES
    CommitOnlyWhileOpen
    AnsweredByDeadline
CHECK_DEADLOCK FALSE
