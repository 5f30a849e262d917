CONSTANTS
    Program <- VersionThenPolling
    Tries = 2
    Timeout = 2
    JsonOK = {TRUE, FALSE}
    MaxUnsolicited = 1
SPECIFICATION FairSpec
CHECK_DEADLOCK FALSE
INVARIANTS
    NeverCaughtUp
    AnswersAreStale
    AnswersInOrder
    WritesBounded
PROPERTIES
    QueriesReturn
