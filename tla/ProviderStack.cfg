CONSTANTS
    c1 = c1
    c2 = c2
    Callers <- MCCallers
    Observed <- MCObserved
    Requests <- MCRequests
    NoContext = ""
    KnownStyles = {"formal", "neutral"}
    MaxRetries = 2
    Burst = 1
    NotAString = NotAString
    Formatted = Formatted
CHECK_DEADLOCK FALSE
SPECIFICATION FairSpec
INVARIANTS
    RequestsAreWanted
    AnswerIsItsOwn
PROPERTIES
    RetriesAsSpecified
    EveryCallReturnsOrAwaitsApi
