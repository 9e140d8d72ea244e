CONSTANTS
    Configs <- MCConfigs
    Errors <- MCErrors
    Width = 8
CHECK_DEADLOCK FALSE
SPECIFICATION FairRetrySpec
INVARIANTS
    Budget
    HonestOutcome
    BackoffIsExponential
PROPERTY Terminates
