CONSTANTS
    MaxInflight = 1
    IdSpan = 8
    MaxMQueueLen = 0
    QosLevels = {2}
    Retry = TRUE
    MayExpire = FALSE
    MayFail = FALSE
    MaxMsgs = 1
    MaxLate = 1
SPECIFICATION FairSpec
PROPERTY RetryReturns
CHECK_DEADLOCK FALSE
