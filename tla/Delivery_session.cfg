CONSTANTS
    MaxInflight = 2
    IdSpan = 8
    MaxMQueueLen = 0
    QosLevels = {0, 1, 2}
    Retry = TRUE
    MayExpire = TRUE
    MayFail = TRUE
    MaxMsgs = 3
    MaxLate = 1
SPECIFICATION FairSpec
INVARIANTS WithinLimits KeptOnce FirstSendsInOrder
PROPERTY Settles
CHECK_DEADLOCK FALSE
