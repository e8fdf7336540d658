CONSTANTS
    r1 = r1
    r2 = r2
    old = old
    e1 = e1
    e2 = e2
    Rec = {r1, old}
    Engine = {e1}
    Poison = {r1}
    OverMarked = {old}
    WebLocks = TRUE
    DEAD_LETTER_ATTEMPTS = 2
    MaxMeta = 1
    MaxFail = 1
    MaxCrash = 1
    MaxLate = 0
SPECIFICATION FairSpec
CHECK_DEADLOCK FALSE
PROPERTIES
    EveryAnswerDelivered
    DeliveredOrEscalated
    RetryLoopSettles
    OverMarkedRecovered
