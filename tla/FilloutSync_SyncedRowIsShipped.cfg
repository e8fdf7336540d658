CONSTANTS
    r1 = r1
    r2 = r2
    old = old
    e1 = e1
    e2 = e2
    Rec = {r1, r2}
    Engine = {e1}
    Poison = {}
    OverMarked = {}
    WebLocks = TRUE
    DEAD_LETTER_ATTEMPTS = 2
    MaxMeta = 1
    MaxFail = 0
    MaxCrash = 0
    MaxLate = 0
SPECIFICATION Spec
CHECK_DEADLOCK FALSE
INVARIANT SyncedRowIsShipped
