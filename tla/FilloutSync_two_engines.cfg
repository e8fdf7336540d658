CONSTANTS
    r1 = r1
    r2 = r2
    old = old
    e1 = e1
    e2 = e2
    Rec = {r1, r2}
    Engine = {e1, e2}
    Poison = {}
    OverMarked = {}
    WebLocks = FALSE
    DEAD_LETTER_ATTEMPTS = 1
    MaxMeta = 1
    MaxFail = 0
    MaxCrash = 2
    MaxLate = 0
SYMMETRY Interchangeable
SPECIFICATION Spec
CHECK_DEADLOCK FALSE
INVARIANT PurgedSessionIsCompleted
