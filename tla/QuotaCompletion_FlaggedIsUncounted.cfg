CONSTANTS
    s1 = s1
    s2 = s2
    s3 = s3
    capped = capped
    open = open
    None = None
    Session = {s1, s2}
    Cell = {capped, open}
    Slots = 1
    Target <- MCTarget
    MaxResend = 1
SPECIFICATION Spec
CHECK_DEADLOCK FALSE
INVARIANT FlaggedIsUncounted
