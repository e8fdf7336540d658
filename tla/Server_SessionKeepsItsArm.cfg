CONSTANTS
    s1 = s1
    s2 = s2
    s3 = s3
    capped = capped
    open = open
    None = None
    Session = {s1, s2, s3}
    Cell = {capped, open}
    Slots = 2
    Target <- MCTarget
    MaxResend = 1
    p1 = p1
    p2 = p2
    Participant = {p1, p2}
    ArmCount = 2
    Strategy = "balanced"
    SeededArm = 1
    Nobody = Nobody
    MaxSessions = 3
    MaxSetbacks = 1
    o1 = o1
    o2 = o2
    r1 = r1
    r2 = r2
    Object = {o1}
    Request = {r1, r2}
    Sweeper = Sweeper
    MaxOutages = 1
    c1 = c1
    c2 = c2
    n1 = n1
    n2 = n2
    Editor = {c1, c2}
    Node = {n1, n2}
    Nowhere = Nowhere
    MaxEdits = 1
    MaxSeeds = 2
    MaxTroubles = 1
    MaxConnects = 3
    WaveCount = 2
    Kinds = {"fixed", "event"}
    PageCount = 3
    i1 = i1
    i2 = i2
    Instance = {i1, i2}
    Unknown = Unknown
    MaxMishaps = 1
    Subjects = {"arms"}
SPECIFICATION ServerSpec
CHECK_DEADLOCK FALSE
INVARIANT
    SessionKeepsItsArm
