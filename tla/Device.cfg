CONSTANTS
    q1 = q1
    q2 = q2
    q3 = q3
    q4 = q4
    q5 = q5
    d1 = d1
    m1 = m1
    hidden = hidden
    NoItem = NoItem
    Pages <- MCPages
    Question = {q1, q2, q3, q4, q5, hidden}
    AutoAdvance = {d1, m1}
    HiddenItem = {hidden}
    HiddenPage = {3}
    Deadline <- MCDeadline
    PageLimit <- MCPageLimit
    SurveyLimit = "auto-submit"
    Rules <- MCRules
    Vetoing = {q5}
    Screener = {2}
    MaxHalts = 1
    MaxReloads = 1
    MaxRewinds = 1
    LastQuestion = 3
    NoSnapshot = NoSnapshot
    MaxFail = 2
    MaxLoads = 2
    v1 = v1
    v2 = v2
    Variable = {v1, v2}
    Padded = {v2}
    MaxSaves <- MCSaves
    MaxFailures = 1
    MaxOverrun = 1
    AttemptLimit = 1
    f1 = f1
    f2 = f2
    File = {f1, f2}
    AnswerAttempts = 2
    MaxLosses = 2
    MaxRearms = 1
    t1 = t1
    t2 = t2
    Tab = {t1, t2}
    MaxKeys = 2
    MaxRows = 2
    MaxReopens = 1
    Page = {t1, t2}
    MaxVersion = 2
    MaxPins = 1
    n1 = n1
    n2 = n2
    Name = {n1, n2}
    MaxRetry = 2
    MaxEdits = 1
    MaxRequests = 1
    MaxFaults = 1
    Subjects = {"flow", "storage", "variables", "binaries", "keys", "content", "designer"}
SPECIFICATION DeviceSpec
CHECK_DEADLOCK FALSE
INVARIANTS
    DeviceTypeOK
    NaturalEndIsWhole
    
    LossIsReported
    SyncedValueIsHeld
    BytesAreHeld
    UnreadableOnlyAfterRaceOrPurge
    PinnedVersionIsCached
    AcceptedIsKept
PROPERTIES
    EndsOnce
    BudgetEndsRun
    PurgedValueIsHeld
    LastValueArrives
    PurgedAnswerNamesItsBytes
    CompletedRunIsPurged
