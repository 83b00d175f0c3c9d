CONSTANTS
    s1 = s1
    r1 = r1
    r2 = r2
    w1 = w1
    w2 = w2
    Subs = {s1}
    Rejudges = {r1}
    Workers = {w1, w2}
    NoJob = NoJob
    Target <- TargetS1
    Faults = {"crash", "conn", "redis", "db", "gateway", "publish"}
    MaxFaults = 2
    RejudgeOnlyCounted = FALSE
    MaxRuns = 2
    MaxGets = 1
    RunTrouble = 2
    Conns = {"c1", "c2"}
    NoConn = "none"
    LinkTrouble = 3
    Clients = {"c1", "c2"}
    Accounts <- LoginAccounts
    FailMax = 2
    FailLock = 2
    RateMax = 1
    MaxBlind = 1
    Tabs = {"tab"}
    Users = {"u"}
    NoUser = "none"
    MaxSessions = 2
    MaxPending = 2
SPECIFICATION PartsSpec
INVARIANTS
    PartsTypeOK
    CountedIffAC
    NeverUnderCounted
    NeverOverCounted
    PendingIsUnderway
    QuietRunIsRight
    PanelShowsNewest
    SingleChain
    RegisteredOnce
    GuessesBounded
    RedirectsEnd
PROPERTIES
    PendingIsJudged
    RunIsAnswered
    Reconnects
    LockEnds
    UiSettles
CHECK_DEADLOCK FALSE
