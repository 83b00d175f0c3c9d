CONSTANTS
    q1 = q1
    q2 = q2
    u1 = u1
    u2 = u2
    t1 = t1
    Tokens = {t1}
    Life <- ShortLife
    Requests = {q1, q2}
    TokenOf <- OneToken
    Updates = {u1}
    Roles = {"user"}
    TTL = 2
    BanTimes = {1}
    Forever = 4
    MaxFaults = 1
    Members = {"ann", "bob"}
    NoOne = "nobody"
    Solvers = {"ann"}
    Names = {"n1", "n2", "n3"}
    ModuleBodies <- ThreeBodies
    HomeBodies <- StatsOn
    MaxWrites = 2
    PageQueries = {1, 2}
    FirstQuery = 1
    MaxOps = 2
    MaxMoves = 1
    MaxSubs = 2
    MaxAttempts = 2
    Notices = {1, 2, 3}
    Listed = 2
    Modules = {"solved", "badges"}
    Switches = {"public", "self"}
    MaxPresses = 3
    MaxTrouble = 1
SPECIFICATION PartsSpec
INVARIANTS
    PartsTypeOK
    OnlyWhatIsOpen
    ShownIsCurrent
    VerdictIsShown
    OptimismAgrees
PROPERTIES
    StaleOnlyIfRaced
    BanIsPrompt
    ExpiredIsRefused
    EventuallyFresh
CHECK_DEADLOCK FALSE
