CONSTANTS
    x = x
    y = y
    u1 = u1
    Users = {ann, bob}
    Puts = {p1, p2}
    Roles = {"user", "admin"}
    Problems = {x, y}
    NoProblem = NoProblem
    LastDay = 1
    Sets = {u1}
    Asked <- AskedXY
    Ends = {e1}
    Gets = {g1}
    Timers = {t1}
    Hosts <- ThreeHosts
    MaxCases = 2
    MaxJobs = 1
    ErrKinds = {"none", "line", "part", "full"}
SPECIFICATION FairSpec
INVARIANTS
    TypeOK
    NeverLocked
    AutoOnlyWhenOver
    FairVerdict
    MarkersStayInside
PROPERTIES
    EndingIsFinal
    OverdueIsSettled
    CleanAfterwards
    JudgingEnds
CHECK_DEADLOCK FALSE
