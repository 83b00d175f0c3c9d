CONSTANTS
    s1 = s1
    r1 = r1
    r2 = r2
    w1 = w1
    w2 = w2
    Subs = {s1}
    Rejudges = {r1, r2}
    Workers = {w1, w2}
    NoJob = NoJob
    Target <- TargetS1
    Faults = {"conn", "publish"}
    MaxFaults = 1
    RejudgeOnlyCounted = TRUE
    \* Two days of 2 ticks; contests on ticks 1 and 2 and on 0 and 1.
    Members = {"ann", "bob"}
    Tasks = {"easy", "hard"}
    Difficulty <- TaskDifficulty
    NameOrder <- MemberOrder
    SolvedSteps = {1, 2}
    SubmissionSteps = {2}
    StreakSteps = {1}
    MaxSubs = 2
    LastTime = 2
    DayLength = 2
    FirstContests <- Calendar
    ContestForms <- OtherTimes
    MaxChanges = 1
    Runtimes = {1, 2}
    DailyTop = 1
    BoardTop = 1
    \* From a Saturday to a Monday, the Sunday being the first of a month.
    Entries = {"s1", "s2"}
    FirstDay = 2
    LastDay = 4
    MonthStarts = {0, 3}
    MaxTrouble = 1
    MaxRejudges = 1
    Teacher = "teacher"
    Other = "other"
    Admin = "admin"
    Imports = {"r1", "r2"}
    Jobs <- BankJobs
    Titles = {"new"}
    Inputs = {"i1", "i2"}
    NoOne = "nobody"
    MaxEdits = 1
SPECIFICATION PartsSpec
INVARIANTS
    PartsTypeOK
    ExactCredit
    AnswersAgree
    BoardsExact
    ImportIsWhole
PROPERTIES
    LedgerKept
CHECK_DEADLOCK FALSE
