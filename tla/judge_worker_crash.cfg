CONSTANTS
    s1 = s1
    r1 = r1
    r2 = r2
    w1 = w1
    w2 = w2
    Subs = {s1}
    Rejudges = {}
    Workers = {w1}
    NoJob = NoJob
    Target <- TargetS1
    Faults = {"crash"}
    MaxFaults = 1
    RejudgeOnlyCounted = TRUE
SPECIFICATION Spec
INVARIANTS
    QuietIsExact
CHECK_DEADLOCK FALSE
