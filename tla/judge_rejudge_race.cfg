CONSTANTS
    s1 = s1
    r1 = r1
    r2 = r2
    w1 = w1
    w2 = w2
    Subs = {s1}
    Rejudges = {r1}
    Workers = {w1}
    NoJob = NoJob
    Target <- TargetS1
    Faults = {}
    MaxFaults = 0
    RejudgeOnlyCounted = FALSE
SPECIFICATION Spec
INVARIANTS
    QuietIsExact
CHECK_DEADLOCK FALSE
