SPECIFICATION Spec
CONSTANTS
    Hosts <- PlainHosts
    ErrKinds = {"none", "line", "part"}
    MaxCases = 1
    MaxJobs = 2
INVARIANTS
    NoFalseMLE
CHECK_DEADLOCK FALSE
