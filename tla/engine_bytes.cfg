SPECIFICATION Spec
CONSTANTS
    Hosts <- NewHosts
    ErrKinds = {"none"}
    MaxCases = 1
    MaxJobs = 1
INVARIANTS
    NoFalseMLE
CHECK_DEADLOCK FALSE
