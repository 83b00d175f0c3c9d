CONSTANTS
    ann = ann
    bob = bob
    p1 = p1
    p2 = p2
    Users = {ann, bob}
    Puts = {p1, p2}
    Roles = {"user", "admin"}
    Overlap = TRUE
SPECIFICATION Spec
SYMMETRY UsersAndPuts
INVARIANTS
    NeverLocked
CHECK_DEADLOCK FALSE
