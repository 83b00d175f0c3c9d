CONSTANTS
    q1 = q1
    q2 = q2
    u1 = u1
    u2 = u2
    t1 = t1
    Tokens = {t1}
    Life <- LongLife
    Requests = {q1, q2}
    TokenOf <- OneToken
    Updates = {u1}
    Roles = {"user", "admin"}
    TTL = 2
    BanTimes = {}
    Forever = 4
    MaxFaults = 0
SPECIFICATION Spec
SYMMETRY RequestsAndUpdates
PROPERTIES
    UpdateIsPrompt
