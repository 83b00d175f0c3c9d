CONSTANTS
    x = x
    y = y
    u1 = u1
    u2 = u2
    e1 = e1
    g1 = g1
    t1 = t1
    LastDay = 1
    Problems = {x, y}
    NoProblem = NoProblem
    Puts = {u1, u2}
    Asked <- AskedXY
    Ends = {e1}
    Gets = {}
    Timers = {t1}
SPECIFICATION Spec
PROPERTIES
    FinishedStaysFinished
