CONSTANTS
    None = None
    f1 = f1
    f2 = f2
    f3 = f3
    c1 = c1
    c2 = c2
    Runners = {r1}
    Workers = {w1, w2}
    Anonymous = {a1}
    Callers = {r1}
    Creators = {r1}
    Filaments = {f1}
    DefaultFilaments = {f1}
    Contexts = {c1, c2}
    ContextOf <- OneContext
    MaxThreads = 2
    FirstCallsMayRace = TRUE
    DefaultMayNest = FALSE
    HandleCanFail = FALSE
SPECIFICATION Spec
INVARIANT NoDanglingFilament
CHECK_DEADLOCK FALSE
