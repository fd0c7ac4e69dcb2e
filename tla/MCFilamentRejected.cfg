\* A runner with failing handles, a table of two, and default filaments that nest.
CONSTANTS
    None = None
    f1 = f1
    f2 = f2
    f3 = f3
    c1 = c1
    c2 = c2
    Runners = {r1}
    Workers = {w1, w2}
    Anonymous = {a1}
    Callers = {r1}
    Creators = {r1}
    Filaments = {f1, f2, f3}
    DefaultFilaments = {f1, f3}
    Contexts = {c1, c2}
    ContextOf <- OneContext
    MaxThreads = 2
    FirstCallsMayRace = FALSE
    DefaultMayNest = TRUE
    HandleCanFail = TRUE
SPECIFICATION Spec
INVARIANTS DefaultAvailable RunsRegistered
CHECK_DEADLOCK FALSE
