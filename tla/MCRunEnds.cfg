\* Two fixtures with failing contexts, filaments and allocations; a runner whose
\* routines create threads.
CONSTANTS
    None = None
    f1 = f1
    f2 = f2
    f3 = f3
    c1 = c1
    c2 = c2
    Runners = {r1}
    Workers = {w1, w2}
    Anonymous = {a1}
    Callers = {r1}
    Creators = {r1}
    Filaments = {f1, f2, f3}
    DefaultFilaments = {f1, f3}
    Contexts = {c1, c2}
    ContextOf <- TwoContexts
    MaxThreads = 3
    FirstCallsMayRace = FALSE
    DefaultMayNest = FALSE
    HandleCanFail = FALSE
    ExecOptions = {"f", "u", "b", "fsr"}
    StateAllocationMayFail = TRUE
    FixtureCount = 2
    TestCaseCount <- OneAndOne
    Provided = {"setup", "before", "after", "teardown"}
    Setters = {"setup", "before", "test"}
    MaxTestCases = 2
    MaxEvents = 1
    ContextMayFail = TRUE
    FilamentMayFail = TRUE
SPECIFICATION FairRunsSpec
PROPERTIES FatalEndsRun RoutinesComplete DerivationEnds
\* Threads end.
CHECK_DEADLOCK FALSE
