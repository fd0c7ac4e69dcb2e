\* Two fixtures with two and one test cases under four options and two events; a
\* runner and a child thread that run three routines, nested or in sequence.
CONSTANTS
    None = None
    f1 = f1
    f2 = f2
    f3 = f3
    c1 = c1
    c2 = c2
    Runners = {r1}
    Workers = {w1, w2}
    Anonymous = {a1}
    Callers = {r1, w1}
    Creators = {r1, w1, w2}
    Filaments = {f1, f2, f3}
    DefaultFilaments = {f1}
    Contexts = {c1, c2}
    ContextOf <- TwoContexts
    MaxThreads = 3
    FirstCallsMayRace = FALSE
    DefaultMayNest = FALSE
    HandleCanFail = FALSE
    ExecOptions = {"f", "fsf", "fss", "fsr"}
    StateAllocationMayFail = FALSE
    FixtureCount = 2
    TestCaseCount <- TwoAndOne
    Provided = {"setup", "before", "after", "teardown"}
    Setters = {"setup", "before", "test"}
    MaxTestCases = 2
    MaxEvents = 2
    ContextMayFail = FALSE
    FilamentMayFail = FALSE
SPECIFICATION RunsSpec
INVARIANTS
    RoutinesBracketed TestAbortStopsRun ShortCircuits NothingSkipped
    StorageOfTestCase EventsAttributed StatisticsComplete
    IInv NoDanglingFilament ContextsBalanced DefaultIsLive CreatorWaits
PROPERTIES SinkProtocol AutoJoin
\* Threads end.
CHECK_DEADLOCK FALSE
