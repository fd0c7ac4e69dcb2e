\* Nine files in a tree of depth three, some 330 command lines; two fixtures
\* with three child threads; a pipe that holds half of what is written; two runner
\* processes, one test driver that is loaded twice, routines whose threads create
\* threads and close handles; tables of one, two and three buckets.
CONSTANTS
    CommandLines <- MCCommandLines
    FilterOf <- MCFilterOf
    PrefixOf <- MCPrefixOf
    Tree <- MCTree
    Opens <- MCOpens
    Images <- MCImages
    None = None
    MainThread = main
    Children = {c1, c2, c3}
    MaxFixtures = 2
    Nobody = Nobody
    Capacity = 2
    MaxOutput = 4
    ExitCodes = {"ALL_SUCCEEDED", "SOME_FAILED"}
    Clients = {p1, p2}
    Unloader = unloader
    Threads = {t1, t2}
    MaxLoads = 2
    MaxChildren = 2
    Nested = TRUE
    ClosesHandles = TRUE
    Entries <- MCEntries
    Keys <- MCKeys
    KeyOf <- MCKeyOf
    Hash <- MCHash
    Null = Null
    Sizes = {1, 2, 3}
SPECIFICATION RunnerSpec
INVARIANTS
    AssemblyComplete
    ImagesHeld
    StateOutlivesThreads
    DbgHelpLockReleased
    RefsCounted
    HeldIsLive
    Protected
    ChildrenJoined
    CountsEntries
PROPERTIES
    SpawnReturns
    StopEnds
    ImplementsDictionary
\* The program ends.
CHECK_DEADLOCK FALSE
