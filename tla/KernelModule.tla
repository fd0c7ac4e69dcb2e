---------------------------- MODULE KernelModule ----------------------------
(***************************************************************************)
(* How a runner learns what a kernel mode test module consists of.  The    *)
(* reflector walks the exports of the driver and keeps an adapter of its   *)
(* fixtures (cfixkr/drvtestadp.c); the loader library finds the driver     *)
(* among the registered ones, negotiates the size of the response and      *)
(* turns the response into fixtures whose routines are keys                *)
(* (cfixkl/ioctl.c, cfixkl/module.c).  Lengths and sizes are in units of a *)
(* ULONG.                                                                  *)
(***************************************************************************)
EXTENDS Naturals, Sequences, FiniteSets, SequencesExt

CONSTANTS
    Images,         \* what the driver under test may export
    Driver,         \* the driver under test, started by this client
    Others,         \* other test drivers
    MaxNameLength,  \* CFIX_MAX_ENTRY_NAME_CCH - 1
    MaxFixtureName, \* CFIX_MAX_FIXTURE_NAME_CCH - 1
    MaxChanges,     \* bound on the number of times other drivers come and go
    Faults          \* may the client run out of memory?

\* An export directory.  Fixtures and routines have names, which are not empty;
\* that of a fixture is at most as long as the one it is exported by.
IsImage(exports) ==
    /\ exports \in Seq(Range(exports))
    /\ \A i \in DOMAIN exports :
          /\ exports[i].length \in Nat \ {0}
          /\ exports[i].mangled \in Nat /\ exports[i].mangled >= exports[i].length
          /\ exports[i].definition \in Seq(Range(exports[i].definition))
          /\ \A j \in DOMAIN exports[i].definition : exports[i].definition[j].length \in Nat \ {0}

ASSUME ModuleAssumption ==
    /\ \A exports \in Images : IsImage(exports)
    /\ Driver \notin Others /\ IsFiniteSet(Others)
    /\ MaxNameLength \in Nat
    /\ MaxFixtureName \in Nat
    /\ MaxChanges \in Nat
    /\ Faults \in BOOLEAN

VARIABLES
    image,       \* the exports of the driver under test
    registered,  \* the drivers with a connection to the reflector
    changes,     \* how often other drivers came or went
    stage,       \* how far CfixklsInitializeModule is
    capacity,    \* elements the buffer for the list of drivers holds
    listed,      \* the load addresses in the list
    base,        \* Module->DriverBaseAddress
    size,        \* SizeRequiredForQueryRequest
    response,    \* CFIXKR_IOCTL_QUERY_TEST_MODULE_RESPONSE
    module       \* Module->Base.Fixtures

moduleVars == <<image, registered, changes, stage, capacity, listed, base,
                size, response, module>>

-----------------------------------------------------------------------------
(***************************************************************************)
(* The adapter.  An export has a kind, a name, the length of its name with *)
(* and without mangling, and the definition that calling it yields, if it  *)
(* is a valid one.                                                         *)
(***************************************************************************)

Failed == [failed |-> TRUE]

EntryTypes == {"testcase", "setup", "teardown", "before", "after"}

\* Forwarders are skipped, and so are names without the prefix of fixtures.
IsFixtureExport(export) == export.kind = "fixture"

\* What is left of a name before the '@'.
UnmangleName(name) == name[1]

InitializeFixture(export) ==
    [name |-> UnmangleName(export.name), length |-> export.length,
     entries |-> export.definition]

\* The members of S up to n, in ascending order.
Ascending(S, n) ==
    LET upTo[k \in 0 .. n] ==
          IF k = 0 THEN <<>> ELSE IF k \in S THEN Append(upTo[k - 1], k) ELSE upTo[k - 1]
    IN  upTo[n]

\* The elements of a sequence at the indexes in S.
Pick(s, S) ==
    LET places == Ascending(S, Len(s))
    IN  [k \in DOMAIN places |-> s[places[k]]]

\* The exports the walk considers, in the order of the export directory.
Candidates == Pick(image, {i \in DOMAIN image : IsFixtureExport(image[i])})

\* An export whose name does not fit into the buffer, or without a valid
\* definition, ends the walk, and DriverEntry fails.
WalkExportDirectory ==
    \A i \in DOMAIN Candidates : Candidates[i].mangled <= MaxFixtureName /\ Candidates[i].valid

Adapter == [i \in DOMAIN Candidates |-> InitializeFixture(Candidates[i])]

\* CfixkrpGetRoutineTestAdapter: keys are indexes.
GetRoutine(adapter, fixtureKey, routineKey) ==
    IF fixtureKey >= Len(adapter) THEN Failed
    ELSE IF routineKey >= Len(adapter[fixtureKey + 1].entries) THEN Failed
    ELSE [fixture |-> adapter[fixtureKey + 1].name,
          entry   |-> adapter[fixtureKey + 1].entries[routineKey + 1]]

-----------------------------------------------------------------------------
(***************************************************************************)
(* The response: all structures, then all strings.                         *)
(***************************************************************************)

ModuleHeader  == 1
FixtureHeader == 3
EntrySize     == 4

\* f[1] + ... + f[n]
TotalUpTo(f, n) ==
    LET sum[k \in 0 .. n] == IF k = 0 THEN 0 ELSE sum[k - 1] + f[k]
    IN  sum[n]

Total(f) == TotalUpTo(f, Len(f))

\* The names of a fixture and its routines, and how long they are.
NamesOf(fixture) ==
    [n \in 1 .. 1 + Len(fixture.entries) |-> IF n = 1 THEN fixture.name ELSE fixture.entries[n - 1].name]

LengthsOf(fixture) ==
    [n \in 1 .. 1 + Len(fixture.entries) |-> IF n = 1 THEN fixture.length ELSE fixture.entries[n - 1].length]

FixtureSizes(adapter) == [i \in DOMAIN adapter |-> FixtureHeader + EntrySize * Len(adapter[i].entries)]
StringSizes(adapter)  == [i \in DOMAIN adapter |-> Total(LengthsOf(adapter[i]))]

StructSize(adapter)  == ModuleHeader + Len(adapter) + Total(FixtureSizes(adapter))
StringsSize(adapter) == Total(StringSizes(adapter))

\* CfixkrsCalculateBufferSize fails if the name of a routine is too long.
NamesFit(adapter) ==
    \A i \in DOMAIN adapter : \A j \in DOMAIN adapter[i].entries :
        adapter[i].entries[j].length < MaxNameLength

BufferSize(adapter) == StructSize(adapter) + StringsSize(adapter)

\* Faulty variant: the strings of a fixture overlap with its name.
NameOffsetOverlapping(adapter, i, n) ==
    StructSize(adapter) + TotalUpTo(StringSizes(adapter), i - 1)
    + TotalUpTo([LengthsOf(adapter[i]) EXCEPT ![1] = 0], n - 1)

\* The offset of the n-th name of fixture i: strings follow the structures in
\* the order in which the single pass over the fixtures meets them.
NameOffset(adapter, i, n) ==
    StructSize(adapter) + TotalUpTo(StringSizes(adapter), i - 1)
    + TotalUpTo(LengthsOf(adapter[i]), n - 1)

\* Faulty variant: the routines of a fixture are numbered without its setup routine.
FillEntryFromOne(adapter, i, j) ==
    [type |-> adapter[i].entries[j].type, key |-> j,
     nameOffset |-> NameOffset(adapter, i, j + 1)]

FillEntry(adapter, i, j) ==
    [type |-> adapter[i].entries[j].type, key |-> j - 1,
     nameOffset |-> NameOffset(adapter, i, j + 1)]

\* The strings area: which name starts at an offset.
StringAt(adapter) ==
    UNION {{<<NameOffset(adapter, i, n), NamesOf(adapter[i])[n]>> :
               n \in DOMAIN NamesOf(adapter[i])} : i \in DOMAIN adapter}

\* CfixkrpQueryModuleTestAdapter
QueryTestAdapter(adapter, maximum) ==
    IF ~ NamesFit(adapter) THEN [status |-> "error"]
    ELSE IF BufferSize(adapter) > maximum
    THEN [status |-> "overflow", size |-> BufferSize(adapter)]
    ELSE [status   |-> "ok",
          size     |-> BufferSize(adapter),
          fixtures |-> [i \in DOMAIN adapter |->
                          [key |-> i - 1, nameLength |-> adapter[i].length,
                           nameOffset |-> NameOffset(adapter, i, 1),
                           entries |-> [j \in DOMAIN adapter[i].entries |->
                                           FillEntry(adapter, i, j)]]],
          strings  |-> StringAt(adapter)]

NoResponse == [status |-> "none"]

-----------------------------------------------------------------------------
(***************************************************************************)
(* Fixtures of the client.                                                 *)
(***************************************************************************)

NameAt(r, offset) == (CHOOSE s \in r.strings : s[1] = offset)[2]

Absent == [present |-> FALSE, key |-> 0]

OfType(entries, type) == Pick(entries, {j \in DOMAIN entries : entries[j].type = type})

\* A routine is its key with CFIXKLP_ROUTINE_PRESENT, or nothing.
RoutineTag(entries, type) ==
    LET of == OfType(entries, type)
    IN  IF of = <<>> THEN Absent ELSE [present |-> TRUE, key |-> of[1].key]

\* CFIX_E_DUP_SETUP_ROUTINE and its like, or an entry of an unknown type.
InvalidFixture(io) ==
    \/ \E t \in EntryTypes \ {"testcase"} :
          Cardinality({j \in DOMAIN io.entries : io.entries[j].type = t}) > 1
    \/ \E j \in DOMAIN io.entries : io.entries[j].type \notin EntryTypes

\* CfixklsCreateFixture
CreateFixture(r, io) ==
    LET cases == OfType(io.entries, "testcase")
    IN  IF io.nameLength > MaxFixtureName \/ InvalidFixture(io) THEN Failed
        ELSE [name      |-> NameAt(r, io.nameOffset),
              key       |-> io.key,
              setup     |-> RoutineTag(io.entries, "setup"),
              teardown  |-> RoutineTag(io.entries, "teardown"),
              before    |-> RoutineTag(io.entries, "before"),
              after     |-> RoutineTag(io.entries, "after"),
              testCases |-> [i \in DOMAIN cases |->
                               [key  |-> cases[i].key,
                                name |-> NameAt(r, cases[i].nameOffset)]]]

-----------------------------------------------------------------------------
(***************************************************************************)
(* CfixklsInitializeModule.                                                *)
(***************************************************************************)

Stages == {"list", "relist", "search", "size", "query", "create", "run", "failed", "exhausted"}

ModuleInit ==
    /\ image \in Images
    /\ WalkExportDirectory
    /\ \E others \in SUBSET Others : registered = others \cup {Driver}
    /\ changes = 0
    /\ stage = "list"
    /\ capacity = 1
    /\ listed = <<>>
    /\ base = "none"
    /\ size = 0
    /\ response = NoResponse
    /\ module = <<>>

\* Another test driver connects to the reflector or leaves it.
OtherDriver(d) ==
    /\ stage \in {"list", "relist", "search", "size"} /\ changes < MaxChanges
    /\ registered' = IF d \in registered THEN registered \ {d} ELSE registered \cup {d}
    /\ changes' = changes + 1
    /\ UNCHANGED <<image, stage, capacity, listed, base, size, response, module>>

\* CfixkrpGetDriverConnections enumerates the registry in the order of its buckets.
GetDriverConnections == SetToSeqs(registered)

\* CFIXKR_IOCTL_GET_TEST_MODULES with the static buffer, which holds one element.
ListModules ==
    /\ stage = "list"
    /\ IF Cardinality(registered) <= capacity
       THEN /\ listed' \in GetDriverConnections
            /\ stage' = "search"
            /\ UNCHANGED capacity
       ELSE /\ capacity' = Cardinality(registered)
            /\ stage' = "relist"
            /\ UNCHANGED listed
    /\ UNCHANGED <<image, registered, changes, base, size, response, module>>

\* Again with a buffer for as many drivers as there were then.
ListModulesAgain ==
    /\ stage = "relist"
    /\ IF Cardinality(registered) <= capacity
       THEN /\ listed' \in GetDriverConnections
            /\ stage' = "search"
       ELSE /\ stage' = "failed"
            /\ UNCHANGED listed
    /\ UNCHANGED <<image, registered, changes, capacity, base, size, response, module>>

\* The driver with the right file name; one that has gone has no name.
FindBaseAddressDriver ==
    /\ stage = "search"
    /\ LET found == {i \in DOMAIN listed : listed[i] = Driver /\ listed[i] \in registered}
       IN  IF found # {} THEN base' = Driver /\ stage' = "size"
           ELSE stage' = "failed" /\ UNCHANGED base
    /\ UNCHANGED <<image, registered, changes, capacity, listed, size, response, module>>

\* The first query is made with room for the offset of one fixture.
QuerySizeForQueryModuleRequest ==
    /\ stage = "size"
    /\ LET r == QueryTestAdapter(Adapter, ModuleHeader + 1)
       IN  /\ size' = CASE r.status = "ok" -> ModuleHeader
                        [] r.status = "overflow" -> r.size
                        [] OTHER -> 0
           /\ stage' = IF r.status = "error" THEN "failed" ELSE "query"
    /\ UNCHANGED <<image, registered, changes, capacity, listed, base, response, module>>

QueryModule ==
    /\ stage = "query"
    /\ response' = QueryTestAdapter(Adapter, size)
    /\ stage' = IF response'.status = "ok" THEN "create" ELSE "failed"
    /\ UNCHANGED <<image, registered, changes, capacity, listed, base, size, module>>

\* A fixture that cannot be created fails the module.
InitializeModule ==
    /\ stage = "create"
    /\ module' = [i \in DOMAIN response.fixtures |-> CreateFixture(response, response.fixtures[i])]
    /\ stage' = IF \E i \in DOMAIN module' : module'[i] = Failed THEN "failed" ELSE "run"
    /\ UNCHANGED <<image, registered, changes, capacity, listed, base, size, response>>

\* No memory for a larger list (CfixklsFindBaseAddressDriver), for the response
\* (CfixklpQueryModule), or for the fixtures or one of them
\* (CfixklsInitializeModule, CfixklsCreateFixture).
OutOfMemory ==
    /\ Faults /\ stage \in {"relist", "query", "create"}
    /\ stage' = "exhausted"
    /\ UNCHANGED <<image, registered, changes, capacity, listed, base, size, response, module>>

ModuleNext ==
    \/ \E d \in Others : OtherDriver(d)
    \/ ListModules \/ ListModulesAgain \/ FindBaseAddressDriver
    \/ QuerySizeForQueryModuleRequest \/ QueryModule \/ InitializeModule
    \/ OutOfMemory

-----------------------------------------------------------------------------
(***************************************************************************)
(* What the image defines, read without keys, offsets and sizes.           *)
(***************************************************************************)

Defined(i) == Candidates[i]

DefinedCases(i) == OfType(Defined(i).definition, "testcase")

\* An image that cannot be represented: a routine twice, an unknown entry, or a
\* name without room for its terminator.
Refused ==
    \E i \in DOMAIN Candidates :
        LET entries == Defined(i).definition
        IN  \/ \E j \in DOMAIN entries : \/ entries[j].length >= MaxNameLength
                                         \/ entries[j].type \notin EntryTypes
            \/ \E j, k \in DOMAIN entries :
                  j # k /\ entries[j].type = entries[k].type /\ entries[j].type # "testcase"
=============================================================================
