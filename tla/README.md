# A TLA+ development for cfix

cfix is a unit testing framework for C and C++ on Windows. Test code is compiled
into DLLs (or, with cfixkern, into kernel drivers) whose exports describe test
fixtures; a runner loads them, runs their routines and reports events to an event
sink. This directory holds TLA+ models of cfix, from the command line to the
exit code and from the runner to the kernel mode test driver, and of the two
libraries it is built with, the hash table `jpht` and the diagnostics library
`cdiag`; the TLC configurations that check them; and TLAPS proofs of most of the safety
properties, for every value of the constants.

All paths below are relative to the root of the repository (`src/` here).

## 1. Inventory

| Component | State | Operations | Hard part |
|---|---|---|---|
| Filaments, `cfix/cfix/filament.c` | a `CFIXP_FILAMENT` per running routine (main thread, flags, previous filament, table of child threads with a lock); a TLS slot per thread, its lowest bit marking a *derived* filament; the process-wide default filament with its lock | initialize, set current, get current (with derivation), register child, join, destroy, sweep at thread detach | threads, two locks, an unlocked test, references dropped before the step that may fail |
| Child threads, `cfix/cfix/thread.c` | start parameters on the creator's stack, an event | `CfixCreateThread2`, `CfixsThreadStart` | handshake between creator and thread, registration that fails |
| Routine runner and loader, `cfix/cfix/pe.c` | the fixture map; the module's reference count | `CfixsRunTestRoutine` and one wrapper per kind of routine; loading of fixtures | nesting, restoring of the previous filament, HRESULT mapping |
| Fixture execution action, `cfix/cfix/tsexecaction.c` | flags, selected test case | run: setup, for each test case before/test/after, teardown | three overlapping short-circuit flags, aborts, fatal errors |
| Sequence action, `cfix/cfix/sequenceaction.c` | list of actions under a lock | add, run, dispose | early end, references |
| Storage, `cfix/cfix/tls.c` | values in the current filament; two TLS slots in which they survive | set, get, restore | values that outlive their test case |
| Event emitting proxy, `cfix/cfix/eventemitter.c` | current fixture, current test case, first-test-case flag | the callbacks of an execution context | attribution of events |
| Runner's execution context, `cfix/cfixrun/execctx.c` | reference counted state per thread, statistics | the callbacks of an execution context | state shared between threads, disposition per option |
| Report stubs, `cfix/cfix/rptstubs.c` | none | assertion, failure, inconclusiveness, log; the exception filter | outcome depends on disposition and on the derived bit |
| Runner, `cfix/cfixrun/main.c`, `runtest.c`, `cmdline.c` | options, statistics | parse, assemble actions, run, exit code | a failure in the middle, and what is to be released then |
| Search and display, `cfix/cfixrun/*search.c`, `displayaction.c`, `cfix/cfixutil/search.c` | directories being traversed | recursive search with callbacks, filter | errors that are swallowed at one level and not at another |
| Stack traces, `cfix/cfix/stacktrace.c` | DbgHelp handle and lock | lazy initialization, capture, symbol lookup | early return with the lock held |
| Event sinks, `cfix/cfixcons`, event DLLs | console state | events | client of the proxy's protocol |
| Program and embedding, `cfix/cfixcmd`, `cfix/cfixemb` | a pipe, a child process | spawn, relay, wait | two processes that wait for each other |
| Kernel reflector, `cfixkern/cfixkr` | connections to test drivers, their registry, a registry of filaments per connection, event buffers | connect, query, call routine, report, disconnect, unload | unload against running routines; threads; a full buffer |
| Kernel loader, `cfixkern/cfixkl`; driver library, `cfixkern/cfixkdrv` | driver and reflector handles, a storage value per thread | load, IOCTLs, translate, unload | negotiated sizes, keys, state that travels with each call |
| Hash table, `jpht` | buckets | put, get, remove, enumerate, resize | removal while enumerating |
| Diagnostics, `cdiag` | sessions, handlers, formatters, resolvers, a registry backed store | register, handle, format, resolve, read, write, notify | reference counts across threads, buffers that are just full, callbacks against deletion |
| C++ and WinUnit bindings | none | macros, templates | none |

How they interact. The runner builds a sequence of fixture execution actions and
runs it with an execution context. An action calls the module's wrapper for each
routine. The wrapper calls `CfixsRunTestRoutine`, which puts a filament on its
stack, makes it the thread's current one, calls the routine inside an exception
filter, joins the threads the routine has started, gives the previous filament back
and destroys its own. Routines report events through the current filament to the
execution context; the context (the proxy, then the runner's) returns a disposition,
and the report stub turns it into going on, failing, aborting or breaking. Threads
created with `CfixCreateThread` inherit the filament of their creator; threads test
code creates by other means take the *default filament* at their first call. A
kernel mode module is run the same way, but its wrappers are in `cfixkl`: each
routine is one IOCTL of the reflector, which calls into the driver under the
driver's unload lock, collects the events in the response, and keeps nothing
between calls.

What makes each of these correct: no thread is left with a pointer into a stack
frame, a connection or an image that is gone; a routine is over only when its
threads are; each reference is dropped exactly once; the default filament is there
while its routine runs and never afterwards; every routine, first call, stop of a
driver and spawned run ends; setup and teardown bracket the test cases whatever
these do; aborts and short-circuits stop what they should and no more; storage
belongs to a test case; the fixtures that are run are the ones selected; events,
statistics and the exit code tell what happened.

## 2. Modules

| Module | Models |
|---|---|
| `Filament` | `filament.c`, `thread.c`, `CfixsRunTestRoutine` of `pe.c` |
| `FilamentInvariant` | the inductive invariant of `Filament` and the discipline it needs |
| `FilamentProofs` | lemmas and theorems about `Filament` |
| `EventEmitter` | the callbacks of the event emitting proxy |
| `ExecContext` | the callbacks of the runner's execution context, for the main thread; the exit code |
| `EventProtocol` | abstract: what an event sink may rely on |
| `TestRun` | composes `EventEmitter` and `ExecContext` with `tsexecaction.c`, `sequenceaction.c`, the wrappers of `pe.c`, `tls.c` and the report stubs |
| `TestAssembly` | `cmdline.c`, `search.c`, `dllsearch.c`, `fixturesearch.c`, `runtest.c`, `displayaction.c`, `main.c`, the loader of `pe.c`, references of modules, actions and sequence |
| `RunnerThreads` | the state of `execctx.c` shared by threads, the lock of `stacktrace.c` |
| `Spawn` | `cfixcmd/main.c` with `-exe`, `cfixemb/embmain.c` |
| `DriverConnection` | `drvconn.c`, `drvconnreg.c`, `main.c`, `filament.c`, `thread.c` of `cfixkr`; `drvmain.c`; `load.c` of `cfixkl` |
| `KernelModule` | `drvtestadp.c`; the queries of `ioctl.c`, `module.c` of `cfixkl` |
| `KernelCalls` | extends `KernelModule`: `rptstubs.c` of `cfixkr`, the calls of `ioctl.c` and `module.c` |
| `HashTable` | `jpht/jpht/hashtable.c` |
| `Dictionary` | abstract: what `hashtable.h` promises |
| `Diagnostics` | sessions, handlers, formatters, resolvers of `cdiag` |
| `MessageFormat` | `formatstr.c`, the variables of `formatter.c`, the resolving of `msgresolver.c` |
| `ConfigStore` | `regconfigstore.c` |
| `TestRunProofs`, `TestAssemblyProofs`, `RunnerThreadsProofs`, `DriverConnectionProofs`, `KernelCallsProofs`, `HashTableProofs` | inductive invariants, lemmas and theorems about the module each is named after |
| `CdiagProofs` | the same about `ConfigStore` and `Diagnostics` |
| `MCFilament`, `MCDriverConnection`, `MCKernelCalls` | values of the constants for TLC |
| `MCRun` | `TestRun` and `Filament` side by side |
| `MCRunner` | `TestAssembly`, `RunnerThreads`, `Spawn`, `DriverConnection` and `HashTable` side by side |
| `MCDiagnostics` | `Diagnostics`, `MessageFormat` and `ConfigStore` side by side |

In `MCRun`, `MCRunner` and `MCDiagnostics` the parts share no state, so their interleavings
say nothing; each moves from its initial state while the others are at rest.

Definitions called *faulty variants* are plausible mistakes in the definition that
follows them. No specification uses them; putting one in the place of its original
makes TLC report the property it is listed with in `PROJECT.json`.

### Filament

Threads are of three kinds: *runners* (threads of the host that run test
routines), *workers* (created by `CfixCreateThread2`) and *anonymous* threads.
`Callers` and `Creators` say whose code calls `CfixsRunTestRoutine` (embedding and
nested runs do, from any thread) and `CfixCreateThread`. A member of `Filaments`
stands for one call of `CfixsRunTestRoutine` and the filament on its stack, so an
instance bounds the number of calls and never reuses a frame.

State: `tls` and `derived` are the TLS slot with its lowest bit, `stack` the nested
calls of a thread, `status`, `mainThread`, `prev`, `children` the fields of a
filament, `default`, `lockOwner`, `lockDepth` the global `CfixsDefaultFilament` with
its recursive critical section, `refs` the reference counts of execution contexts.
`pc`, `op` and `new` locate a thread: `op` tells on whose behalf
`CfixsSetCurrentFilament` is being executed and `new` is its argument.

Steps are split where a thread can be overtaken or block. `CfixsSetCurrentFilament`
is three steps: the call drops the old context's reference; `RegisterChildThread`,
`DuplicateHandleFails` or `SkipRegistration` cover the registration under
`ChildThreads.Lock`; `PublishFilament` or `DefaultFilamentConflict` update the
default filament and the slot. `AfterSuccess` and `AfterFailure` say where each of
the five callers goes on. `ChildThreads.Lock` is held across steps by the join only
(`ChildLockHeld`); the default filament's lock is held across steps by a derivation,
and after a conflict for ever, as in the code.

Three constants state what is left to the user of the library or to the operating
system: `FirstCallsMayRace` (may the first call of an anonymous thread overlap with
the end of the routine whose filament is the default one), `DefaultMayNest` (may a
default filament be started while another filament is active) and `HandleCanFail`
(may `DuplicateHandle` fail).

Left out: `CREATE_SUSPENDED`, the failure of `CreateEvent` and `CreateThread`
(nothing shared has changed at that point), the contents of messages, closing of
handles (part of `DestroyFilament`, without a state of its own). The callbacks
`CfixCreateThread2` makes to the execution context are in `RunnerThreads`.

### TestRun

One thread, one action per stage of `CfixsRunFixtureExecutionAction`. A routine is
abstracted to the event it reports (`Events`), from which the report stubs, the
options and the context determine its outcome; `RunRoutine` also carries the storage
from slot to filament and back. `ReturnFromAction` is the loop of
`CfixsRunSequenceAction`. The proxy's and the context's callbacks are conjoined to
the step in which the action calls them. `log` is a history variable; the
properties are about it. `EventProtocol` is the abstract specification of what
reaches an event sink; `SinkProtocol` is the refinement (its only variable, `sink`,
is kept by the proxy's callbacks, which is the identity mapping).

### TestAssembly, RunnerThreads, Spawn

`TestAssembly` is the main thread of the runner: `phase` says where it is, `dirs` is
the recursion of `CfixutilsTraverseDirectory`, `module` the module whose fixtures are
being added, `heap` the reference counts. Paths, names and arguments are atoms; the
file tree, what opening a directory answers and the exports of each image are
constants. Every allocation and every loader may fail. The loops over the sequence
are steps: the entries are collected with a reference each before the run, released one
by one after it, and deleted one by one with the sequence. `AssemblyComplete` compares
the sequence with `Listing`, one that is read off the tree by a recursive function.

`RunnerThreads` has a main thread that runs fixtures and child threads that are
created by any thread, report (capturing a stack trace, then printing it, each under
the DbgHelp lock) and finish, or leave with `ExitThread`, which bypasses
`AfterChildThreadFinish`. That a routine waits for its threads is what `Filament`
shows; here it is the guard of `JoinChildren`.

`Spawn` has the two processes, the pipe with its write ends and a bounded buffer, and
a standard output that may fail.

### DriverConnection

One test driver that is always loaded at the same address; connection *n* is the one
its *n*-th `DriverEntry` creates. A client is a thread of a runner process; `Unloader`
is the thread that runs `CfixkDrvUnload`. A call is looked up, tested
(`CheckExternalReference`), locked (`AcquireUnloadLock`), run, unlocked, joined and
dereferenced in separate steps; a dereference that reaches zero deletes the filament
registry, unregisters and frees in separate steps too, as the code does without a
lock around them. A query, and the lookup of a routine before a call, read the adapter,
which is in the driver's image, with no lock. What the machine would not survive sets
`fault` and ends the behaviour: reading in an image that is gone (`ReadAdapter`), running
code in one (`TouchDriver`), touching a connection or a thread object that is gone; `firm` and
`shielded` are history variables that say which clients were safe when they looked.

### KernelModule, KernelCalls

`KernelModule` is a pure computation with interference: the reflector turns exports
into fixtures and entries with keys, a response is laid out with offsets into a
strings area in two passes whose sizes must agree, and the client reads it back.
Lengths are in units of a `ULONG`; a name has one with its decoration, which the reflector
tests, and one without, which the loader tests. The list of drivers may change between the
two queries for it, and memory may run out at each allocation (`OutOfMemory`, with `Faults`). `KernelCalls` runs the fixtures that were loaded: a routine and one
child thread report events into a buffer of bounded size, set the storage value, raise
the IRQL, return, abort or crash; the client replays the events and maps flags to an
HRESULT. `history` holds what the program does not know.

### HashTable

Buckets are sequences. `Put`, `Get` and `Remove` are atomic (the table has no
lock, callers have); an enumeration is one step per callback, which may remove the
entry it is called for; a resize installs the empty new buckets, puts the old entries
one per step and frees the old ones, during which nothing else is enabled.
`ImplementsDictionary` is the refinement of `Dictionary`, with
the union of the buckets, those still to be copied included, for the entries, and the
rest of the current bucket and the later buckets for the entries to come.

### Diagnostics, MessageFormat, ConfigStore

`Diagnostics` splits operations where a lock is left: `CdiagHandleEvent` grabs a handler
under the session's lock and uses it after, `RegisterMessageDll` loads before it takes
the lock. The deletion of a session tears its handlers down one per step, in any order
(that of the hash table is not known), then drops the default handler, the formatter and
the resolver; other threads go on meanwhile with the objects they hold. Clients keep the
contract: they pass objects they hold a reference to, and keep it during a registration.
The registration that `CdiagsSetHandler` allocates without a test (`session.c:288`) is taken
to be there. `MessageFormat` takes a template, a packet and a buffer size in one step and
models the loop by a fold over the template; `FormatCorrect` compares with a definition of
the expansion that knows nothing of buffers. What a word of a template stands for and where
stripping cuts are parameters of that definition: with what the code does (`Abbreviates`,
`LastWordCut`) the two agree, with what headers, comments and tests say (`Spells`,
`SpacesCut`) they do not, which two of the runs show. `ConfigStore` has two scopes of one setting,
clients, the wait thread and other writers of the registry; making a notification may fail
at each of its calls (`Outcomes`). The registry, events and
registered waits of the system are modelled from how the code uses them.

## 3. What the runs show

`tlc -config <cfg> <module>`; sizes are distinct states.

| Run | Instance | States | Checks |
|---|---|---|---|
| `test_run` | two fixtures (2 and 1 test cases), four options, two events; one runner and one child thread that run three routines, nested or in sequence, and create threads, with an anonymous thread | 685,365 | order of routines, short-circuits, aborts by tests, storage, attribution, statistics, `SinkProtocol`; `IInv`, pointers, references, default filament, handshake, `AutoJoin` |
| `filament_rejected` | default filaments may nest on the runner, `DuplicateHandle` may fail, table of 2 | 143,996 | the outer default filament survives a rejected nested one; nobody runs unregistered |
| `run_ends` | failing allocation, context and filament, `-u` and `-b`; filaments whose threads are created by the runner only | 87,777 | a fatal error ends the run; every routine completes, every first call gets an answer |
| `kernel` | seven images (two of which the reflector rejects), four settings, two reports per call, room for three events | 899,123 | the module as seen by the runner or its refusal, dispatch, overflow, flags, storage |
| `cdiag` | two threads, handlers and formatters; templates of three tokens; one setting | 821,771 | reference counts, formatting, callbacks, scopes |
| `runner` | nine files, some 330 command lines; two fixtures with three child threads; a pipe half as large as the output; two runner processes, a driver that is loaded twice, two threads that create threads and close handles; a table of five entries, four keys, one to three buckets | 254,720 | selection, lifetime of images, shared state, DbgHelp lock, `SpawnReturns`; references and use of connections, the unload lock, the join, `StopEnds`; `ImplementsDictionary`, `CountsEntries` |

The other runs check one property each and end with a counterexample: the code does
not do what one of its comments, headers or tests says. `PROJECT.json` quotes the lines.

| Run | Shows |
|---|---|
| `filament_race` | an anonymous thread tests for the default filament, the routine's join ends, the thread registers, the filament is destroyed: the thread keeps the pointer |
| `reflector_unload` | a client tests `ExternalReferenceCount`, the driver releases its reference, the client gets the lock and calls the routine, the driver is unloaded while it runs (`DriverNotTouched`) |
| `kernel_abort` | an assertion fails in a thread of the routine and the disposition is to abort the run; `AbortRun` stays FALSE (`AbortRunSet`) |
| `effective_scope` | a store without the user's key refuses a read of the effective scope although the machine has the setting (`EffectiveFallsBack`) |
| `stripped_message` | a message of two words loses the second when newlines are stripped (`StripKeepsText`) |
| `unknown_variable` | a word that is the beginning of a variable's name is replaced by its value (`UnknownIsEmpty`) |

Further observations, made with other values of the constants or while reading:

- The join holds `ChildThreads.Lock` while it waits; a child that creates a thread
  during the join waits for it, and the routine never completes (`filament.c:447`;
  `RoutinesComplete` fails when children are `Creators`).
- `CfixsSetDefaultFilament` keeps the lock on a conflict (`filament.c:125`;
  `DerivationEnds` fails with `DefaultMayNest`), and the context of the rejected
  filament keeps a reference. An anonymous thread that runs a nested routine gets its
  outer filament back without the derived bit (`filament.c:428`).
- A routine with a default filament on a child thread, or a child table that is full
  when a nested routine returns, leaves a default filament whose main thread has
  another current one.
- An abort by a setup, after or teardown routine does not stop the run unless a
  short-circuit option is given (`tsexecaction.c:288`). Nothing counts failures in the
  runner's context, so a failed test case counts as succeeded (`execctx.c:215`).
- An error of the teardown routine that is no failure of it (a filament that could not
  be set up) is eaten without escalation like any other (`tsexecaction.c:422`), and that
  of an after routine when the test routine has failed before (`tsexecaction.c:194`): the
  run goes on. `FatalEndsRun` is about errors that become the HRESULT of the action.
- A client that has looked a connection up reads the adapter in the driver's image with no
  lock, for a query (`drvtestadp.c:511`) and to find a routine (`drvtestadp.c:413`); the
  driver may be gone by then. In the model this is a fault of its own, which no property
  excludes; `DriverNotTouched` is about code that runs.
- After a failed setup routine no teardown follows that would free the storage slot of the
  thread, and the setup of the next fixture asserts that it is free
  (`cfixkl/module.c:601`): a checked build stops there, another one loses the memory.
- The reflector releases the unload lock before the join (`drvconn.c:496`), so the driver
  may go while threads of the routine run; `ChildrenJoined` only says that the call waits.
- A failing standard output ends the relaying without closing the read end, and
  program and process wait for each other (`cfixcmd/main.c`). Without fixtures the
  empty sequence is not released.
- `cdiag`: the severity filter tests `1 << Type`; the event of the configuration store is
  reset after the lock was left and may lose a notification (`regconfigstore.c:922`); when
  `RegNotifyChangeKeyValue` fails (`regconfigstore.c:540`) event and wait stay, and the next
  registration succeeds without watching any key; with both keys open only the first is
  watched (`regconfigstore.c:507`, against the comment at line 882); `CdiagsSetHandler` does
  not test its allocation (`session.c:288`).

Why the bounds are enough. The filament properties relate two or three threads and
two filaments: a main thread, a thread that comes late, one that it creates or that
competes with it for the last entry of the table; three filaments allow nesting and
a sequence after it. A table of two lets a third registration fail. In `test_run` two
fixtures show what crosses a fixture's end and two test cases what crosses a test
case's; two events allow one routine to fail and a later one to fail, abort or crash
differently, which is what the rules of precedence are about. Selecting the only
test case of a fixture is running all of them, so those runs are left out (`SelectsLess`). `-u` and `-b` are in
`run_ends`, where they matter for crashes.

In `runner` two clients are one that calls and one that stops the driver; two loads
are what a stale lookup needs; two threads are a child and one it creates. A thread that
cannot register does so for want of memory; with `MaxChildren = 1` (23,830 states) it is
also the table that is full, and the same properties hold. In `kernel`
three units of room make the second report fit or not, whatever the first was; the
images are a full fixture with its entries out of order, a bare one, an empty one, and
those that must be refused. The constraint `Undisturbed` restricts the second half,
running fixtures, to states in which no other driver came or went; loading is explored
with them, and a module that is loaded has no further use of the list. In `runner`
two keys collide for every number of buckets and two for some. Its tree has
a directory that may not be read, an empty one, a link, and modules that cannot be
loaded before and after those that can; three child threads are one that is being
created while another finishes and a third holds the lock. In `cdiag` buffers run from
one character to more than any result; symmetry is over threads, handlers and
formatters, of which no definition picks one, and no temporal property is checked there.

Deadlock checking is off where the program really stops (threads end, a client stops
calling, the machine went down); blocked threads are found by the liveness properties
instead, and a run of fixtures that stops short by the fairness part of `SinkProtocol`. It is
on for `KernelCalls`.

Fairness. `Filament!FairSpec` has weak fairness for each thread: the scheduler of
the operating system runs every thread that can run, critical sections and waits
are granted when available, and test routines return. `TestRun!TestRunSpec` has weak fairness
of its one thread. `DriverConnection!FairSpec` has weak fairness for the steps of an
IOCTL that was issued, of a dereference, of a stop and of each thread, and strong
fairness for the end of a routine (`ReleaseUnloadLock`): a routine may be busy creating
threads but is assumed to end. Clients are not obliged to issue another IOCTL.
Of a spawned run the two processes taken together have weak fairness; there, any schedule
ends, since each output is written and relayed once. `MCRun!FairRunsSpec` and
`MCRunner!RunnerSpec` put the same fairness on each part, which asks nothing of a part at
rest; `MCRun!RunsSpec`, for `test_run`, that of the fixtures only, since no property of
the filaments asks for progress there.

## 4. What is proved

Eight modules hold theorems, each about the specification as it stands and for every
value of its constants that the named assumptions and the hypotheses of the theorem
admit. `tlapm <module>.tla` checks them.

| Module | Theorems | Assumptions on constants |
|---|---|---|
| `FilamentProofs` | `Invariance`, `NoDangling`, `JoinsAll`, `DefaultLive`, `CreatorIsWaiting`, `LockIsHeldToDerive`, `ContextsAreBalanced`, `RunsRegisteredHolds`, `DefaultAvailableHolds` | `ThreadsAssumption`, `FilamentsAssumption` of `Filament` |
| `TestRunProofs` | `RunInvariance`, `TestAbortStopsRunHolds`, `ShortCircuitsHolds`, `StorageOfTestCaseHolds`, `EventsAttributedHolds`, `RoutinesBracketedHolds`, `NothingSkippedHolds`, `StatisticsCompleteHolds`, `FatalEndsRunHolds`, `SinkToldInOrder` | `TestRunAssumption` |
| `RunnerThreadsProofs` | `StateOutlivesThreadsHolds`, `DbgHelpLockReleasedHolds` | `ThreadsAssumption` of `RunnerThreads` |
| `DriverConnectionProofs` | `ConnInvariance`, `RefsCountedHolds`, `HeldIsLiveHolds`, `ProtectedHolds`, `ChildrenJoinedHolds` | `ConnectionAssumption` |
| `KernelCallsProofs` | `ResponseInvariance`, `ResponseConsistentHolds`, `StorageCarriedHolds`, `FailureVisibleHolds`; `LoadInvariance`, `ModuleFaithfulHolds`, `TurnInvariance`, `RoutineOfPhaseHolds` | `CallAssumption`, `ModuleAssumption` |
| `TestAssemblyProofs` | `HeldInvariance`, `ImagesHeldHolds`; `CompleteInvariance`, `AssemblyCompleteHolds` | `AssemblyAssumption`; `TreeAssumption`, `ImageAssumption` |
| `HashTableProofs` | `TableInvariance`, `ImplementsDictionaryHolds`, `CountsEntriesHolds` | `HashAssumption` |
| `CdiagProofs` | `CallbackWhileRegisteredHolds`, `ReadsEffectiveHolds`; `DiagInvariance`, `ReferencesExactHolds` | `StoreAssumption`; `DiagAssumption` |

A theorem `XHolds` states the property `X` of section 3. The assumptions give constants
their types, keep kinds of threads and special values apart (`Nothing` is neither a
context nor the worker; `NoValue` and `NoGroup` are no values) and say that the sets
over which references are counted are finite: a process has finitely many threads and
objects, a machine finitely many clients. In `cdiag`, handlers, formatters and resolvers
are different objects; the hash routine is any function into the naturals, and the
bucket counts are not zero. The fixtures and routines that a driver exports have names
(`drvtestadp.c` asserts it of routines, and an export that is no longer than the prefix
is no fixture), and a name is no longer than with its decoration. A path is not both a directory and an image, and directories form a
finite forest: `CfixutilsTraverseDirectory` passes over reparse points, so what it
descends into gets no nearer to where it came from. Nothing else is assumed; in particular the numbers of
fixtures, test cases, options, events, loads and children and the sizes of tables and
buffers are arbitrary. Each inductive invariant was checked by TLC on the instance of its
run before it was proved; `IInv` of `Filament` still is, in `test_run`.

Hypotheses. Some theorems hold only of a part of the behaviours, and say so:

| Hypothesis | Of | Why it is needed |
|---|---|---|
| `Disciplined` | the theorems about `Filament` | what the library relies on without enforcing it: first calls do not overlap with the end of the routine (`filament_race` shows what happens otherwise), default filaments are not nested (the conflict among the observations above), `DuplicateHandle` does not fail for threads that run routines while registered elsewhere (such a thread would keep the nested filament) |
| `RunnersOnly` | `RunsRegisteredHolds` | a child thread that ran a routine of its own registers again with the outer filament; if the table is full by then, it goes on without a filament |
| `SoleCaller` | `DefaultAvailableHolds` | there is one default filament per process: a child thread that begins a routine of its own revokes that of the main thread, whose routine goes on |
| `"before" \in Provided` | `StorageOfTestCaseHolds` | only `CfixpInitializeFilament` for a before routine resets the slot; without one, a test case inherits the value of its predecessor |
| `~ ContextMayFail` | `EventsAttributedHolds`, `SinkToldInOrder` | the emitter makes a test case current before the context can refuse it (`eventemitter.c:168`) |
| every fixture has a test case | `EventsAttributedHolds` | the teardown of an empty fixture is reported as `[Setup]`, since no test case was begun |
| `FaultFree` | `RoutinesBracketedHolds`, `NothingSkippedHolds`, `StatisticsCompleteHolds` | a fatal error leaves the run at once: no after routine, no further fixtures, no statistics |
| `{"after", "teardown"} \subseteq Provided` | `RoutinesBracketedHolds` | the log shows only routines that exist |

The instance of `test_run` satisfies all that concern `TestRun` and has events of every
kind. Under `run_ends` contexts, filaments and allocations fail;
`TestAbortStopsRunHolds`, `ShortCircuitsHolds` and `FatalEndsRunHolds` cover it: they
hold whatever fails.
`filament_rejected` checks `DefaultAvailable` and `RunsRegistered` with nested default
filaments and failing handles, outside `Disciplined`; there they are model-checked only.

### Filaments

`NoDanglingFilament` is not inductive: why does nobody point to a filament at the moment
it is destroyed? Because a thread that points to the filament of another is in its table
(`ChildInv`), the table's threads are dead after the join (`JoinInv`), and the dead have
no filament (`ControlInv`). A thread that is only about to register is harmless for a
reason that depends on where it comes from (lemma `RegistersInTime`): a new worker is
awaited by its creator, which uses the same filament and is a child itself or the main
thread, in its routine (`StartInv`); a thread that returns from a nested routine is a
child already; a derivation excludes the end of the routine by discipline
(`DefaultInv`). A routine nested in the destroyed one would be above it on the same
stack, or belong to a child (`StackInv`, `FrameInv`). `RunnerInv` says that runners are
never children, which rules out their registration. The step lemmas take the actions
one by one; `ForgottenFact` is the heart of `DestroyFilament`, `FreshFact` that of
`RunTestRoutine`.

The last part of `FilamentProofs` builds on `IInv`. For the references of execution contexts it names
the set of threads that hold one (`Holders`) and shows that every step adds to or removes
from that set exactly one thread where it adds to or subtracts from the count.
`RegisteredInv` says that workers have a filament whenever they execute test code and
thus never derive one; `AvailableInv` that the default filament is the top frame's while
its routine runs, and has been given back before a nested frame is popped.

### The run

`RunInv` relates the place in `CfixsRunFixtureExecutionAction` to the HRESULTs and the
log to fixture and test case reached. Lemma `StepFact` brings
the five actions that run a routine into one form (`RoutineStep`) and the others into
another (`QuietStep`), so that each invariant below is carried through two kinds of
steps instead of a dozen. On top of it:

- `AbortInv`, `EscalationInv`, `SkipInv`: after an abort or failure the control state is
  one from which nothing but the cleaning up is reachable (`Stopping`, `Skipping`); the
  properties speak about pairs of log entries, and the later entry can only have been
  written from such a state.
- `EndInv`, `EndsLast`, `TornDownInv`, `FollowedInv`, `NoFatal`: nothing is written about
  a fixture after its last routine, and a fixture cannot end before it.
- `CalmInv`: as long as nothing happened that stops a run, the test cases below the
  current one have been begun (`Due`).
- `StateInv`, `TallyInv`: the number of begun test cases is that of the statistics plus
  the one under way, for which cardinalities of the set of begun pairs are followed.
- `SlotInv`, `NameInv`, `IndexInv` for storage and attribution; `LastFixture`, which is
  preserved by every step, for `FatalEndsRun`.
- `SinkInv` relates the control state to the abstract protocol; with it each step of the
  run is a step of `EventProtocol` or leaves the sink alone. `SinkToldInOrder` is the safety
  part of the refinement `SinkProtocol`.

### Shared state, connections, calls, settings

`ThreadsInv` of `RunnerThreads`: a thread being started has no state of its own yet, its
creator waits for it alone and holds the state (`StartInv`), therefore the count cannot
reach zero between the hand-over and the reference (`CountInv`: exact as long as nobody left
with `ExitThread`, and never too low). `LockInv` ties the owner of the DbgHelp lock to
the places inside the two routines, and the places after the first report to a completed
initialization, which is why the early return that keeps the lock is dead code.

`ConnInv` of `DriverConnection`: `CountInv` counts references in every phase, for the
clients that have not yet seen zero (`Counted`) and the driver (`DriverRef`), also
between the decrement and the removal from the registry, when a lookup still finds the
dying connection and raises its count again; `HeldInv` says that what was held while live
(`firm`) stays live; `ShieldInv` that who shields the image holds the lock; `ThreadInv`
that a thread of a call is entered before it runs and its creator stays until then.
`DriverNotTouched`, which `reflector_unload` refutes, is the part that does not follow.

`ResponseInv` of `KernelCalls`: the flags follow the way the calling thread left, and no
other thread writes them (`LeftInv`); the value is in the channel during and in the slot
between calls (`StorageInv`); what became of a report is in the buffer (`FateInv`) and,
after the call, in what was delivered (`VisibleInv`).

Loading and finding routines, in the same module. `LoadInv` says what each stage of
`CfixklsInitializeModule` has established: the list contains the driver, since an
enumeration without repetition of as many drivers as there are leaves none out
(`ListedFact`); the size is that of the response, also when the first query succeeds,
which happens for a module without fixtures only (`SizeFact`); each fixture is the one of
the adapter. The heart is the layout of the response. Sums of lengths of names, which are
not empty, increase strictly, so two names never have the same offset (`OffsetsAscend`),
and the name found at an offset is the one that was put there (`NameRead`). The entries of
the response have the types of those of the definition, so selections by type take
elements from the same places (`EntriesFact`), and a key is the place of its entry
(`KeyOf`). What the sums and selections compute is proved like `Without` of the hash table
below, from the least length for which it would be otherwise. `TurnInv` keeps the fixture
and test case whose turn it is within the module: a fixture without test cases skips to
its teardown, and the first test case is due when the setup begins. `RequestInv` says that
what runs is what the keys of the request lead to. `ModuleFaithful` and `RoutineOfPhase`
follow.

`StoreInv` of `ConfigStore`: the worker holds the store's lock exactly while it calls
back, with the context registered then, and a store that is gone has no wait left.

### References of actions, sessions and handlers

`TestAssembly` and `Diagnostics` keep a heap with reference counts that operators map to
a new heap, several times in a step. Both proofs therefore state their invariant of *a*
heap, not of the variable, and have one lemma for each operator: from a heap whose counts
are exact for some holders it makes one whose counts are exact for one holder more or
less. A step lemma chains them through the intermediate heaps.

`HeldInv` of `TestAssembly`: an action is referred to by the search that has just created
it (`pending`) and by its places in the sequence and in the copy that a run collects
(`ActionsInv`); an image by the search and by each action that is alive (`ModulesInv`);
`PhaseInv` says which of them exist in which phase, so that at the exit nothing is left.
Places are counted, since an action may occur in a sequence more than once.

### What the search assembles

`AssemblyComplete` compares the sequence with `Listing`, which reads the selection off the
tree. `CompleteInv` of `TestAssemblyProofs` says how far it has been read. `dirs` is a path
from the input downwards, each directory being the entry last looked at in the one before
(`StackInv`). What has been assembled is, concatenated: what each directory on the path
contributed before the entry that was descended into (`Outer`), what the innermost one
contributed before its next entry (`Gathered`), and what the fixtures of the module under
way before its next one did (`ModuleKeys`); the pending action is the one wanted for the
current fixture (`LoadedInv`). Descending moves a share from `Gathered` to `Outer`
(`EnterKeys`); leaving a directory completes its listing, which is the share of the entry
in the directory above (`LeaveKeys`); a directory that cannot be opened and a module that
cannot be loaded have the empty share (`PassKeys`). E_ACCESSDENIED is only ever the answer
for the input itself, since the caller of a nested traversal has ignored it.

The lemmas below it say what the functions compute. That `Joined` and `Walk` satisfy their
recursive definitions, and what they return, is shown from the least length for which it
would fail (`JoinedStep`, `WalkFact`); that `Listing` does, from the least depth in the tree
(`ListsExist`, `ListingStep`). From this follow when a module loads (`LoadsFact`: the walk
rejects exactly the fixtures that define a routine twice or hold an unknown entry) and that
the filter takes exactly what -n and -p choose, with the first test case of that name
(`FilterFact`).

`DiagInv` of `Diagnostics`: `Exact(h, outer, pending)` splits a count into the *inner*
references, from handlers to formatters and from formatters to resolvers in the heap `h`,
and the *outer* ones, of the client, the session and the calls that handle an event
(`Outer`). A dereference that reaches zero turns an inner reference of the next object into
an outer one that is given back at once; so the cascade handler, formatter, resolver is
three applications of the same argument, and it ends with a resolver whose DLLs are
unloaded (`LoadsExact`). What was never allocated is pointed to by nobody and points to
nothing (`FreshInv`); that a default handler is released before its successor is
referenced is harmless because the caller owns the successor (`UsedFact`).

### The hash table

`TableInv`: each entry is in the bucket of its hash and no bucket has two entries of one
key (`WellFormed`), both in the new and in the old buckets; keys of the two are
disjoint, so a copied entry replaces none (`FormInv`); the count is that of the
new buckets' keys (`CountInv`); an enumeration points at an entry of its bucket
(`EnumInv`). With it every step is a step of `Dictionary` or changes neither its entries
nor the entries to come: `VisitStep` shows that removing the current entry leaves the
successor that was read before, `CopyStep` that a resize moves entries without losing
one. What the function in `Without` computes is proved without an induction theorem: the
least length for which the claim fails is a contradiction (`Least`, `WithoutFact`).

### Only model-checked

- Liveness under fairness is out of the prover's reach: `RoutinesComplete`,
  `DerivationEnds`, `StopEnds`, `SpawnReturns`, and that what a sink saw begun is finished
  (the fairness part of `SinkProtocol`).
- `FormatCorrect`. What a fold computes for every input needs induction over data, for
  which the library's theorems cannot be instantiated. Where a sum, a selection or a walk is
  a recursive function of a length or a depth, an argument about the least one replaces it;
  the correctness of `FormatString` relates a fold over characters to the concatenation of
  tokens that was spelled in them, which is an induction over both, and stays with TLC.

## 5. What is not modelled

Not modelled: PE header parsing (`pequery.c`), which reads an external format without
state; console output, usage texts, the printing of numbers and dates; writing to files
and to the debugger; the C++ and WinUnit bindings and the samples, which are macros and
templates over the C interface. A sequence that gets entries while it runs: the library
allows it, no code of the program does it. Breakpoints under a debugger in user mode.
Putting an entry into a hash table that already holds this very entry:
`JphtPutEntryHashtable` would return it as the old one while it stays linked
(`hashtable.h:154-156`), and no caller does it. Registering another callback or deleting a
configuration store from within its update callback, which the recursive lock would admit.
