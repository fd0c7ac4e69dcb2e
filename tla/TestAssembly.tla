---------------------------- MODULE TestAssembly ----------------------------
(***************************************************************************)
(* From a command line to a run: parsing (cfixrun/cmdline.c), the search   *)
(* for modules (cfixutil/search.c, cfixrun/dllsearch.c), loading their     *)
(* fixtures (cfix/pe.c), selecting fixtures and creating an action for     *)
(* each (cfixrun/fixturesearch.c, runtest.c), the execution context and    *)
(* its sink (cfixrun/main.c), and running the sequence (sequenceaction.c). *)
(*                                                                         *)
(* Paths, names and arguments are atoms.  What an action does when it is   *)
(* run is the subject of TestRun.                                          *)
(***************************************************************************)
EXTENDS Naturals, Sequences, FiniteSets, SequencesExt, FiniteSetsExt

CONSTANTS
    CommandLines,   \* the argument vectors, without the program
    FilterOf,       \* value of -n |-> [fixture, testCase]
    PrefixOf,       \* pairs of a value of -p and a fixture name it begins
    Tree,           \* directory or wildcard |-> its entries, [kind, path]
    Opens,          \* directory or wildcard |-> what FindFirstFile answers
    Images,         \* file |-> [type, loads, exports]
    None

Switches   == {"-r", "-kern", "-exe", "-d", "-f", "-y"}
ValueFlags == {"-n", "-p", "-out"}

ASSUME AssemblyAssumption ==
    /\ DOMAIN Opens = DOMAIN Tree /\ None \notin DOMAIN Images
    /\ \A d \in DOMAIN Tree : Opens[d] \in {"S_OK", "NO_MORE_FILES", "E_ACCESSDENIED", "NOT_FOUND"}
    /\ \A p \in DOMAIN Images : Images[p].type \in {"dll", "sys", "exe", "other"}

IsSequence(s) == s \in Seq(Range(s))

\* A directory is no image, and the directories are a forest: links are entries
\* of a kind of their own, so that every directory has a depth below it.
ASSUME TreeAssumption ==
    /\ IsFiniteSet(DOMAIN Tree) /\ DOMAIN Tree \cap DOMAIN Images = {}
    /\ \A d \in DOMAIN Tree : IsSequence(Tree[d])
    /\ \E depth \in [DOMAIN Tree -> 0 .. Cardinality(DOMAIN Tree)] :
          \A d \in DOMAIN Tree : \A i \in DOMAIN Tree[d] :
             Tree[d][i].kind = "dir" =>
                Tree[d][i].path \in DOMAIN Tree /\ depth[Tree[d][i].path] < depth[d]

ASSUME ImageAssumption ==
    \A p \in DOMAIN Images :
       /\ IsSequence(Images[p].exports)
       /\ \A i \in DOMAIN Images[p].exports :
             LET x == Images[p].exports[i]
             IN  IsSequence(x.entries) /\ x.supported \in BOOLEAN

VARIABLES
    phase,    \* what the main thread does next
    options,  \* CFIXRUN_OPTIONS
    dirs,     \* the directories being traversed, innermost last
    module,   \* the test module being added, or NoModule
    heap,     \* reference counts: modules, actions, sequence, context
    hr,       \* the HRESULT under way
    exit      \* ExitCode

assemblyVars == <<phase, options, dirs, module, heap, hr, exit>>

NoOptions == [flags |-> {}, values |-> [f \in ValueFlags |-> None],
              input |-> None, expect |-> None, valid |-> TRUE]

NoModule == [path |-> None, fixtures |-> <<>>, next |-> 1, pending |-> 0]

NoContext == [inner |-> 0, sink |-> 0, proxy |-> 0]

AssemblyInit ==
    /\ phase = "start"
    /\ options = NoOptions
    /\ dirs = <<>>
    /\ module = NoModule
    /\ heap = [modules |-> [p \in DOMAIN Images |-> 0], actions |-> <<>>,
               sequence |-> [refs |-> 0, entries |-> <<>>], collected |-> <<>>, next |-> 1,
               context |-> NoContext]
    /\ hr = "S_OK"
    /\ exit = "FAILURE"

-----------------------------------------------------------------------------
\* The command line (CfixrunParseCommandLine).

Invalid(o) == [o EXCEPT !.valid = FALSE]

ParseArgument(o, argument, last) ==
    CASE ~ o.valid -> o
      [] last ->                             \* always a value
           IF o.expect # None THEN Invalid(o) ELSE [o EXCEPT !.input = argument]
      [] ~ last /\ argument \in Switches ->
           IF o.expect # None THEN Invalid(o) ELSE [o EXCEPT !.flags = @ \cup {argument}]
      [] ~ last /\ argument \in ValueFlags ->
           IF o.expect # None THEN Invalid(o) ELSE [o EXCEPT !.expect = argument]
      [] OTHER ->
           IF o.expect = None THEN Invalid(o)
           ELSE [o EXCEPT !.values[o.expect] = argument, !.expect = None]

IsType(path, type) == path \in DOMAIN Images /\ Images[path].type = type

\* The checks after the last argument: what -exe excludes.
CheckOptions(o) ==
    "-exe" \in o.flags => o.flags \cap {"-kern", "-r", "-y"} = {} /\ IsType(o.input, "exe")

ParseCommandLine(argv) ==
    LET step(o, i) == ParseArgument(o, argv[i], i = Len(argv))
    IN  FoldLeft(step, NoOptions, [i \in DOMAIN argv |-> i])

OwnExecutable == "-exe" \in options.flags

\* wmain, CfixrunMain: a program without arguments prints its usage.
Main(argv) ==
    /\ phase = "start"
    /\ LET o == ParseCommandLine(argv)
       IN  /\ options' = o
           /\ IF argv = <<>> \/ ~ o.valid \/ ~ CheckOptions(o)
              THEN phase' = "exit" /\ exit' = "USAGE_FAILURE"
              ELSE phase' = "assemble" /\ UNCHANGED exit
    /\ UNCHANGED <<dirs, module, heap, hr>>

-----------------------------------------------------------------------------
\* Reference counts.  Actions are numbered in the order of their creation.

DereferenceModule(h, p) == [h EXCEPT !.modules[p] = @ - 1]

\* CfixsDeleteFixtureExecutionAction, CfixrunsDeleteDisplayAction
DereferenceAction(h, a) ==
    LET less == [h EXCEPT !.actions[a].refs = @ - 1]
    IN  IF h.actions[a].refs = 1 THEN DereferenceModule(less, h.actions[a].path) ELSE less

ReferenceAction(h, a) == [h EXCEPT !.actions[a].refs = @ + 1]

-----------------------------------------------------------------------------
\* Fixtures of an image.

\* f[1], f[1] \o f[2] and so on.
Joined(f) ==
    LET joined[n \in 0 .. Len(f)] == IF n = 0 THEN <<>> ELSE joined[n - 1] \o f[n]
    IN  joined

Concat(f) == Joined(f)[Len(f)]

RoutineKinds == {"setup", "teardown", "before", "after"}

\* CfixsCreateFixture: the walk over the entries of the definition.
AddEntry(f, entry) ==
    CASE ~ f.valid -> f
      [] f.valid /\ entry.kind \in RoutineKinds \ f.routines -> [f EXCEPT !.routines = @ \cup {entry.kind}]
      [] f.valid /\ entry.kind = "testcase" -> [f EXCEPT !.testCases = Append(@, entry.name)]
      [] OTHER -> [f EXCEPT !.valid = FALSE]

Walk(export) ==
    LET walk[n \in 0 .. Len(export.entries)] ==
          IF n = 0 THEN [name |-> export.name, routines |-> {}, testCases |-> <<>>,
                         valid |-> export.supported]
          ELSE AddEntry(walk[n - 1], export.entries[n])
    IN  walk

CreateFixture(export) == Walk(export)[Len(export.entries)]

\* CfixsLoadFixturesFromPeImage: forwarders and other exports are passed over.
FixtureExports(p) ==
    Concat([i \in DOMAIN Images[p].exports |->
              IF Images[p].exports[i].kind = "fixture" THEN <<Images[p].exports[i]>> ELSE <<>>])

LoadFixtures(p)   == [i \in DOMAIN FixtureExports(p) |-> CreateFixture(FixtureExports(p)[i])]

\* CfixCreateTestModuleFromPeImage, CfixCreateTestModule: one fixture that cannot
\* be created fails the module, and the image is freed.
ModuleLoads(p) ==
    Images[p].loads /\ \A i \in DOMAIN LoadFixtures(p) : LoadFixtures(p)[i].valid

\* CfixrunsAddFixturesOfDllToSequenceAction
LoadModule(h, p, searched) ==
    IF ModuleLoads(p)
    THEN /\ module' = [NoModule EXCEPT !.path = p, !.fixtures = LoadFixtures(p)]
         /\ heap' = [h EXCEPT !.modules[p] = @ + 1]
         /\ phase' = "module" /\ UNCHANGED hr
    ELSE /\ hr' = IF searched THEN "S_OK" ELSE "LOAD_FAILED"
         /\ phase' = "search" /\ heap' = h /\ UNCHANGED module

-----------------------------------------------------------------------------
\* The search (CfixutilSearch, CfixutilsTraverseDirectory, CfixrunsVisit).

\* CfixrunsVisit: which files are modules.
IsModule(o, p) == IsType(p, "dll") \/ ("-kern" \in o.flags /\ IsType(p, "sys"))

VisitFile(h, p, searched) ==
    IF IsModule(options, p) THEN LoadModule(h, p, searched)
    ELSE phase' = "search" /\ heap' = h /\ UNCHANGED <<module, hr>>

\* FindFirstFile precedes everything else.  NO_MORE_FILES is a success, and a
\* caller that traverses the parent ignores E_ACCESSDENIED.
EnterDirectory(parents, d) ==
    /\ dirs' = IF Opens[d] = "S_OK" THEN Append(parents, [dir |-> d, next |-> 1]) ELSE parents
    /\ hr' = IF Opens[d] = "NO_MORE_FILES" \/ (Opens[d] = "E_ACCESSDENIED" /\ parents # <<>>)
             THEN "S_OK" ELSE Opens[d]

CreateSequence(h) == [h EXCEPT !.sequence = [refs |-> 1, entries |-> <<>>]]

\* CfixutilSearch: a file is visited at once; a wildcard stands for a directory.
Search(h, input) ==
    CASE input \in DOMAIN Images -> VisitFile(h, input, FALSE) /\ UNCHANGED dirs
      [] input \in DOMAIN Tree   -> /\ EnterDirectory(<<>>, input)
                                   /\ heap' = h /\ phase' = "search" /\ UNCHANGED module
      [] OTHER -> /\ hr' = "NOT_FOUND" /\ heap' = h /\ phase' = "search"
                  /\ UNCHANGED <<dirs, module>>

\* CfixrunpSearchFixturesAndCreateSequenceAction
StartSearch ==
    /\ phase = "assemble" /\ ~ OwnExecutable
    /\ Search(CreateSequence(heap), options.input)
    /\ UNCHANGED <<options, exit>>

\* CfixrunsCreateSequenceActionForCurrentExecutable
UseOwnExecutable ==
    /\ phase = "assemble" /\ OwnExecutable
    /\ IF ModuleLoads(options.input)
       THEN LoadModule(CreateSequence(heap), options.input, FALSE) /\ UNCHANGED exit
       ELSE /\ hr' = "LOAD_FAILED" /\ exit' = "FAILURE" /\ phase' = "exit"
            /\ UNCHANGED <<module, heap>>
    /\ UNCHANGED <<options, dirs>>

\* CfixCreateSequenceAction
CreateSequenceFails ==
    /\ phase = "assemble"
    /\ hr' = "E_OUTOFMEMORY" /\ exit' = "FAILURE" /\ phase' = "exit"
    /\ UNCHANGED <<options, dirs, module, heap>>

Here == Last(dirs)

Advanced == [dirs EXCEPT ![Len(dirs)].next = @ + 1]

\* One turn of the loop over the entries of a directory.
NextEntry ==
    /\ phase = "search" /\ dirs # <<>> /\ hr = "S_OK" /\ Here.next <= Len(Tree[Here.dir])
    /\ LET e == Tree[Here.dir][Here.next]
       IN  \/ /\ e.kind = "link" \/ (e.kind = "dir" /\ "-r" \notin options.flags)
              /\ dirs' = Advanced /\ UNCHANGED <<phase, module, heap, hr>>
           \/ /\ e.kind = "dir" /\ "-r" \in options.flags
              /\ EnterDirectory(Advanced, e.path)
              /\ UNCHANGED <<phase, module, heap>>
           \/ /\ e.kind = "file"
              /\ dirs' = Advanced
              /\ VisitFile(heap, e.path, TRUE)
    /\ UNCHANGED <<options, exit>>

\* Faulty variant: leaving a subdirectory ends the search.
LeaveAll ==
    /\ phase = "search" /\ dirs # <<>>
    /\ hr # "S_OK" \/ Here.next > Len(Tree[Here.dir])
    /\ dirs' = <<>>
    /\ UNCHANGED <<phase, options, module, heap, hr, exit>>

\* The last entry, or a failure: the directory is left.  The caller ignores
\* E_ACCESSDENIED and passes everything else on.
LeaveDirectory ==
    /\ phase = "search" /\ dirs # <<>>
    /\ hr # "S_OK" \/ Here.next > Len(Tree[Here.dir])
    /\ dirs' = Front(dirs)
    /\ hr' = IF hr = "E_ACCESSDENIED" /\ Len(dirs) > 1 THEN "S_OK" ELSE hr
    /\ UNCHANGED <<phase, options, module, heap, exit>>

-----------------------------------------------------------------------------
\* The fixtures of a module (CfixrunsAddFixturesOfModuleToSequenceAction).

\* CfixrunsFilterFixtureByName
Filter(f) ==
    LET named  == options.values["-n"]
        prefix == options.values["-p"]
        wanted == FilterOf[named]
        hits   == {i \in DOMAIN f.testCases : f.testCases[i] = wanted.testCase}
    IN  IF named # None
        THEN CASE wanted.fixture # f.name    -> [take |-> FALSE, testCase |-> 0]
               [] wanted.fixture = f.name /\ wanted.testCase = None -> [take |-> TRUE, testCase |-> 0]
               [] OTHER -> [take |-> hits # {}, testCase |-> IF hits = {} THEN 0 ELSE Min(hits)]
        ELSE [take |-> prefix = None \/ <<prefix, f.name>> \in PrefixOf, testCase |-> 0]

Current == module.fixtures[module.next]
MoreFixtures == module.next <= Len(module.fixtures)
Skip == [module EXCEPT !.next = @ + 1]

SkipFixture ==
    /\ phase = "module" /\ hr = "S_OK" /\ MoreFixtures /\ module.pending = 0
    /\ ~ Filter(Current).take
    /\ module' = Skip
    /\ UNCHANGED <<phase, options, dirs, heap, hr, exit>>

NewAction(f) == [path |-> module.path, fixture |-> f.name, refs |-> 1,
                 testCase |-> IF "-d" \in options.flags THEN 0 ELSE Filter(f).testCase]

\* Faulty variant: the action does not lock its module.
CreateActionUnreferenced ==
    /\ phase = "module" /\ hr = "S_OK" /\ MoreFixtures /\ module.pending = 0
    /\ Filter(Current).take
    /\ heap' = [heap EXCEPT !.actions = Append(@, NewAction(Current))]
    /\ module' = [module EXCEPT !.pending = Len(heap.actions) + 1]
    /\ UNCHANGED <<phase, options, dirs, hr, exit>>

\* CfixrunsCreateTsExecAction, CfixrunsCreateDisplayAction
CreateAction ==
    /\ phase = "module" /\ hr = "S_OK" /\ MoreFixtures /\ module.pending = 0
    /\ Filter(Current).take
    /\ heap' = [heap EXCEPT !.actions = Append(@, NewAction(Current)),
                            !.modules[module.path] = @ + 1]
    /\ module' = [module EXCEPT !.pending = Len(heap.actions) + 1]
    /\ UNCHANGED <<phase, options, dirs, hr, exit>>

CreateActionFails ==
    /\ phase = "module" /\ hr = "S_OK" /\ MoreFixtures /\ module.pending = 0
    /\ Filter(Current).take
    /\ hr' = "E_OUTOFMEMORY"
    /\ UNCHANGED <<phase, options, dirs, module, heap, exit>>

\* CfixAddEntrySequenceAction, and the creator's reference is dropped.
AddEntrySequenceAction ==
    /\ phase = "module" /\ module.pending # 0
    /\ heap' = DereferenceAction(
                  [ReferenceAction(heap, module.pending) EXCEPT
                     !.sequence.entries = Append(@, module.pending)], module.pending)
    /\ module' = [Skip EXCEPT !.pending = 0]
    /\ UNCHANGED <<phase, options, dirs, hr, exit>>

AddEntryFails ==
    /\ phase = "module" /\ module.pending # 0
    /\ heap' = DereferenceAction(heap, module.pending)
    /\ module' = [module EXCEPT !.pending = 0]
    /\ hr' = "E_OUTOFMEMORY"
    /\ UNCHANGED <<phase, options, dirs, exit>>

\* The reference of the search to the module is dropped.
ModuleEnds ==
    /\ phase = "module" /\ module.pending = 0
    /\ hr # "S_OK" \/ ~ MoreFixtures
    /\ heap' = DereferenceModule(heap, module.path)
    /\ module' = NoModule
    /\ phase' = "search"
    /\ UNCHANGED <<options, dirs, hr, exit>>

\* The search returns to CfixrunsMainWorker.  Without a single fixture the
\* (empty) sequence is not released.
SearchEnds ==
    /\ phase = "search" /\ dirs = <<>>
    /\ \/ /\ hr # "S_OK"
          /\ phase' = "delete" /\ exit' = "FAILURE"
          /\ UNCHANGED heap
       \/ /\ hr = "S_OK" /\ heap.actions = <<>>
          /\ phase' = "exit" /\ exit' = "NONE_EXECUTED"
          /\ UNCHANGED heap
       \/ /\ hr = "S_OK" /\ heap.actions # <<>>
          /\ phase' = "context" /\ UNCHANGED <<heap, exit>>
    /\ UNCHANGED <<options, dirs, module, hr>>

-----------------------------------------------------------------------------
\* Context, sink and run.

\* CfixrunsCreateExecutionContextAndEventSink: the proxy references both, the
\* creator's references are dropped.
CreateContext ==
    /\ phase = "context"
    /\ heap' = [heap EXCEPT !.context = [inner |-> 1, sink |-> 1, proxy |-> 1]]
    /\ phase' = "collect"
    /\ UNCHANGED <<options, dirs, module, hr, exit>>

\* The context, the event DLL or the proxy fails.
CreateContextFails ==
    /\ phase = "context"
    /\ \E e \in {"E_OUTOFMEMORY", "LOADING_EVENTDLL_FAILED"} : hr' = e
    /\ phase' = "delete"
    /\ UNCHANGED <<options, dirs, module, heap, exit>>

\* CfixsRunSequenceAction: the entries are referenced one by one, under the lock.
CollectAction ==
    /\ phase = "collect" /\ Len(heap.collected) < Len(heap.sequence.entries)
    /\ LET a == heap.sequence.entries[Len(heap.collected) + 1]
       IN  heap' = [ReferenceAction(heap, a) EXCEPT !.collected = Append(@, a)]
    /\ UNCHANGED <<phase, options, dirs, module, hr, exit>>

CollectEnds ==
    /\ phase = "collect" /\ Len(heap.collected) = Len(heap.sequence.entries)
    /\ phase' = "run"
    /\ UNCHANGED <<options, dirs, module, heap, hr, exit>>

\* The array cannot be allocated.
CollectFails ==
    /\ phase = "collect" /\ heap.collected = <<>>
    /\ hr' = "E_OUTOFMEMORY" /\ phase' = "statistics"
    /\ UNCHANGED <<options, dirs, module, heap, exit>>

RunAction ==
    /\ phase = "run" /\ hr = "S_OK" /\ heap.next <= Len(heap.collected)
    /\ \/ heap' = [heap EXCEPT !.next = @ + 1] /\ UNCHANGED hr
       \/ "-d" \notin options.flags /\ hr' = "ABORTED" /\ UNCHANGED heap
    /\ UNCHANGED <<phase, options, dirs, module, exit>>

RunEnds ==
    /\ phase = "run"
    /\ hr # "S_OK" \/ heap.next > Len(heap.collected)
    /\ phase' = "release"
    /\ UNCHANGED <<options, dirs, module, heap, hr, exit>>

\* The references of the run are released, in the same order.
ReleaseAction ==
    /\ phase = "release" /\ heap.collected # <<>>
    /\ heap' = DereferenceAction([heap EXCEPT !.collected = Tail(@)], Head(heap.collected))
    /\ UNCHANGED <<phase, options, dirs, module, hr, exit>>

ReleaseEnds ==
    /\ phase = "release" /\ heap.collected = <<>>
    /\ phase' = "statistics"
    /\ UNCHANGED <<options, dirs, module, heap, hr, exit>>

\* The statistics of the inner context decide (see ExecContext); displaying
\* fixtures executes none.  Then proxy, context, sink and sequence go.
FinishRun ==
    /\ phase = "statistics"
    /\ exit' \in IF "-d" \in options.flags \/ hr = "E_OUTOFMEMORY" THEN {"NONE_EXECUTED"}
                 ELSE {"NONE_EXECUTED", "ALL_SUCCEEDED", "SOME_FAILED"}
    /\ heap' = [heap EXCEPT !.context = NoContext]
    /\ phase' = "delete"
    /\ UNCHANGED <<options, dirs, module, hr>>

\* CfixsDeleteSequenceAction: the last reference is dropped, and with it the
\* entries one by one.
DeleteEntry ==
    /\ phase = "delete" /\ heap.sequence.entries # <<>>
    /\ heap' = DereferenceAction([heap EXCEPT !.sequence.entries = Tail(@)], Head(heap.sequence.entries))
    /\ UNCHANGED <<phase, options, dirs, module, hr, exit>>

DeleteSequence ==
    /\ phase = "delete" /\ heap.sequence.entries = <<>>
    /\ heap' = [heap EXCEPT !.sequence.refs = 0]
    /\ phase' = "exit"
    /\ UNCHANGED <<options, dirs, module, hr, exit>>

AssemblyNext ==
    \/ \E argv \in CommandLines : Main(argv)
    \/ StartSearch \/ UseOwnExecutable \/ CreateSequenceFails
    \/ NextEntry \/ LeaveDirectory
    \/ SkipFixture \/ CreateAction \/ CreateActionFails \/ AddEntrySequenceAction \/ AddEntryFails
    \/ ModuleEnds \/ SearchEnds
    \/ CreateContext \/ CreateContextFails \/ CollectAction \/ CollectEnds \/ CollectFails
    \/ RunAction \/ RunEnds \/ ReleaseAction \/ ReleaseEnds \/ FinishRun
    \/ DeleteEntry \/ DeleteSequence

-----------------------------------------------------------------------------
(***************************************************************************)
(* Properties.                                                             *)
(***************************************************************************)

\* What is to be run, read off the tree.
AtMostOnce(p) == \* no fixture of the module defines a routine twice
    \A i \in DOMAIN FixtureExports(p) :
        LET e == FixtureExports(p)[i].entries
        IN  /\ FixtureExports(p)[i].supported
            /\ \A j \in DOMAIN e : e[j].kind \in RoutineKinds \cup {"testcase"}
            /\ \A j, k \in DOMAIN e : e[j].kind = e[k].kind /\ e[j].kind # "testcase" => j = k

CasesOf(x) ==
    Concat([i \in DOMAIN x.entries |->
              IF x.entries[i].kind = "testcase" THEN <<x.entries[i].name>> ELSE <<>>])

\* What -n and -p say of an export: 0 selects the whole fixture.
Chosen(o, x) ==
    LET named == o.values["-n"]
        prefix == o.values["-p"]
        index(c) == {i \in DOMAIN CasesOf(x) : CasesOf(x)[i] = c
                        /\ \A j \in 1 .. i - 1 : CasesOf(x)[j] # c}
    IN  IF named = None
        THEN IF prefix # None /\ <<prefix, x.name>> \notin PrefixOf THEN {} ELSE {0}
        ELSE IF FilterOf[named].fixture # x.name THEN {}
        ELSE IF FilterOf[named].testCase = None THEN {0} ELSE index(FilterOf[named].testCase)

\* The action for a fixture, if there is one.
Wanted(o, p, x) ==
    IF Chosen(o, x) = {} THEN <<>>
    ELSE << <<p, x.name, IF "-d" \in o.flags THEN 0 ELSE Min(Chosen(o, x))>> >>

Selected(o, p) ==
    IF /\ IsModule(o, p) \/ "-exe" \in o.flags
       /\ Images[p].loads /\ AtMostOnce(p)
    THEN Concat([i \in DOMAIN FixtureExports(p) |-> Wanted(o, p, FixtureExports(p)[i])])
    ELSE <<>>

\* What an entry of a directory contributes, given what the directories below do.
Share(o, below, entry) ==
    CASE entry.kind = "file" -> Selected(o, entry.path)
      [] entry.kind = "dir" /\ "-r" \in o.flags -> below[entry.path]
      [] OTHER -> <<>>

Listing(o) ==
    LET listing[d \in DOMAIN Tree] ==
          IF Opens[d] # "S_OK" THEN <<>>
          ELSE Concat([i \in DOMAIN Tree[d] |-> Share(o, listing, Tree[d][i])])
    IN  listing

Assembled ==
    [i \in DOMAIN heap.sequence.entries |->
       LET a == heap.actions[heap.sequence.entries[i]] IN <<a.path, a.fixture, a.testCase>>]

\* The sequence that is run holds exactly the fixtures the command line selects
\* from the modules that can be loaded, in the order of the search: neither a
\* directory that may not be read nor a module that cannot be loaded, nor the
\* depth of the tree, costs another module its tests.  Access to a directory is
\* the reason of a failure only for the directory that was named.
AssemblyComplete ==
    /\ phase \in {"context", "collect", "run", "release", "statistics"} =>
          Assembled = IF options.input \in DOMAIN Tree
                      THEN Listing(options)[options.input] ELSE Selected(options, options.input)
    /\ hr = "E_ACCESSDENIED" => Opens[options.input] = "E_ACCESSDENIED"

One(condition) == IF condition THEN 1 ELSE 0

Occurrences(a, s) == Cardinality({i \in DOMAIN s : s[i] = a})

\* An image stays loaded exactly as long as the search or an action refers to
\* it, also while actions run that nobody else holds; whatever fails, nothing
\* is left when the program ends, an empty sequence excepted.
ImagesHeld ==
    /\ \A p \in DOMAIN Images :
          heap.modules[p] = One(module.path = p)
                            + Cardinality({a \in DOMAIN heap.actions :
                                 heap.actions[a].path = p /\ heap.actions[a].refs > 0})
    /\ \A a \in DOMAIN heap.actions :
          heap.actions[a].refs = One(module.pending = a) + Occurrences(a, heap.sequence.entries)
                                 + Occurrences(a, heap.collected)
    /\ phase \in {"collect", "run", "release", "statistics"} <=> heap.context.inner > 0
    /\ phase = "exit" =>
          /\ \A p \in DOMAIN Images : heap.modules[p] = 0
          /\ heap.sequence.entries = <<>>
          /\ heap.context = NoContext
=============================================================================
