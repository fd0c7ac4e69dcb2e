------------------------------ MODULE MCRunner ------------------------------
(***************************************************************************)
(* The processes of a run: assembling it, its threads, running tests in    *)
(* another process, the driver of a kernel mode module; and the hash table *)
(* behind the registries.  They share no state, so one of them moves while *)
(* the others are at rest.                                                 *)
(***************************************************************************)
EXTENDS TestAssembly, RunnerThreads, Spawn, DriverConnection, HashTable, TLC

Case(name)  == [kind |-> "testcase", name |-> name]
Entry(kind) == [kind |-> kind, name |-> "-"]

Fixture(name, entries) == [kind |-> "fixture", name |-> name, supported |-> TRUE, entries |-> entries]
Other(kind)            == [kind |-> kind, name |-> "-", supported |-> TRUE, entries |-> <<>>]

\* Two fixtures in "one", with a forwarder between them; "dup" has a second
\* setup routine in its second fixture, "new" an unknown API, "old" an unknown entry; "bad" is no image.
MCImages ==
    [p \in {"one.dll", "two.dll", "dup.dll", "new.dll", "bad.dll", "drv.sys", "app.exe", "old.exe", "readme"} |->
      CASE p = "one.dll" ->
             [type |-> "dll", loads |-> TRUE, exports |->
                <<Fixture("fa", <<Entry("setup"), Case("t1"), Entry("after"), Case("t2")>>),
                  Other("forwarder"), Fixture("fb", <<Case("t2"), Case("t1"), Case("t1")>>)>>]
        [] p = "two.dll" -> [type |-> "dll", loads |-> TRUE, exports |-> <<Other("routine"), Fixture("fa", <<Case("t3")>>)>>]
        [] p = "dup.dll" ->
             [type |-> "dll", loads |-> TRUE, exports |->
                <<Fixture("fa", <<Case("t1")>>), Fixture("fb", <<Entry("setup"), Case("t1"), Entry("setup")>>)>>]
        [] p = "new.dll" ->
             [type |-> "dll", loads |-> TRUE, exports |-> <<[Fixture("fa", <<>>) EXCEPT !.supported = FALSE]>>]
        [] p = "bad.dll" -> [type |-> "dll", loads |-> FALSE, exports |-> <<>>]
        [] p = "drv.sys" -> [type |-> "sys", loads |-> TRUE, exports |-> <<Fixture("fk", <<Case("t1")>>)>>]
        [] p = "app.exe" -> [type |-> "exe", loads |-> TRUE, exports |-> <<Fixture("fa", <<Case("t1")>>), Fixture("fb", <<Case("t1")>>)>>]
        [] p = "old.exe" -> [type |-> "exe", loads |-> TRUE, exports |-> <<Fixture("fa", <<Case("t1"), Entry("unknown")>>)>>]
        [] OTHER         -> [type |-> "other", loads |-> FALSE, exports |-> <<>>]]

File(p) == [kind |-> "file", path |-> p]
Dir(d)  == [kind |-> "dir", path |-> d]

MCTree ==
    [d \in {"root", "sub", "secret", "deep", "empty", "gone", "*.dll"} |->
      CASE d = "root"  -> <<Dir("sub"), File("readme"), Dir("secret"), File("bad.dll"),
                            [kind |-> "link", path |-> "root"], Dir("empty"), File("one.dll")>>
        [] d = "sub"   -> <<File("dup.dll"), Dir("deep"), File("drv.sys"), File("new.dll")>>
        [] d = "deep"  -> <<File("two.dll")>>
        [] d = "*.dll" -> <<File("one.dll"), Dir("gone"), File("two.dll")>>
        [] OTHER       -> <<>>]

MCOpens == [d \in DOMAIN MCTree |-> CASE d = "secret" -> "E_ACCESSDENIED"
                                      [] d = "empty"  -> "NO_MORE_FILES"
                                      [] d = "gone"   -> "NOT_FOUND"
                                      [] OTHER        -> "S_OK"]

Selections == {<<>>, <<"-n", "fa">>, <<"-n", "fb.t1">>, <<"-n", "fa.t9">>, <<"-p", "f">>, <<"-p", "fk">>}

\* Selections with and without recursion, drivers and -d for several inputs, and
\* command lines that are not accepted.
MCCommandLines ==
    {flags \o selection \o <<input>> :
        flags \in {<<>>, <<"-r">>, <<"-r", "-kern">>, <<"-d", "-r">>, <<"-out", "x", "-f">>, <<"-exe">>},
        selection \in Selections,
        input \in {"root", "*.dll", "one.dll", "bad.dll", "secret", "nowhere", "app.exe", "old.exe", "readme"}}
    \cup {<<>>, <<"x", "root">>, <<"-n", "root">>, <<"-n", "-r", "root">>, <<"-p", "-n", "root">>, <<"-exe", "-r", "app.exe">>}

MCFilterOf ==
    [v \in {"fa", "fb.t1", "fa.t9"} |->
      CASE v = "fa"    -> [fixture |-> "fa", testCase |-> None]
        [] v = "fb.t1" -> [fixture |-> "fb", testCase |-> "t1"]
        [] v = "fa.t9" -> [fixture |-> "fa", testCase |-> "t9"]]

MCPrefixOf == {<<"f", "fa">>, <<"f", "fb">>, <<"f", "fk">>, <<"fk", "fk">>}

\* Five entries for four keys, two of which collide for every bucket count and
\* two for some.
MCEntries == {"a1", "a2", "b", "c", "d"}
MCKeys    == {"a", "b", "c", "d"}
MCKeyOf   == [e \in MCEntries |-> IF e \in {"a1", "a2"} THEN "a" ELSE e]
MCHash    == "a" :> 3 @@ "b" :> 9 @@ "c" :> 3 @@ "d" :> 4

\* The table waits with its smallest size for the others.
TableAtRest == TableInit /\ DOMAIN buckets = {0}

Assembly == AssemblyNext /\ UNCHANGED <<threadVars, spawnVars, vars, tableVars>>
Crews    == ThreadsNext /\ UNCHANGED <<assemblyVars, spawnVars, vars, tableVars>>
Spawning == SpawnNext /\ UNCHANGED <<assemblyVars, threadVars, vars, tableVars>>
Driving  == Next /\ UNCHANGED <<assemblyVars, threadVars, spawnVars, tableVars>>
Storing  == TableNext /\ UNCHANGED <<assemblyVars, threadVars, spawnVars, vars>>

SpawningAlone == AssemblyInit /\ ThreadsInit /\ Init /\ TableAtRest /\ Spawning

RunnerInit == AssemblyInit /\ ThreadsInit /\ SpawnInit /\ Init /\ TableInit

RunnerNext ==
    \/ ThreadsInit /\ SpawnInit /\ Init /\ TableAtRest /\ Assembly
    \/ AssemblyInit /\ SpawnInit /\ Init /\ TableAtRest /\ Crews
    \/ SpawningAlone
    \/ AssemblyInit /\ ThreadsInit /\ SpawnInit /\ TableAtRest /\ Driving
    \/ AssemblyInit /\ ThreadsInit /\ SpawnInit /\ Init /\ Storing

\* Both processes of a spawned run are scheduled; the fairness of the driver
\* asks nothing while it is at rest.
RunnerSpec ==
    /\ RunnerInit
    /\ [][RunnerNext]_<<assemblyVars, threadVars, spawnVars, vars, tableVars>>
    /\ WF_spawnVars(SpawningAlone)
    /\ Fairness
=============================================================================
