------------------------- MODULE RunnerThreadsProofs -------------------------
(***************************************************************************)
(* Proofs about RunnerThreads for any finite number of child threads and   *)
(* any number of fixtures: the state a fixture's threads share is freed    *)
(* neither early nor late, and the DbgHelp lock is never left behind.      *)
(***************************************************************************)
EXTENDS RunnerThreads, FiniteSetTheorems, TLAPS

ThreadsSpec == ThreadsInit /\ [][ThreadsNext]_threadVars

-----------------------------------------------------------------------------
(***************************************************************************)
(* The inductive invariant.                                                *)
(***************************************************************************)

Working == {"user", "waiting", "capture", "print", "resolve", "reported"}

MainPlaces  == Working \cup {"between", "joining", "joined"}
ChildPlaces == Working \cup {"unborn", "starting", "finishing", "gone"}

\* Types; the main thread and the child threads are in places of their own.
ThreadsTypeOK ==
    /\ at \in [Crew -> MainPlaces \cup ChildPlaces]
    /\ at[MainThread] \in MainPlaces /\ \A c \in Children : at[c] \in ChildPlaces
    /\ state \in [Crew -> 0 .. MaxFixtures]
    /\ refs \in [States -> Nat]
    /\ start \in [Children -> [creator : Crew \cup {Nobody}, context : 0 .. MaxFixtures]]
    /\ lost \subseteq Children
    /\ fixtures \in 0 .. MaxFixtures
    /\ dbghelp \in [owner : Crew \cup {Nobody}, initialized : BOOLEAN]

\* No child thread runs while the main thread is between two fixtures.
RestInv ==
    at[MainThread] \in {"between", "joined"} => \A c \in Children : at[c] \in {"unborn", "gone"}

\* States are numbered in the order of their allocation.
FreshInv ==
    /\ \A t \in Crew : state[t] <= fixtures
    /\ \A s \in States : s > fixtures => refs[s] = 0

\* A thread that starts has no state yet; its creator waits for it alone and
\* holds the state the new thread has been handed.
StartInv ==
    /\ \A c \in Children : at[c] \in {"unborn", "starting"} => state[c] = 0
    /\ \A c \in Children : at[c] = "starting" =>
          /\ start[c].creator \in Crew
          /\ at[start[c].creator] = "waiting"
          /\ state[start[c].creator] = start[c].context
          /\ start[c].context # 0
    /\ \A c, d \in Children :
          at[c] = "starting" /\ at[d] = "starting" /\ start[c].creator = start[d].creator => c = d

\* Each holder has a reference of its own, and there are no other references
\* unless a thread has left its reference behind.
CountInv ==
    /\ \A s \in States : refs[s] >= Cardinality(Holders(s))
    /\ lost = {} => \A s \in States : refs[s] = Cardinality(Holders(s))
    /\ state[MainThread] # 0 => refs[state[MainThread]] > 0

\* The lock is held inside the two stack trace routines only, and whoever
\* prints or resolves a frame comes after a successful initialization.
LockInv ==
    /\ \A t \in Crew : at[t] \in {"capture", "resolve"} <=> dbghelp.owner = t
    /\ \A t \in Crew : at[t] \in {"print", "resolve"} => dbghelp.initialized

ThreadsInv == ThreadsTypeOK /\ RestInv /\ FreshInv /\ StartInv /\ CountInv /\ LockInv

-----------------------------------------------------------------------------
(***************************************************************************)
(* Counting holders.                                                       *)
(***************************************************************************)

\* The crew is finite, so holders can be counted.
LEMMA HoldersFinite ==
  ASSUME NEW s
  PROVE  IsFiniteSet(Holders(s)) /\ Cardinality(Holders(s)) \in Nat
<1>1. IsFiniteSet(Crew)
  <2>1. IsFiniteSet({MainThread})
    BY FS_Singleton
  <2> QED BY <2>1, FS_Union, ThreadsAssumption DEF Crew
<1>2. Holders(s) \subseteq Crew
  BY DEF Holders
<1>3. IsFiniteSet(Holders(s))
  BY <1>1, <1>2, FS_Subset
<1> QED BY <1>3, FS_CardinalityType

\* A thread that holds a state has a reference to it.
LEMMA HolderHasReference ==
  ASSUME ThreadsTypeOK, CountInv, NEW t \in Crew, state[t] # 0,
         at[t] \notin {"unborn", "gone", "between"}
  PROVE  state[t] \in States /\ refs[state[t]] > 0
<1> DEFINE s == state[t]
<1>1. s \in States
  BY ThreadsAssumption DEF ThreadsTypeOK, States
<1>2. t \in Holders(s)
  BY DEF Holders
<1>3. Cardinality(Holders(s)) # 0
  BY <1>2, HoldersFinite, FS_EmptySet
<1>4. refs[s] >= Cardinality(Holders(s)) /\ refs[s] \in Nat /\ Cardinality(Holders(s)) \in Nat
  BY <1>1, HoldersFinite DEF CountInv, ThreadsTypeOK
<1> HIDE DEF s
<1>5. refs[s] > 0
  BY <1>3, <1>4
<1> QED BY <1>1, <1>5 DEF s

\* A thread takes up a state.
LEMMA HolderAdded ==
  ASSUME NEW s, NEW t, t \notin Holders(s), Holders(s)' = Holders(s) \cup {t}
  PROVE  Cardinality(Holders(s)') = Cardinality(Holders(s)) + 1
BY HoldersFinite, FS_AddElement

\* A thread gives a state up.
LEMMA HolderRemoved ==
  ASSUME NEW s, NEW t \in Holders(s), Holders(s)' = Holders(s) \ {t}
  PROVE  Cardinality(Holders(s)') = Cardinality(Holders(s)) - 1
BY HoldersFinite, FS_RemoveElement

\* The count of a state stands when no thread takes it up or gives it up.
LEMMA HoldersSame ==
  ASSUME NEW s,
         \A t \in Crew : (state'[t] = s /\ at'[t] \notin {"unborn", "gone", "between"})
                            <=> (state[t] = s /\ at[t] \notin {"unborn", "gone", "between"})
  PROVE  Holders(s)' = Holders(s)
BY DEF Holders

\* The lock stands when no thread enters or leaves the stack trace routines.
LEMMA LockSame ==
  ASSUME LockInv, dbghelp' = dbghelp,
         \A t \in Crew : \/ at'[t] = at[t]
                         \/ /\ at[t] \notin {"capture", "print", "resolve"}
                            /\ at'[t] \notin {"capture", "print", "resolve"}
  PROVE  LockInv'
BY DEF LockInv

-----------------------------------------------------------------------------
(***************************************************************************)
(* The invariant is inductive.                                             *)
(***************************************************************************)

\* A routine goes on, reports or returns: a step of one thread that keeps its
\* state.
LEMMA WorkStep ==
  ASSUME ThreadsInv, NEW t \in Crew, NEW p,
         at[t] \in Working \ {"waiting"},
         p \in (Working \ {"waiting"}) \cup {IF t = MainThread THEN "joining" ELSE "finishing"},
         at' = [at EXCEPT ![t] = p],
         UNCHANGED <<state, refs, start, lost, fixtures>>,
         dbghelp' \in [owner : Crew \cup {Nobody}, initialized : BOOLEAN],
         LockInv'
  PROVE  ThreadsInv'
<1> USE ThreadsAssumption
<1>0. \A u \in Crew : at'[u] = IF u = t THEN p ELSE at[u]
  BY DEF ThreadsInv, ThreadsTypeOK
<1>1. ThreadsTypeOK'
  <2>1. at' \in [Crew -> MainPlaces \cup ChildPlaces]
    BY DEF ThreadsInv, ThreadsTypeOK, MainPlaces, ChildPlaces, Working
  <2>2. at'[MainThread] \in MainPlaces /\ \A c \in Children : at'[c] \in ChildPlaces
    BY <1>0 DEF ThreadsInv, ThreadsTypeOK, MainPlaces, ChildPlaces, Working, Crew
  <2> QED BY <2>1, <2>2 DEF ThreadsInv, ThreadsTypeOK
<1>2. RestInv'
  BY <1>0 DEF ThreadsInv, RestInv, Working, Crew
<1>3. FreshInv'
  BY DEF ThreadsInv, FreshInv
<1>4. StartInv'
  <2>1. \A c \in Children : (at'[c] = "starting" <=> at[c] = "starting") /\ (at'[c] = "unborn" <=> at[c] = "unborn")
    BY <1>0 DEF Working, Crew
  <2>2. \A u \in Crew : at'[u] = "waiting" <=> at[u] = "waiting"
    BY <1>0 DEF Working
  <2> QED BY <2>1, <2>2 DEF ThreadsInv, StartInv
<1>5. CountInv'
  <2>1. \A s : Holders(s)' = Holders(s)
    BY <1>0, HoldersSame DEF Working
  <2> QED BY <2>1 DEF ThreadsInv, CountInv
<1> QED BY <1>1, <1>2, <1>3, <1>4, <1>5 DEF ThreadsInv

\* The routine returns, or goes on after a report.
LEMMA ReturnStep ==
  ASSUME ThreadsInv, NEW t \in Crew, Return(t) \/ Dispose(t)
  PROVE  ThreadsInv'
<1>1. PICK p : /\ p \in {"user"} \cup {IF t = MainThread THEN "joining" ELSE "finishing"}
               /\ at' = [at EXCEPT ![t] = p]
  BY DEF Return, Dispose
<1>2. at[t] \in {"user", "reported"} /\ UNCHANGED <<state, refs, start, lost, fixtures, dbghelp>>
  BY DEF Return, Dispose
<1>3. LockInv'
  BY <1>1, <1>2, LockSame DEF ThreadsInv, ThreadsTypeOK
<1> QED BY <1>1, <1>2, <1>3, WorkStep DEF Working, ThreadsInv, ThreadsTypeOK

\* A thread enters one of the stack trace routines, which nobody is in.
LEMMA ReportStep ==
  ASSUME ThreadsInv, NEW t \in Crew, Report(t) \/ FormatStackTrace(t)
  PROVE  ThreadsInv'
<1> USE ThreadsAssumption
<1>1. PICK p : /\ p = IF at[t] = "user" THEN "capture" ELSE "resolve"
               /\ at[t] \in {"user", "print"}
               /\ at' = [at EXCEPT ![t] = p]
  BY DEF Report, FormatStackTrace
<1>2. UNCHANGED <<state, refs, start, lost, fixtures>> /\ dbghelp.owner = Nobody
  BY DEF Report, FormatStackTrace, Locked
<1>3. /\ dbghelp' \in [owner : Crew \cup {Nobody}, initialized : BOOLEAN]
      /\ dbghelp'.owner = t /\ dbghelp'.initialized = dbghelp.initialized
  <2>1. dbghelp' = [dbghelp EXCEPT !.owner = t]
    BY DEF Report, FormatStackTrace, Locked
  <2>2. dbghelp \in [owner : Crew \cup {Nobody}, initialized : BOOLEAN]
    BY DEF ThreadsInv, ThreadsTypeOK
  <2> QED BY <2>1, <2>2
<1>4. LockInv'
  BY <1>1, <1>2, <1>3 DEF ThreadsInv, ThreadsTypeOK, LockInv
<1> QED BY <1>1, <1>2, <1>3, <1>4, WorkStep DEF Working

\* A trace has frames only if DbgHelp has been initialized.
LEMMA CaptureStep ==
  ASSUME ThreadsInv, NEW t \in Crew, CaptureStackTrace(t)
  PROVE  ThreadsInv'
<1> USE ThreadsAssumption
<1>1. PICK r \in LazyInitializeDbgHelp(dbghelp.initialized) :
         /\ dbghelp' = [owner |-> Nobody, initialized |-> r.initialized]
         /\ \E frames \in IF r.ok THEN BOOLEAN ELSE {FALSE} :
               at' = [at EXCEPT ![t] = SinkReport(frames)]
  BY DEF CaptureStackTrace
<1>2. PICK frames \in IF r.ok THEN BOOLEAN ELSE {FALSE} : at' = [at EXCEPT ![t] = SinkReport(frames)]
  BY <1>1
<1>3. /\ r.initialized \in BOOLEAN /\ r.ok \in BOOLEAN
      /\ dbghelp.initialized => r.initialized
      /\ r.ok = TRUE => r.initialized
  <2>1. CASE dbghelp.initialized
    <3>1. r = [ok |-> TRUE, initialized |-> TRUE]
      BY <1>1, <2>1 DEF LazyInitializeDbgHelp
    <3> QED BY <3>1
  <2>2. CASE ~ dbghelp.initialized
    <3>1. r \in {[ok |-> TRUE, initialized |-> TRUE], [ok |-> FALSE, initialized |-> FALSE]}
      BY <1>1, <2>2 DEF LazyInitializeDbgHelp
    <3>2. CASE r = [ok |-> TRUE, initialized |-> TRUE]
      BY <3>2
    <3>3. CASE r = [ok |-> FALSE, initialized |-> FALSE]
      <4>1. r.ok = FALSE /\ r.initialized = FALSE
        BY <3>3
      <4> QED BY <4>1, <2>2
    <3> QED BY <3>1, <3>2, <3>3
  <2> QED BY <2>1, <2>2
<1>4. SinkReport(frames) \in {"print", "reported"} /\ (SinkReport(frames) = "print" => r.ok = TRUE)
  BY <1>2, <1>3 DEF SinkReport
<1>5. at[t] = "capture" /\ UNCHANGED <<state, refs, start, lost, fixtures>> /\ dbghelp.owner = t
  BY DEF CaptureStackTrace, ThreadsInv, LockInv
<1>6. LockInv'
  BY <1>1, <1>2, <1>3, <1>4, <1>5 DEF ThreadsInv, ThreadsTypeOK, LockInv
<1> QED BY <1>1, <1>2, <1>3, <1>4, <1>5, <1>6, WorkStep DEF Working

\* A frame is resolved after an initialization, so that the lock is left.
LEMMA ResolveStep ==
  ASSUME ThreadsInv, NEW t \in Crew, GetInformationStackframe(t)
  PROVE  ThreadsInv'
<1> USE ThreadsAssumption
<1>1. dbghelp.initialized = TRUE /\ dbghelp.owner = t /\ at[t] = "resolve"
  BY DEF GetInformationStackframe, ThreadsInv, ThreadsTypeOK, LockInv
<1>2. dbghelp' = [owner |-> Nobody, initialized |-> TRUE]
  <2>1. PICK r \in LazyInitializeDbgHelp(dbghelp.initialized) :
           dbghelp' = [owner |-> IF r.ok THEN Nobody ELSE t, initialized |-> r.initialized]
    BY DEF GetInformationStackframe
  <2>2. r = [ok |-> TRUE, initialized |-> TRUE]
    BY <1>1 DEF LazyInitializeDbgHelp
  <2>3. r.ok = TRUE /\ r.initialized = TRUE
    BY <2>2
  <2> QED BY <2>1, <2>3
<1>3. PICK p \in {"print", "reported"} : at' = [at EXCEPT ![t] = p]
  BY DEF GetInformationStackframe
<1>4. UNCHANGED <<state, refs, start, lost, fixtures>>
  BY DEF GetInformationStackframe
<1>5. LockInv'
  BY <1>1, <1>2, <1>3 DEF ThreadsInv, ThreadsTypeOK, LockInv
<1> QED BY <1>1, <1>2, <1>3, <1>4, <1>5, WorkStep DEF Working

\* A state kept from the fixture before is still referenced, by a thread that
\* left without giving its reference back.
LEMMA BeginStep ==
  ASSUME ThreadsInv, BeginFixture
  PROVE  ThreadsInv'
<1> USE ThreadsAssumption DEF ThreadsInv
<1> DEFINE s == IF state[MainThread] = 0 THEN fixtures + 1 ELSE state[MainThread]
<1>1. /\ at[MainThread] = "between" /\ fixtures < MaxFixtures
      /\ fixtures' = fixtures + 1
      /\ at' = [at EXCEPT ![MainThread] = "user"]
      /\ UNCHANGED <<start, lost, dbghelp>>
  BY DEF BeginFixture
<1>2. /\ MainThread \in Crew /\ s \in States /\ fixtures + 1 \in States
      /\ state' = [state EXCEPT ![MainThread] = s]
      /\ refs' = IF state[MainThread] = 0 THEN [refs EXCEPT ![s] = 1] ELSE refs
  BY <1>1 DEF BeginFixture, ThreadsTypeOK, States, Crew
<1> HIDE DEF s
<1>3. \A u \in Crew : at'[u] = IF u = MainThread THEN "user" ELSE at[u]
  BY <1>1 DEF ThreadsTypeOK
<1>4. \A u \in Crew : state'[u] = IF u = MainThread THEN s ELSE state[u]
  BY <1>2 DEF ThreadsTypeOK
<1>5. \A c \in Children : at[c] \in {"unborn", "gone"}
  BY <1>1 DEF RestInv
<1>6. ThreadsTypeOK'
  <2>1. at' \in [Crew -> MainPlaces \cup ChildPlaces]
    BY <1>1, <1>2 DEF ThreadsTypeOK, MainPlaces, Working
  <2>2. at'[MainThread] \in MainPlaces /\ \A c \in Children : at'[c] \in ChildPlaces
    BY <1>3 DEF ThreadsTypeOK, MainPlaces, Working, Crew
  <2>3. state' \in [Crew -> 0 .. MaxFixtures]
    BY <1>2 DEF ThreadsTypeOK, States
  <2>4. refs' \in [States -> Nat]
    BY <1>2 DEF ThreadsTypeOK
  <2>5. fixtures' \in 0 .. MaxFixtures
    BY <1>1 DEF ThreadsTypeOK
  <2> QED BY <1>1, <2>1, <2>2, <2>3, <2>4, <2>5 DEF ThreadsTypeOK
<1>7. RestInv'
  BY <1>3 DEF RestInv, Crew
<1>8. FreshInv'
  <2>1. s <= fixtures + 1
    BY <1>2 DEF FreshInv, s, ThreadsTypeOK
  <2>2. \A t \in Crew : state'[t] <= fixtures'
    BY <1>1, <1>4, <2>1 DEF FreshInv, ThreadsTypeOK, States
  <2>3. ASSUME NEW x \in States, x > fixtures'
        PROVE  refs'[x] = 0
    BY <1>1, <1>2, <2>1, <2>3 DEF FreshInv, ThreadsTypeOK, States
  <2> QED BY <2>2, <2>3 DEF FreshInv
<1>9. StartInv'
  <2>1. \A c \in Children : at'[c] = at[c] /\ state'[c] = state[c]
    BY <1>3, <1>4 DEF Crew
  <2> QED BY <1>5, <2>1 DEF StartInv
<1>10. CountInv'
  <2>1. ASSUME NEW x \in States
        PROVE  Holders(x) = {} /\ Cardinality(Holders(x)) = 0
    <3>1. Holders(x) = {}
      BY <1>1, <1>5 DEF Holders, Crew
    <3> QED BY <3>1, FS_EmptySet
  <2>2. ASSUME NEW x \in States
        PROVE  Cardinality(Holders(x)') = IF x = s THEN 1 ELSE 0
    <3>1. Holders(x)' = IF x = s THEN {MainThread} ELSE {}
      BY <1>2, <1>3, <1>4, <1>5 DEF Holders, Crew
    <3> QED BY <3>1, FS_EmptySet, FS_Singleton
  <2>3. state[MainThread] # 0 => refs[s] > 0
    BY DEF CountInv, s
  <2>4. lost = {} => state[MainThread] = 0
    BY <2>1, <2>3, <1>2 DEF CountInv, ThreadsTypeOK, s
  <2>5. \A x \in States : refs[x] \in Nat
    BY DEF ThreadsTypeOK
  <2>6. state[MainThread] = 0 => refs[s] = 0
    BY <1>1, <1>2 DEF FreshInv, s, ThreadsTypeOK
  <2>7. \A x \in States : refs'[x] = IF x = s /\ state[MainThread] = 0 THEN 1 ELSE refs[x]
    BY <1>2 DEF ThreadsTypeOK
  <2>8. \A x \in States : refs'[x] >= Cardinality(Holders(x)')
    BY <2>2, <2>3, <2>5, <2>7
  <2>9. lost' = {} => \A x \in States : refs'[x] = Cardinality(Holders(x)')
    BY <1>1, <2>1, <2>2, <2>4, <2>7 DEF CountInv
  <2>10. refs'[state'[MainThread]] > 0
    BY <1>2, <1>4, <2>3, <2>7
  <2> QED BY <2>8, <2>9, <2>10 DEF CountInv
<1>11. LockInv'
  BY <1>1, <1>3, LockSame
<1> QED BY <1>6, <1>7, <1>8, <1>9, <1>10, <1>11

\* The main thread waits for the child threads of the fixture.
LEMMA JoinStep ==
  ASSUME ThreadsInv, JoinChildren
  PROVE  ThreadsInv'
<1> USE ThreadsAssumption DEF ThreadsInv
<1>1. /\ at[MainThread] = "joining" /\ \A c \in Children : at[c] \in {"unborn", "gone"}
      /\ at' = [at EXCEPT ![MainThread] = "joined"]
      /\ UNCHANGED <<state, refs, start, lost, fixtures, dbghelp>>
  BY DEF JoinChildren
<1>2. \A u \in Crew : at'[u] = IF u = MainThread THEN "joined" ELSE at[u]
  BY <1>1 DEF ThreadsTypeOK
<1>3. ThreadsTypeOK'
  <2>1. at' \in [Crew -> MainPlaces \cup ChildPlaces]
    BY <1>1 DEF ThreadsTypeOK, MainPlaces
  <2>2. at'[MainThread] \in MainPlaces /\ \A c \in Children : at'[c] \in ChildPlaces
    BY <1>2 DEF ThreadsTypeOK, MainPlaces, Crew
  <2> QED BY <1>1, <2>1, <2>2 DEF ThreadsTypeOK
<1>4. RestInv' /\ StartInv'
  BY <1>1, <1>2 DEF RestInv, StartInv, Crew
<1>5. FreshInv'
  BY <1>1 DEF FreshInv
<1>6. CountInv'
  <2>1. \A s : Holders(s)' = Holders(s)
    BY <1>1, <1>2, HoldersSame
  <2> QED BY <1>1, <2>1 DEF CountInv
<1>7. LockInv'
  BY <1>1, <1>2, LockSame
<1> QED BY <1>3, <1>4, <1>5, <1>6, <1>7

\* What giving a reference back does to the counts, for the last step of a
\* fixture and of a child thread alike.
LEMMA DereferenceFact ==
  ASSUME ThreadsInv, NEW t \in Crew, NEW p \in {"between", "gone"},
         at[t] \in {"joined", "finishing"},
         DereferenceCurrentState(t), at' = [at EXCEPT ![t] = p],
         UNCHANGED <<start, lost, fixtures, dbghelp>>
  PROVE  /\ state' \in [Crew -> 0 .. MaxFixtures] /\ refs' \in [States -> Nat]
         /\ \A u \in Crew : u # t => state'[u] = state[u] /\ at'[u] = at[u]
         /\ state'[t] \in {0, state[t]} /\ at'[t] = p
         /\ state'[t] # 0 => refs'[state'[t]] > 0
         /\ \A s \in States : refs'[s] <= refs[s]
         /\ \A s \in States : refs'[s] >= Cardinality(Holders(s)')
         /\ lost' = {} => \A s \in States : refs'[s] = Cardinality(Holders(s)')
<1> USE ThreadsAssumption DEF ThreadsInv
<1>0. PICK x : x = state[t]
  OBVIOUS
<1>1. /\ \A u \in Crew : at'[u] = IF u = t THEN p ELSE at[u]
      /\ state' \in [Crew -> 0 .. MaxFixtures]
      /\ \A u \in Crew : u # t => state'[u] = state[u]
      /\ state'[t] \in {0, state[t]}
  BY DEF DereferenceCurrentState, ThreadsTypeOK
<1>2. ASSUME NEW s \in States, s # x
      PROVE  Holders(s)' = Holders(s) /\ refs'[s] = refs[s]
  <2>1. refs'[s] = refs[s]
    BY <1>0, <1>2 DEF DereferenceCurrentState, ThreadsTypeOK
  <2>2. Holders(s)' = Holders(s)
    <3>1. ASSUME NEW u \in Crew
          PROVE  (state'[u] = s /\ at'[u] \notin {"unborn", "gone", "between"})
                    <=> (state[u] = s /\ at[u] \notin {"unborn", "gone", "between"})
      BY <1>0, <1>1, <1>2, <3>1
    <3> QED BY <3>1, HoldersSame
  <2> QED BY <2>1, <2>2
<1>3. \A s \in States : Cardinality(Holders(s)) \in Nat /\ refs[s] \in Nat
  BY HoldersFinite DEF ThreadsTypeOK
<1>4. CASE x = 0
  <2>1. \A s \in States : s # x
    BY <1>4 DEF States
  <2>2. refs' = refs /\ state' = state
    BY <1>0, <1>4 DEF DereferenceCurrentState
  <2> QED BY <1>0, <1>1, <1>2, <1>3, <1>4, <2>1, <2>2 DEF CountInv, ThreadsTypeOK
<1>5. CASE x # 0
  <2>1. x \in States /\ refs[x] > 0
    BY <1>0, <1>5, HolderHasReference
  <2>2. /\ refs' = [refs EXCEPT ![x] = refs[x] - 1]
        /\ state' = IF refs[x] = 1 THEN [state EXCEPT ![t] = 0] ELSE state
    BY <1>0, <1>5 DEF DereferenceCurrentState
  <2>3. refs' \in [States -> Nat] /\ refs'[x] = refs[x] - 1
    BY <1>3, <2>1, <2>2 DEF ThreadsTypeOK
  <2>4. t \in Holders(x)
    BY <1>0 DEF Holders
  <2>5. Holders(x)' = Holders(x) \ {t}
    BY <1>0, <1>1, <1>5 DEF Holders
  <2>6. Cardinality(Holders(x)') = Cardinality(Holders(x)) - 1
    BY <2>4, <2>5, HolderRemoved
  <2>7. state'[t] # 0 => refs[x] # 1 /\ state'[t] = x
    BY <1>0, <1>1, <2>2 DEF ThreadsTypeOK
  <2>8. ASSUME NEW s \in States
        PROVE  /\ refs'[s] <= refs[s]
               /\ refs'[s] >= Cardinality(Holders(s)')
               /\ lost' = {} => refs'[s] = Cardinality(Holders(s)')
    <3>1. refs[s] >= Cardinality(Holders(s)) /\ (lost' = {} => refs[s] = Cardinality(Holders(s)))
      BY DEF CountInv
    <3>2. CASE s = x
      BY <1>3, <2>1, <2>3, <2>6, <3>1, <3>2
    <3>3. CASE s # x
      BY <1>2, <1>3, <3>1, <3>3
    <3> QED BY <3>2, <3>3
  <2>9. state'[t] # 0 => refs'[state'[t]] > 0
    BY <1>3, <2>1, <2>3, <2>7
  <2> QED BY <1>1, <2>3, <2>8, <2>9
<1> QED BY <1>4, <1>5

\* The last thread frees the state; if others hold references, the slot stays.
LEMMA FinishStep ==
  ASSUME ThreadsInv, FinishFixture
  PROVE  ThreadsInv'
<1> USE ThreadsAssumption DEF ThreadsInv
<1> DEFINE m == MainThread
<1>1. /\ at[m] = "joined" /\ DereferenceCurrentState(m)
      /\ at' = [at EXCEPT ![m] = "between"]
      /\ UNCHANGED <<start, lost, fixtures, dbghelp>> /\ m \in Crew
  BY DEF FinishFixture, Crew
<1>2. /\ state' \in [Crew -> 0 .. MaxFixtures] /\ refs' \in [States -> Nat]
      /\ \A u \in Crew : u # m => state'[u] = state[u] /\ at'[u] = at[u]
      /\ state'[m] \in {0, state[m]} /\ at'[m] = "between"
      /\ state'[m] # 0 => refs'[state'[m]] > 0
      /\ \A s \in States : refs'[s] <= refs[s]
      /\ \A s \in States : refs'[s] >= Cardinality(Holders(s)')
      /\ lost' = {} => \A s \in States : refs'[s] = Cardinality(Holders(s)')
  BY <1>1, DereferenceFact
<1>3. \A c \in Children : at'[c] = at[c] /\ state'[c] = state[c] /\ at[c] \in {"unborn", "gone"}
  BY <1>1, <1>2 DEF RestInv, Crew
<1>4. ThreadsTypeOK'
  <2>1. at' \in [Crew -> MainPlaces \cup ChildPlaces]
    BY <1>1 DEF ThreadsTypeOK, MainPlaces
  <2> QED BY <1>1, <1>2, <1>3, <2>1 DEF ThreadsTypeOK, MainPlaces
<1>5. RestInv' /\ StartInv'
  BY <1>1, <1>3 DEF RestInv, StartInv
<1>6. FreshInv'
  <2>1. \A t \in Crew : state'[t] <= fixtures
    BY <1>2 DEF FreshInv, ThreadsTypeOK
  <2>2. \A s \in States : refs[s] \in Nat /\ refs'[s] \in Nat
    BY <1>2 DEF ThreadsTypeOK
  <2>3. \A s \in States : s > fixtures => refs'[s] = 0
    BY <1>2, <2>2 DEF FreshInv
  <2> QED BY <1>1, <2>1, <2>3 DEF FreshInv
<1>7. CountInv'
  BY <1>2 DEF CountInv
<1>8. LockInv'
  BY <1>1, <1>2, LockSame
<1> QED BY <1>4, <1>5, <1>6, <1>7, <1>8

\* A child thread gives its reference back; the main thread still has one.
LEMMA ChildFinishStep ==
  ASSUME ThreadsInv, NEW c \in Children, AfterChildThreadFinish(c)
  PROVE  ThreadsInv'
<1> USE ThreadsAssumption DEF ThreadsInv
<1>1. /\ at[c] = "finishing" /\ DereferenceCurrentState(c)
      /\ at' = [at EXCEPT ![c] = "gone"]
      /\ UNCHANGED <<start, lost, fixtures, dbghelp>> /\ c \in Crew
      /\ MainThread \in Crew /\ MainThread # c
  BY DEF AfterChildThreadFinish, Crew
<1>2. /\ state' \in [Crew -> 0 .. MaxFixtures] /\ refs' \in [States -> Nat]
      /\ \A u \in Crew : u # c => state'[u] = state[u] /\ at'[u] = at[u]
      /\ state'[c] \in {0, state[c]} /\ at'[c] = "gone"
      /\ \A s \in States : refs'[s] <= refs[s]
      /\ \A s \in States : refs'[s] >= Cardinality(Holders(s)')
      /\ lost' = {} => \A s \in States : refs'[s] = Cardinality(Holders(s)')
  BY <1>1, DereferenceFact
<1>4. ThreadsTypeOK'
  <2>1. at' \in [Crew -> MainPlaces \cup ChildPlaces]
    BY <1>1 DEF ThreadsTypeOK, ChildPlaces
  <2>2. at'[MainThread] \in MainPlaces /\ \A d \in Children : at'[d] \in ChildPlaces
    BY <1>1, <1>2 DEF ThreadsTypeOK, ChildPlaces, Crew
  <2> QED BY <1>1, <1>2, <2>1, <2>2 DEF ThreadsTypeOK
<1>5. RestInv'
  BY <1>1, <1>2 DEF RestInv, Crew
<1>6. FreshInv'
  <2>1. \A t \in Crew : state'[t] <= fixtures
    BY <1>2 DEF FreshInv, ThreadsTypeOK
  <2>2. \A s \in States : refs[s] \in Nat /\ refs'[s] \in Nat
    BY <1>2 DEF ThreadsTypeOK
  <2>3. \A s \in States : s > fixtures => refs'[s] = 0
    BY <1>2, <2>2 DEF FreshInv
  <2> QED BY <1>1, <2>1, <2>3 DEF FreshInv
<1>7. StartInv'
  <2>1. \A u \in Crew : u # c => state'[u] = state[u] /\ at'[u] = at[u]
    BY <1>2
  <2>2. at'[c] = "gone" /\ at[c] = "finishing"
    BY <1>1, <1>2
  <2> QED BY <1>1, <2>1, <2>2 DEF StartInv, Crew
<1>8. CountInv'
  <2>1. at[MainThread] \notin {"unborn", "gone", "between"}
    BY <1>1 DEF RestInv, ThreadsTypeOK, MainPlaces, Working
  <2>2. ASSUME state'[MainThread] # 0
        PROVE  refs'[state'[MainThread]] > 0
    <3>0. PICK s : s = state'[MainThread]
      OBVIOUS
    <3>1. MainThread \in Holders(s)'
      BY <3>0, <1>1, <1>2, <2>1 DEF Holders
    <3>2. s \in States
      BY <3>0, <1>1, <1>2, <2>2 DEF States
    <3>3. Cardinality(Holders(s)') \in Nat /\ IsFiniteSet(Holders(s)')
      <4>1. IsFiniteSet(Crew)
        BY FS_Singleton, FS_Union DEF Crew
      <4>2. Holders(s)' \subseteq Crew
        BY DEF Holders
      <4> QED BY <4>1, <4>2, FS_Subset, FS_CardinalityType
    <3>4. Cardinality(Holders(s)') # 0
      BY <3>1, <3>3, FS_EmptySet
    <3>5. refs'[s] >= Cardinality(Holders(s)') /\ refs'[s] \in Nat
      BY <1>2, <3>2
    <3>6. refs'[s] > 0
      BY <3>3, <3>4, <3>5
    <3> QED BY <3>0, <3>6
  <2> QED BY <1>2, <2>2 DEF CountInv
<1>9. LockInv'
  BY <1>1, <1>2, LockSame
<1> QED BY <1>4, <1>5, <1>6, <1>7, <1>8, <1>9

\* The creator waits from here on, with the state the new thread is handed.
LEMMA CreateStep ==
  ASSUME ThreadsInv, NEW c \in Children, NEW t \in Crew, CreateChildThread(t, c)
  PROVE  ThreadsInv'
<1> USE ThreadsAssumption DEF ThreadsInv
<1>1. /\ at[t] = "user" /\ at[c] = "unborn" /\ state[t] # 0
      /\ UNCHANGED <<state, refs, lost, fixtures, dbghelp>>
      /\ c \in Crew /\ MainThread \in Crew /\ c # MainThread /\ t # c
  BY DEF CreateChildThread, Crew
<1>10. /\ start' = [start EXCEPT ![c] = [creator |-> t, context |-> state[t]]]
       /\ at' = [at EXCEPT ![t] = "waiting", ![c] = "starting"]
  BY DEF CreateChildThread
<1>2. /\ at'[c] = "starting" /\ at'[t] = "waiting"
      /\ \A u \in Crew : u # c /\ u # t => at'[u] = at[u]
  BY <1>1, <1>10 DEF ThreadsTypeOK
<1>3. \A d \in Children : start'[d] = IF d = c THEN [creator |-> t, context |-> state[t]] ELSE start[d]
  BY <1>10 DEF ThreadsTypeOK
<1>4. ThreadsTypeOK'
  <2>1. at' \in [Crew -> MainPlaces \cup ChildPlaces]
    BY <1>10 DEF ThreadsTypeOK, MainPlaces, ChildPlaces, Working
  <2>2. at'[MainThread] \in MainPlaces /\ \A d \in Children : at'[d] \in ChildPlaces
    BY <1>1, <1>2 DEF ThreadsTypeOK, MainPlaces, ChildPlaces, Working, Crew
  <2>3. [creator |-> t, context |-> state[t]] \in [creator : Crew \cup {Nobody}, context : 0 .. MaxFixtures]
    BY DEF ThreadsTypeOK
  <2>4. start' \in [Children -> [creator : Crew \cup {Nobody}, context : 0 .. MaxFixtures]]
    BY <1>10, <2>3 DEF ThreadsTypeOK
  <2> QED BY <1>1, <2>1, <2>2, <2>4 DEF ThreadsTypeOK
<1>5. RestInv'
  <2>1. at[MainThread] \notin {"between", "joined"} \/ t = MainThread
    BY <1>1 DEF RestInv, Crew
  <2> QED BY <1>1, <1>2, <2>1 DEF RestInv, Crew
<1>6. FreshInv'
  BY <1>1 DEF FreshInv
<1>7. StartInv'
  <2>1. \A d \in Children : at'[d] \in {"unborn", "starting"} => state'[d] = 0
    BY <1>1, <1>2 DEF StartInv, Crew
  <2>2. ASSUME NEW d \in Children, at'[d] = "starting", d # c
        PROVE  /\ at[d] = "starting" /\ start'[d] = start[d]
               /\ start[d].creator \in Crew /\ at[start[d].creator] = "waiting"
    BY <1>1, <1>2, <1>3, <2>2 DEF StartInv, Crew
  <2>3. start'[c].creator = t /\ start'[c].context = state[t]
    BY <1>3
  <2>4. ASSUME NEW d \in Children, at'[d] = "starting"
        PROVE  /\ start'[d].creator \in Crew
               /\ at'[start'[d].creator] = "waiting"
               /\ state'[start'[d].creator] = start'[d].context
               /\ start'[d].context # 0
    <3>1. CASE d = c
      BY <1>1, <1>2, <2>3, <3>1
    <3>2. CASE d # c
      BY <1>1, <1>2, <2>2, <2>4, <3>2 DEF StartInv
    <3> QED BY <3>1, <3>2
  <2>5. ASSUME NEW d \in Children, NEW e \in Children, at'[d] = "starting", at'[e] = "starting",
               start'[d].creator = start'[e].creator
        PROVE  d = e
    BY <1>1, <2>2, <2>3, <2>5 DEF StartInv
  <2> QED BY <2>1, <2>4, <2>5 DEF StartInv
<1>8. CountInv'
  <2>1. ASSUME NEW s \in States
        PROVE  Holders(s)' = Holders(s)
    <3>1. state[c] = 0 /\ s # 0
      BY <1>1 DEF StartInv, States
    <3>2. ASSUME NEW u \in Crew
          PROVE  (state'[u] = s /\ at'[u] \notin {"unborn", "gone", "between"})
                    <=> (state[u] = s /\ at[u] \notin {"unborn", "gone", "between"})
      BY <1>1, <1>2, <3>1, <3>2
    <3> QED BY <3>2, HoldersSame
  <2> QED BY <1>1, <2>1 DEF CountInv
<1>9. LockInv'
  BY <1>1, <1>2, LockSame
<1> QED BY <1>4, <1>5, <1>6, <1>7, <1>8, <1>9

\* The creator's reference covers the window until the new thread has its own.
LEMMA ChildStartStep ==
  ASSUME ThreadsInv, NEW c \in Children, BeforeChildThreadStart(c)
  PROVE  ThreadsInv'
<1> USE ThreadsAssumption DEF ThreadsInv
<1>0. PICK x, t : x = start[c].context /\ t = start[c].creator
  OBVIOUS
<1>1. /\ at[c] = "starting" /\ t \in Crew /\ at[t] = "waiting" /\ x # 0 /\ state[t] = x
      /\ state[c] = 0 /\ t # c /\ c \in Crew /\ MainThread \in Crew /\ c # MainThread
  BY <1>0 DEF BeforeChildThreadStart, StartInv, Crew
<1>2. /\ refs' = [refs EXCEPT ![x] = @ + 1]
      /\ state' = [state EXCEPT ![c] = x]
      /\ at' = [at EXCEPT ![c] = "user", ![t] = "user"]
      /\ UNCHANGED <<start, lost, fixtures, dbghelp>>
  BY <1>0 DEF BeforeChildThreadStart
<1>3. x \in States
  BY <1>1 DEF ThreadsTypeOK, States
<1>4. /\ at'[c] = "user" /\ at'[t] = "user"
      /\ \A u \in Crew : u # c /\ u # t => at'[u] = at[u]
  BY <1>1, <1>2 DEF ThreadsTypeOK
<1>5. \A u \in Crew : state'[u] = IF u = c THEN x ELSE state[u]
  BY <1>1, <1>2 DEF ThreadsTypeOK
<1>6. \A s \in States : refs[s] \in Nat /\ refs'[s] = IF s = x THEN refs[s] + 1 ELSE refs[s]
  BY <1>2, <1>3 DEF ThreadsTypeOK
<1>7. ThreadsTypeOK'
  <2>1. at' \in [Crew -> MainPlaces \cup ChildPlaces]
    BY <1>2 DEF ThreadsTypeOK, MainPlaces, ChildPlaces, Working
  <2>2. at'[MainThread] \in MainPlaces /\ \A d \in Children : at'[d] \in ChildPlaces
    BY <1>1, <1>4 DEF ThreadsTypeOK, MainPlaces, ChildPlaces, Working, Crew
  <2>3. state' \in [Crew -> 0 .. MaxFixtures]
    <3>1. x \in 0 .. MaxFixtures /\ state \in [Crew -> 0 .. MaxFixtures] /\ state' = [state EXCEPT ![c] = x]
      BY <1>1, <1>2 DEF ThreadsTypeOK
    <3> QED BY <3>1
  <2>4. refs' \in [States -> Nat]
    BY <1>2, <1>3 DEF ThreadsTypeOK
  <2> QED BY <1>2, <2>1, <2>2, <2>3, <2>4 DEF ThreadsTypeOK
<1>8. RestInv'
  BY <1>1, <1>4 DEF RestInv, Crew
<1>9. FreshInv'
  <2>1. x <= fixtures
    BY <1>1 DEF FreshInv
  <2>2. \A s \in States : s > fixtures => s # x
    BY <1>3, <2>1 DEF States, ThreadsTypeOK
  <2> QED BY <1>2, <1>5, <1>6, <2>1, <2>2 DEF FreshInv
<1>10. StartInv'
  <2>1. \A d \in Children : at'[d] \in {"unborn", "starting"} => at'[d] = at[d] /\ d # c /\ state'[d] = state[d]
    BY <1>4, <1>5 DEF Crew
  <2>2. ASSUME NEW d \in Children, at'[d] = "starting"
        PROVE  start[d].creator \in Crew /\ start[d].creator \notin {c, t}
    BY <1>0, <1>1, <2>1, <2>2 DEF StartInv
  <2>3. ASSUME NEW d \in Children, at'[d] = "starting"
        PROVE  /\ start'[d].creator \in Crew
               /\ at'[start'[d].creator] = "waiting"
               /\ state'[start'[d].creator] = start'[d].context
               /\ start'[d].context # 0
    <3>1. at[d] = "starting" /\ start'[d] = start[d]
      BY <1>2, <2>1, <2>3
    <3> QED BY <1>2, <1>4, <1>5, <2>2, <2>3, <3>1 DEF StartInv
  <2>4. \A d \in Children : at'[d] \in {"unborn", "starting"} => state'[d] = 0
    BY <1>2, <2>1 DEF StartInv
  <2>5. UNCHANGED start
    BY <1>2
  <2>6. \A d, e \in Children :
           at'[d] = "starting" /\ at'[e] = "starting" /\ start'[d].creator = start'[e].creator => d = e
    BY <2>1, <2>5 DEF StartInv
  <2> QED BY <2>3, <2>4, <2>6 DEF StartInv
<1>11. CountInv'
  <2>1. ASSUME NEW s \in States, s # x
        PROVE  Holders(s)' = Holders(s)
    <3>1. ASSUME NEW u \in Crew
          PROVE  (state'[u] = s /\ at'[u] \notin {"unborn", "gone", "between"})
                    <=> (state[u] = s /\ at[u] \notin {"unborn", "gone", "between"})
      <4>1. s # 0
        BY DEF States
      <4> QED BY <1>1, <1>4, <1>5, <2>1, <3>1, <4>1
    <3> QED BY <3>1, HoldersSame
  <2>2. c \notin Holders(x) /\ Holders(x)' = Holders(x) \cup {c}
    BY <1>1, <1>4, <1>5 DEF Holders
  <2>3. Cardinality(Holders(x)') = Cardinality(Holders(x)) + 1
    BY <2>2, HolderAdded
  <2>4. \A s \in States : Cardinality(Holders(s)) \in Nat
    BY HoldersFinite
  <2>5. ASSUME NEW s \in States
        PROVE  /\ refs'[s] >= Cardinality(Holders(s)')
               /\ lost' = {} => refs'[s] = Cardinality(Holders(s)')
    <3>1. refs[s] >= Cardinality(Holders(s)) /\ (lost' = {} => refs[s] = Cardinality(Holders(s)))
      BY <1>2 DEF CountInv
    <3>2. CASE s = x
      BY <1>6, <2>3, <2>4, <3>1, <3>2
    <3>3. CASE s # x
      BY <1>6, <2>1, <3>1, <3>3
    <3> QED BY <3>2, <3>3
  <2>6. ASSUME state'[MainThread] # 0
        PROVE  refs'[state'[MainThread]] > 0
    <3>1. state'[MainThread] = state[MainThread] /\ state[MainThread] \in States /\ refs[state[MainThread]] > 0
      BY <1>1, <1>5, <2>6 DEF CountInv, ThreadsTypeOK, States
    <3> QED BY <1>6, <3>1
  <2> QED BY <2>5, <2>6 DEF CountInv
<1>12. LockInv'
  BY <1>1, <1>2, <1>4, LockSame
<1> QED BY <1>7, <1>8, <1>9, <1>10, <1>11, <1>12

\* A thread the filament has no room for ends without having touched the count.
LEMMA RejectedStep ==
  ASSUME ThreadsInv, NEW c \in Children, StartRejected(c)
  PROVE  ThreadsInv'
<1> USE ThreadsAssumption DEF ThreadsInv
<1>0. PICK t : t = start[c].creator
  OBVIOUS
<1>1. /\ at[c] = "starting" /\ t \in Crew /\ at[t] = "waiting"
      /\ state[c] = 0 /\ t # c /\ c \in Crew /\ MainThread \in Crew /\ c # MainThread
  BY <1>0 DEF StartRejected, StartInv, Crew
<1>2. /\ at' = [at EXCEPT ![c] = "gone", ![t] = "user"]
      /\ UNCHANGED <<state, refs, start, lost, fixtures, dbghelp>>
  BY <1>0 DEF StartRejected
<1>3. /\ at'[c] = "gone" /\ at'[t] = "user"
      /\ \A u \in Crew : u # c /\ u # t => at'[u] = at[u]
  BY <1>1, <1>2 DEF ThreadsTypeOK
<1>4. ThreadsTypeOK'
  <2>1. at' \in [Crew -> MainPlaces \cup ChildPlaces]
    BY <1>2 DEF ThreadsTypeOK, MainPlaces, ChildPlaces, Working
  <2>2. at'[MainThread] \in MainPlaces /\ \A d \in Children : at'[d] \in ChildPlaces
    BY <1>1, <1>3 DEF ThreadsTypeOK, MainPlaces, ChildPlaces, Working, Crew
  <2> QED BY <1>2, <2>1, <2>2 DEF ThreadsTypeOK
<1>5. RestInv'
  BY <1>1, <1>3 DEF RestInv, Crew
<1>6. FreshInv'
  BY <1>2 DEF FreshInv
<1>7. StartInv'
  <2>1. \A d \in Children : at'[d] \in {"unborn", "starting"} => at'[d] = at[d] /\ d # c
    BY <1>3 DEF Crew
  <2>2. ASSUME NEW d \in Children, at'[d] = "starting"
        PROVE  start[d].creator \in Crew /\ start[d].creator \notin {c, t}
    BY <1>0, <1>1, <2>1, <2>2 DEF StartInv
  <2>3. ASSUME NEW d \in Children, at'[d] = "starting"
        PROVE  /\ start'[d].creator \in Crew
               /\ at'[start'[d].creator] = "waiting"
               /\ state'[start'[d].creator] = start'[d].context
               /\ start'[d].context # 0
    <3>1. at[d] = "starting" /\ start'[d] = start[d]
      BY <1>2, <2>1, <2>3
    <3> QED BY <1>2, <1>3, <2>2, <2>3, <3>1 DEF StartInv
  <2>4. \A d \in Children : at'[d] \in {"unborn", "starting"} => state'[d] = 0
    BY <1>2, <2>1 DEF StartInv
  <2>5. UNCHANGED start
    BY <1>2
  <2>6. \A d, e \in Children :
           at'[d] = "starting" /\ at'[e] = "starting" /\ start'[d].creator = start'[e].creator => d = e
    BY <2>1, <2>5 DEF StartInv
  <2> QED BY <2>3, <2>4, <2>6 DEF StartInv
<1>8. CountInv'
  <2>1. ASSUME NEW s \in States
        PROVE  Holders(s)' = Holders(s)
    <3>1. s # 0
      BY DEF States
    <3>2. ASSUME NEW u \in Crew
          PROVE  (state'[u] = s /\ at'[u] \notin {"unborn", "gone", "between"})
                    <=> (state[u] = s /\ at[u] \notin {"unborn", "gone", "between"})
      BY <1>1, <1>2, <1>3, <3>1, <3>2
    <3> QED BY <3>2, HoldersSame
  <2> QED BY <1>2, <2>1 DEF CountInv
<1>9. LockInv'
  BY <1>1, <1>2, <1>3, LockSame
<1> QED BY <1>4, <1>5, <1>6, <1>7, <1>8, <1>9

\* The reference stays behind: more references than holders from here on.
LEMMA ExitStep ==
  ASSUME ThreadsInv, NEW c \in Children, ExitThread(c)
  PROVE  ThreadsInv'
<1> USE ThreadsAssumption DEF ThreadsInv
<1>1. /\ at[c] = "user" /\ at' = [at EXCEPT ![c] = "gone"] /\ lost' = lost \cup {c}
      /\ UNCHANGED <<state, refs, start, fixtures, dbghelp>>
      /\ c \in Crew /\ MainThread \in Crew /\ c # MainThread
  BY DEF ExitThread, Crew
<1>2. \A u \in Crew : at'[u] = IF u = c THEN "gone" ELSE at[u]
  BY <1>1 DEF ThreadsTypeOK
<1>3. ThreadsTypeOK'
  <2>1. at' \in [Crew -> MainPlaces \cup ChildPlaces]
    BY <1>1 DEF ThreadsTypeOK, ChildPlaces
  <2>2. at'[MainThread] \in MainPlaces /\ \A d \in Children : at'[d] \in ChildPlaces
    BY <1>1, <1>2 DEF ThreadsTypeOK, ChildPlaces, Crew
  <2> QED BY <1>1, <2>1, <2>2 DEF ThreadsTypeOK
<1>4. RestInv'
  BY <1>1, <1>2 DEF RestInv, Crew
<1>5. FreshInv'
  BY <1>1 DEF FreshInv
<1>6. StartInv'
  BY <1>1, <1>2 DEF StartInv, Crew
<1>7. CountInv'
  <2>1. ASSUME NEW s \in States
        PROVE  refs'[s] >= Cardinality(Holders(s)')
    <3>1. Holders(s)' \subseteq Holders(s)
      BY <1>1, <1>2 DEF Holders
    <3>2. Cardinality(Holders(s)') <= Cardinality(Holders(s)) /\ Cardinality(Holders(s)') \in Nat
      <4>1. IsFiniteSet(Holders(s)') /\ Cardinality(Holders(s)') <= Cardinality(Holders(s))
        BY <3>1, HoldersFinite, FS_Subset
      <4> QED BY <4>1, FS_CardinalityType
    <3>3. refs[s] >= Cardinality(Holders(s)) /\ refs[s] \in Nat /\ Cardinality(Holders(s)) \in Nat /\ refs'[s] = refs[s]
      BY <1>1, HoldersFinite DEF CountInv, ThreadsTypeOK
    <3> QED BY <3>2, <3>3
  <2> QED BY <1>1, <2>1 DEF CountInv
<1>8. LockInv'
  BY <1>1, <1>2, LockSame
<1> QED BY <1>3, <1>4, <1>5, <1>6, <1>7, <1>8

\* Nothing runs and nothing is counted at the beginning.
LEMMA ThreadsInitHolds ==
  ASSUME ThreadsInit
  PROVE  ThreadsInv
<1> USE ThreadsAssumption
<1>1. ThreadsTypeOK
  BY DEF ThreadsInit, ThreadsTypeOK, MainPlaces, ChildPlaces, Crew
<1>2. RestInv /\ FreshInv /\ StartInv /\ LockInv
  BY DEF ThreadsInit, RestInv, FreshInv, StartInv, LockInv, Crew
<1>3. CountInv
  <2>1. ASSUME NEW s \in States
        PROVE  Cardinality(Holders(s)) = 0
    <3>1. Holders(s) = {}
      BY DEF ThreadsInit, Holders, States, Crew
    <3> QED BY <3>1, FS_EmptySet
  <2> QED BY <2>1 DEF ThreadsInit, CountInv, Crew
<1> QED BY <1>1, <1>2, <1>3 DEF ThreadsInv

\* The invariant holds: every step of a fixture, of a child thread and of a
\* report keeps it.
LEMMA ThreadsInvariance == ThreadsSpec => []ThreadsInv
<1>1. ThreadsInv /\ [ThreadsNext]_threadVars => ThreadsInv'
  <2> SUFFICES ASSUME ThreadsInv, [ThreadsNext]_threadVars
               PROVE  ThreadsInv'
    OBVIOUS
  <2>1. CASE BeginFixture
    BY <2>1, BeginStep
  <2>2. CASE JoinChildren
    BY <2>2, JoinStep
  <2>3. CASE FinishFixture
    BY <2>3, FinishStep
  <2>4. ASSUME NEW t \in Crew,
               \/ Return(t) \/ Report(t) \/ CaptureStackTrace(t)
               \/ FormatStackTrace(t) \/ GetInformationStackframe(t) \/ Dispose(t)
        PROVE  ThreadsInv'
    BY <2>4, ReturnStep, ReportStep, CaptureStep, ResolveStep
  <2>5. ASSUME NEW c \in Children, NEW t \in Crew, CreateChildThread(t, c)
        PROVE  ThreadsInv'
    BY <2>5, CreateStep
  <2>6. ASSUME NEW c \in Children,
               BeforeChildThreadStart(c) \/ StartRejected(c) \/ ExitThread(c) \/ AfterChildThreadFinish(c)
        PROVE  ThreadsInv'
    BY <2>6, ChildStartStep, RejectedStep, ExitStep, ChildFinishStep
  <2>7. CASE UNCHANGED threadVars
    <3>1. \A s : Holders(s)' = Holders(s)
      BY <2>7 DEF threadVars, Holders
    <3>2. CountInv'
      BY <2>7, <3>1 DEF threadVars, ThreadsInv, CountInv
    <3> QED BY <2>7, <3>2 DEF threadVars, ThreadsInv, ThreadsTypeOK, RestInv, FreshInv, StartInv, LockInv
  <2> QED BY <2>1, <2>2, <2>3, <2>4, <2>5, <2>6, <2>7 DEF ThreadsNext
<1> QED BY <1>1, ThreadsInitHolds, PTL DEF ThreadsSpec

-----------------------------------------------------------------------------
(***************************************************************************)
(* Theorems.                                                               *)
(***************************************************************************)

\* EXEC_THREAD_STATE is counted exactly while every thread finishes in the
\* regular way, and never freed under a thread that uses it or is about to.
THEOREM StateOutlivesThreadsHolds == ThreadsSpec => []StateOutlivesThreads
<1>1. ThreadsInv => StateOutlivesThreads
  <2> SUFFICES ASSUME ThreadsInv
               PROVE  StateOutlivesThreads
    OBVIOUS
  <2> USE ThreadsAssumption DEF ThreadsInv
  <2>1. ASSUME NEW t \in Crew, at[t] # "gone", state[t] # 0
        PROVE  refs[state[t]] > 0
    <3>1. CASE t = MainThread
      BY <2>1, <3>1 DEF CountInv
    <3>2. CASE t \in Children
      <4>1. at[t] \notin {"unborn", "gone", "between"}
        BY <2>1, <3>2 DEF StartInv, ThreadsTypeOK, ChildPlaces, Working
      <4> QED BY <2>1, <4>1, HolderHasReference
    <3> QED BY <3>1, <3>2 DEF Crew
  <2>2. ASSUME NEW c \in Children, at[c] = "starting"
        PROVE  refs[start[c].context] > 0
    BY <2>2, HolderHasReference DEF StartInv
  <2> QED BY <2>1, <2>2 DEF StateOutlivesThreads, CountInv
<1> QED BY <1>1, ThreadsInvariance, PTL

\* CfixpGetInformationStackframe never takes the early return that keeps the
\* DbgHelp lock: a thread that owns the lock is inside the two routines.
THEOREM DbgHelpLockReleasedHolds == ThreadsSpec => []DbgHelpLockReleased
<1>1. ThreadsInv => DbgHelpLockReleased
  BY DEF ThreadsInv, ThreadsTypeOK, LockInv, DbgHelpLockReleased
<1> QED BY <1>1, ThreadsInvariance, PTL
==============================================================================
