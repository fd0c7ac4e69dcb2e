---------------------------- MODULE RunnerThreads ----------------------------
(***************************************************************************)
(* The threads of a test run and what they share: the EXEC_THREAD_STATE    *)
(* that a fixture's main thread passes on to the threads its routines      *)
(* create (cfixrun/execctx.c, cfix/thread.c), and DbgHelp with its lock    *)
(* (cfix/stacktrace.c), which every report takes to capture and to print a *)
(* stack trace.                                                            *)
(*                                                                         *)
(* Routines and thread procedures are arbitrary sequences of reports and   *)
(* thread creations; a thread may also end itself with ExitThread, which   *)
(* bypasses AfterChildThreadFinish.  That a routine returns only after the *)
(* threads it created is shown in Filament and assumed here.               *)
(***************************************************************************)
EXTENDS Naturals, FiniteSets

CONSTANTS
    MainThread,   \* the thread that runs the fixtures
    Children,     \* the threads created by CfixCreateThread
    MaxFixtures,
    Nobody

Crew == Children \cup {MainThread}

ASSUME ThreadsAssumption ==
    /\ MainThread \notin Children /\ Nobody \notin Crew
    /\ IsFiniteSet(Children) /\ MaxFixtures \in Nat \ {0}

VARIABLES
    at,        \* what each thread does
    state,     \* its TLS slot: the number of its EXEC_THREAD_STATE, or 0
    refs,      \* ReferenceCount of each EXEC_THREAD_STATE ever allocated
    start,     \* CFIXP_THREAD_START_PARAMETERS: [creator, context]
    lost,      \* the threads that left with ExitThread
    fixtures,  \* fixtures begun
    dbghelp    \* CfixsDbgHelpLock, CfixsDbgSymInitialized

threadVars == <<at, state, refs, start, lost, fixtures, dbghelp>>

States == 1 .. MaxFixtures

ThreadsInit ==
    /\ at = [t \in Crew |-> IF t = MainThread THEN "between" ELSE "unborn"]
    /\ state = [t \in Crew |-> 0]
    /\ refs = [s \in States |-> 0]
    /\ start = [c \in Children |-> [creator |-> Nobody, context |-> 0]]
    /\ lost = {}
    /\ fixtures = 0
    /\ dbghelp = [owner |-> Nobody, initialized |-> FALSE]

-----------------------------------------------------------------------------
\* The state of a thread.

\* CfixrunsExecCtxBeforeFixtureStart: a state is allocated unless there is one.
BeginFixture ==
    /\ at[MainThread] = "between" /\ fixtures < MaxFixtures
    /\ fixtures' = fixtures + 1
    /\ IF state[MainThread] = 0
       THEN state' = [state EXCEPT ![MainThread] = fixtures + 1] /\ refs' = [refs EXCEPT ![fixtures + 1] = 1]
       ELSE UNCHANGED <<state, refs>>
    /\ at' = [at EXCEPT ![MainThread] = "user"]
    /\ UNCHANGED <<start, lost, dbghelp>>

\* CfixrunsDereferenceCurrentExecutionState: the slot is cleared by the thread
\* that frees the state only.
DereferenceCurrentState(t) ==
    LET s == state[t]
    IN  IF s = 0 THEN UNCHANGED <<refs, state>>
        ELSE /\ refs' = [refs EXCEPT ![s] = @ - 1]
             /\ state' = IF refs[s] = 1 THEN [state EXCEPT ![t] = 0] ELSE state

\* CfixrunsExecCtxAfterFixtureFinish
FinishFixture ==
    /\ at[MainThread] = "joined"
    /\ DereferenceCurrentState(MainThread)
    /\ at' = [at EXCEPT ![MainThread] = "between"]
    /\ UNCHANGED <<start, lost, fixtures, dbghelp>>

\* CfixpJoinChildThreadsFilament, at the end of a routine
JoinChildren ==
    /\ at[MainThread] = "joining"
    /\ \A c \in Children : at[c] \in {"unborn", "gone"}
    /\ at' = [at EXCEPT ![MainThread] = "joined"]
    /\ UNCHANGED <<state, refs, start, lost, fixtures, dbghelp>>

\* CfixCreateThread2 and CfixrunsExecCtxCreateChildThread: the new thread is
\* handed the state of its creator, to which it has no reference yet.
CreateChildThread(t, c) ==
    /\ at[t] = "user" /\ at[c] = "unborn" /\ state[t] # 0
    /\ start' = [start EXCEPT ![c] = [creator |-> t, context |-> state[t]]]
    /\ at' = [at EXCEPT ![t] = "waiting", ![c] = "starting"]
    /\ UNCHANGED <<state, refs, lost, fixtures, dbghelp>>

\* Faulty variant: the state is shared without a reference.
StartWithoutReference(c) ==
    /\ at[c] = "starting"
    /\ state' = [state EXCEPT ![c] = start[c].context]
    /\ at' = [at EXCEPT ![c] = "user", ![start[c].creator] = "user"]
    /\ UNCHANGED <<refs, start, lost, fixtures, dbghelp>>

\* CfixrunsExecCtxBeforeChildThreadStart, then InitializationCompleted is set.
BeforeChildThreadStart(c) ==
    /\ at[c] = "starting"
    /\ refs' = [refs EXCEPT ![start[c].context] = @ + 1]
    /\ state' = [state EXCEPT ![c] = start[c].context]
    /\ at' = [at EXCEPT ![c] = "user", ![start[c].creator] = "user"]
    /\ UNCHANGED <<start, lost, fixtures, dbghelp>>

\* The filament has no room for another child: the thread ends, the creator is
\* told.
StartRejected(c) ==
    /\ at[c] = "starting"
    /\ at' = [at EXCEPT ![c] = "gone", ![start[c].creator] = "user"]
    /\ UNCHANGED <<state, refs, start, lost, fixtures, dbghelp>>

\* The end of CfixsThreadStart: CfixrunsExecCtxAfterChildThreadFinish
AfterChildThreadFinish(c) ==
    /\ at[c] = "finishing"
    /\ DereferenceCurrentState(c)
    /\ at' = [at EXCEPT ![c] = "gone"]
    /\ UNCHANGED <<start, lost, fixtures, dbghelp>>

\* ExitThread in a thread procedure: the reference stays behind.
ExitThread(c) ==
    /\ at[c] = "user" /\ c \in Children
    /\ at' = [at EXCEPT ![c] = "gone"]
    /\ lost' = lost \cup {c}
    /\ UNCHANGED <<state, refs, start, fixtures, dbghelp>>

\* The routine or the thread procedure returns.
Return(t) ==
    /\ at[t] = "user"
    /\ at' = [at EXCEPT ![t] = IF t = MainThread THEN "joining" ELSE "finishing"]
    /\ UNCHANGED <<state, refs, start, lost, fixtures, dbghelp>>

-----------------------------------------------------------------------------
\* Stack traces.

Locked(t) == dbghelp.owner = Nobody /\ dbghelp' = [dbghelp EXCEPT !.owner = t]

\* A report captures a stack trace (CfixpCaptureStackTrace).
Report(t) ==
    /\ at[t] = "user" /\ Locked(t)
    /\ at' = [at EXCEPT ![t] = "capture"]
    /\ UNCHANGED <<state, refs, start, lost, fixtures>>

\* Faulty variant: DbgHelp is linked and initialized for each call.
InitializeEachTime(initialized) == {[ok |-> TRUE, initialized |-> FALSE], [ok |-> FALSE, initialized |-> FALSE]}

\* CfixsLazyInitializeDbgHelp: linking may fail, and is tried again next time.
LazyInitializeDbgHelp(initialized) ==
    IF initialized THEN {[ok |-> TRUE, initialized |-> TRUE]}
    ELSE {[ok |-> TRUE, initialized |-> TRUE], [ok |-> FALSE, initialized |-> FALSE]}

\* CfixconssReportEvent: the sink prints the frames of an event, if it has any.
SinkReport(frames) == IF frames THEN "print" ELSE "reported"

\* The walk finds frames or not; without DbgHelp there are none.  The sink is
\* handed the event.
CaptureStackTrace(t) ==
    /\ at[t] = "capture"
    /\ \E r \in LazyInitializeDbgHelp(dbghelp.initialized) :
          /\ dbghelp' = [owner |-> Nobody, initialized |-> r.initialized]
          /\ \E frames \in IF r.ok THEN BOOLEAN ELSE {FALSE} :
                at' = [at EXCEPT ![t] = SinkReport(frames)]
    /\ UNCHANGED <<state, refs, start, lost, fixtures>>

\* CfixconssFormatStackTrace, for a frame
FormatStackTrace(t) ==
    /\ at[t] = "print" /\ Locked(t)
    /\ at' = [at EXCEPT ![t] = "resolve"]
    /\ UNCHANGED <<state, refs, start, lost, fixtures>>

\* CfixpGetInformationStackframe: if DbgHelp cannot be initialized, it returns
\* without leaving the lock.
GetInformationStackframe(t) ==
    /\ at[t] = "resolve"
    /\ \E r \in LazyInitializeDbgHelp(dbghelp.initialized) :
          dbghelp' = [owner       |-> IF r.ok THEN Nobody ELSE t,
                      initialized |-> r.initialized]
    /\ \E next \in {"print", "reported"} : at' = [at EXCEPT ![t] = next]
    /\ UNCHANGED <<state, refs, start, lost, fixtures>>

\* CfixrunsExecCtxReportEvent: go on, or abort by an exception that ends the
\* routine or the thread procedure; abort if the thread has no state.
Dispose(t) ==
    /\ at[t] = "reported"
    /\ \/ state[t] # 0 /\ at' = [at EXCEPT ![t] = "user"]
       \/ at' = [at EXCEPT ![t] = IF t = MainThread THEN "joining" ELSE "finishing"]
    /\ UNCHANGED <<state, refs, start, lost, fixtures, dbghelp>>

ThreadsNext ==
    \/ BeginFixture \/ JoinChildren \/ FinishFixture
    \/ \E t \in Crew :
          \/ Return(t) \/ Report(t) \/ CaptureStackTrace(t)
          \/ FormatStackTrace(t) \/ GetInformationStackframe(t) \/ Dispose(t)
    \/ \E c \in Children :
          \/ \E t \in Crew : CreateChildThread(t, c)
          \/ BeforeChildThreadStart(c) \/ StartRejected(c) \/ ExitThread(c) \/ AfterChildThreadFinish(c)

-----------------------------------------------------------------------------
(***************************************************************************)
(* Properties.                                                             *)
(***************************************************************************)

\* The threads that will give a reference back.
Holders(s) == {t \in Crew : state[t] = s /\ at[t] \notin {"unborn", "gone", "between"}}

\* A state is freed when the last thread that shares it finishes, never while a
\* thread uses it or is about to: it outlives the window in which a new thread
\* has the pointer and no reference.  A thread that left with ExitThread makes
\* the main thread keep its state for the next fixture: the state then lives
\* too long, never too short.
StateOutlivesThreads ==
    /\ \A s \in States : refs[s] >= Cardinality(Holders(s))
    /\ lost = {} => \A s \in States : refs[s] = Cardinality(Holders(s))
    /\ \A t \in Crew : at[t] # "gone" /\ state[t] # 0 => refs[state[t]] > 0
    /\ \A c \in Children : at[c] = "starting" => refs[start[c].context] > 0

\* No thread leaves the stack trace routines with the DbgHelp lock, so no later
\* report blocks for ever: the early return of CfixpGetInformationStackframe is
\* never taken, since frames exist only once DbgHelp has been initialized.
DbgHelpLockReleased ==
    dbghelp.owner # Nobody => at[dbghelp.owner] \in {"capture", "resolve"}
==============================================================================
