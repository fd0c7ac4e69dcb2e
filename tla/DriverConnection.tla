-------------------------- MODULE DriverConnection --------------------------
(***************************************************************************)
(* The kernel reflector (cfixkr): connections to test drivers, the registry *)
(* in which clients find them, the lock that holds back the unloading of a  *)
(* driver whose routine runs, and the filaments of these calls.             *)
(*                                                                         *)
(* There is one test driver, which is always loaded at the same address;   *)
(* connection n is the one its n-th DriverEntry creates.  A client is a    *)
(* thread of a runner process: it starts the driver, opens the reflector,  *)
(* queries the module, calls routines, closes the handle and stops the     *)
(* driver if it was the one who started it.                                *)
(***************************************************************************)
EXTENDS Naturals, FiniteSets

CONSTANTS
    Clients,           \* threads of runner processes
    Unloader,          \* the thread that runs CfixkDrvUnload
    Threads,           \* system threads that test routines may create
    MaxLoads,          \* bound on the number of times the driver is loaded
    MaxChildren,       \* CFIX_MAX_THREADS
    Nested,            \* may child threads create threads?
    ClosesHandles      \* do tests close the handle of a thread before it ends?

ASSUME ConnectionAssumption ==
    /\ IsFiniteSet(Clients) /\ Unloader \notin Clients
    /\ Threads \cap (Clients \cup {Unloader}) = {}
    /\ MaxLoads \in Nat
    /\ MaxChildren \in Nat
    /\ Nested \in BOOLEAN
    /\ ClosesHandles \in BOOLEAN

Actors == Clients \cup {Unloader}

Conns == 1 .. MaxLoads

VARIABLES
    driver,      \* "absent", "loaded" or "unloading"
    loads,       \* times DriverEntry succeeded; the newest connection
    tornDown,    \* Registry.TornDown: the reflector has been unloaded
    registry,    \* the connection registered for the driver's address, or 0
    conn,        \* the connection objects
    owners,      \* who holds the DriverUnloadLock of a connection shared
    table,       \* the threads in the FilamentRegistry of a connection
    pc,          \* where an actor is
    using,       \* the connection an actor works with, or 0
    starter,     \* Module->DriverLoaded
    children,    \* ChildThreads.Threads of the filament of a client's call
    thread,      \* the system threads
    fault,       \* what the machine went down with, or "none"
    firm,        \* history: clients that referenced a live connection
    shielded     \* history: clients that got the lock while the driver was in

connVars   == <<registry, conn, owners>>
driverVars == <<driver, loads, tornDown>>
callVars   == <<pc, using, starter, children, thread, table>>
history    == <<firm, shielded>>
vars       == <<driverVars, connVars, callVars, history, fault>>

-----------------------------------------------------------------------------
(***************************************************************************)
(* The objects.                                                            *)
(***************************************************************************)

Phase == {"none", "live", "dying", "freed"}

Connection == [refs : Nat, ext : 0 .. 1, phase : Phase]

Filament == SUBSET Threads

ThreadObject ==
    [at : {"absent", "queued", "starting", "running", "dead"},
     call : Clients \cup {Unloader}, creator : Clients \cup {Unloader} \cup Threads,
     closed : BOOLEAN]

NoThread == [at |-> "absent", call |-> Unloader, creator |-> Unloader,
             closed |-> FALSE]

ActorPc ==
    {"start", "open", "opened", "query", "lookedUp", "registered", "checked",
     "running", "released", "joining", "reset", "close",
     "external", "queued", "deref", "zero", "unregister", "free", "return"}

TypeOK ==
    /\ driver \in {"absent", "loaded", "unloading"}
    /\ loads \in 0 .. MaxLoads
    /\ tornDown \in BOOLEAN
    /\ registry \in 0 .. MaxLoads
    /\ conn \in [Conns -> Connection]
    /\ owners \in [Conns -> SUBSET Clients]
    /\ table \in [Conns -> SUBSET (Clients \cup Threads)]
    /\ pc \in [Actors -> ActorPc]
    /\ using \in [Actors -> 0 .. MaxLoads]
    /\ starter \in [Clients -> BOOLEAN]
    /\ children \in [Clients -> Filament]
    /\ thread \in [Threads -> ThreadObject]
    /\ fault \in {"none", "image", "driver", "connection", "thread"}
    /\ firm \in SUBSET Clients
    /\ shielded \in SUBSET Clients

InitializeDriverConnectionRegistry == registry = 0 /\ tornDown = FALSE

Init ==
    /\ driver = "absent"
    /\ loads = 0
    /\ InitializeDriverConnectionRegistry
    /\ conn = [n \in Conns |-> [refs |-> 0, ext |-> 0, phase |-> "none"]]
    /\ owners = [n \in Conns |-> {}]
    /\ table = [n \in Conns |-> {}]
    /\ pc = [a \in Actors |-> IF a = Unloader THEN "return" ELSE "start"]
    /\ using = [a \in Actors |-> 0]
    /\ starter = [c \in Clients |-> FALSE]
    /\ children = [c \in Clients |-> {}]
    /\ thread = [t \in Threads |-> NoThread]
    /\ fault = "none"
    /\ firm = {}
    /\ shielded = {}

\* The image of the driver that connection n belongs to is in memory.
ImagePresent(n) == driver # "absent" /\ loads = n

Goto(a, l) == pc' = [pc EXCEPT ![a] = l]

\* A created thread that has not signalled InitializationCompleted keeps its
\* creator in CfixkrpCreateSystemThread.
Waiting(x) ==
    \E t \in Threads : thread[t].at \in {"queued", "starting"} /\ thread[t].creator = x

-----------------------------------------------------------------------------
(***************************************************************************)
(* Loading the driver, opening the reflector, stopping the driver.         *)
(***************************************************************************)

\* The registry holds a weak reference; an entry that is still there for the
\* address is replaced.
RegisterDriverConnection(n) == registry' = n

\* A connection with the driver's own reference is created and registered.
CreateAndRegisterDriverConnection(n) ==
    /\ conn' = [conn EXCEPT ![n] = [refs |-> 1, ext |-> 1, phase |-> "live"]]
    /\ RegisterDriverConnection(n)
    /\ UNCHANGED owners

\* The reflector answers IRP_MN_QUERY_INTERFACE with the report sink of a new
\* connection.
DispatchPnp(n) == ~ tornDown /\ CreateAndRegisterDriverConnection(n)

\* DriverEntry of the driver obtains the report sink (CfixkDrvQueryReporter) or
\* fails, and the driver is not loaded.
DriverEntry(n) ==
    /\ DispatchPnp(n)
    /\ loads' = n
    /\ driver' = "loaded"

\* CfixklCreateTestModuleFromDriver, the driver is not running.
StartDriver(c) ==
    /\ pc[c] = "start" /\ driver = "absent" /\ loads < MaxLoads
    /\ DriverEntry(loads + 1)
    /\ starter' = [starter EXCEPT ![c] = TRUE]
    /\ Goto(c, "open")
    /\ UNCHANGED <<tornDown, using, children, thread, table, history, fault>>

\* The same, and another client has started the driver.
DriverAlreadyRunning(c) ==
    /\ pc[c] = "start" /\ driver = "loaded"
    /\ starter' = [starter EXCEPT ![c] = FALSE]
    /\ Goto(c, "open")
    /\ UNCHANGED <<driverVars, connVars, using, children, thread, table, history, fault>>

\* CfixklsInitializeModule opens the reflector and looks the driver's load
\* address up; either may fail, and CfixklsDeleteModule then cleans up.
InitializeModule(c) ==
    /\ pc[c] = "open"
    /\ Goto(c, IF ~ tornDown /\ registry # 0 THEN "opened" ELSE "close")
    /\ UNCHANGED <<driverVars, connVars, using, starter, children, thread, table, history, fault>>

\* The last reference to the module is gone: no more calls.
CloseModule(c) ==
    /\ pc[c] = "opened"
    /\ Goto(c, "close")
    /\ UNCHANGED <<driverVars, connVars, using, starter, children, thread, table, history, fault>>

\* CfixklsDeleteModule: the driver is stopped by the client that started it,
\* whoever else uses it.
DeleteModule(c) ==
    /\ pc[c] = "close"
    /\ IF starter[c]
       THEN /\ driver' = "unloading"
            /\ pc' = [pc EXCEPT ![c] = "start", ![Unloader] = "external"]
            /\ using' = [using EXCEPT ![Unloader] = loads]
       ELSE /\ Goto(c, "start")
            /\ UNCHANGED <<driver, using>>
    /\ starter' = [starter EXCEPT ![c] = FALSE]
    /\ UNCHANGED <<loads, tornDown, connVars, children, thread, table, history, fault>>

\* CfixkrpUnload: the reflector goes when nobody has a handle to its device;
\* a test driver that still holds its connection does not prevent it.
UnloadReflector ==
    /\ ~ tornDown
    /\ \A c \in Clients : pc[c] \in {"start", "open"}
    /\ tornDown' = TRUE
    /\ registry' = 0
    /\ UNCHANGED <<driver, loads, conn, owners, callVars, history, fault>>

-----------------------------------------------------------------------------
(***************************************************************************)
(* References.                                                             *)
(***************************************************************************)

\* CfixkrsExternalDereferenceConnection wants the lock exclusively; while it is
\* queued for the lock no other thread gets it shared.
WaitForCalls ==
    /\ pc[Unloader] = "external" /\ owners[using[Unloader]] # {}
    /\ Goto(Unloader, "queued")
    /\ UNCHANGED <<driverVars, connVars, using, starter, children, thread, table, history, fault>>

\* Faulty variant: the reference goes without the exclusive lock.
ExternalDereferenceUnlocked ==
    LET n == using[Unloader] IN
    /\ pc[Unloader] \in {"external", "queued"}
    /\ conn' = [conn EXCEPT ![n].ext = 0]
    /\ Goto(Unloader, "deref")
    /\ UNCHANGED <<driverVars, registry, owners, using, starter, children, thread, table, history, fault>>

\* It has the lock, and the reference of the driver goes.
ExternalDereference ==
    LET n == using[Unloader] IN
    /\ pc[Unloader] \in {"external", "queued"}
    /\ owners[n] = {}
    /\ conn' = [conn EXCEPT ![n].ext = 0]
    /\ Goto(Unloader, "deref")
    /\ UNCHANGED <<driverVars, registry, owners, using, starter, children, thread, table, history, fault>>

After(a) == IF a = Unloader THEN "return" ELSE "opened"

\* Faulty variant: the object is torn down when one reference is left.
DereferenceConnectionEarly(a) ==
    LET n == using[a]
        last == conn[n].refs <= 2 IN
    /\ pc[a] = "deref" /\ conn[n].phase # "freed"
    /\ conn' = [conn EXCEPT ![n].refs = @ - 1,
                            ![n].phase = IF last THEN "dying" ELSE @]
    /\ Goto(a, IF last THEN "zero" ELSE After(a))
    /\ using' = [using EXCEPT ![a] = IF last THEN @ ELSE 0]
    /\ firm' = firm \ {a}
    /\ UNCHANGED <<driverVars, registry, owners, starter, children, thread, table, shielded, fault>>

\* CfixkrpDereferenceConnection: the decrement.
DereferenceConnection(a) ==
    LET n == using[a]
        last == conn[n].refs = 1 IN
    /\ pc[a] = "deref" /\ conn[n].phase # "freed"
    /\ conn' = [conn EXCEPT ![n].refs = @ - 1,
                            ![n].phase = IF last THEN "dying" ELSE @]
    /\ Goto(a, IF last THEN "zero" ELSE After(a))
    /\ using' = [using EXCEPT ![a] = IF last THEN @ ELSE 0]
    /\ firm' = firm \ {a}
    /\ UNCHANGED <<driverVars, registry, owners, starter, children, thread, table, shielded, fault>>

\* The filament registry goes first ...
DeleteFilamentRegistry(a) ==
    /\ pc[a] = "zero" /\ conn[using[a]].phase # "freed"
    /\ table' = [table EXCEPT ![using[a]] = {}]
    /\ Goto(a, "unregister")
    /\ UNCHANGED <<driverVars, connVars, using, starter, children, thread, history, fault>>

\* ... then whatever is registered for the address ...
UnregisterDriverConnection(a) ==
    /\ pc[a] = "unregister"
    /\ registry' = IF tornDown THEN registry ELSE 0
    /\ Goto(a, "free")
    /\ UNCHANGED <<driverVars, conn, owners, using, starter, children, thread, table, history, fault>>

\* ... and at last the adapter, the lock and the connection itself.
FreeConnection(a) ==
    /\ pc[a] = "free" /\ conn[using[a]].phase # "freed"
    /\ conn' = [conn EXCEPT ![using[a]].phase = "freed"]
    /\ Goto(a, After(a))
    /\ using' = [using EXCEPT ![a] = 0]
    /\ UNCHANGED <<driverVars, registry, owners, starter, children, thread, table, history, fault>>

\* CfixkDrvUnload returns and the image is unmapped.
DriverUnloaded ==
    /\ driver = "unloading" /\ pc[Unloader] = "return"
    /\ driver' = "absent"
    /\ UNCHANGED <<loads, tornDown, connVars, callVars, history, fault>>

-----------------------------------------------------------------------------
(***************************************************************************)
(* IOCTLs of a client.                                                     *)
(***************************************************************************)

\* Faulty variant: the connection found is not referenced.
LookupWithoutReference(c) ==
    /\ pc[c] = "opened"
    /\ IF registry # 0
       THEN /\ using' = [using EXCEPT ![c] = registry]
            /\ firm' = IF conn[registry].phase = "live" THEN firm \cup {c} ELSE firm
            /\ \E l \in {"query", "lookedUp"} : Goto(c, l)
       ELSE /\ Goto(c, "close")
            /\ UNCHANGED <<using, firm>>
    /\ UNCHANGED <<driverVars, connVars, starter, children, thread, table, shielded, fault>>

\* CfixkrpLookupDriverConnection finds and references the connection under the
\* lock of the registry, for a query or for a call.
LookupDriverConnection(c) ==
    /\ pc[c] = "opened"
    /\ IF registry # 0
       THEN /\ conn' = [conn EXCEPT ![registry].refs = @ + 1]
            /\ using' = [using EXCEPT ![c] = registry]
            /\ firm' = IF conn[registry].phase = "live" THEN firm \cup {c} ELSE firm
            /\ \E l \in {"query", "lookedUp"} : Goto(c, l)
       ELSE /\ Goto(c, "close")
            /\ UNCHANGED <<conn, using, firm>>
    /\ UNCHANGED <<driverVars, registry, owners, starter, children, thread, table, shielded, fault>>

\* CfixkrsQueryModuleIoctl reads the names of the routines in the image.
QueryModule(c) ==
    /\ pc[c] = "query" /\ ImagePresent(using[c]) /\ conn[using[c]].phase # "freed"
    /\ Goto(c, "deref")
    /\ UNCHANGED <<driverVars, connVars, using, starter, children, thread, table, history, fault>>

\* CfixkrpCallRoutineDriverConnection: the routine is looked up in the image and
\* the thread associated with a new filament, or one of the two fails.
SetCurrentFilament(c) ==
    /\ pc[c] = "lookedUp" /\ ImagePresent(using[c]) /\ conn[using[c]].phase # "freed"
    /\ children' = [children EXCEPT ![c] = {}]
    /\ \/ /\ table' = [table EXCEPT ![using[c]] = @ \cup {c}]
          /\ Goto(c, "registered")
       \/ /\ Goto(c, "deref")
          /\ UNCHANGED table
    /\ UNCHANGED <<driverVars, connVars, using, starter, thread, history, fault>>

\* CfixkrsAcquireDriverUnloadProtection: the reference of the driver is looked
\* at before the lock is taken; if it is gone the call fails at once.
CheckExternalReference(c) ==
    /\ pc[c] = "registered" /\ conn[using[c]].phase # "freed"
    /\ Goto(c, IF conn[using[c]].ext = 0 THEN "deref" ELSE "checked")
    /\ UNCHANGED <<driverVars, connVars, using, starter, children, thread, table, history, fault>>

\* The lock is taken shared, without looking at the reference again: it is part
\* of the connection, which outlives the driver.
AcquireUnloadLock(c) ==
    LET n == using[c] IN
    /\ pc[c] = "checked" /\ conn[n].phase # "freed"
    /\ ~ (pc[Unloader] = "queued" /\ using[Unloader] = n)
    /\ owners' = [owners EXCEPT ![n] = @ \cup {c}]
    /\ shielded' = IF conn[n].ext = 1 THEN shielded \cup {c} ELSE shielded
    /\ Goto(c, "running")
    /\ UNCHANGED <<driverVars, registry, conn, using, starter, children, thread, table, firm, fault>>

\* Faulty variant: the lock is not released when the routine is left.
LeaveWithLock(c) ==
    /\ pc[c] = "running" /\ ~ Waiting(c) /\ ImagePresent(using[c])
    /\ conn[using[c]].phase # "freed"
    /\ shielded' = shielded \ {c}
    /\ Goto(c, "released")
    /\ UNCHANGED <<driverVars, connVars, using, starter, children, thread, table, firm, fault>>

\* The routine returns or is left by an exception, and the lock is released.
ReleaseUnloadLock(c) ==
    LET n == using[c] IN
    /\ pc[c] = "running" /\ ~ Waiting(c) /\ ImagePresent(n)
    /\ conn[n].phase # "freed"
    /\ owners' = [owners EXCEPT ![n] = @ \ {c}]
    /\ shielded' = shielded \ {c}
    /\ Goto(c, "released")
    /\ UNCHANGED <<driverVars, registry, conn, using, starter, children, thread, table, firm, fault>>

\* The object of a thread goes with its last handle.
Exists(t) == ~ (thread[t].at = "dead" /\ thread[t].closed)

\* CfixkrpJoinChildThreadsFilament takes the mutex of the filament's threads ...
JoinBegin(c) ==
    /\ pc[c] = "released"
    /\ \A t \in children[c] : Exists(t)
    /\ Goto(c, "joining")
    /\ UNCHANGED <<driverVars, connVars, using, starter, children, thread, table, history, fault>>

\* Faulty variant: the wait ends with the first thread.
JoinAny(c) ==
    /\ pc[c] = "joining"
    /\ children[c] = {} \/ \E t \in children[c] : thread[t].at = "dead"
    /\ Goto(c, "reset")
    /\ UNCHANGED <<driverVars, connVars, using, starter, children, thread, table, history, fault>>

\* ... and holds it while it waits for all of them.
JoinEnd(c) ==
    /\ pc[c] = "joining"
    /\ \A t \in children[c] : thread[t].at = "dead"
    /\ Goto(c, "reset")
    /\ UNCHANGED <<driverVars, connVars, using, starter, children, thread, table, history, fault>>

\* The filament leaves the registry; its threads are forgotten with the frame.
ResetCurrentFilament(c) ==
    /\ pc[c] = "reset" /\ conn[using[c]].phase # "freed"
    /\ table' = [table EXCEPT ![using[c]] = @ \ {c}]
    /\ children' = [children EXCEPT ![c] = {}]
    /\ thread' = [t \in Threads |-> IF t \in children[c] THEN NoThread ELSE thread[t]]
    /\ Goto(c, "deref")
    /\ UNCHANGED <<driverVars, connVars, using, starter, history, fault>>

-----------------------------------------------------------------------------
(***************************************************************************)
(* System threads.                                                         *)
(***************************************************************************)

\* The filament a thread of the driver belongs to.
CallOf(x) == IF x \in Clients THEN x ELSE thread[x].call

InRoutine(x) ==
    /\ ~ Waiting(x)
    /\ IF x \in Clients THEN pc[x] = "running"
       ELSE Nested /\ thread[x].at = "running"
    /\ ImagePresent(using[CallOf(x)])

\* CfixkrpGetCurrentFilament finds the thread in the registry.
HasFilament(x) == x \in table[using[CallOf(x)]]

\* Threads have no order: which of the unused ones is taken does not matter.
IsNext(t) == thread[t].at = "absent" /\ t = CHOOSE u \in Threads : thread[u].at = "absent"

\* CfixkrpCreateSystemThread: the creator's filament is inherited.  The thread is
\* created at once or, on old systems and on demand, by a work item; the
\* creator waits until it is initialized.
CreateSystemThread(x, t) ==
    /\ InRoutine(x) /\ IsNext(t) /\ HasFilament(x)
    /\ \E at \in {"queued", "starting"} :
          thread' = [thread EXCEPT ![t] = [at |-> at, call |-> CallOf(x),
                                           creator |-> x, closed |-> FALSE]]
    /\ UNCHANGED <<driverVars, connVars, pc, using, starter, children, table, history, fault>>

\* CfixkrsCreateSystemThreadWorkItemRoutine creates the thread in system context,
\* or fails to, and wakes the creator.
WorkItemRoutine(t) ==
    /\ thread[t].at = "queued"
    /\ \/ thread' = [thread EXCEPT ![t].at = "starting"]
       \/ thread' = [thread EXCEPT ![t] = NoThread]
    /\ UNCHANGED <<driverVars, connVars, pc, using, starter, children, table, history, fault>>

\* CfixkrsRegisterChildThreadFilament: the filament has room for a thread and the
\* mutex of its threads is not held by the join.
MutexAvailable(c) == pc[c] # "joining"

Full(c) == Cardinality(children[c]) >= MaxChildren

\* CfixkrsThreadStart registers the thread, unless the filament is full, and
\* signals InitializationCompleted.
ThreadStart(t) ==
    LET c == thread[t].call IN
    /\ thread[t].at = "starting" /\ MutexAvailable(c)
    /\ IF Full(c)
       THEN /\ thread' = [thread EXCEPT ![t] = NoThread]
            /\ UNCHANGED <<children, table>>
       ELSE /\ children' = [children EXCEPT ![c] = @ \cup {t}]
            /\ table' = [table EXCEPT ![using[c]] = @ \cup {t}]
            /\ thread' = [thread EXCEPT ![t].at = "running"]
    /\ UNCHANGED <<driverVars, connVars, pc, using, starter, history, fault>>

\* CfixkrpSetCurrentFilament has no memory for the entry of the registry: the
\* thread ends before it gets to the mutex.
NoMemoryForThread(t) ==
    /\ thread[t].at = "starting"
    /\ thread' = [thread EXCEPT ![t] = NoThread]
    /\ UNCHANGED <<driverVars, connVars, pc, using, starter, children, table, history, fault>>

\* The routine of the thread ends, by an exception or not.
ThreadEnd(t) ==
    LET c == thread[t].call IN
    /\ thread[t].at = "running" /\ ~ Waiting(t) /\ ImagePresent(using[c])
    /\ table' = [table EXCEPT ![using[c]] = @ \ {t}]
    /\ thread' = [thread EXCEPT ![t].at = "dead"]
    /\ UNCHANGED <<driverVars, connVars, pc, using, starter, children, history, fault>>

\* The creator is done with the handle it got.
CloseHandle(x, t) ==
    /\ ClosesHandles /\ InRoutine(x)
    /\ thread[t].creator = x /\ thread[t].at \in {"running", "dead"}
    /\ ~ thread[t].closed
    /\ thread' = [thread EXCEPT ![t].closed = TRUE]
    /\ UNCHANGED <<driverVars, connVars, pc, using, starter, children, table, history, fault>>

-----------------------------------------------------------------------------
(***************************************************************************)
(* What the machine does not survive.                                      *)
(***************************************************************************)

\* The fixtures and routines of the adapter are read in an image that is gone,
\* for a query or on the way to a call.
ReadAdapter ==
    /\ \E c \in Clients : /\ pc[c] \in {"query", "lookedUp"}
                          /\ ~ ImagePresent(using[c])
    /\ fault' = "image"
    /\ UNCHANGED <<driverVars, connVars, callVars, history>>

\* A client that holds the lock, or a thread of its routine, runs code of an image
\* that is gone.
TouchDriver ==
    /\ \/ \E c \in Clients : /\ pc[c] = "running"
                             /\ ~ ImagePresent(using[c])
       \/ \E t \in Threads : /\ thread[t].at = "running"
                             /\ ~ ImagePresent(using[thread[t].call])
    /\ fault' = "driver"
    /\ UNCHANGED <<driverVars, connVars, callVars, history>>

\* An actor works with a connection that has been freed.
TouchConnection ==
    /\ \E a \in Actors : /\ using[a] # 0 /\ conn[using[a]].phase = "freed"
                         /\ pc[a] \notin {"joining", "unregister"}
    /\ fault' = "connection"
    /\ UNCHANGED <<driverVars, connVars, callVars, history>>

\* KeWaitForMultipleObjects is given a thread that does not exist any more.
TouchThread ==
    /\ \E c \in Clients : pc[c] = "released" /\ \E t \in children[c] : ~ Exists(t)
    /\ fault' = "thread"
    /\ UNCHANGED <<driverVars, connVars, callVars, history>>

ClientStep(c) ==
    \/ StartDriver(c) \/ DriverAlreadyRunning(c) \/ InitializeModule(c)
    \/ CloseModule(c) \/ DeleteModule(c) \/ LookupDriverConnection(c)
    \/ QueryModule(c) \/ SetCurrentFilament(c) \/ CheckExternalReference(c)
    \/ AcquireUnloadLock(c) \/ ReleaseUnloadLock(c)
    \/ JoinBegin(c) \/ JoinEnd(c) \/ ResetCurrentFilament(c)

Dereference(a) ==
    \/ DereferenceConnection(a) \/ DeleteFilamentRegistry(a)
    \/ UnregisterDriverConnection(a) \/ FreeConnection(a)

ThreadStep(t) == WorkItemRoutine(t) \/ ThreadStart(t) \/ ThreadEnd(t)

Next ==
    /\ fault = "none"
    /\ \/ \E c \in Clients : ClientStep(c)
       \/ \E a \in Actors : Dereference(a)
       \/ WaitForCalls \/ ExternalDereference \/ DriverUnloaded \/ UnloadReflector
       \/ \E t \in Threads : ThreadStep(t) \/ NoMemoryForThread(t)
       \/ \E x \in Clients \cup Threads, t \in Threads :
             CreateSystemThread(x, t) \/ CloseHandle(x, t)
       \/ ReadAdapter \/ TouchDriver \/ TouchConnection \/ TouchThread

Spec == Init /\ [][Next]_vars

\* An IOCTL that was issued, the stop of the driver and the threads make
\* progress: test routines and the routines of their threads are assumed to
\* end, and who is about to touch what is gone does.  Whether a client starts a
\* driver, issues another IOCTL, creates a thread or closes a handle is up to it.
InIoctl(c) ==
    \/ DeleteModule(c) \/ QueryModule(c) \/ SetCurrentFilament(c)
    \/ CheckExternalReference(c) \/ AcquireUnloadLock(c)
    \/ JoinBegin(c) \/ JoinEnd(c) \/ ResetCurrentFilament(c)

Running(A) == fault = "none" /\ A

Fairness ==
    /\ \A c \in Clients : /\ WF_vars(Running(InIoctl(c)))
                          /\ SF_vars(Running(ReleaseUnloadLock(c)))
    /\ \A a \in Actors : WF_vars(Running(Dereference(a)))
    /\ WF_vars(Running(WaitForCalls \/ ExternalDereference \/ DriverUnloaded))
    /\ \A t \in Threads : WF_vars(Running(ThreadStep(t)))
    /\ WF_vars(Running(ReadAdapter \/ TouchDriver \/ TouchConnection \/ TouchThread))

FairSpec == Spec /\ Fairness

-----------------------------------------------------------------------------
(***************************************************************************)
(* Properties.                                                             *)
(***************************************************************************)

\* CfixkrpDereferenceConnection: the reference count of a live connection is the
\* number of IOCTLs that work with it, plus the reference of the driver until
\* its dereference has got to the decrement.
RefsCounted ==
    \A n \in Conns : conn[n].phase = "live" =>
        conn[n].refs =
            Cardinality({c \in Clients : using[c] = n})
            + (IF \/ conn[n].ext = 1
                  \/ pc[Unloader] = "deref" /\ using[Unloader] = n
               THEN 1 ELSE 0)

\* CfixkrpLookupDriverConnection: a connection that was live when an IOCTL looked
\* it up stays live until that IOCTL dereferences it, however driver and
\* reflector are unloaded and reloaded meanwhile.
HeldIsLive == \A c \in firm : conn[using[c]].phase = "live"

\* CfixkrsAcquireDriverUnloadProtection: a routine that got the lock before the
\* driver released its reference runs with the driver in memory and referenced.
Protected == \A c \in shielded : ImagePresent(using[c]) /\ conn[using[c]].ext = 1

\* CfixkrpJoinChildThreadsFilament: no thread that runs with a filament outlives
\* the call of CfixkrpCallRoutineDriverConnection whose frame holds it.
ChildrenJoined ==
    \A t \in Threads : thread[t].at \in {"queued", "starting", "running"} =>
        pc[thread[t].call] \in {"running", "released", "joining"}

\* CfixkrsExternalDereferenceConnection: however many clients call routines, the
\* unloading driver gets the exclusive lock and its stop ends.
StopEnds == driver = "unloading" ~> (driver = "absent" \/ fault # "none")

\* "As ExternalReferenceCount is now 0, the driver will not be touched any more"
\* (CfixkrsExternalDereferenceConnection): no routine of the driver runs when
\* CfixkDrvUnload has returned.
DriverNotTouched == fault # "driver"

=============================================================================
