------------------------------ MODULE Filament ------------------------------
(***************************************************************************)
(* Filaments of the cfix user mode library: cfix/cfix/filament.c and       *)
(* thread.c, together with CfixsRunTestRoutine of pe.c, which is the only  *)
(* code that creates and destroys them.                                    *)
(*                                                                         *)
(* A filament is the CFIXP_FILAMENT on the stack of CfixsRunTestRoutine.   *)
(* Every thread that executes test code points to one through a TLS slot.  *)
(* The thread that runs the routine is its main thread; all others are     *)
(* entered in ChildThreads and joined when the routine returns.  Threads   *)
(* cfix did not create ("anonymous" threads) take the default filament at  *)
(* their first call into cfix, if there is one.                            *)
(*                                                                         *)
(* Steps are split where a thread can block: at the default filament's     *)
(* lock, at a filament's ChildThreads.Lock, in the join and in the wait    *)
(* for a new thread's initialization.                                      *)
(***************************************************************************)
EXTENDS Integers, Sequences, FiniteSets

CONSTANTS
    Runners,           \* threads of the host program that run test routines
    Workers,           \* threads test code may create with CfixCreateThread
    Anonymous,         \* threads test code creates by other means
    Callers,           \* threads whose code calls CfixsRunTestRoutine
    Creators,          \* threads whose code calls CfixCreateThread
    Filaments,         \* calls of CfixsRunTestRoutine, each with its filament
    DefaultFilaments,  \* those with CFIXP_FILAMENT_FLAG_DEFAULT_FILAMENT
    Contexts,          \* execution contexts
    ContextOf,         \* the execution context of each filament
    MaxThreads,        \* CFIX_MAX_THREADS
    None,              \* the NULL pointer
    FirstCallsMayRace, \* may a first call of a thread overlap with the end of
                       \* the routine whose filament is the default one?
    DefaultMayNest,    \* may a default filament be started while others live?
    HandleCanFail      \* may DuplicateHandle fail?

Threads == Runners \cup Workers \cup Anonymous

ASSUME ThreadsAssumption ==
    /\ Runners \cap Workers = {} /\ Runners \cap Anonymous = {}
    /\ Workers \cap Anonymous = {} /\ IsFiniteSet(Threads)
    /\ Callers \subseteq Threads /\ Creators \subseteq Threads

ASSUME FilamentsAssumption ==
    /\ DefaultFilaments \subseteq Filaments
    /\ ContextOf \in [Filaments -> Contexts]
    /\ None \notin Threads /\ None \notin Filaments

ASSUME BoundsAssumption ==
    /\ MaxThreads \in Nat
    /\ FirstCallsMayRace \in BOOLEAN
    /\ DefaultMayNest \in BOOLEAN
    /\ HandleCanFail \in BOOLEAN

VARIABLES
    \* threads
    pc,          \* where the thread is
    op,          \* on whose behalf CfixsSetCurrentFilament is being executed
    new,         \* its argument NewFilament
    tls,         \* the filament in CfixsTlsSlotForFilament
    derived,     \* the lowest bit of that slot
    stack,       \* the calls of CfixsRunTestRoutine active on the thread
    parent,      \* the thread waiting for InitializationCompleted
    \* filaments
    status,      \* has CfixpInitializeFilament / CfixpDestroyFilament run?
    mainThread,  \* MainThreadId
    prev,        \* PrevFilament
    children,    \* ChildThreads: the threads handles were stored for
    \* globals
    default,     \* CfixsDefaultFilament.Filament
    lockOwner,   \* CfixsDefaultFilament.Lock: a recursive critical section
    lockDepth,
    refs         \* reference counts of the execution contexts

threadVars == <<pc, op, new, tls, derived, stack, parent>>
filamentVars == <<status, mainThread, prev, children>>
lockVars == <<lockOwner, lockDepth>>
vars == <<threadVars, filamentVars, default, lockVars, refs>>

PcValues == {"absent", "user", "derive", "set", "publish", "joining",
             "destroy", "waitInit", "dead"}
OpValues == {"none", "enter", "leave", "start", "finish", "derive"}

TypeOK ==
    /\ pc \in [Threads -> PcValues]
    /\ op \in [Threads -> OpValues]
    /\ new \in [Threads -> Filaments \cup {None}]
    /\ tls \in [Threads -> Filaments \cup {None}]
    /\ derived \in [Threads -> BOOLEAN]
    /\ stack \in [Threads -> Seq(Filaments)]
    /\ parent \in [Threads -> Threads \cup {None}]
    /\ status \in [Filaments -> {"unused", "active", "destroyed"}]
    /\ mainThread \in [Filaments -> Threads \cup {None}]
    /\ prev \in [Filaments -> Filaments \cup {None}]
    /\ children \in [Filaments -> Seq(Threads)]
    /\ default \in Filaments \cup {None}
    /\ lockOwner \in Threads \cup {None}
    /\ lockDepth \in Nat
    /\ refs \in [Contexts -> Int]

Init ==
    /\ pc = [t \in Threads |-> IF t \in Workers THEN "absent" ELSE "user"]
    /\ op = [t \in Threads |-> "none"]
    /\ new = [t \in Threads |-> None]
    /\ tls = [t \in Threads |-> None]
    /\ derived = [t \in Threads |-> FALSE]
    /\ stack = [t \in Threads |-> <<>>]
    /\ parent = [t \in Threads |-> None]
    /\ status = [f \in Filaments |-> "unused"]
    /\ mainThread = [f \in Filaments |-> None]
    /\ prev = [f \in Filaments |-> None]
    /\ children = [f \in Filaments |-> <<>>]
    /\ default = None
    /\ lockOwner = None
    /\ lockDepth = 0
    /\ refs = [c \in Contexts |-> 0]

-----------------------------------------------------------------------------
(***************************************************************************)
(* Helpers.                                                                *)
(***************************************************************************)

\* The innermost call of CfixsRunTestRoutine on thread t.
InRoutine(t) == stack[t] # <<>>
Frame(t) == stack[t][Len(stack[t])]

Joined(f) == {children[f][i] : i \in 1 .. Len(children[f])}

\* ChildThreads.Lock is held over several steps by the join only.
ChildLockHeld(f) ==
    \E t \in Threads : pc[t] = "joining" /\ InRoutine(t) /\ Frame(t) = f

\* The routine of f has ended: its main thread is joining or leaving.
Returning(f) ==
    \E t \in Threads : /\ InRoutine(t) /\ Frame(t) = f
                       /\ pc[t] \in {"joining", "destroy"} \/ op[t] = "leave"

\* A first call into cfix is looking for the default filament.
Deriving(t) == pc[t] = "derive" \/ op[t] = "derive"

Reference(f) ==
    refs' = [c \in Contexts |->
                IF f # None /\ c = ContextOf[f] THEN refs[c] + 1 ELSE refs[c]]

\* Faulty variant: the reference to the old filament's context is kept.
DereferenceForgotten(f) == UNCHANGED refs

Dereference(f) ==
    refs' = [c \in Contexts |->
                IF f # None /\ c = ContextOf[f] THEN refs[c] - 1 ELSE refs[c]]

\* Critical sections are recursive.
DefaultLockAvailable(t) == lockOwner \in {None, t}

AcquireDefaultLock(t) ==
    /\ DefaultLockAvailable(t)
    /\ lockOwner' = t
    /\ lockDepth' = lockDepth + 1

ReleaseDefaultLock ==
    /\ lockOwner' = IF lockDepth = 1 THEN None ELSE lockOwner
    /\ lockDepth' = lockDepth - 1

-----------------------------------------------------------------------------
(***************************************************************************)
(* CfixsSetCurrentFilament, in three steps: the call drops the reference   *)
(* to the old filament's context; Register enters the thread in            *)
(* ChildThreads; Publish updates the default filament and the TLS slot.    *)
(***************************************************************************)

SetCurrentFilament(t, f, caller) ==
    /\ Dereference(tls[t])
    /\ pc' = [pc EXCEPT ![t] = "set"]
    /\ op' = [op EXCEPT ![t] = caller]
    /\ new' = [new EXCEPT ![t] = f]

\* Faulty variant: the routine returns without destroying its filament.
AfterSuccessNotDestroyed ==
    [o \in OpValues |-> IF o = "finish" THEN "dead" ELSE "user"]

\* Where the caller goes on.  A derivation releases the default filament's
\* lock; all the other callers do not hold it.
AfterSuccess ==
    [o \in OpValues |-> CASE o = "leave" -> "destroy"
                          [] o = "finish" -> "dead"
                          [] OTHER -> "user"]

AfterFailure ==
    [o \in OpValues |-> CASE o \in {"enter", "leave"} -> "destroy"
                          [] o \in {"start", "finish"} -> "dead"
                          [] OTHER -> "user"]

Resume(t, next) ==
    /\ pc' = [pc EXCEPT ![t] = next[op[t]]]
    /\ op' = [op EXCEPT ![t] = "none"]
    /\ new' = [new EXCEPT ![t] = None]

CallerReleasesLock(t) ==
    IF op[t] = "derive" THEN ReleaseDefaultLock ELSE UNCHANGED lockVars

\* Faulty variant: threads of default filaments are not registered.
IsChildUnlessDefault(t) ==
    new[t] # None /\ mainThread[new[t]] # t /\ new[t] \notin DefaultFilaments

\* Every thread but the main thread of the filament is a child.
IsChild(t) == new[t] # None /\ mainThread[new[t]] # t

RegisterChildThread(t) ==
    /\ pc[t] = "set"
    /\ IsChild(t)
    /\ ~ ChildLockHeld(new[t])
    /\ IF Len(children[new[t]]) = MaxThreads
       THEN \* CFIX_E_TOO_MANY_CHILD_THREADS
            /\ tls' = [tls EXCEPT ![t] = None]
            /\ derived' = [derived EXCEPT ![t] = FALSE]
            /\ Resume(t, AfterFailure)
            /\ CallerReleasesLock(t)
            /\ UNCHANGED <<children, refs>>
       ELSE /\ children' = [children EXCEPT ![new[t]] = Append(@, t)]
            /\ Reference(new[t])
            /\ pc' = [pc EXCEPT ![t] = "publish"]
            /\ UNCHANGED <<op, new, tls, derived, lockVars>>
    /\ UNCHANGED <<stack, parent, status, mainThread, prev, default>>

\* DuplicateHandle failed: the TLS slot keeps its value.
DuplicateHandleFails(t) ==
    /\ HandleCanFail
    /\ pc[t] = "set"
    /\ IsChild(t)
    /\ Resume(t, AfterFailure)
    /\ CallerReleasesLock(t)
    /\ UNCHANGED <<tls, derived, stack, parent, filamentVars, default, refs>>

\* The main thread of a filament, and a thread that gives its filament up,
\* register nowhere.
SkipRegistration(t) ==
    /\ pc[t] = "set"
    /\ ~ IsChild(t)
    /\ Reference(new[t])
    /\ pc' = [pc EXCEPT ![t] = "publish"]
    /\ UNCHANGED <<op, new, tls, derived, stack, parent, filamentVars, default,
                   lockVars>>

\* Faulty variant: a default filament is published when its routine starts only.
PublishesDefaultOnEntry(t) ==
    op[t] = "enter" /\ new[t] \in DefaultFilaments

\* What CfixsSetCurrentFilament asks of CfixsSetDefaultFilament.
PublishesDefault(t) ==
    new[t] \in DefaultFilaments /\ mainThread[new[t]] = t

\* Faulty variant: a thread without a filament keeps its default filament.
RevokesDefaultOnChange(t) == new[t] # None /\ new[t] \notin DefaultFilaments

RevokesDefault(t) ==
    \/ new[t] # None /\ new[t] \notin DefaultFilaments
    \/ new[t] = None /\ tls[t] \in DefaultFilaments /\ mainThread[tls[t]] = t

\* CFIX_E_DEFAULT_FILAMENT_CONFLICT: CfixsSetDefaultFilament returns without
\* leaving the critical section, and the TLS slot keeps its value.
DefaultFilamentConflict(t) ==
    /\ pc[t] = "publish"
    /\ PublishesDefault(t)
    /\ default # None
    /\ AcquireDefaultLock(t)
    /\ Resume(t, AfterFailure)
    /\ UNCHANGED <<tls, derived, stack, parent, filamentVars, default, refs>>

SetDefaultFilament(t) ==
    IF PublishesDefault(t) THEN new[t]
    ELSE IF RevokesDefault(t) THEN None
    ELSE default

\* The lowest bit of the TLS slot.
DerivedBit(t) == op[t] = "derive"

PublishFilament(t) ==
    /\ pc[t] = "publish"
    /\ PublishesDefault(t) => default = None
    /\ PublishesDefault(t) \/ RevokesDefault(t) => DefaultLockAvailable(t)
    /\ default' = SetDefaultFilament(t)
    /\ tls' = [tls EXCEPT ![t] = new[t]]
    /\ derived' = [derived EXCEPT ![t] = DerivedBit(t)]
    /\ Resume(t, AfterSuccess)
    /\ CallerReleasesLock(t)
    /\ UNCHANGED <<stack, parent, filamentVars, refs>>

-----------------------------------------------------------------------------
(***************************************************************************)
(* CfixsRunTestRoutine.                                                    *)
(***************************************************************************)

\* CfixpInitializeFilament and the call that makes the filament current.
RunTestRoutine(t, f) ==
    /\ pc[t] = "user"
    /\ t \in Callers
    /\ status[f] = "unused"
    /\ DefaultMayNest \/ f \notin DefaultFilaments
                      \/ \A g \in Filaments : status[g] # "active"
    /\ status' = [status EXCEPT ![f] = "active"]
    /\ mainThread' = [mainThread EXCEPT ![f] = t]
    /\ prev' = [prev EXCEPT ![f] = tls[t]]
    /\ stack' = [stack EXCEPT ![t] = Append(@, f)]
    /\ SetCurrentFilament(t, f, "enter")
    /\ UNCHANGED <<tls, derived, parent, children, default, lockVars>>

\* The routine returned, or an exception ended it: CfixpJoinChildThreadsFilament
\* enters ChildThreads.Lock.
JoinBegin(t) ==
    /\ pc[t] = "user"
    /\ InRoutine(t)
    /\ FirstCallsMayRace \/ \A u \in Threads : ~ Deriving(u)
    /\ pc' = [pc EXCEPT ![t] = "joining"]
    /\ UNCHANGED <<op, new, tls, derived, stack, parent, filamentVars, default,
                   lockVars, refs>>

\* Faulty variant: the wait ends with the first child.
SomeChildTerminated(f) == Joined(f) = {} \/ \E c \in Joined(f) : pc[c] = "dead"

ChildrenTerminated(f) == \A c \in Joined(f) : pc[c] = "dead"

\* WaitForMultipleObjects returned; the lock is left and the previous filament
\* becomes current again.
JoinEnd(t) ==
    /\ pc[t] = "joining"
    /\ ChildrenTerminated(Frame(t))
    /\ SetCurrentFilament(t, prev[Frame(t)], "leave")
    /\ UNCHANGED <<tls, derived, stack, parent, filamentVars, default, lockVars>>

\* CfixpDestroyFilament closes the handles; CfixsRunTestRoutine returns.
DestroyFilament(t) ==
    /\ pc[t] = "destroy"
    /\ status' = [status EXCEPT ![Frame(t)] = "destroyed"]
    /\ children' = [children EXCEPT ![Frame(t)] = <<>>]
    /\ stack' = [stack EXCEPT ![t] = SubSeq(@, 1, Len(@) - 1)]
    /\ pc' = [pc EXCEPT ![t] = "user"]
    /\ UNCHANGED <<op, new, tls, derived, parent, mainThread, prev, default,
                   lockVars, refs>>

-----------------------------------------------------------------------------
(***************************************************************************)
(* CfixCreateThread2 and CfixsThreadStart.                                 *)
(***************************************************************************)

\* The new thread inherits the filament; its creator waits until the thread
\* has set InitializationCompleted.
CreateThread(t, w) ==
    /\ pc[t] = "user"
    /\ t \in Creators
    /\ tls[t] # None
    /\ pc[w] = "absent"
    /\ pc' = [pc EXCEPT ![t] = "waitInit", ![w] = "set"]
    /\ op' = [op EXCEPT ![w] = "start"]
    /\ new' = [new EXCEPT ![w] = tls[t]]
    /\ parent' = [parent EXCEPT ![w] = t]
    /\ UNCHANGED <<tls, derived, stack, filamentVars, default, lockVars, refs>>

\* Faulty variant: the creator waits for the thread to exist.
InitializationNotAwaited(t) ==
    /\ pc[t] = "waitInit"
    /\ pc' = [pc EXCEPT ![t] = "user"]
    /\ UNCHANGED <<op, new, tls, derived, stack, parent, filamentVars, default,
                   lockVars, refs>>

\* The event is set once the thread is registered, or has failed to.
InitializationCompleted(t) ==
    /\ pc[t] = "waitInit"
    /\ \A w \in Workers : parent[w] = t => op[w] # "start"
    /\ pc' = [pc EXCEPT ![t] = "user"]
    /\ UNCHANGED <<op, new, tls, derived, stack, parent, filamentVars, default,
                   lockVars, refs>>

\* The start routine is over; CfixsThreadStart gives up the filament.
ThreadFinish(t) ==
    /\ pc[t] = "user"
    /\ t \in Workers
    /\ ~ InRoutine(t)
    /\ SetCurrentFilament(t, None, "finish")
    /\ UNCHANGED <<tls, derived, stack, parent, filamentVars, default, lockVars>>

-----------------------------------------------------------------------------
(***************************************************************************)
(* Anonymous threads: CfixsGetCurrentFilament with                         *)
(* DeriveDefaultIfUnavailable, and DLL_THREAD_DETACH.                      *)
(***************************************************************************)

\* The unlocked test for a default filament.
CheckDefaultFilament(t) ==
    /\ pc[t] = "user"
    /\ t \notin Runners
    /\ tls[t] = None
    /\ default # None
    /\ FirstCallsMayRace \/ ~ Returning(default)
    /\ pc' = [pc EXCEPT ![t] = "derive"]
    /\ UNCHANGED <<op, new, tls, derived, stack, parent, filamentVars, default,
                   lockVars, refs>>

\* Faulty variant: a thread waits until there is a default filament.
DeriveOrWait(t) ==
    /\ pc[t] = "derive"
    /\ default # None
    /\ AcquireDefaultLock(t)
    /\ SetCurrentFilament(t, default, "derive")
    /\ UNCHANGED <<tls, derived, stack, parent, filamentVars, default>>

\* The test is repeated under the lock, which is kept until the thread is
\* registered.
DeriveDefaultFilament(t) ==
    /\ pc[t] = "derive"
    /\ IF default # None
       THEN /\ AcquireDefaultLock(t)
            /\ SetCurrentFilament(t, default, "derive")
       ELSE /\ DefaultLockAvailable(t)
            /\ pc' = [pc EXCEPT ![t] = "user"]
            /\ UNCHANGED <<op, new, lockVars, refs>>
    /\ UNCHANGED <<tls, derived, stack, parent, filamentVars, default>>

\* The thread ends, by itself or through the ExitThread of a report routine.
\* CfixpCleanupLeakedFilamentForDetachingThread gives up its filament.
ThreadDetach(t) ==
    /\ pc[t] = "user"
    /\ t \in Anonymous
    /\ ~ InRoutine(t)
    /\ IF tls[t] # None
       THEN SetCurrentFilament(t, None, "finish")
       ELSE /\ pc' = [pc EXCEPT ![t] = "dead"]
            /\ UNCHANGED <<op, new, refs>>
    /\ UNCHANGED <<tls, derived, stack, parent, filamentVars, default, lockVars>>

-----------------------------------------------------------------------------
Step(t) ==
    \/ \E f \in Filaments : RunTestRoutine(t, f)
    \/ RegisterChildThread(t)
    \/ DuplicateHandleFails(t)
    \/ SkipRegistration(t)
    \/ DefaultFilamentConflict(t)
    \/ PublishFilament(t)
    \/ JoinBegin(t)
    \/ JoinEnd(t)
    \/ DestroyFilament(t)
    \/ \E w \in Workers : CreateThread(t, w)
    \/ InitializationCompleted(t)
    \/ ThreadFinish(t)
    \/ CheckDefaultFilament(t)
    \/ DeriveDefaultFilament(t)
    \/ ThreadDetach(t)

Next == \E t \in Threads : Step(t)

Spec == Init /\ [][Next]_vars

\* Threads are scheduled by the operating system and routines of tests end.
FairSpec == Spec /\ \A t \in Threads : WF_vars(Step(t))

-----------------------------------------------------------------------------
(***************************************************************************)
(* Properties.                                                             *)
(***************************************************************************)

\* No thread keeps a pointer to a filament whose stack frame is gone, neither in
\* its TLS slot nor as the filament it is about to take (pe.c 567-575: the
\* filament is torn down "as all child threads have completed").
NoDanglingFilament ==
    \A t \in Threads :
        /\ tls[t] # None => status[tls[t]] = "active"
        /\ new[t] # None => status[new[t]] = "active"

\* CfixsRunTestRoutine destroys a filament only after every thread that was ever
\* entered in its ChildThreads has terminated (auto joining).
AutoJoin ==
    [][\A f \in Filaments :
          status[f] = "active" /\ status'[f] = "destroyed"
             => \A c \in Joined(f) : pc[c] = "dead"]_vars

\* The reference a thread holds: the one of its filament, except that
\* CfixsSetCurrentFilament drops the old one first and takes the new one before
\* the TLS slot is written.
Held(t) == CASE pc[t] = "set" -> None
             [] pc[t] = "publish" -> new[t]
             [] OTHER -> tls[t]

\* The references to an execution context are exactly those the threads hold, so
\* the context is neither leaked nor deleted under a thread that uses it.
ContextsBalanced ==
    \A c \in Contexts :
        refs[c] = Cardinality({t \in Threads :
                                  Held(t) # None /\ ContextOf[Held(t)] = c})

\* The default filament, when there is one, is a live filament whose main thread
\* is between its publication and its revocation: never a leftover.
DefaultIsLive ==
    default # None =>
        /\ status[default] = "active"
        /\ default \in DefaultFilaments
        /\ tls[mainThread[default]] = default

\* While the main thread of a default filament executes its own routine (not a
\* nested one), the filament is available to anonymous threads: nested routines
\* give the default filament back.
DefaultAvailable ==
    \A t \in Threads :
        (/\ pc[t] = "user" /\ InRoutine(t) /\ Frame(t) \in DefaultFilaments)
            => default = Frame(t)

\* The default filament's lock is held across steps by a thread that is taking
\* the default filament, and by no other.
LockHeldToDerive ==
    /\ lockOwner # None => op[lockOwner] = "derive" /\ lockDepth = 1
    /\ lockOwner = None => lockDepth = 0

\* CFIXP_THREAD_START_PARAMETERS lives on the stack of CfixCreateThread2: the
\* creator does not go on, and keeps the filament the thread inherits, until the
\* thread has registered.
CreatorWaits ==
    \A w \in Workers :
        op[w] = "start" => /\ parent[w] # None
                           /\ pc[parent[w]] = "waitInit"
                           /\ tls[parent[w]] = new[w]

\* A thread created by CfixCreateThread runs its start routine as a registered
\* child of a filament or not at all, also when the table of children is full.
RunsRegistered ==
    \A w \in Workers :
        pc[w] \in {"user", "waitInit"} /\ ~ InRoutine(w)
            => tls[w] # None /\ w \in Joined(tls[w])

\* Every routine that is started completes: neither the join nor one of the locks
\* blocks for ever.
RoutinesComplete ==
    \A f \in Filaments : status[f] = "active" ~> status[f] = "destroyed"

\* The first call of an anonymous thread gets an answer.
DerivationEnds ==
    \A t \in Anonymous : Deriving(t) ~> ~ Deriving(t)

=============================================================================
