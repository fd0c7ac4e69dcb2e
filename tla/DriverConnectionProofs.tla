----------------------- MODULE DriverConnectionProofs ------------------------
(***************************************************************************)
(* Proofs about DriverConnection for any finite number of clients, any     *)
(* threads and any number of loads of the driver: references to a          *)
(* connection are counted exactly, what an IOCTL found live stays live, a  *)
(* routine that got the lock in time keeps its driver, and no thread       *)
(* outlives the call it belongs to.                                        *)
(***************************************************************************)
EXTENDS DriverConnection, FiniteSetTheorems, TLAPS

-----------------------------------------------------------------------------
(***************************************************************************)
(* The inductive invariant.                                                *)
(***************************************************************************)

Outside  == {"start", "open", "opened", "close"}     \* no IOCTL in progress
TearDown == {"zero", "unregister", "free"}           \* the count has reached zero
InCall   == {"running", "released", "joining"}       \* threads of a call may be about

ClientPc   == Outside \cup TearDown \cup InCall
                \cup {"query", "lookedUp", "registered", "checked", "reset", "deref"}
UnloaderPc == TearDown \cup {"external", "queued", "deref", "return"}

\* Who works with a connection; what the unloading driver works with is the
\* newest one, and there is at most one client to stop the driver.
ActorInv ==
    /\ \A c \in Clients : pc[c] \in ClientPc /\ (using[c] = 0 <=> pc[c] \in Outside)
    /\ pc[Unloader] \in UnloaderPc
    /\ IF pc[Unloader] = "return" THEN using[Unloader] = 0
       ELSE using[Unloader] = loads /\ driver = "unloading"
    /\ \A a \in Actors : using[a] <= loads
    /\ registry <= loads
    /\ driver # "absent" => loads >= 1
    /\ \A c \in Clients : starter[c] => driver = "loaded"
    /\ \A c, d \in Clients : starter[c] /\ starter[d] => c = d

\* The driver has released its reference once CfixkDrvUnload has the lock.
ExtInv ==
    \A n \in Conns : conn[n].ext = 1 <=>
        n = loads /\ (driver = "loaded" \/ pc[Unloader] \in {"external", "queued"})

\* The IOCTLs that have a reference to a connection.
Counted(n) == {c \in Clients : using[c] = n /\ pc[c] \notin TearDown}

DriverRef(n) == IF conn[n].ext = 1 \/ (pc[Unloader] = "deref" /\ using[Unloader] = n) THEN 1 ELSE 0

\* References are counted exactly in every phase, also while a connection is
\* torn down and still found in the registry.
CountInv == \A n \in Conns : conn[n].refs = Cardinality(Counted(n)) + DriverRef(n)

\* Only who saw the count reach zero tears down, and what is held is live.
HeldInv ==
    /\ \A a \in Actors : pc[a] \in TearDown => conn[using[a]].phase \in {"dying", "freed"}
    /\ \A c \in firm : using[c] # 0 /\ pc[c] \notin TearDown /\ conn[using[c]].phase = "live"

\* A shielded client is inside its routine and holds the lock.
ShieldInv ==
    \A c \in shielded : pc[c] = "running" /\ c \in owners[using[c]] /\ conn[using[c]].ext = 1

\* The threads of a call: registered when they run, and kept waiting for by
\* their creator until then.
ThreadInv ==
    /\ \A t \in Threads : thread[t].at \in {"queued", "starting", "running"} =>
          thread[t].call \in Clients /\ pc[thread[t].call] \in InCall
    /\ \A c \in Clients : \A t \in children[c] : thread[t].call = c /\ thread[t].at \in {"running", "dead"}
    /\ \A t \in Threads : thread[t].at = "running" => t \in children[thread[t].call]
    /\ \A t \in Threads : thread[t].at \in {"queued", "starting"} =>
          \/ thread[t].creator = thread[t].call /\ pc[thread[t].creator] = "running"
          \/ /\ thread[t].creator \in Threads
             /\ thread[thread[t].creator].at = "running"
             /\ thread[thread[t].creator].call = thread[t].call
    /\ \A c \in Clients : pc[c] = "reset" => \A t \in children[c] : thread[t].at = "dead"

ConnInv == TypeOK /\ ActorInv /\ ExtInv /\ CountInv /\ HeldInv /\ ShieldInv /\ ThreadInv

-----------------------------------------------------------------------------
(***************************************************************************)
(* What steps of one kind leave alone.                                     *)
(***************************************************************************)

\* Clients are finite in number, so that references can be counted.
LEMMA CountedFinite ==
  ASSUME NEW n
  PROVE  IsFiniteSet(Counted(n)) /\ Cardinality(Counted(n)) \in Nat
<1>1. Counted(n) \subseteq Clients
  BY DEF Counted
<1> QED BY <1>1, ConnectionAssumption, FS_Subset, FS_CardinalityType

\* Nobody takes or gives up a reference to a connection.
LEMMA CountedSame ==
  ASSUME NEW n,
         \A c \in Clients : (using'[c] = n /\ pc'[c] \notin TearDown) <=> (using[c] = n /\ pc[c] \notin TearDown)
  PROVE  Counted(n)' = Counted(n)
BY DEF Counted

\* An IOCTL works with a connection, and so does the unloading driver.
LEMMA UsingFact ==
  ASSUME TypeOK, ActorInv
  PROVE  /\ \A c \in Clients : pc[c] \notin Outside => using[c] \in Conns
         /\ pc[Unloader] # "return" => using[Unloader] \in Conns
<1>1. \A a \in Actors : using[a] \in 0 .. MaxLoads
  BY DEF TypeOK
<1>2. \A a \in Actors : using[a] # 0 => using[a] \in Conns
  BY <1>1, ConnectionAssumption DEF Conns
<1>3. pc[Unloader] # "return" => using[Unloader] # 0
  BY DEF ActorInv, TypeOK
<1> QED BY <1>2, <1>3 DEF ActorInv, Actors

\* A client moves on inside its IOCTL, or between two of them.
LEMMA MoveFact ==
  ASSUME ConnInv, NEW c \in Clients, NEW p \in ClientPc \ TearDown,
         pc[c] \notin TearDown, pc[c] \in Outside <=> p \in Outside,
         pc' = [pc EXCEPT ![c] = p],
         UNCHANGED <<driver, loads, registry, conn, using, firm>>,
         \A d \in Clients : starter'[d] => starter[d]
  PROVE  ActorInv' /\ ExtInv' /\ CountInv' /\ HeldInv' /\ pc' \in [Actors -> ActorPc]
<1> USE ConnectionAssumption DEF ConnInv
<1>1. c \in Actors /\ Unloader \in Actors /\ c # Unloader /\ pc'[Unloader] = pc[Unloader]
  BY DEF TypeOK, Actors
<1>2. pc'[c] = p /\ \A a \in Actors : a # c => pc'[a] = pc[a]
  BY <1>1 DEF TypeOK
<1>3. pc' \in [Actors -> ActorPc]
  BY DEF TypeOK, ActorPc, ClientPc, Outside, TearDown, InCall
<1>4. ActorInv'
  BY <1>1, <1>2 DEF ActorInv, Actors
<1>5. ExtInv'
  BY <1>1 DEF ExtInv
<1>6. CountInv'
  <2>1. \A n \in Conns : Counted(n)' = Counted(n)
    BY <1>1, <1>2, CountedSame DEF Actors
  <2>2. \A n \in Conns : DriverRef(n)' = DriverRef(n)
    BY <1>1 DEF DriverRef
  <2> QED BY <2>1, <2>2 DEF CountInv
<1>7. HeldInv'
  <2>1. \A a \in Actors : pc'[a] \in TearDown => pc[a] \in TearDown
    BY <1>2
  <2>2. \A d \in firm : d \in Actors /\ (pc[d] \notin TearDown => pc'[d] \notin TearDown)
    BY <1>2 DEF TypeOK, Actors
  <2> QED BY <2>1, <2>2 DEF HeldInv
<1> QED BY <1>3, <1>4, <1>5, <1>6, <1>7

\* Nobody who is shielded moves.
LEMMA ShieldFact ==
  ASSUME ConnInv, UNCHANGED <<owners, shielded, using>>,
         \A n \in Conns : conn[n].ext = 1 /\ owners[n] # {} => conn'[n].ext = 1,
         \A d \in Clients : pc[d] = "running" => pc'[d] = "running"
  PROVE  ShieldInv'
<1> SUFFICES ASSUME NEW d \in shielded
             PROVE  pc'[d] = "running" /\ d \in owners[using[d]] /\ conn'[using[d]].ext = 1
  BY DEF ShieldInv
<1>1. d \in Clients /\ pc[d] = "running" /\ d \in owners[using[d]] /\ conn[using[d]].ext = 1
  BY DEF ConnInv, TypeOK, ShieldInv
<1>2. using[d] \in Conns
  BY <1>1, UsingFact DEF ConnInv, Outside
<1> QED BY <1>1, <1>2

\* A client moves without starting or ending the time in which it may have
\* threads, and does not leave the routine under a thread that is starting.
LEMMA ThreadFact ==
  ASSUME ConnInv, UNCHANGED <<thread, children>>,
         \A d \in Clients : /\ pc[d] \in InCall => pc'[d] \in InCall
                            /\ pc'[d] = "reset" => pc[d] = "reset"
                            /\ pc[d] = "running" => pc'[d] = "running" \/ ~ Waiting(d)
  PROVE  ThreadInv'
<1>1. \A t \in Threads : thread[t].at \in {"queued", "starting", "running"} =>
         thread[t].call \in Clients /\ pc'[thread[t].call] \in InCall
  BY DEF ConnInv, ThreadInv
<1>2. ASSUME NEW t \in Threads, thread[t].at \in {"queued", "starting"}
      PROVE  \/ thread[t].creator = thread[t].call /\ pc'[thread[t].creator] = "running"
             \/ /\ thread[t].creator \in Threads
                /\ thread[thread[t].creator].at = "running"
                /\ thread[thread[t].creator].call = thread[t].call
  BY <1>2 DEF ConnInv, ThreadInv, Waiting
<1>3. \A c \in Clients : pc'[c] = "reset" => \A t \in children[c] : thread[t].at = "dead"
  BY DEF ConnInv, ThreadInv
<1> QED BY <1>1, <1>2, <1>3 DEF ConnInv, ThreadInv

\* Steps of threads leave actors, connections and locks alone.
LEMMA ActorsSame ==
  ASSUME ConnInv, UNCHANGED <<driver, loads, registry, conn, owners, pc, using, starter, firm, shielded>>
  PROVE  ActorInv' /\ ExtInv' /\ CountInv' /\ HeldInv' /\ ShieldInv'
<1>1. \A n \in Conns : Counted(n)' = Counted(n) /\ DriverRef(n)' = DriverRef(n)
  BY DEF Counted, DriverRef
<1>2. CountInv'
  BY <1>1 DEF ConnInv, CountInv
<1>3. ActorInv' /\ ExtInv'
  BY DEF ConnInv, ActorInv, ExtInv
<1>4. HeldInv' /\ ShieldInv'
  BY DEF ConnInv, HeldInv, ShieldInv
<1> QED BY <1>2, <1>3, <1>4

-----------------------------------------------------------------------------
(***************************************************************************)
(* The invariant is inductive: steps of a client.                          *)
(***************************************************************************)

\* Steps that only move a client: opening and closing the module, a query, the
\* look at the driver's reference, and the beginning of the join.
LEMMA PlainSteps ==
  ASSUME ConnInv, NEW c \in Clients,
         \/ DriverAlreadyRunning(c) \/ InitializeModule(c) \/ CloseModule(c)
         \/ QueryModule(c) \/ CheckExternalReference(c) \/ JoinBegin(c)
  PROVE  ConnInv'
<1> USE ConnectionAssumption DEF ConnInv
<1>1. PICK p : /\ p \in {"open", "opened", "close", "deref", "checked", "joining"}
               /\ pc' = [pc EXCEPT ![c] = p]
               /\ pc[c] \in Outside <=> p \in Outside
               /\ pc[c] \notin TearDown \cup {"running"}
               /\ pc[c] \in InCall => p = "joining"
  BY DEF DriverAlreadyRunning, InitializeModule, CloseModule, QueryModule,
         CheckExternalReference, JoinBegin, Goto, Outside, TearDown, InCall
<1>2. /\ UNCHANGED <<driver, loads, tornDown, registry, conn, owners, using, children, thread, table, firm, shielded, fault>>
      /\ starter' = starter \/ starter' = [starter EXCEPT ![c] = FALSE]
  BY DEF DriverAlreadyRunning, InitializeModule, CloseModule, QueryModule,
         CheckExternalReference, JoinBegin, driverVars, connVars, history
<1>3. starter' \in [Clients -> BOOLEAN] /\ \A d \in Clients : starter'[d] => starter[d]
  BY <1>2 DEF TypeOK
<1>4. p \in ClientPc \ TearDown
  BY <1>1 DEF ClientPc, TearDown, Outside, InCall
<1>5. ActorInv' /\ ExtInv' /\ CountInv' /\ HeldInv' /\ pc' \in [Actors -> ActorPc]
  BY <1>1, <1>2, <1>3, <1>4, MoveFact
<1>6. \A d \in Clients : pc'[d] = IF d = c THEN p ELSE pc[d]
  BY <1>1 DEF TypeOK, Actors
<1>7. ShieldInv'
  BY <1>1, <1>2, <1>6, ShieldFact
<1>8. ThreadInv'
  BY <1>1, <1>2, <1>6, ThreadFact DEF InCall
<1>9. TypeOK'
  BY <1>2, <1>3, <1>5 DEF TypeOK
<1> QED BY <1>5, <1>7, <1>8, <1>9

\* The thread is associated with a new filament that has no threads.
LEMMA SetFilamentStep ==
  ASSUME ConnInv, NEW c \in Clients, SetCurrentFilament(c)
  PROVE  ConnInv'
<1> USE ConnectionAssumption DEF ConnInv
<1>1. PICK p : p \in {"registered", "deref"} /\ pc' = [pc EXCEPT ![c] = p]
  BY DEF SetCurrentFilament, Goto
<1>2. /\ pc[c] = "lookedUp" /\ children' = [children EXCEPT ![c] = {}]
      /\ table' \in {table, [table EXCEPT ![using[c]] = @ \cup {c}]}
      /\ UNCHANGED <<driver, loads, tornDown, registry, conn, owners, using, starter, thread, firm, shielded, fault>>
  BY DEF SetCurrentFilament, driverVars, connVars, history
<1>3. p \in ClientPc \ TearDown
  BY <1>1 DEF ClientPc, TearDown, Outside, InCall
<1>4. ActorInv' /\ ExtInv' /\ CountInv' /\ HeldInv' /\ pc' \in [Actors -> ActorPc]
  BY <1>1, <1>2, <1>3, MoveFact DEF Outside, TearDown
<1>5. \A d \in Clients : pc'[d] = IF d = c THEN p ELSE pc[d]
  BY <1>1 DEF TypeOK, Actors
<1>6. ShieldInv'
  BY <1>1, <1>2, <1>5, ShieldFact
<1>7. ThreadInv'
  <2>1. \A t \in Threads : thread[t].at \in {"queued", "starting", "running"} =>
           thread[t].call \in Clients /\ thread[t].call # c /\ pc[thread[t].call] \in InCall
    BY <1>2 DEF ThreadInv, InCall
  <2>2. \A d \in Clients : children'[d] = IF d = c THEN {} ELSE children[d]
    BY <1>2 DEF TypeOK
  <2>3. \A t \in Threads : thread[t].at \in {"queued", "starting", "running"} =>
           thread[t].call \in Clients /\ pc'[thread[t].call] \in InCall
    BY <1>5, <2>1
  <2>4. \A t \in Threads : thread[t].at = "running" => t \in children'[thread[t].call]
    BY <2>1, <2>2 DEF ThreadInv
  <2>5. \A d \in Clients : \A t \in children'[d] : thread[t].call = d /\ thread[t].at \in {"running", "dead"}
    BY <2>2 DEF ThreadInv
  <2>6. \A d \in Clients : pc'[d] = "reset" => \A t \in children'[d] : thread[t].at = "dead"
    BY <1>1, <1>5, <2>2 DEF ThreadInv
  <2>7. ASSUME NEW t \in Threads, thread[t].at \in {"queued", "starting"}
        PROVE  \/ thread[t].creator = thread[t].call /\ pc'[thread[t].creator] = "running"
               \/ /\ thread[t].creator \in Threads
                  /\ thread[thread[t].creator].at = "running"
                  /\ thread[thread[t].creator].call = thread[t].call
    BY <1>5, <2>1, <2>7 DEF ThreadInv
  <2> QED BY <1>2, <2>3, <2>4, <2>5, <2>6, <2>7 DEF ThreadInv
<1>8. TypeOK'
  <2>1. children' \in [Clients -> Filament]
    BY <1>2 DEF TypeOK, Filament
  <2>2. table' \in [Conns -> SUBSET (Clients \cup Threads)]
    BY <1>2 DEF TypeOK
  <2> QED BY <1>2, <1>4, <2>1, <2>2 DEF TypeOK
<1> QED BY <1>4, <1>6, <1>7, <1>8

\* The lock is taken shared; who sees the reference with the lock is shielded.
LEMMA AcquireStep ==
  ASSUME ConnInv, NEW c \in Clients, AcquireUnloadLock(c)
  PROVE  ConnInv'
<1> USE ConnectionAssumption DEF ConnInv
<1>0. PICK n : n = using[c]
  OBVIOUS
<1>1. /\ pc[c] = "checked" /\ pc' = [pc EXCEPT ![c] = "running"]
      /\ owners' = [owners EXCEPT ![n] = @ \cup {c}]
      /\ shielded' = IF conn[n].ext = 1 THEN shielded \cup {c} ELSE shielded
      /\ UNCHANGED <<driver, loads, tornDown, registry, conn, using, starter, children, thread, table, firm, fault>>
  BY <1>0 DEF AcquireUnloadLock, Goto, driverVars
<1>2. n \in Conns
  BY <1>0, <1>1, UsingFact DEF Outside
<1>3. "running" \in ClientPc \ TearDown
  BY DEF ClientPc, TearDown, Outside, InCall
<1>4. ActorInv' /\ ExtInv' /\ CountInv' /\ HeldInv' /\ pc' \in [Actors -> ActorPc]
  BY <1>1, <1>3, MoveFact DEF Outside, TearDown
<1>5. \A d \in Clients : pc'[d] = IF d = c THEN "running" ELSE pc[d]
  BY <1>1 DEF TypeOK, Actors
<1>6. owners' \in [Conns -> SUBSET Clients] /\ \A m \in Conns : owners'[m] = IF m = n THEN owners[m] \cup {c} ELSE owners[m]
  BY <1>1, <1>2 DEF TypeOK
<1>7. ShieldInv'
  <2> SUFFICES ASSUME NEW d \in shielded'
               PROVE  pc'[d] = "running" /\ d \in owners'[using[d]] /\ conn[using[d]].ext = 1
    BY <1>1 DEF ShieldInv
  <2>1. CASE d = c
    BY <1>0, <1>1, <1>2, <1>5, <1>6, <2>1 DEF ShieldInv
  <2>2. CASE d # c
    <3>1. d \in shielded /\ d \in Clients
      BY <1>1, <2>2 DEF TypeOK
    <3>2. using[d] \in Conns
      BY <3>1, UsingFact DEF ShieldInv, Outside
    <3> QED BY <1>5, <1>6, <2>2, <3>1, <3>2 DEF ShieldInv
  <2> QED BY <2>1, <2>2
<1>8. ThreadInv'
  BY <1>1, <1>5, ThreadFact DEF InCall
<1>9. TypeOK'
  BY <1>1, <1>4, <1>6 DEF TypeOK
<1> QED BY <1>4, <1>7, <1>8, <1>9

\* The routine is left when no thread it has created is still starting.
LEMMA ReleaseStep ==
  ASSUME ConnInv, NEW c \in Clients, ReleaseUnloadLock(c)
  PROVE  ConnInv'
<1> USE ConnectionAssumption DEF ConnInv
<1>0. PICK n : n = using[c]
  OBVIOUS
<1>1. /\ pc[c] = "running" /\ pc' = [pc EXCEPT ![c] = "released"] /\ ~ Waiting(c)
      /\ owners' = [owners EXCEPT ![n] = @ \ {c}]
      /\ shielded' = shielded \ {c}
      /\ UNCHANGED <<driver, loads, tornDown, registry, conn, using, starter, children, thread, table, firm, fault>>
  BY <1>0 DEF ReleaseUnloadLock, Goto, driverVars
<1>2. n \in Conns
  BY <1>0, <1>1, UsingFact DEF Outside
<1>3. "released" \in ClientPc \ TearDown
  BY DEF ClientPc, TearDown, Outside, InCall
<1>4. ActorInv' /\ ExtInv' /\ CountInv' /\ HeldInv' /\ pc' \in [Actors -> ActorPc]
  BY <1>1, <1>3, MoveFact DEF Outside, TearDown
<1>5. \A d \in Clients : pc'[d] = IF d = c THEN "released" ELSE pc[d]
  BY <1>1 DEF TypeOK, Actors
<1>6. owners' \in [Conns -> SUBSET Clients] /\ \A m \in Conns : owners'[m] = IF m = n THEN owners[m] \ {c} ELSE owners[m]
  BY <1>1, <1>2 DEF TypeOK
<1>7. ShieldInv'
  <2> SUFFICES ASSUME NEW d \in shielded, d # c
               PROVE  pc'[d] = "running" /\ d \in owners'[using[d]] /\ conn[using[d]].ext = 1
    BY <1>1 DEF ShieldInv
  <2>1. d \in Clients
    BY DEF TypeOK
  <2>2. using[d] \in Conns
    BY <2>1, UsingFact DEF ShieldInv, Outside
  <2> QED BY <1>5, <1>6, <2>1, <2>2 DEF ShieldInv
<1>8. ThreadInv'
  BY <1>1, <1>5, ThreadFact DEF InCall
<1>9. TypeOK'
  BY <1>1, <1>4, <1>6 DEF TypeOK
<1> QED BY <1>4, <1>7, <1>8, <1>9

\* The join ends when all registered threads are dead; then none is starting
\* either, as only a thread that runs could have created it.
LEMMA JoinEndStep ==
  ASSUME ConnInv, NEW c \in Clients, JoinEnd(c)
  PROVE  ConnInv'
<1> USE ConnectionAssumption DEF ConnInv
<1>1. /\ pc[c] = "joining" /\ pc' = [pc EXCEPT ![c] = "reset"]
      /\ \A t \in children[c] : thread[t].at = "dead"
      /\ UNCHANGED <<driver, loads, tornDown, registry, conn, owners, using, starter, children, thread, table, firm, shielded, fault>>
  BY DEF JoinEnd, Goto, driverVars, connVars, history
<1>2. "reset" \in ClientPc \ TearDown
  BY DEF ClientPc, TearDown, Outside, InCall
<1>3. ActorInv' /\ ExtInv' /\ CountInv' /\ HeldInv' /\ pc' \in [Actors -> ActorPc]
  BY <1>1, <1>2, MoveFact DEF Outside, TearDown
<1>4. \A d \in Clients : pc'[d] = IF d = c THEN "reset" ELSE pc[d]
  BY <1>1 DEF TypeOK, Actors
<1>5. ShieldInv'
  BY <1>1, <1>4, ShieldFact
<1>6. ThreadInv'
  <2>1. \A t \in Threads : thread[t].at = "running" => thread[t].call # c
    BY <1>1 DEF ThreadInv
  <2>2. \A t \in Threads : thread[t].at \in {"queued", "starting"} => thread[t].call # c
    BY <1>1, <2>1 DEF ThreadInv
  <2>3. \A t \in Threads : thread[t].at \in {"queued", "starting", "running"} =>
           thread[t].call \in Clients /\ pc'[thread[t].call] = pc[thread[t].call]
    BY <1>4, <2>1, <2>2 DEF ThreadInv
  <2>4. \A d \in Clients : pc'[d] = "reset" => \A t \in children[d] : thread[t].at = "dead"
    BY <1>1, <1>4 DEF ThreadInv
  <2> QED BY <1>1, <2>3, <2>4 DEF ThreadInv
<1>7. TypeOK'
  BY <1>1, <1>3 DEF TypeOK
<1> QED BY <1>3, <1>5, <1>6, <1>7

\* The filament leaves the registry, with threads that are all dead.
LEMMA ResetStep ==
  ASSUME ConnInv, NEW c \in Clients, ResetCurrentFilament(c)
  PROVE  ConnInv'
<1> USE ConnectionAssumption DEF ConnInv
<1>1. /\ pc[c] = "reset" /\ pc' = [pc EXCEPT ![c] = "deref"]
      /\ table' = [table EXCEPT ![using[c]] = @ \ {c}]
      /\ children' = [children EXCEPT ![c] = {}]
      /\ thread' = [t \in Threads |-> IF t \in children[c] THEN NoThread ELSE thread[t]]
      /\ UNCHANGED <<driver, loads, tornDown, registry, conn, owners, using, starter, firm, shielded, fault>>
  BY DEF ResetCurrentFilament, Goto, driverVars, connVars, history
<1>2. "deref" \in ClientPc \ TearDown
  BY DEF ClientPc, TearDown, Outside, InCall
<1>3. ActorInv' /\ ExtInv' /\ CountInv' /\ HeldInv' /\ pc' \in [Actors -> ActorPc]
  BY <1>1, <1>2, MoveFact DEF Outside, TearDown
<1>4. \A d \in Clients : pc'[d] = IF d = c THEN "deref" ELSE pc[d]
  BY <1>1 DEF TypeOK, Actors
<1>5. ShieldInv'
  BY <1>1, <1>4, ShieldFact
<1>6. NoThread \in ThreadObject /\ NoThread.at = "absent"
  BY DEF NoThread, ThreadObject
<1>7. ThreadInv'
  <2>1. \A t \in Threads : thread[t].at \in {"queued", "starting", "running"} =>
           thread[t].call # c /\ t \notin children[c]
    BY <1>1 DEF ThreadInv, InCall
  <2>2. \A t \in Threads : thread'[t].at # "absent" => thread'[t] = thread[t] /\ t \notin children[c]
    BY <1>1, <1>6
  <2>3. \A t \in Threads : thread[t].at \in {"queued", "starting", "running"} => thread'[t] = thread[t]
    BY <1>1, <2>1
  <2>4. \A d \in Clients : children'[d] = IF d = c THEN {} ELSE children[d]
    BY <1>1 DEF TypeOK
  <2>5. \A t \in Threads : thread'[t].at \in {"queued", "starting", "running"} =>
           /\ thread'[t] = thread[t] /\ thread[t].call \in Clients \ {c}
           /\ pc'[thread[t].call] = pc[thread[t].call] /\ pc[thread[t].call] \in InCall
    BY <1>4, <2>1, <2>2 DEF ThreadInv
  <2>6. ASSUME NEW t \in Threads, thread'[t].at \in {"queued", "starting"}
        PROVE  \/ thread'[t].creator = thread'[t].call /\ pc'[thread'[t].creator] = "running"
               \/ /\ thread'[t].creator \in Threads
                  /\ thread'[thread'[t].creator].at = "running"
                  /\ thread'[thread'[t].creator].call = thread'[t].call
    <3>1. thread'[t] = thread[t] /\ thread[t].call \in Clients \ {c} /\ pc'[thread[t].call] = pc[thread[t].call]
      BY <2>5, <2>6
    <3>2. \/ thread[t].creator = thread[t].call /\ pc[thread[t].creator] = "running"
          \/ /\ thread[t].creator \in Threads
             /\ thread[thread[t].creator].at = "running"
             /\ thread[thread[t].creator].call = thread[t].call
      BY <2>6, <3>1 DEF ThreadInv
    <3> QED BY <2>3, <3>1, <3>2
  <2>7. ASSUME NEW d \in Clients, NEW t \in children'[d]
        PROVE  /\ thread'[t].call = d /\ thread'[t].at \in {"running", "dead"}
               /\ pc'[d] = "reset" => thread'[t].at = "dead"
    <3>1. d # c /\ t \in children[d] /\ t \in Threads
      BY <2>4, <2>7 DEF TypeOK, Filament
    <3>2. t \notin children[c]
      BY <3>1 DEF ThreadInv
    <3> QED BY <1>1, <1>4, <3>1, <3>2 DEF ThreadInv
  <2>8. \A t \in Threads : thread'[t].at = "running" => t \in children'[thread'[t].call]
    BY <2>4, <2>5 DEF ThreadInv
  <2> QED BY <2>5, <2>6, <2>7, <2>8 DEF ThreadInv
<1>8. TypeOK'
  <2>1. children' \in [Clients -> Filament]
    BY <1>1 DEF TypeOK, Filament
  <2>2. table' \in [Conns -> SUBSET (Clients \cup Threads)]
    BY <1>1 DEF TypeOK
  <2>3. thread' \in [Threads -> ThreadObject]
    BY <1>1, <1>6 DEF TypeOK
  <2> QED BY <1>1, <1>3, <2>1, <2>2, <2>3 DEF TypeOK
<1> QED BY <1>3, <1>5, <1>7, <1>8

\* A connection found in the registry is referenced, whatever its phase.
LEMMA LookupStep ==
  ASSUME ConnInv, NEW c \in Clients, LookupDriverConnection(c)
  PROVE  ConnInv'
<1> USE ConnectionAssumption DEF ConnInv
<1>1. pc[c] = "opened" /\ UNCHANGED <<driver, loads, tornDown, registry, owners, starter, children, thread, table, shielded, fault>>
  BY DEF LookupDriverConnection, driverVars
<1>2. CASE registry = 0
  <2>1. pc' = [pc EXCEPT ![c] = "close"] /\ UNCHANGED <<conn, using, firm>>
    BY <1>2 DEF LookupDriverConnection, Goto
  <2>2. "close" \in ClientPc \ TearDown
    BY DEF ClientPc, TearDown, Outside
  <2>3. ActorInv' /\ ExtInv' /\ CountInv' /\ HeldInv' /\ pc' \in [Actors -> ActorPc]
    BY <1>1, <2>1, <2>2, MoveFact DEF Outside, TearDown
  <2>4. \A d \in Clients : pc'[d] = IF d = c THEN "close" ELSE pc[d]
    BY <2>1 DEF TypeOK, Actors
  <2>5. ShieldInv'
    BY <1>1, <2>1, <2>4, ShieldFact
  <2>6. ThreadInv'
    BY <1>1, <2>4, ThreadFact DEF InCall
  <2>7. TypeOK'
    BY <1>1, <2>1, <2>3 DEF TypeOK
  <2> QED BY <2>3, <2>5, <2>6, <2>7
<1>3. CASE registry # 0
  <2>0. PICK n : n = registry
    OBVIOUS
  <2>1. PICK p \in {"query", "lookedUp"} : pc' = [pc EXCEPT ![c] = p]
    BY <1>3 DEF LookupDriverConnection, Goto
  <2>2. /\ conn' = [conn EXCEPT ![n].refs = @ + 1]
        /\ using' = [using EXCEPT ![c] = n]
        /\ firm' = IF conn[n].phase = "live" THEN firm \cup {c} ELSE firm
    BY <1>3, <2>0 DEF LookupDriverConnection
  <2>3. n \in Conns /\ n <= loads /\ n # 0
    BY <1>3, <2>0 DEF TypeOK, Conns, ActorInv
  <2>4. /\ c \in Actors /\ Unloader \in Actors /\ c # Unloader
        /\ pc'[c] = p /\ \A a \in Actors : a # c => pc'[a] = pc[a]
    BY <2>1 DEF TypeOK, Actors
  <2>5. using'[c] = n /\ \A a \in Actors : a # c => using'[a] = using[a]
    BY <2>2, <2>4 DEF TypeOK
  <2>6. /\ conn' \in [Conns -> Connection]
        /\ \A m \in Conns : conn'[m].ext = conn[m].ext /\ conn'[m].phase = conn[m].phase
        /\ \A m \in Conns : conn'[m].refs = IF m = n THEN conn[m].refs + 1 ELSE conn[m].refs
    BY <2>2, <2>3 DEF TypeOK, Connection
  <2>7. TypeOK'
    <3>1. pc' \in [Actors -> ActorPc]
      BY <2>1 DEF TypeOK, ActorPc
    <3>2. using' \in [Actors -> 0 .. MaxLoads]
      <4>1. n \in 0 .. MaxLoads /\ using \in [Actors -> 0 .. MaxLoads] /\ using' = [using EXCEPT ![c] = n]
        BY <2>0, <2>2 DEF TypeOK
      <4> QED BY <4>1
    <3>3. firm' \in SUBSET Clients
      BY <2>2 DEF TypeOK
    <3> QED BY <1>1, <2>6, <3>1, <3>2, <3>3 DEF TypeOK
  <2>8. ActorInv'
    <3>1. p \in ClientPc /\ p \notin Outside /\ pc[c] \in Outside
      BY <1>1 DEF ClientPc, Outside
    <3> QED BY <1>1, <2>3, <2>4, <2>5, <3>1 DEF ActorInv, Actors
  <2>9. ExtInv'
    BY <1>1, <2>4, <2>6 DEF ExtInv
  <2>10. CountInv'
    <3>1. c \notin Counted(n) /\ Counted(n)' = Counted(n) \cup {c}
      <4>1. using[c] = 0 /\ p \notin TearDown
        BY <1>1 DEF ActorInv, Outside, TearDown
      <4> QED BY <2>3, <2>4, <2>5, <4>1 DEF Counted, Actors
    <3>2. Cardinality(Counted(n)') = Cardinality(Counted(n)) + 1
      BY <3>1, CountedFinite, FS_AddElement
    <3>3. ASSUME NEW m \in Conns, m # n
          PROVE  Counted(m)' = Counted(m)
      <4>1. using[c] = 0 /\ m # 0
        BY <1>1 DEF ActorInv, Outside, Conns
      <4>2. \A d \in Clients : (using'[d] = m /\ pc'[d] \notin TearDown) <=> (using[d] = m /\ pc[d] \notin TearDown)
        BY <2>4, <2>5, <3>3, <4>1 DEF Actors
      <4> QED BY <4>2, CountedSame
    <3>4. \A m \in Conns : DriverRef(m)' = DriverRef(m)
      BY <2>4, <2>5, <2>6 DEF DriverRef
    <3>5. ASSUME NEW m \in Conns
          PROVE  conn'[m].refs = Cardinality(Counted(m)') + DriverRef(m)'
      <4>1. conn[m].refs = Cardinality(Counted(m)) + DriverRef(m) /\ Cardinality(Counted(m)) \in Nat /\ DriverRef(m) \in Nat
        BY CountedFinite DEF CountInv, DriverRef
      <4>2. CASE m = n
        BY <2>6, <3>2, <3>4, <4>1, <4>2
      <4>3. CASE m # n
        BY <2>6, <3>3, <3>4, <4>1, <4>3
      <4> QED BY <4>2, <4>3
    <3> QED BY <3>5 DEF CountInv
  <2>11. HeldInv'
    <3>1. p \notin TearDown /\ pc[c] \notin TearDown /\ c \notin firm
      BY <1>1 DEF TearDown, HeldInv, ActorInv, Outside
    <3>2. \A a \in Actors : pc[a] \in TearDown => using[a] \in Conns
      BY UsingFact DEF TearDown, Outside, Actors
    <3>3. \A a \in Actors : pc'[a] \in TearDown => conn'[using'[a]].phase \in {"dying", "freed"}
      BY <2>4, <2>5, <2>6, <3>1, <3>2 DEF HeldInv
    <3>4. \A d \in firm : d \in Clients /\ using[d] \in Conns /\ d # c
      BY <3>1, UsingFact DEF HeldInv, TypeOK, ActorInv
    <3>5. \A d \in firm : using'[d] # 0 /\ pc'[d] \notin TearDown /\ conn'[using'[d]].phase = "live"
      BY <2>4, <2>5, <2>6, <3>4 DEF HeldInv, Actors
    <3>6. conn[n].phase = "live" => using'[c] # 0 /\ pc'[c] \notin TearDown /\ conn'[using'[c]].phase = "live"
      BY <2>3, <2>4, <2>5, <2>6, <3>1
    <3>7. \A d \in firm' : d \in firm \/ (d = c /\ conn[n].phase = "live")
      BY <2>2
    <3> QED BY <3>3, <3>5, <3>6, <3>7 DEF HeldInv
  <2>12. ShieldInv'
    <3>1. \A d \in shielded : d \in Clients /\ d # c /\ using[d] \in Conns
      BY <1>1, UsingFact DEF ShieldInv, TypeOK, Outside
    <3> QED BY <1>1, <2>4, <2>5, <2>6, <3>1 DEF ShieldInv, Actors
  <2>13. ThreadInv'
    BY <1>1, <2>4, ThreadFact DEF InCall, Actors
  <2> QED BY <2>7, <2>8, <2>9, <2>10, <2>11, <2>12, <2>13
<1> QED BY <1>2, <1>3

\* A new connection has the driver's reference and no other.
LEMMA StartStep ==
  ASSUME ConnInv, NEW c \in Clients, StartDriver(c)
  PROVE  ConnInv'
<1> USE ConnectionAssumption DEF ConnInv
<1>0. PICK n : n = loads + 1
  OBVIOUS
<1>1. /\ pc[c] = "start" /\ driver = "absent" /\ loads < MaxLoads
      /\ conn' = [conn EXCEPT ![n] = [refs |-> 1, ext |-> 1, phase |-> "live"]]
      /\ registry' = n /\ loads' = n /\ driver' = "loaded"
      /\ starter' = [starter EXCEPT ![c] = TRUE]
      /\ pc' = [pc EXCEPT ![c] = "open"]
      /\ UNCHANGED <<tornDown, owners, using, children, thread, table, firm, shielded, fault>>
  BY <1>0 DEF StartDriver, DriverEntry, DispatchPnp, CreateAndRegisterDriverConnection,
              RegisterDriverConnection, Goto, history
<1>2. n \in Conns /\ n # 0 /\ loads \in Nat /\ n \in 0 .. MaxLoads /\ n \in Nat
  BY <1>0, <1>1 DEF TypeOK, Conns
<1>3. /\ c \in Actors /\ Unloader \in Actors /\ c # Unloader
      /\ pc'[c] = "open" /\ \A a \in Actors : a # c => pc'[a] = pc[a]
  BY <1>1 DEF TypeOK, Actors
<1>4. /\ conn' \in [Conns -> Connection]
      /\ conn'[n] = [refs |-> 1, ext |-> 1, phase |-> "live"]
      /\ \A m \in Conns : m # n => conn'[m] = conn[m]
  <2>1. [refs |-> 1, ext |-> 1, phase |-> "live"] \in Connection
    BY DEF Connection, Phase
  <2> QED BY <1>1, <1>2, <2>1 DEF TypeOK
<1>5. \A a \in Actors : using[a] # n /\ using[a] \in Nat
  BY <1>0, <1>2 DEF TypeOK, ActorInv
<1>6. pc[Unloader] = "return" /\ \A m \in Conns : conn[m].ext # 1
  BY <1>1 DEF ActorInv, ExtInv
<1>7. TypeOK'
  <2>1. pc' \in [Actors -> ActorPc]
    BY <1>1 DEF TypeOK, ActorPc
  <2>2. starter' \in [Clients -> BOOLEAN]
    BY <1>1 DEF TypeOK
  <2> QED BY <1>1, <1>2, <1>4, <2>1, <2>2 DEF TypeOK
<1>8. ActorInv'
  <2>1. \A d \in Clients : pc'[d] \in ClientPc /\ (using'[d] = 0 <=> pc'[d] \in Outside)
    BY <1>1, <1>3 DEF ActorInv, ClientPc, Outside, Actors
  <2>2. pc'[Unloader] = "return" /\ pc'[Unloader] \in UnloaderPc /\ using'[Unloader] = 0
    BY <1>1, <1>3, <1>6 DEF ActorInv
  <2>3. \A a \in Actors : using'[a] <= loads'
    BY <1>0, <1>1, <1>2, <1>5 DEF ActorInv
  <2>4. \A d \in Clients : starter'[d] <=> d = c
    BY <1>1 DEF ActorInv, TypeOK
  <2> QED BY <1>1, <1>2, <2>1, <2>2, <2>3, <2>4 DEF ActorInv
<1>9. ExtInv'
  BY <1>1, <1>4, <1>6 DEF ExtInv
<1>10. CountInv'
  <2>1. Counted(n)' = {}
    BY <1>1, <1>5 DEF Counted, Actors
  <2>2. Cardinality(Counted(n)') = 0
    BY <2>1, FS_EmptySet
  <2>3. ASSUME NEW m \in Conns
        PROVE  Counted(m)' = Counted(m)
    <3>1. pc[c] \notin TearDown /\ "open" \notin TearDown
      BY <1>1 DEF TearDown
    <3>2. \A d \in Clients : (using'[d] = m /\ pc'[d] \notin TearDown) <=> (using[d] = m /\ pc[d] \notin TearDown)
      BY <1>1, <1>3, <3>1 DEF Actors
    <3> QED BY <3>2, CountedSame
  <2>4. ASSUME NEW m \in Conns, m # n
        PROVE  DriverRef(m)' = DriverRef(m) /\ conn'[m].refs = conn[m].refs
    BY <1>1, <1>3, <1>4, <2>4 DEF DriverRef
  <2>5. DriverRef(n)' = 1 /\ conn'[n].refs = 1
    BY <1>4 DEF DriverRef
  <2>6. ASSUME NEW m \in Conns
        PROVE  conn'[m].refs = Cardinality(Counted(m)') + DriverRef(m)'
    <3>1. CASE m = n
      BY <2>2, <2>5, <3>1
    <3>2. CASE m # n
      BY <2>3, <2>4, <3>2 DEF CountInv
    <3> QED BY <3>1, <3>2
  <2> QED BY <2>6 DEF CountInv
<1>11. HeldInv'
  <2>1. \A a \in Actors : pc'[a] \in TearDown => pc[a] \in TearDown /\ using[a] \in Conns /\ using[a] # n
    BY <1>3, <1>5, UsingFact DEF TearDown, Outside, Actors
  <2>2. \A d \in firm : d \in Actors /\ d # c /\ using[d] \in Conns /\ using[d] # n
    BY <1>1, <1>5, UsingFact DEF HeldInv, TypeOK, ActorInv, Outside, Actors
  <2> QED BY <1>1, <1>3, <1>4, <2>1, <2>2 DEF HeldInv
<1>12. ShieldInv'
  <2>1. shielded = {}
    BY <1>6, UsingFact DEF ShieldInv, TypeOK, Outside
  <2> QED BY <1>1, <2>1 DEF ShieldInv
<1>13. ThreadInv'
  BY <1>1, <1>3, ThreadFact DEF InCall, Actors
<1> QED BY <1>7, <1>8, <1>9, <1>10, <1>11, <1>12, <1>13

\* The client that started the driver stops it; the driver has its reference.
LEMMA DeleteModuleStep ==
  ASSUME ConnInv, NEW c \in Clients, DeleteModule(c)
  PROVE  ConnInv'
<1> USE ConnectionAssumption DEF ConnInv
<1>1. /\ pc[c] = "close" /\ starter' = [starter EXCEPT ![c] = FALSE]
      /\ UNCHANGED <<loads, tornDown, registry, conn, owners, children, thread, table, firm, shielded, fault>>
  BY DEF DeleteModule, connVars, history
<1>2. starter' \in [Clients -> BOOLEAN] /\ \A d \in Clients : starter'[d] <=> starter[d] /\ d # c
  BY <1>1 DEF TypeOK
<1>3. CASE ~ starter[c]
  <2>1. pc' = [pc EXCEPT ![c] = "start"] /\ UNCHANGED <<driver, using>>
    BY <1>3 DEF DeleteModule, Goto
  <2>2. "start" \in ClientPc \ TearDown
    BY DEF ClientPc, TearDown, Outside
  <2>3. ActorInv' /\ ExtInv' /\ CountInv' /\ HeldInv' /\ pc' \in [Actors -> ActorPc]
    BY <1>1, <1>2, <2>1, <2>2, MoveFact DEF Outside, TearDown
  <2>4. \A d \in Clients : pc'[d] = IF d = c THEN "start" ELSE pc[d]
    BY <2>1 DEF TypeOK, Actors
  <2>5. ShieldInv'
    BY <1>1, <2>1, <2>4, ShieldFact
  <2>6. ThreadInv'
    BY <1>1, <2>4, ThreadFact DEF InCall
  <2>7. TypeOK'
    BY <1>1, <1>2, <2>1, <2>3 DEF TypeOK
  <2> QED BY <2>3, <2>5, <2>6, <2>7
<1>4. CASE starter[c]
  <2>1. /\ driver' = "unloading"
        /\ pc' = [pc EXCEPT ![c] = "start", ![Unloader] = "external"]
        /\ using' = [using EXCEPT ![Unloader] = loads]
    BY <1>4 DEF DeleteModule
  <2>2. driver = "loaded" /\ pc[Unloader] = "return" /\ using[Unloader] = 0 /\ loads >= 1
    BY <1>4 DEF ActorInv
  <2>3. /\ c \in Actors /\ Unloader \in Actors /\ c # Unloader
        /\ pc'[c] = "start" /\ pc'[Unloader] = "external"
        /\ \A a \in Actors : a # c /\ a # Unloader => pc'[a] = pc[a]
    BY <2>1 DEF TypeOK, Actors
  <2>4. using'[Unloader] = loads /\ \A a \in Actors : a # Unloader => using'[a] = using[a]
    BY <2>1, <2>3 DEF TypeOK
  <2>5. loads \in Conns /\ loads # 0 /\ loads \in Nat /\ loads \in 0 .. MaxLoads
    BY <2>2 DEF TypeOK, Conns
  <2>6. TypeOK'
    <3>1. pc' \in [Actors -> ActorPc]
      BY <2>1 DEF TypeOK, ActorPc
    <3>2. using' \in [Actors -> 0 .. MaxLoads]
      <4>1. using \in [Actors -> 0 .. MaxLoads]
        BY DEF TypeOK
      <4> QED BY <2>1, <2>5, <4>1
    <3> QED BY <1>1, <1>2, <2>1, <3>1, <3>2 DEF TypeOK
  <2>7. ActorInv'
    <3>1. \A d \in Clients : pc'[d] \in ClientPc /\ (using'[d] = 0 <=> pc'[d] \in Outside)
      BY <1>1, <2>3, <2>4 DEF ActorInv, ClientPc, Outside, Actors
    <3>2. pc'[Unloader] \in UnloaderPc /\ pc'[Unloader] # "return"
      BY <2>3 DEF UnloaderPc
    <3>3. \A a \in Actors : using'[a] <= loads'
      BY <1>1, <2>4, <2>5 DEF ActorInv
    <3>4. \A d \in Clients : ~ starter'[d]
      BY <1>2, <1>4 DEF ActorInv
    <3> QED BY <1>1, <2>1, <2>2, <2>4, <3>1, <3>2, <3>3, <3>4 DEF ActorInv
  <2>8. ExtInv'
    BY <1>1, <2>1, <2>2, <2>3 DEF ExtInv
  <2>9. CountInv'
    <3>1. pc[c] \notin TearDown /\ "start" \notin TearDown
      BY <1>1 DEF TearDown
    <3>2. ASSUME NEW m \in Conns
          PROVE  Counted(m)' = Counted(m)
      <4>1. \A d \in Clients : (using'[d] = m /\ pc'[d] \notin TearDown) <=> (using[d] = m /\ pc[d] \notin TearDown)
        BY <2>3, <2>4, <3>1 DEF Actors
      <4> QED BY <4>1, CountedSame
    <3>3. \A m \in Conns : DriverRef(m)' = DriverRef(m)
      BY <1>1, <2>2, <2>3 DEF DriverRef
    <3> QED BY <1>1, <3>2, <3>3 DEF CountInv
  <2>10. HeldInv'
    <3>1. \A a \in Actors : pc'[a] \in TearDown => a # c /\ a # Unloader
      BY <2>3 DEF TearDown
    <3>2. \A d \in firm : d \in Actors /\ d # c /\ d # Unloader
      BY <1>1 DEF HeldInv, TypeOK, ActorInv, Outside, Actors
    <3> QED BY <1>1, <2>3, <2>4, <3>1, <3>2 DEF HeldInv
  <2>11. ShieldInv'
    <3>1. \A d \in shielded : d \in Actors /\ d # c /\ d # Unloader
      BY <1>1 DEF ShieldInv, TypeOK, Actors
    <3> QED BY <1>1, <2>3, <2>4, <3>1 DEF ShieldInv
  <2>12. ThreadInv'
    BY <1>1, <2>3, ThreadFact DEF InCall, Actors
  <2> QED BY <2>6, <2>7, <2>8, <2>9, <2>10, <2>11, <2>12
<1> QED BY <1>3, <1>4

-----------------------------------------------------------------------------
(***************************************************************************)
(* The invariant is inductive: giving references back.                     *)
(***************************************************************************)

\* The unloader waits for the lock.
LEMMA WaitStep ==
  ASSUME ConnInv, WaitForCalls
  PROVE  ConnInv'
<1> USE ConnectionAssumption DEF ConnInv
<1>1. /\ pc[Unloader] = "external" /\ pc' = [pc EXCEPT ![Unloader] = "queued"]
      /\ UNCHANGED <<driver, loads, tornDown, registry, conn, owners, using, starter, children, thread, table, firm, shielded, fault>>
  BY DEF WaitForCalls, Goto, driverVars, connVars, history
<1>2. /\ Unloader \in Actors /\ pc'[Unloader] = "queued"
      /\ \A c \in Clients : c \in Actors /\ c # Unloader /\ pc'[c] = pc[c]
  BY <1>1 DEF TypeOK, Actors
<1>3. TypeOK'
  <2>1. pc' \in [Actors -> ActorPc]
    BY <1>1 DEF TypeOK, ActorPc
  <2> QED BY <1>1, <2>1 DEF TypeOK
<1>4. ActorInv' /\ ExtInv'
  BY <1>1, <1>2 DEF ActorInv, ExtInv, UnloaderPc
<1>5. CountInv'
  <2>1. \A m \in Conns : Counted(m)' = Counted(m)
    BY <1>1, <1>2, CountedSame
  <2>2. \A m \in Conns : DriverRef(m)' = DriverRef(m)
    BY <1>1, <1>2 DEF DriverRef
  <2> QED BY <1>1, <2>1, <2>2 DEF CountInv
<1>6. HeldInv'
  <2>1. \A a \in Actors : pc'[a] \in TearDown => pc[a] \in TearDown
    BY <1>2 DEF TearDown, Actors
  <2>2. \A d \in firm : pc'[d] = pc[d]
    BY <1>2 DEF TypeOK
  <2> QED BY <1>1, <2>1, <2>2 DEF HeldInv
<1>7. ShieldInv'
  BY <1>1, <1>2, ShieldFact
<1>8. ThreadInv'
  BY <1>1, <1>2, ThreadFact
<1> QED BY <1>3, <1>4, <1>5, <1>6, <1>7, <1>8

\* The driver's reference goes when nobody holds the lock of the connection; it
\* counts until the decrement.
LEMMA ExternalStep ==
  ASSUME ConnInv, ExternalDereference
  PROVE  ConnInv'
<1> USE ConnectionAssumption DEF ConnInv
<1>0. PICK n : n = using[Unloader]
  OBVIOUS
<1>1. /\ pc[Unloader] \in {"external", "queued"} /\ pc' = [pc EXCEPT ![Unloader] = "deref"]
      /\ owners[n] = {} /\ conn' = [conn EXCEPT ![n].ext = 0]
      /\ UNCHANGED <<driver, loads, tornDown, registry, owners, using, starter, children, thread, table, firm, shielded, fault>>
  BY <1>0 DEF ExternalDereference, Goto, driverVars, history
<1>2. /\ Unloader \in Actors /\ pc'[Unloader] = "deref"
      /\ \A c \in Clients : c \in Actors /\ c # Unloader /\ pc'[c] = pc[c]
  BY <1>1 DEF TypeOK, Actors
<1>3. n \in Conns /\ n = loads /\ driver = "unloading"
  BY <1>0, <1>1, UsingFact DEF ActorInv
<1>4. /\ conn' \in [Conns -> Connection]
      /\ \A m \in Conns : conn'[m].refs = conn[m].refs /\ conn'[m].phase = conn[m].phase
      /\ \A m \in Conns : conn'[m].ext = IF m = n THEN 0 ELSE conn[m].ext
  BY <1>1, <1>3 DEF TypeOK, Connection
<1>5. TypeOK'
  <2>1. pc' \in [Actors -> ActorPc]
    BY <1>1 DEF TypeOK, ActorPc
  <2> QED BY <1>1, <1>4, <2>1 DEF TypeOK
<1>6. ActorInv'
  BY <1>1, <1>2 DEF ActorInv, UnloaderPc
<1>7. ExtInv'
  BY <1>1, <1>2, <1>3, <1>4 DEF ExtInv
<1>8. CountInv'
  <2>1. \A m \in Conns : Counted(m)' = Counted(m)
    BY <1>1, <1>2, CountedSame
  <2>2. conn[n].ext = 1
    BY <1>1, <1>3 DEF ExtInv
  <2>3. \A m \in Conns : DriverRef(m)' = DriverRef(m)
    BY <1>0, <1>1, <1>2, <1>4, <2>2 DEF DriverRef
  <2> QED BY <1>4, <2>1, <2>3 DEF CountInv
<1>9. HeldInv'
  <2>1. \A a \in Actors : pc'[a] \in TearDown => pc[a] \in TearDown /\ using[a] \in Conns
    BY <1>2, UsingFact DEF TearDown, Outside, Actors
  <2>2. \A d \in firm : pc'[d] = pc[d] /\ using[d] \in Conns
    BY <1>2, UsingFact DEF TypeOK, HeldInv, ActorInv
  <2> QED BY <1>1, <1>4, <2>1, <2>2 DEF HeldInv
<1>10. ShieldInv'
  BY <1>1, <1>2, <1>4, ShieldFact
<1>11. ThreadInv'
  BY <1>1, <1>2, ThreadFact
<1> QED BY <1>5, <1>6, <1>7, <1>8, <1>9, <1>10, <1>11

\* The decrement takes away the reference of the actor, whoever it is.
LEMMA DecrementFact ==
  ASSUME ConnInv, NEW a \in Actors, pc[a] = "deref",
         pc'[a] \in {"zero", After(a)}, using'[a] = IF pc'[a] = "zero" THEN using[a] ELSE 0,
         \A b \in Actors : b # a => pc'[b] = pc[b] /\ using'[b] = using[b],
         \A m \in Conns : conn'[m].ext = conn[m].ext
  PROVE  /\ conn[using[a]].refs >= 1
         /\ \A m \in Conns : Cardinality(Counted(m)') + DriverRef(m)'
                                = IF m = using[a] THEN conn[m].refs - 1 ELSE conn[m].refs
         /\ \A d \in Clients : d # a /\ d \in Counted(using[a]) => conn[using[a]].refs # 1
<1> USE ConnectionAssumption DEF ConnInv
<1>0. PICK n, p : n = using[a] /\ p = pc'[a]
  OBVIOUS
<1>1. n \in Conns /\ n # 0
  BY <1>0, UsingFact DEF Outside, Actors, Conns
<1>2. /\ Unloader \in Actors /\ p \in {"zero", After(a)}
      /\ pc'[a] = p /\ \A b \in Actors : b # a => pc'[b] = pc[b]
      /\ using'[a] = (IF p = "zero" THEN n ELSE 0) /\ \A b \in Actors : b # a => using'[b] = using[b]
  BY <1>0 DEF Actors
<1>3. ASSUME NEW m \in Conns
      PROVE  /\ Cardinality(Counted(m)) \in Nat /\ DriverRef(m) \in {0, 1}
             /\ conn[m].refs = Cardinality(Counted(m)) + DriverRef(m)
  BY CountedFinite DEF CountInv, DriverRef
<1>4. CASE a \in Clients
  <2>1. a # Unloader
    BY <1>4
  <2>2. a \in Counted(n) /\ Counted(n)' = Counted(n) \ {a}
    BY <1>0, <1>1, <1>2, <1>4 DEF Counted, TearDown, Actors, After
  <2>3. Cardinality(Counted(n)') = Cardinality(Counted(n)) - 1 /\ Cardinality(Counted(n)) # 0
    BY <2>2, CountedFinite, FS_RemoveElement, FS_EmptySet
  <2>4. ASSUME NEW m \in Conns, m # n
        PROVE  Counted(m)' = Counted(m)
    <3>1. m # 0
      BY DEF Conns
    <3>2. \A d \in Clients : (using'[d] = m /\ pc'[d] \notin TearDown) <=> (using[d] = m /\ pc[d] \notin TearDown)
      BY <1>0, <1>2, <2>4, <3>1 DEF Actors
    <3> QED BY <3>2, CountedSame
  <2>5. \A m \in Conns : DriverRef(m)' = DriverRef(m)
    BY <1>2, <2>1 DEF DriverRef
  <2>6. ASSUME NEW m \in Conns
        PROVE  Cardinality(Counted(m)') + DriverRef(m)' = IF m = n THEN conn[m].refs - 1 ELSE conn[m].refs
    BY <1>3, <2>3, <2>4, <2>5
  <2>7. ASSUME NEW d \in Clients, d # a, d \in Counted(n)
        PROVE  conn[n].refs # 1
    <3>1. d \in Counted(n) \ {a}
      BY <2>7
    <3>2. IsFiniteSet(Counted(n) \ {a}) /\ Cardinality(Counted(n) \ {a}) = Cardinality(Counted(n)) - 1
      BY <2>2, CountedFinite, FS_RemoveElement
    <3>3. Cardinality(Counted(n) \ {a}) # 0
      BY <3>1, <3>2, FS_EmptySet
    <3>4. /\ Cardinality(Counted(n)) \in Nat /\ DriverRef(n) \in {0, 1}
          /\ conn[n].refs = Cardinality(Counted(n)) + DriverRef(n)
      BY <1>1, <1>3
    <3>5. Cardinality(Counted(n)) # 1 /\ Cardinality(Counted(n)) # 0
      BY <2>3, <3>2, <3>3
    <3> QED BY <3>4, <3>5
  <2>8. conn[n].refs >= 1
    BY <1>1, <1>3, <2>3
  <2> QED BY <1>0, <2>6, <2>7, <2>8
<1>5. CASE a = Unloader
  <2>1. conn[n].ext # 1
    BY <1>0, <1>1, <1>5 DEF ExtInv, ActorInv
  <2>2. DriverRef(n) = 1 /\ DriverRef(n)' = 0
    BY <1>0, <1>1, <1>2, <1>5, <2>1 DEF DriverRef, After
  <2>3. \A m \in Conns : Counted(m)' = Counted(m)
    BY <1>2, <1>5, CountedSame DEF Actors
  <2>4. \A m \in Conns : m # n => DriverRef(m)' = DriverRef(m)
    BY <1>0, <1>2, <1>5 DEF DriverRef, After
  <2>5. ASSUME NEW m \in Conns
        PROVE  Cardinality(Counted(m)') + DriverRef(m)' = IF m = n THEN conn[m].refs - 1 ELSE conn[m].refs
    BY <1>3, <2>2, <2>3, <2>4
  <2>6. ASSUME NEW d \in Clients, d \in Counted(n)
        PROVE  conn[n].refs # 1
    <3>1. Cardinality(Counted(n)) # 0
      BY <2>6, CountedFinite, FS_EmptySet
    <3> QED BY <1>1, <1>3, <2>2, <3>1
  <2>7. conn[n].refs >= 1
    BY <1>1, <1>3, <2>2
  <2> QED BY <1>0, <2>5, <2>6, <2>7
<1> QED BY <1>4, <1>5 DEF Actors

\* A connection dies with the last reference, so nobody else holds it then.
LEMMA DereferenceStep ==
  ASSUME ConnInv, NEW a \in Actors, DereferenceConnection(a)
  PROVE  ConnInv'
<1> USE ConnectionAssumption DEF ConnInv
<1>0. PICK n, last : n = using[a] /\ last = (conn[n].refs = 1)
  OBVIOUS
<1>1. PICK p : p = IF last THEN "zero" ELSE After(a)
  OBVIOUS
<1>2. /\ pc[a] = "deref" /\ conn[n].phase # "freed"
      /\ conn' = [conn EXCEPT ![n].refs = @ - 1, ![n].phase = IF last THEN "dying" ELSE @]
      /\ pc' = [pc EXCEPT ![a] = p]
      /\ using' = [using EXCEPT ![a] = IF last THEN @ ELSE 0]
      /\ firm' = firm \ {a}
      /\ UNCHANGED <<driver, loads, tornDown, registry, owners, starter, children, thread, table, shielded, fault>>
  BY <1>0, <1>1 DEF DereferenceConnection, Goto, driverVars
<1>3. n \in Conns /\ n # 0
  BY <1>0, <1>2, UsingFact DEF Outside, Actors, Conns
<1>4. p = "zero" <=> last
  BY <1>1 DEF After
<1>5. using' = [using EXCEPT ![a] = IF p = "zero" THEN n ELSE 0]
  BY <1>0, <1>2, <1>4 DEF TypeOK
<1>6. /\ Unloader \in Actors
      /\ pc'[a] = p /\ \A b \in Actors : b # a => pc'[b] = pc[b]
      /\ using'[a] = (IF p = "zero" THEN n ELSE 0) /\ \A b \in Actors : b # a => using'[b] = using[b]
  BY <1>2, <1>5 DEF TypeOK, Actors
<1>7. conn[n] \in Connection
  BY <1>3 DEF TypeOK
<1>8. \A m \in Conns : /\ conn'[m].ext = conn[m].ext
                       /\ conn'[m].refs = IF m = n THEN conn[m].refs - 1 ELSE conn[m].refs
                       /\ conn'[m].phase = IF m = n /\ last THEN "dying" ELSE conn[m].phase
  BY <1>2, <1>3, <1>7 DEF TypeOK, Connection
<1>9. /\ conn[n].refs >= 1
      /\ \A m \in Conns : Cardinality(Counted(m)') + DriverRef(m)' = IF m = n THEN conn[m].refs - 1 ELSE conn[m].refs
      /\ \A d \in Clients : d # a /\ d \in Counted(n) => conn[n].refs # 1
  <2>1. pc'[a] \in {"zero", After(a)} /\ pc[a] = "deref" /\ using'[a] = IF pc'[a] = "zero" THEN using[a] ELSE 0
    BY <1>0, <1>1, <1>2, <1>6
  <2>2. \A b \in Actors : b # a => pc'[b] = pc[b] /\ using'[b] = using[b]
    BY <1>6
  <2>3. \A m \in Conns : conn'[m].ext = conn[m].ext
    BY <1>8
  <2> HIDE DEF ConnInv
  <2> QED BY <1>0, <2>1, <2>2, <2>3, DecrementFact
<1>10. TypeOK'
  <2>1. pc' \in [Actors -> ActorPc]
    <3>1. p \in ActorPc
      BY <1>1 DEF After, ActorPc
    <3> QED BY <1>2, <3>1 DEF TypeOK
  <2>2. using' \in [Actors -> 0 .. MaxLoads]
    <3>1. using \in [Actors -> 0 .. MaxLoads] /\ 0 \in 0 .. MaxLoads /\ n \in 0 .. MaxLoads
      BY <1>0 DEF TypeOK
    <3> QED BY <1>5, <3>1
  <2>3. conn' \in [Conns -> Connection]
    <3>1. conn[n].refs - 1 \in Nat
      BY <1>7, <1>9 DEF Connection
    <3> QED BY <1>2, <1>7, <3>1 DEF TypeOK, Connection, Phase
  <2>4. firm' \in SUBSET Clients
    BY <1>2 DEF TypeOK
  <2> QED BY <1>2, <2>1, <2>2, <2>3, <2>4 DEF TypeOK
<1>11. ActorInv'
  <2>1. \A c \in Clients : pc'[c] \in ClientPc /\ (using'[c] = 0 <=> pc'[c] \in Outside)
    BY <1>1, <1>3, <1>6 DEF ActorInv, ClientPc, Outside, TearDown, After, Actors
  <2>2. /\ pc'[Unloader] \in UnloaderPc
        /\ IF pc'[Unloader] = "return" THEN using'[Unloader] = 0
           ELSE using'[Unloader] = loads /\ driver = "unloading"
    BY <1>0, <1>1, <1>2, <1>6 DEF ActorInv, UnloaderPc, TearDown, After
  <2>3. \A b \in Actors : using'[b] <= loads
    BY <1>0, <1>6 DEF ActorInv, TypeOK
  <2> QED BY <1>2, <2>1, <2>2, <2>3 DEF ActorInv
<1>12. ExtInv'
  <2>1. pc'[Unloader] \in {"external", "queued"} <=> pc[Unloader] \in {"external", "queued"}
    BY <1>1, <1>2, <1>6 DEF After
  <2> QED BY <1>2, <1>8, <2>1 DEF ExtInv
<1>13. CountInv'
  BY <1>8, <1>9 DEF CountInv
<1>14. HeldInv'
  <2>1. ASSUME NEW b \in Actors, pc'[b] \in TearDown
        PROVE  conn'[using'[b]].phase \in {"dying", "freed"}
    <3>1. CASE b = a
      BY <1>1, <1>3, <1>4, <1>6, <1>8, <2>1, <3>1 DEF After, TearDown
    <3>2. CASE b # a
      <4>1. using'[b] = using[b] /\ pc[b] \in TearDown /\ using[b] \in Conns
        BY <1>6, <2>1, <3>2, UsingFact DEF TearDown, Outside, Actors
      <4> QED BY <1>8, <4>1 DEF HeldInv
    <3> QED BY <3>1, <3>2
  <2>2. ASSUME NEW d \in firm, d # a
        PROVE  using'[d] # 0 /\ pc'[d] \notin TearDown /\ conn'[using'[d]].phase = "live"
    <3>1. /\ d \in Clients /\ using'[d] = using[d] /\ pc'[d] = pc[d] /\ using[d] \in Conns
          /\ using[d] # 0 /\ pc[d] \notin TearDown /\ conn[using[d]].phase = "live"
      BY <1>6, <2>2, UsingFact DEF HeldInv, TypeOK, ActorInv, Actors
    <3>2. using[d] = n => ~ last
      BY <1>0, <1>9, <2>2, <3>1 DEF Counted
    <3> QED BY <1>8, <3>1, <3>2
  <2> QED BY <1>2, <2>1, <2>2 DEF HeldInv
<1>15. ShieldInv'
  <2>1. \A d \in shielded : d \in Actors /\ d # a /\ using[d] \in Conns
    <3>1. pc[a] = "deref"
      BY <1>2
    <3>2. shielded \subseteq Clients
      BY DEF TypeOK
    <3> QED BY <3>1, <3>2, UsingFact DEF ShieldInv, Outside, Actors
  <2>2. shielded' = shielded /\ owners' = owners
    BY <1>2
  <2> QED BY <1>6, <1>8, <2>1, <2>2 DEF ShieldInv
<1>16. ThreadInv'
  <2>1. \A d \in Clients : pc'[d] = pc[d] \/ (pc[d] = "deref" /\ pc'[d] # "reset")
    BY <1>1, <1>2, <1>6 DEF After, Actors
  <2> QED BY <1>2, <2>1, ThreadFact DEF InCall
<1> QED BY <1>10, <1>11, <1>12, <1>13, <1>14, <1>15, <1>16

\* The three steps of tearing a connection down concern nobody who holds one.
LEMMA TearDownFact ==
  ASSUME ConnInv, NEW a \in Actors, NEW n, n = using[a], NEW p, NEW q, NEW ph,
         pc[a] \in TearDown, pc' = [pc EXCEPT ![a] = p],
         (p \in {"unregister", "free"} /\ q = n) \/ (p = After(a) /\ q = 0),
         using' = [using EXCEPT ![a] = q],
         ph \in {conn[n].phase, "freed"}, conn' = [conn EXCEPT ![n].phase = ph],
         UNCHANGED <<driver, loads, tornDown, owners, starter, children, thread, firm, shielded, fault>>,
         registry' \in {registry, 0}, table' \in {table, [table EXCEPT ![n] = {}]}
  PROVE  ConnInv'
<1> USE ConnectionAssumption DEF ConnInv
<1>3. n \in Conns /\ n # 0 /\ n \in 0 .. MaxLoads /\ conn[n].phase \in {"dying", "freed"}
  <2>1. n \in Conns
    BY UsingFact DEF Outside, TearDown, Actors
  <2> QED BY <2>1 DEF HeldInv, Conns
<1>4. /\ Unloader \in Actors
      /\ pc'[a] = p /\ \A b \in Actors : b # a => pc'[b] = pc[b]
      /\ using'[a] = q /\ \A b \in Actors : b # a => using'[b] = using[b]
  BY DEF TypeOK, Actors
<1>5. /\ conn' \in [Conns -> Connection]
      /\ \A m \in Conns : conn'[m].ext = conn[m].ext /\ conn'[m].refs = conn[m].refs
      /\ \A m \in Conns : m # n => conn'[m].phase = conn[m].phase
      /\ conn'[n].phase \in {"dying", "freed"}
  BY <1>3 DEF TypeOK, Connection, Phase
<1>6. TypeOK'
  <2>1. pc' \in [Actors -> ActorPc]
    <3>1. p \in ActorPc
      BY DEF After, ActorPc
    <3> QED BY <3>1 DEF TypeOK
  <2>2. using' \in [Actors -> 0 .. MaxLoads]
    <3>1. using \in [Actors -> 0 .. MaxLoads] /\ q \in 0 .. MaxLoads
      BY <1>3 DEF TypeOK
    <3> QED BY <3>1
  <2>3. table' \in [Conns -> SUBSET (Clients \cup Threads)] /\ registry' \in 0 .. MaxLoads
    BY DEF TypeOK
  <2> QED BY <1>5, <2>1, <2>2, <2>3 DEF TypeOK
<1>7. ActorInv'
  <2>1. \A c \in Clients : pc'[c] \in ClientPc /\ (using'[c] = 0 <=> pc'[c] \in Outside)
    BY <1>3, <1>4 DEF ActorInv, ClientPc, Outside, TearDown, After, Actors
  <2>2. /\ pc'[Unloader] \in UnloaderPc
        /\ IF pc'[Unloader] = "return" THEN using'[Unloader] = 0
           ELSE using'[Unloader] = loads /\ driver = "unloading"
    BY <1>4 DEF ActorInv, UnloaderPc, TearDown, After
  <2>3. \A b \in Actors : using'[b] <= loads
    BY <1>4 DEF ActorInv, TypeOK
  <2>4. registry' <= loads
    BY DEF ActorInv, TypeOK
  <2> QED BY <2>1, <2>2, <2>3, <2>4 DEF ActorInv
<1>8. ExtInv'
  <2>1. pc'[Unloader] \in {"external", "queued"} <=> pc[Unloader] \in {"external", "queued"}
    BY <1>4 DEF After, TearDown
  <2> QED BY <1>5, <2>1 DEF ExtInv
<1>9. CountInv'
  <2>1. ASSUME NEW m \in Conns
        PROVE  Counted(m)' = Counted(m)
    <3>1. m # 0 /\ (p \in TearDown \/ q = 0)
      BY DEF Conns, TearDown
    <3>2. \A d \in Clients : (using'[d] = m /\ pc'[d] \notin TearDown) <=> (using[d] = m /\ pc[d] \notin TearDown)
      BY <1>4, <3>1 DEF Actors
    <3> QED BY <3>2, CountedSame
  <2>2. \A m \in Conns : DriverRef(m)' = DriverRef(m)
    BY <1>4, <1>5 DEF DriverRef, TearDown, After
  <2> QED BY <1>5, <2>1, <2>2 DEF CountInv
<1>10. HeldInv'
  <2>1. ASSUME NEW b \in Actors, pc'[b] \in TearDown
        PROVE  conn'[using'[b]].phase \in {"dying", "freed"}
    <3>1. CASE b = a
      BY <1>4, <1>5, <2>1, <3>1 DEF After, TearDown
    <3>2. CASE b # a
      <4>1. using'[b] = using[b] /\ pc[b] \in TearDown /\ using[b] \in Conns
        BY <1>4, <2>1, <3>2, UsingFact DEF TearDown, Outside, Actors
      <4> QED BY <1>5, <4>1 DEF HeldInv
    <3> QED BY <3>1, <3>2
  <2>2. ASSUME NEW d \in firm
        PROVE  using'[d] # 0 /\ pc'[d] \notin TearDown /\ conn'[using'[d]].phase = "live"
    <3>1. /\ d \in Clients /\ using[d] # 0 /\ pc[d] \notin TearDown /\ conn[using[d]].phase = "live"
      BY <2>2 DEF HeldInv, TypeOK
    <3>2. d \in Actors /\ d # a /\ using[d] # n /\ using[d] \in Conns
      BY <1>3, <3>1, UsingFact DEF Actors, ActorInv
    <3> QED BY <1>4, <1>5, <3>1, <3>2
  <2> QED BY <2>1, <2>2 DEF HeldInv
<1>11. ShieldInv'
  <2>1. \A d \in shielded : d \in Actors /\ d # a /\ using[d] \in Conns
    BY UsingFact DEF ShieldInv, TypeOK, Outside, Actors, TearDown
  <2> QED BY <1>4, <1>5, <2>1 DEF ShieldInv
<1>12. ThreadInv'
  <2>1. \A d \in Clients : pc'[d] = pc[d] \/ (pc[d] \in TearDown /\ pc'[d] # "reset")
    BY <1>4 DEF After, Actors
  <2> QED BY <2>1, ThreadFact DEF InCall, TearDown
<1> QED BY <1>6, <1>7, <1>8, <1>9, <1>10, <1>11, <1>12

\* The filament registry, the entry of the driver and the connection go.
LEMMA TearDownSteps ==
  ASSUME ConnInv, NEW a \in Actors,
         DeleteFilamentRegistry(a) \/ UnregisterDriverConnection(a) \/ FreeConnection(a)
  PROVE  ConnInv'
<1> USE ConnectionAssumption DEF ConnInv
<1>0. PICK n : n = using[a]
  OBVIOUS
<1>1. n \in Conns
  BY <1>0, UsingFact DEF DeleteFilamentRegistry, UnregisterDriverConnection, FreeConnection, Outside, Actors
<1>2. [using EXCEPT ![a] = n] = using
  BY <1>0 DEF TypeOK
<1>3. [conn EXCEPT ![n].phase = conn[n].phase] = conn
  <2>1. conn[n] \in Connection /\ conn \in [Conns -> Connection]
    BY <1>1 DEF TypeOK
  <2>2. [conn[n] EXCEPT !.phase = conn[n].phase] = conn[n]
    BY <2>1 DEF Connection
  <2> QED BY <2>1, <2>2
<1>4. CASE DeleteFilamentRegistry(a)
  <2>1. /\ pc[a] \in TearDown /\ pc' = [pc EXCEPT ![a] = "unregister"] /\ table' = [table EXCEPT ![n] = {}]
        /\ UNCHANGED <<driver, loads, tornDown, registry, conn, owners, using, starter, children, thread, firm, shielded, fault>>
    BY <1>0, <1>4 DEF DeleteFilamentRegistry, Goto, TearDown, driverVars, connVars, history
  <2> QED BY <1>0, <1>2, <1>3, <2>1, TearDownFact
<1>5. CASE UnregisterDriverConnection(a)
  <2>1. /\ pc[a] \in TearDown /\ pc' = [pc EXCEPT ![a] = "free"] /\ registry' \in {registry, 0}
        /\ UNCHANGED <<driver, loads, tornDown, conn, owners, using, starter, children, thread, table, firm, shielded, fault>>
    BY <1>5 DEF UnregisterDriverConnection, Goto, TearDown, driverVars, history
  <2> QED BY <1>0, <1>2, <1>3, <2>1, TearDownFact
<1>6. CASE FreeConnection(a)
  <2>1. /\ pc[a] \in TearDown /\ pc' = [pc EXCEPT ![a] = After(a)]
        /\ conn' = [conn EXCEPT ![n].phase = "freed"] /\ using' = [using EXCEPT ![a] = 0]
        /\ UNCHANGED <<driver, loads, tornDown, registry, owners, starter, children, thread, table, firm, shielded, fault>>
    BY <1>0, <1>6 DEF FreeConnection, Goto, TearDown, driverVars, history
  <2> QED BY <1>0, <2>1, TearDownFact
<1> QED BY <1>4, <1>5, <1>6

\* The image goes and the reflector goes: neither has anything to do with what
\* is referenced.
LEMMA UnloadSteps ==
  ASSUME ConnInv, DriverUnloaded \/ UnloadReflector
  PROVE  ConnInv'
<1> USE ConnectionAssumption DEF ConnInv
<1>1. /\ UNCHANGED <<loads, conn, owners, pc, using, starter, children, thread, table, firm, shielded, fault>>
      /\ tornDown' \in BOOLEAN /\ registry' \in {registry, 0}
      /\ driver' = driver \/ (driver = "unloading" /\ pc[Unloader] = "return" /\ driver' = "absent")
  BY DEF DriverUnloaded, UnloadReflector, connVars, callVars, history, TypeOK
<1>2. TypeOK'
  BY <1>1 DEF TypeOK
<1>3. ActorInv'
  <2>1. registry' <= loads
    BY <1>1 DEF ActorInv, TypeOK
  <2> QED BY <1>1, <2>1 DEF ActorInv
<1>4. ExtInv'
  BY <1>1 DEF ExtInv
<1>5. CountInv'
  <2>1. \A m \in Conns : Counted(m)' = Counted(m) /\ DriverRef(m)' = DriverRef(m)
    BY <1>1 DEF Counted, DriverRef
  <2> QED BY <1>1, <2>1 DEF CountInv
<1>6. HeldInv' /\ ShieldInv' /\ ThreadInv'
  BY <1>1 DEF HeldInv, ShieldInv, ThreadInv
<1> QED BY <1>2, <1>3, <1>4, <1>5, <1>6

-----------------------------------------------------------------------------
(***************************************************************************)
(* The invariant is inductive: threads.                                    *)
(***************************************************************************)

\* A routine, or a thread of one, creates a thread and waits for it.
LEMMA CreateThreadStep ==
  ASSUME ConnInv, NEW x \in Clients \cup Threads, NEW t \in Threads, CreateSystemThread(x, t)
  PROVE  ConnInv'
<1> USE ConnectionAssumption DEF ConnInv
<1>1. PICK at \in {"queued", "starting"} :
         thread' = [thread EXCEPT ![t] = [at |-> at, call |-> CallOf(x), creator |-> x, closed |-> FALSE]]
  BY DEF CreateSystemThread
<1>2. PICK c, o : c = CallOf(x) /\ o = [at |-> at, call |-> c, creator |-> x, closed |-> FALSE]
  OBVIOUS
<1>3. UNCHANGED <<driver, loads, tornDown, registry, conn, owners, pc, using, starter, children, table, firm, shielded, fault>>
  BY DEF CreateSystemThread, driverVars, connVars, history
<1>4. thread[t].at = "absent"
  BY DEF CreateSystemThread, IsNext
<1>5. /\ c \in Clients /\ pc[c] \in InCall
      /\ \/ x = c /\ pc[c] = "running"
         \/ x \in Threads /\ x # t /\ thread[x].at = "running" /\ thread[x].call = c
  <2>1. CASE x \in Clients
    BY <1>2, <2>1 DEF CreateSystemThread, InRoutine, CallOf, InCall
  <2>2. CASE x \notin Clients
    <3>1. x \in Threads /\ c = thread[x].call /\ thread[x].at = "running"
      BY <1>2, <2>2 DEF CreateSystemThread, InRoutine, CallOf
    <3> QED BY <1>4, <3>1 DEF ThreadInv
  <2> QED BY <2>1, <2>2
<1>6. o \in ThreadObject /\ o.at = at /\ o.call = c /\ o.creator = x
  BY <1>1, <1>2, <1>5 DEF ThreadObject
<1>7. thread' \in [Threads -> ThreadObject] /\ thread'[t] = o /\ \A u \in Threads : u # t => thread'[u] = thread[u]
  BY <1>1, <1>2, <1>6 DEF TypeOK
<1>8. TypeOK'
  BY <1>3, <1>7 DEF TypeOK
<1>9. ActorInv' /\ ExtInv' /\ CountInv' /\ HeldInv' /\ ShieldInv'
  BY <1>3, ActorsSame
<1>10. ThreadInv'
  <2>1. \A d \in Clients : children[d] \subseteq Threads /\ t \notin children[d]
    BY <1>4 DEF ThreadInv, TypeOK, Filament
  <2>2. ASSUME NEW u \in Threads, thread'[u].at \in {"queued", "starting", "running"}
        PROVE  thread'[u].call \in Clients /\ pc[thread'[u].call] \in InCall
    BY <1>5, <1>6, <1>7, <2>2 DEF ThreadInv
  <2>3. \A d \in Clients : \A u \in children[d] : thread'[u].call = d /\ thread'[u].at \in {"running", "dead"}
    BY <1>7, <2>1 DEF ThreadInv
  <2>4. \A u \in Threads : thread'[u].at = "running" => u \in children[thread'[u].call]
    BY <1>1, <1>6, <1>7 DEF ThreadInv
  <2>5. ASSUME NEW u \in Threads, thread'[u].at \in {"queued", "starting"}
        PROVE  \/ thread'[u].creator = thread'[u].call /\ pc[thread'[u].creator] = "running"
               \/ /\ thread'[u].creator \in Threads
                  /\ thread'[thread'[u].creator].at = "running"
                  /\ thread'[thread'[u].creator].call = thread'[u].call
    <3>1. CASE u = t
      BY <1>5, <1>6, <1>7, <3>1
    <3>2. CASE u # t
      <4>1. \/ thread[u].creator = thread[u].call /\ pc[thread[u].creator] = "running"
            \/ /\ thread[u].creator \in Threads
               /\ thread[thread[u].creator].at = "running"
               /\ thread[thread[u].creator].call = thread[u].call
        BY <1>7, <2>5, <3>2 DEF ThreadInv
      <4> QED BY <1>4, <1>7, <3>2, <4>1
    <3> QED BY <3>1, <3>2
  <2>6. \A d \in Clients : pc[d] = "reset" => \A u \in children[d] : thread'[u].at = "dead"
    BY <1>7, <2>1 DEF ThreadInv
  <2> QED BY <1>3, <2>2, <2>3, <2>4, <2>5, <2>6 DEF ThreadInv
<1> QED BY <1>8, <1>9, <1>10

\* A thread that has not run yet moves on or is given up.
LEMMA YoungThreadFact ==
  ASSUME ConnInv, NEW t \in Threads, thread[t].at \in {"queued", "starting"},
         thread' = [thread EXCEPT ![t] = NoThread] \/ thread' = [thread EXCEPT ![t].at = "starting"],
         UNCHANGED <<driver, loads, tornDown, registry, conn, owners, pc, using, starter, children, table, firm, shielded, fault>>
  PROVE  ConnInv'
<1> USE ConnectionAssumption DEF ConnInv
<1>1. NoThread \in ThreadObject /\ NoThread.at = "absent"
  BY DEF NoThread, ThreadObject
<1>2. /\ thread' \in [Threads -> ThreadObject] /\ \A u \in Threads : u # t => thread'[u] = thread[u]
      /\ \/ thread'[t].at = "absent"
         \/ thread'[t].at = "starting" /\ thread'[t].call = thread[t].call /\ thread'[t].creator = thread[t].creator
  <2>1. CASE thread' = [thread EXCEPT ![t] = NoThread]
    BY <1>1, <2>1 DEF TypeOK
  <2>2. CASE thread' = [thread EXCEPT ![t].at = "starting"]
    <3>1. thread[t] \in ThreadObject
      BY DEF TypeOK
    <3> QED BY <2>2, <3>1 DEF TypeOK, ThreadObject
  <2> QED BY <2>1, <2>2
<1>3. TypeOK'
  BY <1>2 DEF TypeOK
<1>4. ActorInv' /\ ExtInv' /\ CountInv' /\ HeldInv' /\ ShieldInv'
  BY ActorsSame
<1>5. ThreadInv'
  <2>1. \A d \in Clients : children[d] \subseteq Threads /\ t \notin children[d]
    BY DEF ThreadInv, TypeOK, Filament
  <2>2. ASSUME NEW u \in Threads, thread'[u].at \in {"queued", "starting", "running"}
        PROVE  thread'[u].call \in Clients /\ pc[thread'[u].call] \in InCall
    BY <1>2, <2>2 DEF ThreadInv
  <2>3. \A d \in Clients : \A u \in children[d] : thread'[u].call = d /\ thread'[u].at \in {"running", "dead"}
    BY <1>2, <2>1 DEF ThreadInv
  <2>4. \A u \in Threads : thread'[u].at = "running" => u \in children[thread'[u].call]
    BY <1>2 DEF ThreadInv
  <2>5. ASSUME NEW u \in Threads, thread'[u].at \in {"queued", "starting"}
        PROVE  \/ thread'[u].creator = thread'[u].call /\ pc[thread'[u].creator] = "running"
               \/ /\ thread'[u].creator \in Threads
                  /\ thread'[thread'[u].creator].at = "running"
                  /\ thread'[thread'[u].creator].call = thread'[u].call
    <3>1. thread[u].at \in {"queued", "starting"} /\ thread'[u].call = thread[u].call /\ thread'[u].creator = thread[u].creator
      BY <1>2, <2>5
    <3>2. \/ thread[u].creator = thread[u].call /\ pc[thread[u].creator] = "running"
          \/ /\ thread[u].creator \in Threads
             /\ thread[thread[u].creator].at = "running"
             /\ thread[thread[u].creator].call = thread[u].call
      BY <3>1 DEF ThreadInv
    <3>3. thread[u].creator \in Threads /\ thread[thread[u].creator].at = "running" => thread[u].creator # t
      OBVIOUS
    <3> QED BY <1>2, <3>1, <3>2, <3>3
  <2>6. \A d \in Clients : pc[d] = "reset" => \A u \in children[d] : thread'[u].at = "dead"
    BY <1>2, <2>1 DEF ThreadInv
  <2> QED BY <2>2, <2>3, <2>4, <2>5, <2>6 DEF ThreadInv
<1> QED BY <1>3, <1>4, <1>5

\* A thread registers itself unless its filament is full.
LEMMA ThreadStartStep ==
  ASSUME ConnInv, NEW t \in Threads, ThreadStart(t)
  PROVE  ConnInv'
<1> USE ConnectionAssumption DEF ConnInv
<1>0. PICK c : c = thread[t].call
  OBVIOUS
<1>1. /\ thread[t].at = "starting"
      /\ UNCHANGED <<driver, loads, tornDown, registry, conn, owners, pc, using, starter, firm, shielded, fault>>
  BY DEF ThreadStart, driverVars, connVars, history
<1>2. CASE Full(c)
  <2>1. thread' = [thread EXCEPT ![t] = NoThread] /\ UNCHANGED <<children, table>>
    BY <1>0, <1>2 DEF ThreadStart
  <2> QED BY <1>1, <2>1, YoungThreadFact
<1>3. CASE ~ Full(c)
  <2>1. /\ children' = [children EXCEPT ![c] = @ \cup {t}]
        /\ table' = [table EXCEPT ![using[c]] = @ \cup {t}]
        /\ thread' = [thread EXCEPT ![t].at = "running"]
    BY <1>0, <1>3 DEF ThreadStart
  <2>2. c \in Clients /\ pc[c] \in InCall
    BY <1>0, <1>1 DEF ThreadInv
  <2>3. /\ thread' \in [Threads -> ThreadObject] /\ \A u \in Threads : u # t => thread'[u] = thread[u]
        /\ thread'[t].at = "running" /\ thread'[t].call = c
    <3>1. thread[t] \in ThreadObject
      BY DEF TypeOK
    <3> QED BY <1>0, <2>1, <3>1 DEF TypeOK, ThreadObject
  <2>4. \A d \in Clients : children'[d] = IF d = c THEN children[d] \cup {t} ELSE children[d]
    BY <2>1 DEF TypeOK
  <2>5. TypeOK'
    <3>1. children' \in [Clients -> Filament]
      <4>1. children \in [Clients -> SUBSET Threads]
        BY DEF TypeOK, Filament
      <4> QED BY <2>1, <2>2, <4>1 DEF Filament
    <3>2. table' \in [Conns -> SUBSET (Clients \cup Threads)]
      <4>1. table \in [Conns -> SUBSET (Clients \cup Threads)] /\ t \in Clients \cup Threads
        BY DEF TypeOK
      <4> HIDE DEF ConnInv
      <4>2. table[using[c]] \cup {t} \in SUBSET (Clients \cup Threads) \/ using[c] \notin Conns
        BY <4>1
      <4> QED BY <2>1, <4>1, <4>2
    <3> QED BY <1>1, <2>3, <3>1, <3>2 DEF TypeOK
  <2>6. ActorInv' /\ ExtInv' /\ CountInv' /\ HeldInv' /\ ShieldInv'
    BY <1>1, ActorsSame
  <2>7. ThreadInv'
    <3>1. \A d \in Clients : children[d] \subseteq Threads /\ t \notin children[d]
      BY <1>1 DEF ThreadInv, TypeOK, Filament
    <3>2. ASSUME NEW u \in Threads, thread'[u].at \in {"queued", "starting", "running"}
          PROVE  thread'[u].call \in Clients /\ pc[thread'[u].call] \in InCall
      <4>1. CASE u = t
        BY <2>2, <2>3, <4>1
      <4>2. CASE u # t
        <5>1. thread'[u] = thread[u] /\ thread[u].at \in {"queued", "starting", "running"}
          BY <2>3, <3>2, <4>2
        <5> QED BY <5>1 DEF ThreadInv
      <4> QED BY <4>1, <4>2
    <3>3. ASSUME NEW d \in Clients, NEW u \in children'[d]
          PROVE  thread'[u].call = d /\ thread'[u].at \in {"running", "dead"}
      <4>1. CASE u = t
        <5>1. d = c
          BY <2>4, <3>1, <3>3, <4>1
        <5> QED BY <2>3, <4>1, <5>1
      <4>2. CASE u # t
        <5>1. u \in children[d]
          BY <2>4, <3>3, <4>2
        <5>2. thread[u].call = d /\ thread[u].at \in {"running", "dead"}
          BY <5>1 DEF ThreadInv
        <5>3. thread'[u] = thread[u]
          BY <2>3, <3>1, <4>2, <5>1
        <5> QED BY <5>2, <5>3
      <4> QED BY <4>1, <4>2
    <3>4. ASSUME NEW u \in Threads, thread'[u].at = "running"
          PROVE  u \in children'[thread'[u].call]
      <4>1. CASE u = t
        BY <2>2, <2>3, <2>4, <4>1
      <4>2. CASE u # t
        <5>1. thread'[u] = thread[u] /\ thread[u].at = "running"
          BY <2>3, <3>4, <4>2
        <5>2. thread[u].call \in Clients /\ u \in children[thread[u].call]
          BY <5>1 DEF ThreadInv
        <5>3. u \in children'[thread[u].call]
          BY <2>4, <5>2
        <5> QED BY <5>1, <5>3
      <4> QED BY <4>1, <4>2
    <3>5. ASSUME NEW u \in Threads, thread'[u].at \in {"queued", "starting"}
          PROVE  \/ thread'[u].creator = thread'[u].call /\ pc[thread'[u].creator] = "running"
                 \/ /\ thread'[u].creator \in Threads
                    /\ thread'[thread'[u].creator].at = "running"
                    /\ thread'[thread'[u].creator].call = thread'[u].call
      <4>1. u # t /\ thread'[u] = thread[u]
        BY <2>3, <3>5
      <4>2. \/ thread[u].creator = thread[u].call /\ pc[thread[u].creator] = "running"
            \/ /\ thread[u].creator \in Threads
               /\ thread[thread[u].creator].at = "running"
               /\ thread[thread[u].creator].call = thread[u].call
        BY <3>5, <4>1 DEF ThreadInv
      <4> QED BY <1>1, <2>3, <4>1, <4>2
    <3>6. ASSUME NEW d \in Clients, pc[d] = "reset", NEW u \in children'[d]
          PROVE  thread'[u].at = "dead"
      <4>1. d # c
        BY <2>2, <3>6 DEF InCall
      <4>2. u \in children[d]
        BY <2>4, <3>6, <4>1
      <4>3. thread[u].at = "dead"
        BY <3>6, <4>2 DEF ThreadInv
      <4>4. thread'[u] = thread[u]
        BY <2>3, <3>1, <4>2
      <4> QED BY <4>3, <4>4
    <3> QED BY <1>1, <3>2, <3>3, <3>4, <3>5, <3>6 DEF ThreadInv
  <2> QED BY <2>5, <2>6, <2>7
<1> QED BY <1>2, <1>3

\* A thread ends when no thread it has created is still starting, or its handle
\* is closed.
LEMMA OldThreadStep ==
  ASSUME ConnInv, NEW t \in Threads, ThreadEnd(t) \/ (\E x \in Clients \cup Threads : CloseHandle(x, t))
  PROVE  ConnInv'
<1> USE ConnectionAssumption DEF ConnInv
<1>1. /\ UNCHANGED <<driver, loads, tornDown, registry, conn, owners, pc, using, starter, children, firm, shielded, fault>>
      /\ table' = table \/ table' = [table EXCEPT ![using[thread[t].call]] = @ \ {t}]
      /\ thread[t].at \in {"running", "dead"}
  BY DEF ThreadEnd, CloseHandle, driverVars, connVars, history
<1>2. \/ thread' = [thread EXCEPT ![t].at = "dead"] /\ ~ Waiting(t)
      \/ thread' = [thread EXCEPT ![t].closed = TRUE]
  BY DEF ThreadEnd, CloseHandle
<1>3. thread[t] \in ThreadObject
  BY DEF TypeOK
<1>4. /\ thread' \in [Threads -> ThreadObject] /\ \A u \in Threads : u # t => thread'[u] = thread[u]
      /\ thread'[t].call = thread[t].call /\ thread'[t].creator = thread[t].creator
      /\ thread'[t].at = thread[t].at \/ (thread'[t].at = "dead" /\ ~ Waiting(t))
  <2>1. thread \in [Threads -> ThreadObject]
    BY DEF TypeOK
  <2> HIDE DEF ConnInv
  <2>2. CASE thread' = [thread EXCEPT ![t].at = "dead"] /\ ~ Waiting(t)
    BY <1>3, <2>1, <2>2 DEF ThreadObject
  <2>3. CASE thread' = [thread EXCEPT ![t].closed = TRUE]
    BY <1>3, <2>1, <2>3 DEF ThreadObject
  <2> QED BY <1>2, <2>2, <2>3
<1>5. TypeOK'
  <2>1. table' \in [Conns -> SUBSET (Clients \cup Threads)]
    BY <1>1 DEF TypeOK
  <2> QED BY <1>1, <1>4, <2>1 DEF TypeOK
<1>6. ActorInv' /\ ExtInv' /\ CountInv' /\ HeldInv' /\ ShieldInv'
  BY <1>1, ActorsSame
<1>7. ThreadInv'
  <2>1. \A d \in Clients : children[d] \subseteq Threads
    BY DEF TypeOK, Filament
  <2>2. ASSUME NEW u \in Threads, thread'[u].at \in {"queued", "starting", "running"}
        PROVE  /\ thread'[u].call \in Clients /\ pc[thread'[u].call] \in InCall
               /\ thread'[u].at = thread[u].at /\ thread'[u].call = thread[u].call
    BY <1>4, <2>2 DEF ThreadInv
  <2>3. \A d \in Clients : \A u \in children[d] : thread'[u].call = d /\ thread'[u].at \in {"running", "dead"}
    BY <1>1, <1>4, <2>1 DEF ThreadInv
  <2>4. \A u \in Threads : thread'[u].at = "running" => u \in children[thread'[u].call]
    BY <2>2 DEF ThreadInv
  <2>5. ASSUME NEW u \in Threads, thread'[u].at \in {"queued", "starting"}
        PROVE  \/ thread'[u].creator = thread'[u].call /\ pc[thread'[u].creator] = "running"
               \/ /\ thread'[u].creator \in Threads
                  /\ thread'[thread'[u].creator].at = "running"
                  /\ thread'[thread'[u].creator].call = thread'[u].call
    <3>1. u # t /\ thread'[u] = thread[u]
      BY <1>1, <1>4, <2>5
    <3>2. \/ thread[u].creator = thread[u].call /\ pc[thread[u].creator] = "running"
          \/ /\ thread[u].creator \in Threads
             /\ thread[thread[u].creator].at = "running"
             /\ thread[thread[u].creator].call = thread[u].call
      BY <2>5, <3>1 DEF ThreadInv
    <3>3. thread[u].creator = t => thread'[t].at = thread[t].at
      BY <1>4, <2>5, <3>1 DEF Waiting
    <3> QED BY <1>4, <3>1, <3>2, <3>3
  <2>6. \A d \in Clients : pc[d] = "reset" => \A u \in children[d] : thread'[u].at = "dead"
    BY <1>4, <2>1 DEF ThreadInv
  <2> QED BY <1>1, <2>2, <2>3, <2>4, <2>5, <2>6 DEF ThreadInv
<1> QED BY <1>5, <1>6, <1>7

\* The machine goes down: nothing but the fault is recorded.
LEMMA TouchSteps ==
  ASSUME ConnInv, ReadAdapter \/ TouchDriver \/ TouchConnection \/ TouchThread
  PROVE  ConnInv'
<1> USE ConnectionAssumption DEF ConnInv
<1>1. /\ UNCHANGED <<driver, loads, tornDown, registry, conn, owners, pc, using, starter, children, thread, table, firm, shielded>>
      /\ fault' \in {"image", "driver", "connection", "thread"}
  BY DEF ReadAdapter, TouchDriver, TouchConnection, TouchThread, driverVars, connVars, callVars, history
<1>2. TypeOK'
  BY <1>1 DEF TypeOK
<1>3. ActorInv' /\ ExtInv' /\ CountInv' /\ HeldInv' /\ ShieldInv'
  BY <1>1, ActorsSame
<1>4. ThreadInv'
  BY <1>1 DEF ThreadInv
<1> QED BY <1>2, <1>3, <1>4

-----------------------------------------------------------------------------
(***************************************************************************)
(* The invariant of the specification.                                     *)
(***************************************************************************)

\* Before the first load nobody works with a connection.
LEMMA ConnInit == Init => ConnInv
<1> SUFFICES ASSUME Init PROVE ConnInv
  OBVIOUS
<1> USE ConnectionAssumption DEF Init, InitializeDriverConnectionRegistry
<1>1. NoThread \in ThreadObject /\ NoThread.at = "absent"
  BY DEF NoThread, ThreadObject
<1>2. TypeOK
  <2>1. conn \in [Conns -> Connection]
    BY DEF Connection, Phase
  <2>2. thread \in [Threads -> ThreadObject]
    BY <1>1
  <2>3. pc \in [Actors -> ActorPc] /\ using \in [Actors -> 0 .. MaxLoads]
    BY DEF ActorPc
  <2>4. /\ owners \in [Conns -> SUBSET Clients] /\ table \in [Conns -> SUBSET (Clients \cup Threads)]
        /\ starter \in [Clients -> BOOLEAN] /\ children \in [Clients -> Filament]
    BY DEF Filament
  <2>5. loads \in 0 .. MaxLoads /\ registry \in 0 .. MaxLoads
    OBVIOUS
  <2>6. /\ tornDown \in BOOLEAN
        /\ driver \in {"absent", "loaded", "unloading"} /\ fault \in {"none", "image", "driver", "connection", "thread"}
        /\ firm \in SUBSET Clients /\ shielded \in SUBSET Clients
    OBVIOUS
  <2> QED BY <2>1, <2>2, <2>3, <2>4, <2>5, <2>6 DEF TypeOK
<1>3. /\ Unloader \in Actors /\ pc[Unloader] = "return" /\ using[Unloader] = 0
      /\ \A c \in Clients : c \in Actors /\ pc[c] = "start" /\ using[c] = 0 /\ ~ starter[c]
  BY DEF Actors
<1>4. ActorInv
  BY <1>3 DEF ActorInv, Actors, ClientPc, UnloaderPc, Outside
<1>5. \A n \in Conns : conn[n].refs = 0 /\ conn[n].ext = 0 /\ n # 0
  BY DEF Conns
<1>6. ExtInv
  BY <1>3, <1>5 DEF ExtInv
<1>7. CountInv
  <2>1. \A n \in Conns : Counted(n) = {}
    BY <1>3, <1>5 DEF Counted
  <2>2. \A n \in Conns : DriverRef(n) = 0
    BY <1>3, <1>5 DEF DriverRef
  <2>3. Cardinality({}) = 0
    BY FS_EmptySet
  <2> HIDE DEF Init
  <2> QED BY <1>5, <2>1, <2>2, <2>3 DEF CountInv
<1>8. HeldInv /\ ShieldInv
  BY <1>3 DEF HeldInv, ShieldInv, Actors, TearDown
<1>9. ThreadInv
  BY <1>1, <1>3 DEF ThreadInv
<1> QED BY <1>2, <1>4, <1>6, <1>7, <1>8, <1>9 DEF ConnInv

\* Every step of the clients, the driver, the reflector and the threads keeps
\* the invariant.
LEMMA ConnStep == ConnInv /\ [Next]_vars => ConnInv'
<1> SUFFICES ASSUME ConnInv, [Next]_vars PROVE ConnInv'
  OBVIOUS
<1>1. ASSUME NEW c \in Clients, ClientStep(c) PROVE ConnInv'
  BY <1>1, PlainSteps, SetFilamentStep, AcquireStep, ReleaseStep, JoinEndStep, ResetStep, LookupStep,
     StartStep, DeleteModuleStep DEF ClientStep
<1>2. ASSUME NEW a \in Actors, Dereference(a) PROVE ConnInv'
  BY <1>2, DereferenceStep, TearDownSteps DEF Dereference
<1>3. CASE WaitForCalls \/ ExternalDereference \/ DriverUnloaded \/ UnloadReflector
  BY <1>3, WaitStep, ExternalStep, UnloadSteps
<1>4. ASSUME NEW t \in Threads, ThreadStep(t) \/ NoMemoryForThread(t) PROVE ConnInv'
  <2>1. CASE WorkItemRoutine(t) \/ NoMemoryForThread(t)
    <3>1. /\ thread[t].at \in {"queued", "starting"}
          /\ thread' = [thread EXCEPT ![t] = NoThread] \/ thread' = [thread EXCEPT ![t].at = "starting"]
          /\ UNCHANGED <<driver, loads, tornDown, registry, conn, owners, pc, using, starter, children, table, firm, shielded, fault>>
      BY <2>1 DEF WorkItemRoutine, NoMemoryForThread, driverVars, connVars, history
    <3> QED BY <3>1, YoungThreadFact
  <2> QED BY <1>4, <2>1, ThreadStartStep, OldThreadStep DEF ThreadStep
<1>5. ASSUME NEW x \in Clients \cup Threads, NEW t \in Threads, CreateSystemThread(x, t) \/ CloseHandle(x, t)
      PROVE  ConnInv'
  BY <1>5, CreateThreadStep, OldThreadStep
<1>6. CASE ReadAdapter \/ TouchDriver \/ TouchConnection \/ TouchThread
  BY <1>6, TouchSteps
<1>7. CASE UNCHANGED vars
  <2>1. UNCHANGED <<driver, loads, tornDown, registry, conn, owners, pc, using, starter, children, thread, table, firm, shielded, fault>>
    BY <1>7 DEF vars, driverVars, connVars, callVars, history
  <2>2. ActorInv' /\ ExtInv' /\ CountInv' /\ HeldInv' /\ ShieldInv'
    BY <2>1, ActorsSame
  <2> QED BY <2>1, <2>2 DEF ConnInv, TypeOK, ThreadInv
<1> QED BY <1>1, <1>2, <1>3, <1>4, <1>5, <1>6, <1>7 DEF Next

\* The invariant holds for any finite number of clients, any set of threads and
\* any number of loads.
THEOREM ConnInvariance == Spec => []ConnInv
<1>1. Init => ConnInv
  BY ConnInit
<1>2. ConnInv /\ [Next]_vars => ConnInv'
  BY ConnStep
<1> QED BY <1>1, <1>2, PTL DEF Spec

-----------------------------------------------------------------------------
(***************************************************************************)
(* The properties.                                                         *)
(***************************************************************************)

\* CfixkrpDereferenceConnection: the count of a live connection is exactly the
\* number of IOCTLs that work with it plus the reference of the driver.
THEOREM RefsCountedHolds == Spec => []RefsCounted
<1>1. ConnInv => RefsCounted
  <2> SUFFICES ASSUME ConnInv, NEW n \in Conns, conn[n].phase = "live"
               PROVE  conn[n].refs = Cardinality({c \in Clients : using[c] = n}) + DriverRef(n)
    BY DEF RefsCounted, DriverRef
  <2>1. \A c \in Clients : using[c] = n => pc[c] \notin TearDown
    BY DEF ConnInv, HeldInv, Actors
  <2>2. Counted(n) = {c \in Clients : using[c] = n}
    BY <2>1 DEF Counted
  <2> QED BY <2>2 DEF ConnInv, CountInv
<1> QED BY <1>1, ConnInvariance, PTL

\* CfixkrpLookupDriverConnection: what an IOCTL looked up while it was live stays
\* live until the IOCTL dereferences it.
THEOREM HeldIsLiveHolds == Spec => []HeldIsLive
<1>1. ConnInv => HeldIsLive
  BY DEF ConnInv, HeldInv, HeldIsLive
<1> QED BY <1>1, ConnInvariance, PTL

\* CfixkrsAcquireDriverUnloadProtection: a routine that got the lock before the
\* driver released its reference keeps the driver in memory and referenced.
THEOREM ProtectedHolds == Spec => []Protected
<1>1. ConnInv => Protected
  <2> SUFFICES ASSUME ConnInv, NEW c \in shielded
               PROVE  ImagePresent(using[c]) /\ conn[using[c]].ext = 1
    BY DEF Protected
  <2>1. c \in Clients /\ pc[c] = "running" /\ conn[using[c]].ext = 1
    BY DEF ConnInv, ShieldInv, TypeOK
  <2>2. using[c] \in Conns
    BY <2>1, UsingFact DEF ConnInv, Outside
  <2>3. using[c] = loads /\ (driver = "loaded" \/ pc[Unloader] \in {"external", "queued"})
    BY <2>1, <2>2 DEF ConnInv, ExtInv
  <2>4. driver # "absent"
    BY <2>3 DEF ConnInv, ActorInv
  <2> QED BY <2>1, <2>3, <2>4 DEF ImagePresent
<1> QED BY <1>1, ConnInvariance, PTL

\* CfixkrpJoinChildThreadsFilament: no thread with a filament outlives the call
\* whose frame holds the filament.
THEOREM ChildrenJoinedHolds == Spec => []ChildrenJoined
<1>1. ConnInv => ChildrenJoined
  BY DEF ConnInv, ThreadInv, ChildrenJoined, InCall
<1> QED BY <1>1, ConnInvariance, PTL
==============================================================================
