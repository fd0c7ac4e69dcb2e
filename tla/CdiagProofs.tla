----------------------------- MODULE CdiagProofs -----------------------------
(***************************************************************************)
(* Proofs about cdiag: first the configuration store (ConfigStore), for    *)
(* any number of clients, callback contexts, settings and access modes;    *)
(* then the session and its objects (Diagnostics), for any number of       *)
(* threads, handlers, formatters, resolvers, event types and DLLs.         *)
(***************************************************************************)
EXTENDS Diagnostics, ConfigStore, FiniteSetTheorems, SequenceTheorems, WellFoundedInduction, TLAPS

StoreSpec == StoreInit /\ [][StoreNext]_storeVars

-----------------------------------------------------------------------------
(***************************************************************************)
(* The configuration store: the inductive invariant.                       *)
(***************************************************************************)

StoreRecord ==
    [live : BOOLEAN, mask : [Scopes -> SUBSET {"read", "write"}],
     event : {"null", "unset", "set", "closed"}, wait : {"null", "registered", "unregistering"},
     armed : SUBSET Scopes, callback : Contexts \cup {Nothing}, lock : {"worker", Nothing}]

\* The answer of a read is constrained by ReadsEffective only.
StoreTypeOK ==
    /\ registry \in [Scopes -> Values \cup {NoValue, NoGroup}]
    /\ store \in StoreRecord
    /\ worker \in [pc : {"idle", "entered", "calling", "rearm"}, context : Contexts \cup {Nothing}]
    /\ client \in [Clients -> {"idle", "reset", "deleting", "deleted"}]

\* The lock is held exactly while the callback runs; a store that is gone has
\* no wait that could still be satisfied.
WorkerInv ==
    /\ worker.pc = "calling" =>
          /\ store.lock = "worker" /\ store.live
          /\ worker.context # Nothing /\ worker.context = store.callback
    /\ worker.pc # "calling" => store.lock = Nothing /\ worker.context = Nothing
    /\ ~ store.live => worker.pc = "idle" /\ store.wait = "null"

StoreInv == StoreTypeOK /\ WorkerInv /\ ReadsEffective

-----------------------------------------------------------------------------
(***************************************************************************)
(* Lemmas about the operators.                                             *)
(***************************************************************************)

\* A store just created, and one that is gone.
LEMMA NoStoreFact ==
  /\ NoStore \in StoreRecord /\ ~ NoStore.live
  /\ NoStore.wait = "null" /\ NoStore.lock = Nothing /\ NoStore.callback = Nothing
BY DEF NoStore, StoreRecord

\* Signalling an event moves neither the callback nor the lock nor the wait.
LEMMA SignalledFact ==
  ASSUME StoreTypeOK, NEW s \in Scopes
  PROVE  /\ Signalled(s) \in StoreRecord
         /\ Signalled(s).live = store.live /\ Signalled(s).wait = store.wait
         /\ Signalled(s).lock = store.lock /\ Signalled(s).callback = store.callback
<1>1. store \in StoreRecord
  BY DEF StoreTypeOK
<1> QED BY <1>1 DEF Signalled, StoreRecord

\* Registering moves neither the lock nor the callback, whatever its outcome.
LEMMA RegisterFact ==
  ASSUME StoreTypeOK, NEW outcome \in Outcomes,
         NEW reg, reg = RegisterKeyChangeNotification(outcome)
  PROVE  /\ reg.store \in StoreRecord
         /\ reg.store.live = store.live /\ reg.store.lock = store.lock
         /\ reg.store.callback = store.callback
<1>1. store \in StoreRecord
  BY DEF StoreTypeOK
<1> DEFINE made == IF store.event = "null" THEN CreateNotificationEvent(outcome) ELSE store
           first == IF "machine" \in Keys THEN "machine" ELSE "user"
<1>2. /\ made \in StoreRecord /\ made.live = store.live
      /\ made.lock = store.lock /\ made.callback = store.callback
  BY <1>1 DEF CreateNotificationEvent, Outcomes, StoreRecord
<1>3. first \in Scopes
  BY DEF Scopes
<1>4. CASE store.wait = "registered"
  <2>1. reg = [store |-> store, ok |-> TRUE]
    BY <1>4 DEF RegisterKeyChangeNotification
  <2> QED BY <1>1, <2>1
<1>5. CASE store.wait # "registered" /\ made.wait = "registered" /\ outcome = "ok"
  <2>1. reg = [store |-> [made EXCEPT !.armed = @ \cup {first}], ok |-> TRUE]
    BY <1>5 DEF RegisterKeyChangeNotification
  <2> HIDE DEF made, first
  <2>2. reg.store = [made EXCEPT !.armed = @ \cup {first}]
    BY <2>1
  <2> QED BY <1>2, <1>3, <2>2 DEF StoreRecord
<1>6. CASE store.wait # "registered" /\ ~ (made.wait = "registered" /\ outcome = "ok")
  <2>1. reg = [store |-> made, ok |-> FALSE]
    BY <1>6 DEF RegisterKeyChangeNotification
  <2> HIDE DEF made
  <2> QED BY <1>2, <2>1
<1> QED BY <1>4, <1>5, <1>6

\* The reason of an outcome of a read in one scope.
Reason(hr, s, type, size) ==
    /\ hr = "ok" => registry[s] \in Values /\ registry[s].type = type /\ registry[s].length <= size
    /\ hr = "not_found" => registry[s] \notin Values
    /\ hr = "too_small" => registry[s] \in Values /\ registry[s].length > size
    /\ hr = "mismatch"  => registry[s] \in Values /\ registry[s].type # type
    /\ hr = "access_denied" => "read" \notin store.mask[s]
    /\ hr \in {"ok", "not_found", "too_small", "mismatch", "access_denied"}

\* What the outcome of a read in one scope says about the scope.
LEMMA SingleScopeFact ==
  ASSUME StoreTypeOK, NEW s \in Scopes, NEW type, NEW size \in Nat
  PROVE  Reason(ReadInSingleScope(s, type, size), s, type, size)
<1>0. registry[s] \in Values \cup {NoValue, NoGroup}
  BY DEF StoreTypeOK
<1>1. CASE store.mask[s] = {}
  BY <1>1 DEF ReadInSingleScope, Reason
<1>2. CASE store.mask[s] # {} /\ registry[s] = NoGroup
  BY <1>2, StoreAssumption DEF ReadInSingleScope, Reason
<1>3. CASE store.mask[s] # {} /\ registry[s] # NoGroup /\ "read" \notin store.mask[s]
  BY <1>3 DEF ReadInSingleScope, Reason
<1>4. CASE store.mask[s] # {} /\ registry[s] # NoGroup /\ "read" \in store.mask[s] /\ registry[s] = NoValue
  BY <1>4, StoreAssumption DEF ReadInSingleScope, Reason
<1>5. CASE store.mask[s] # {} /\ registry[s] # NoGroup /\ "read" \in store.mask[s] /\ registry[s] # NoValue
  <2>1. registry[s] \in Values
    BY <1>0, <1>5
  <2>2. registry[s].length \in Nat
    BY <2>1, StoreAssumption
  <2>3. CASE registry[s].length > size
    <3>0. ~ (registry[s].length <= size)
      BY <2>2, <2>3
    <3>1. ReadInSingleScope(s, type, size) = "too_small"
      BY <1>5, <2>3, <3>0 DEF ReadInSingleScope
    <3> QED BY <2>1, <2>3, <3>1 DEF Reason
  <2>4. CASE ~ (registry[s].length > size) /\ registry[s].type # type
    <3>0. registry[s].length <= size
      BY <2>2, <2>4
    <3>1. ReadInSingleScope(s, type, size) = "mismatch"
      BY <1>5, <2>4, <3>0 DEF ReadInSingleScope
    <3> QED BY <2>1, <2>4, <3>1 DEF Reason
  <2>5. CASE ~ (registry[s].length > size) /\ registry[s].type = type
    <3>0. registry[s].length <= size
      BY <2>2, <2>5
    <3>1. ReadInSingleScope(s, type, size) = "ok"
      BY <1>5, <2>5, <3>0 DEF ReadInSingleScope
    <3> QED BY <2>1, <2>5, <3>0, <3>1 DEF Reason
  <2> QED BY <2>3, <2>4, <2>5
<1> QED BY <1>1, <1>2, <1>3, <1>4, <1>5

\* Any step but a read forgets the last answer.
LEMMA NoAnswerFact ==
  ASSUME answer' = NoAnswer
  PROVE  ReadsEffective'
BY DEF NoAnswer, ReadsEffective

-----------------------------------------------------------------------------
(***************************************************************************)
(* The invariant is inductive.                                             *)
(***************************************************************************)

\* A store is created where there is none, so that no wait thread is about.
LEMMA CreateStoreStep ==
  ASSUME StoreInv, NEW c \in Clients, NEW mask \in AccessModes, CreateRegistryStore(c, mask)
  PROVE  StoreInv'
<1>1. /\ ~ store.live /\ store' = [NoStore EXCEPT !.live = TRUE, !.mask = mask]
      /\ answer' = NoAnswer /\ UNCHANGED <<registry, worker, client>>
  BY DEF CreateRegistryStore
<1>2. mask \in [Scopes -> SUBSET {"read", "write"}]
  BY StoreAssumption
<1>3. store' \in StoreRecord /\ store'.live /\ store'.lock = Nothing
  BY <1>1, <1>2, NoStoreFact DEF StoreRecord
<1>4. StoreTypeOK' /\ WorkerInv'
  BY <1>1, <1>3 DEF StoreInv, StoreTypeOK, WorkerInv
<1> QED BY <1>1, <1>4, NoAnswerFact DEF StoreInv

\* A read goes on to the machine scope only if the user's has no setting.
LEMMA ReadStep ==
  ASSUME StoreInv, NEW c \in Clients, NEW scopes \in (SUBSET Scopes) \ {{}}, NEW type, NEW size \in Nat,
         ReadSetting(c, scopes, type, size)
  PROVE  StoreInv'
<1> DEFINE user == ReadInSingleScope("user", type, size)
           machine == ReadInSingleScope("machine", type, size)
           read == ReadFrom(scopes, type, size)
           hr == IF type = "dword" /\ read.hr = "too_small" THEN "mismatch" ELSE read.hr
<1>1. UNCHANGED <<registry, store, worker, client>>
  BY DEF ReadSetting
<1>2. answer' = [hr |-> hr, scopes |-> scopes, type |-> type, size |-> size,
                 value |-> IF hr = "ok" THEN registry[read.from] ELSE Nothing]
  BY DEF ReadSetting
<1>3. Reason(user, "user", type, size) /\ Reason(machine, "machine", type, size)
  BY SingleScopeFact DEF StoreInv, Scopes
<1>4. \/ "user" \in scopes /\ read = [hr |-> user, from |-> "user"]
         /\ (user # "not_found" \/ "machine" \notin scopes)
      \/ "machine" \in scopes /\ read = [hr |-> machine, from |-> "machine"]
         /\ ("user" \in scopes => user = "not_found")
  <2>1. CASE "user" \in scopes /\ (user # "not_found" \/ "machine" \notin scopes)
    BY <2>1 DEF ReadFrom
  <2>2. CASE ~ ("user" \in scopes /\ (user # "not_found" \/ "machine" \notin scopes))
    <3>1. read = [hr |-> machine, from |-> "machine"]
      BY <2>2 DEF ReadFrom
    <3>2. "machine" \in scopes
      BY <2>2 DEF Scopes
    <3> QED BY <2>2, <3>1, <3>2
  <2> QED BY <2>1, <2>2
<1>h. hr = read.hr \/ (read.hr = "too_small" /\ hr = "mismatch")
  OBVIOUS
<1> HIDE DEF user, machine, read, hr
<1>5. /\ answer'.hr = hr /\ answer'.scopes = scopes /\ answer'.type = type /\ answer'.size = size
      /\ answer'.value = IF hr = "ok" THEN registry[read.from] ELSE Nothing
      /\ hr = read.hr \/ (read.hr = "too_small" /\ hr = "mismatch")
  BY <1>2, <1>h
<1>6. \A s \in scopes : s \in {"user", "machine"}
  BY DEF Scopes
<1> DEFINE set == {s \in scopes : registry[s] \in Values}
           found == IF "user" \in set THEN registry["user"] ELSE registry["machine"]
<1>7. ReadsEffective'
  <2>1. CASE /\ "user" \in scopes /\ read = [hr |-> user, from |-> "user"]
             /\ user # "not_found" \/ "machine" \notin scopes
    <3>1. read.hr = user /\ read.from = "user"
      BY <2>1
    <3> QED BY <1>1, <1>3, <1>5, <1>6, <2>1, <3>1 DEF ReadsEffective, Reason
  <2>2. CASE /\ "machine" \in scopes /\ read = [hr |-> machine, from |-> "machine"]
             /\ "user" \in scopes => user = "not_found"
    <3>1. read.hr = machine /\ read.from = "machine"
      BY <2>2
    <3>2. "user" \notin set
      BY <1>3, <2>2 DEF Reason
    <3>3. found = registry["machine"]
      BY <3>2
    <3> QED BY <1>1, <1>3, <1>5, <1>6, <2>2, <3>1, <3>2, <3>3 DEF ReadsEffective, Reason
  <2> QED BY <1>4, <2>1, <2>2
<1>8. StoreTypeOK' /\ WorkerInv'
  BY <1>1 DEF StoreInv, StoreTypeOK, WorkerInv
<1> QED BY <1>7, <1>8 DEF StoreInv

\* Whoever writes the setting only signals the event.
LEMMA WriteStep ==
  ASSUME StoreInv, NEW s \in Scopes, NEW v \in Values \cup {NoValue},
         registry' = [registry EXCEPT ![s] = v], store' = Signalled(s),
         answer' = NoAnswer, UNCHANGED <<worker, client>>
  PROVE  StoreInv'
<1>1. registry' \in [Scopes -> Values \cup {NoValue, NoGroup}]
  BY DEF StoreInv, StoreTypeOK
<1>2. StoreTypeOK' /\ WorkerInv'
  BY <1>1, SignalledFact DEF StoreInv, StoreTypeOK, WorkerInv
<1> QED BY <1>2, NoAnswerFact DEF StoreInv

\* Registering and unregistering take the lock, so that no callback runs.
LEMMA RegisterStep ==
  ASSUME StoreInv, NEW c \in Clients, NEW x \in Contexts, NEW outcome \in Outcomes,
         RegisterUpdateCallback(c, x, outcome)
  PROVE  StoreInv'
<1>1. /\ store.live /\ store.lock = Nothing /\ client' = [client EXCEPT ![c] = "reset"]
      /\ answer' = NoAnswer /\ UNCHANGED <<registry, worker>>
  BY DEF RegisterUpdateCallback
<1>2. PICK reg :
         /\ reg = RegisterKeyChangeNotification(outcome)
         /\ store' = IF reg.ok THEN [reg.store EXCEPT !.callback = x] ELSE reg.store
  BY DEF RegisterUpdateCallback
<1>3. /\ reg.store \in StoreRecord
      /\ reg.store.live = store.live /\ reg.store.lock = store.lock
  BY <1>2, RegisterFact DEF StoreInv
<1>4. PICK t : t = reg.store
  OBVIOUS
<1>5. store' \in {[t EXCEPT !.callback = x], t} /\ t \in StoreRecord /\ t.live = store.live /\ t.lock = store.lock
  BY <1>2, <1>3, <1>4
<1>6. store' \in StoreRecord /\ store'.live = store.live /\ store'.lock = store.lock
  BY <1>5 DEF StoreRecord
<1>7. worker.pc # "calling"
  BY <1>1, StoreAssumption DEF StoreInv, WorkerInv
<1>8. StoreTypeOK' /\ WorkerInv'
  BY <1>1, <1>6, <1>7 DEF StoreInv, StoreTypeOK, WorkerInv
<1> QED BY <1>1, <1>8, NoAnswerFact DEF StoreInv

\* No callback runs when the registration is withdrawn.
LEMMA UnregisterStep ==
  ASSUME StoreInv, NEW c \in Clients, UnregisterUpdateCallback(c)
  PROVE  StoreInv'
<1>1. /\ store.live /\ store.lock = Nothing /\ client' = [client EXCEPT ![c] = "reset"]
      /\ store' = [store EXCEPT !.callback = Nothing]
      /\ answer' = NoAnswer /\ UNCHANGED <<registry, worker>>
  BY DEF UnregisterUpdateCallback
<1>2. store' \in StoreRecord /\ store'.live = store.live /\ store'.lock = store.lock
  BY <1>1 DEF StoreInv, StoreTypeOK, StoreRecord
<1>3. worker.pc # "calling"
  BY <1>1, StoreAssumption DEF StoreInv, WorkerInv
<1>4. StoreTypeOK' /\ WorkerInv'
  BY <1>1, <1>2, <1>3 DEF StoreInv, StoreTypeOK, WorkerInv
<1> QED BY <1>1, <1>4, NoAnswerFact DEF StoreInv

\* Steps that change the event, the armed keys or a registered wait only.
LEMMA EventStep ==
  ASSUME StoreInv, NEW e \in {"null", "unset", "set", "closed"}, NEW a \in SUBSET Scopes,
         NEW w \in {"null", "registered", "unregistering"}, store.wait = "null" => w = "null",
         store' = [store EXCEPT !.event = e, !.armed = a, !.wait = w],
         client' \in [Clients -> {"idle", "reset", "deleting", "deleted"}],
         worker' = worker \/ (worker.pc = "rearm" /\ worker' = Resting),
         answer' = NoAnswer, UNCHANGED registry
  PROVE  StoreInv'
<1>1. /\ store' \in StoreRecord /\ store'.live = store.live /\ store'.lock = store.lock
      /\ store'.callback = store.callback /\ store'.wait = w
  BY DEF StoreInv, StoreTypeOK, StoreRecord
<1>2. Resting \in [pc : {"idle"}, context : {Nothing}] /\ Resting.pc = "idle" /\ Resting.context = Nothing
  BY DEF Resting
<1>3. StoreTypeOK'
  BY <1>1, <1>2 DEF StoreInv, StoreTypeOK
<1>4. WorkerInv'
  BY <1>1, <1>2 DEF StoreInv, StoreTypeOK, WorkerInv
<1> QED BY <1>3, <1>4, NoAnswerFact DEF StoreInv

\* ResetEvent, DeleteStore and arming the notifications are such steps.
LEMMA EventSteps ==
  ASSUME StoreInv,
         (\E c \in Clients : ResetNotification(c) \/ DeleteStore(c)) \/ RearmNotifications
  PROVE  StoreInv'
<1>1. store \in StoreRecord
  BY DEF StoreInv, StoreTypeOK
<1>2. ASSUME NEW c \in Clients, ResetNotification(c)
      PROVE  StoreInv'
  <2>1. store' = [store EXCEPT !.event = IF store.event = "set" THEN "unset" ELSE store.event,
                               !.armed = store.armed, !.wait = store.wait]
    BY <1>1, <1>2 DEF ResetNotification, StoreRecord
  <2>2. client' \in [Clients -> {"idle", "reset", "deleting", "deleted"}]
    BY <1>2 DEF ResetNotification, StoreInv, StoreTypeOK
  <2>3. answer' = NoAnswer /\ UNCHANGED <<registry, worker>>
    BY <1>2 DEF ResetNotification
  <2> QED BY <1>1, <2>1, <2>2, <2>3, EventStep DEF StoreRecord
<1>3. ASSUME NEW c \in Clients, DeleteStore(c)
      PROVE  StoreInv'
  <2>1. store' = [store EXCEPT !.event = store.event, !.armed = store.armed,
                               !.wait = IF store.wait = "registered" THEN "unregistering" ELSE store.wait]
    BY <1>1, <1>3 DEF DeleteStore, StoreRecord
  <2>2. client' \in [Clients -> {"idle", "reset", "deleting", "deleted"}]
    BY <1>3 DEF DeleteStore, StoreInv, StoreTypeOK
  <2>3. answer' = NoAnswer /\ UNCHANGED <<registry, worker>>
    BY <1>3 DEF DeleteStore
  <2> QED BY <1>1, <2>1, <2>2, <2>3, EventStep DEF StoreRecord
<1>4. CASE RearmNotifications
  <2>1. PICK cleared \in BOOLEAN :
           store' = [store EXCEPT !.armed = Keys, !.event = IF cleared /\ @ = "set" THEN "unset" ELSE @]
    BY <1>4 DEF RearmNotifications
  <2>2. PICK e \in {"null", "unset", "set", "closed"} : e = IF cleared /\ store.event = "set" THEN "unset" ELSE store.event
    BY <1>1 DEF StoreRecord
  <2>3. store' = [store EXCEPT !.event = e, !.armed = Keys, !.wait = store.wait]
    BY <1>1, <2>1, <2>2 DEF StoreRecord
  <2>4. Keys \in SUBSET Scopes
    BY DEF Keys
  <2>5. answer' = NoAnswer /\ UNCHANGED <<registry, client>> /\ worker.pc = "rearm" /\ worker' = Resting
    BY <1>4 DEF RearmNotifications
  <2>6. client' \in [Clients -> {"idle", "reset", "deleting", "deleted"}]
    BY <2>5 DEF StoreInv, StoreTypeOK
  <2> QED BY <1>1, <2>3, <2>4, <2>5, <2>6, EventStep DEF StoreRecord
<1> QED BY <1>2, <1>3, <1>4

\* The wait thread enters while there is a wait, and so while the store lives.
LEMMA SatisfiedStep ==
  ASSUME StoreInv, WaitSatisfied
  PROVE  StoreInv'
<1>1. /\ store.wait = "registered" /\ worker = Resting /\ worker' = [worker EXCEPT !.pc = "entered"]
      /\ answer' = NoAnswer /\ UNCHANGED <<registry, store, client>>
  BY DEF WaitSatisfied
<1>2. worker' = [pc |-> "entered", context |-> Nothing] /\ worker.pc = "idle"
  BY <1>1 DEF Resting
<1>3. store.live
  BY <1>1 DEF StoreInv, WorkerInv
<1>4. StoreTypeOK' /\ WorkerInv'
  BY <1>1, <1>2, <1>3 DEF StoreInv, StoreTypeOK, WorkerInv
<1> QED BY <1>1, <1>4, NoAnswerFact DEF StoreInv

\* The lock is taken, the callback looked up and called under it.
LEMMA CallStep ==
  ASSUME StoreInv, CallUpdateCallback
  PROVE  StoreInv'
<1>1. /\ worker.pc = "entered" /\ store.lock = Nothing
      /\ answer' = NoAnswer /\ UNCHANGED <<registry, client>> /\ store.live
  BY DEF CallUpdateCallback, StoreInv, WorkerInv
<1>2. CASE store.callback = Nothing
  <2>1. worker' = [worker EXCEPT !.pc = "rearm"] /\ store' = store
    BY <1>2 DEF CallUpdateCallback
  <2>2. StoreTypeOK' /\ WorkerInv'
    BY <1>1, <2>1 DEF StoreInv, StoreTypeOK, WorkerInv
  <2> QED BY <1>1, <2>2, NoAnswerFact DEF StoreInv
<1>3. CASE store.callback # Nothing
  <2>1. worker' = [pc |-> "calling", context |-> store.callback] /\ store' = [store EXCEPT !.lock = "worker"]
    BY <1>3 DEF CallUpdateCallback
  <2>2. /\ store' \in StoreRecord /\ store'.live = store.live /\ store'.lock = "worker"
        /\ store'.callback = store.callback /\ store.callback \in Contexts \cup {Nothing}
    BY <2>1 DEF StoreInv, StoreTypeOK, StoreRecord
  <2>3. worker'.pc = "calling" /\ worker'.context = store.callback
    BY <2>1
  <2>4. StoreTypeOK' /\ WorkerInv'
    BY <1>1, <1>3, <2>1, <2>2, <2>3 DEF StoreInv, StoreTypeOK, WorkerInv
  <2> QED BY <1>1, <2>4, NoAnswerFact DEF StoreInv
<1> QED BY <1>2, <1>3

\* The callback returns and the lock is left.
LEMMA CallReturnsStep ==
  ASSUME StoreInv, UpdateCallbackReturns
  PROVE  StoreInv'
<1>1. /\ worker.pc = "calling" /\ worker' = [pc |-> "rearm", context |-> Nothing]
      /\ store' = [store EXCEPT !.lock = Nothing]
      /\ answer' = NoAnswer /\ UNCHANGED <<registry, client>>
  BY DEF UpdateCallbackReturns
<1>2. store' \in StoreRecord /\ store'.live = store.live /\ store'.lock = Nothing
  BY <1>1 DEF StoreInv, StoreTypeOK, StoreRecord
<1>3. StoreTypeOK' /\ WorkerInv'
  BY <1>1, <1>2 DEF StoreInv, StoreTypeOK, WorkerInv
<1> QED BY <1>1, <1>3, NoAnswerFact DEF StoreInv

\* UnregisterWaitEx has waited for the callbacks when the store is freed.
LEMMA CloseStep ==
  ASSUME StoreInv, NEW c \in Clients, CloseStore(c)
  PROVE  StoreInv'
<1>1. /\ worker = Resting /\ client' = [client EXCEPT ![c] = "deleted"]
      /\ answer' = NoAnswer /\ UNCHANGED <<registry, worker>>
      /\ store' \in {[NoStore EXCEPT !.event = "closed"], NoStore}
  BY DEF CloseStore, CallbacksCompleted
<1>2. store' \in StoreRecord /\ ~ store'.live /\ store'.wait = "null" /\ store'.lock = Nothing
  BY <1>1, NoStoreFact DEF StoreRecord
<1>3. worker.pc = "idle" /\ worker.context = Nothing
  BY <1>1 DEF Resting
<1>4. StoreTypeOK' /\ WorkerInv'
  BY <1>1, <1>2, <1>3 DEF StoreInv, StoreTypeOK, WorkerInv
<1> QED BY <1>1, <1>4, NoAnswerFact DEF StoreInv

\* The invariant holds in every state.
LEMMA StoreInvariance == StoreSpec => []StoreInv
<1>1. StoreInit => StoreInv
  <2> SUFFICES ASSUME StoreInit
               PROVE  StoreInv
    OBVIOUS
  <2>1. Resting.pc = "idle" /\ Resting.context = Nothing
        /\ Resting \in [pc : {"idle"}, context : {Nothing}]
    BY DEF Resting
  <2>2. StoreTypeOK /\ WorkerInv
    BY <2>1, NoStoreFact DEF StoreInit, StoreTypeOK, WorkerInv
  <2>3. ReadsEffective
    BY DEF StoreInit, NoAnswer, ReadsEffective
  <2> QED BY <2>2, <2>3 DEF StoreInv
<1>2. StoreInv /\ [StoreNext]_storeVars => StoreInv'
  <2> SUFFICES ASSUME StoreInv, [StoreNext]_storeVars
               PROVE  StoreInv'
    OBVIOUS
  <2>1. ASSUME NEW c \in Clients, \E mask \in AccessModes : CreateRegistryStore(c, mask)
        PROVE  StoreInv'
    BY <2>1, CreateStoreStep
  <2>2. ASSUME NEW c \in Clients,
               \E scopes \in (SUBSET Scopes) \ {{}}, v \in Values, size \in 1 .. 2 : ReadSetting(c, scopes, v.type, size)
        PROVE  StoreInv'
    BY <2>2, ReadStep
  <2>3. ASSUME NEW c \in Clients, NEW s \in Scopes, DeleteSetting(c, s) \/ \E v \in Values : WriteSetting(c, s, v)
        PROVE  StoreInv'
    BY <2>3, WriteStep DEF WriteSetting, DeleteSetting
  <2>4. ASSUME NEW s \in Scopes, NEW v \in Values, OtherWriter(s, v)
        PROVE  StoreInv'
    BY <2>4, WriteStep DEF OtherWriter
  <2>5. ASSUME NEW c \in Clients, \E x \in Contexts, outcome \in Outcomes : RegisterUpdateCallback(c, x, outcome)
        PROVE  StoreInv'
    BY <2>5, RegisterStep
  <2>6. ASSUME NEW c \in Clients, UnregisterUpdateCallback(c) \/ ResetNotification(c) \/ DeleteStore(c) \/ CloseStore(c)
        PROVE  StoreInv'
    BY <2>6, UnregisterStep, EventSteps, CloseStep
  <2>7. CASE WaitSatisfied \/ CallUpdateCallback \/ UpdateCallbackReturns \/ RearmNotifications
    BY <2>7, SatisfiedStep, CallStep, CallReturnsStep, EventSteps
  <2>8. CASE UNCHANGED storeVars
    BY <2>8 DEF storeVars, StoreInv, StoreTypeOK, WorkerInv, ReadsEffective
  <2> QED BY <2>1, <2>2, <2>3, <2>4, <2>5, <2>6, <2>7, <2>8 DEF StoreNext
<1> QED BY <1>1, <1>2, PTL DEF StoreSpec

-----------------------------------------------------------------------------
(***************************************************************************)
(* Theorems.                                                               *)
(***************************************************************************)

\* The update callback runs with the context registered at that moment only,
\* and never on a store that has been deleted.
THEOREM CallbackWhileRegisteredHolds == StoreSpec => []CallbackWhileRegistered
<1>1. StoreInv => CallbackWhileRegistered
  <2> SUFFICES ASSUME StoreInv
               PROVE  CallbackWhileRegistered
    OBVIOUS
  <2>1. worker.pc = "idle" => worker = Resting
    BY DEF StoreInv, StoreTypeOK, WorkerInv, Resting
  <2> QED BY <2>1 DEF StoreInv, WorkerInv, CallbackWhileRegistered
<1> QED BY <1>1, StoreInvariance, PTL

\* Every answer of a read has its reason in the registry or the rights of the
\* store, and a setting that is returned is the user's where there is one.
THEOREM ReadsEffectiveHolds == StoreSpec => []ReadsEffective
<1>1. StoreInv => ReadsEffective
  BY DEF StoreInv
<1> QED BY <1>1, StoreInvariance, PTL

-----------------------------------------------------------------------------
DiagSpec == DiagInit /\ [][DiagNext]_diagVars

-----------------------------------------------------------------------------
(***************************************************************************)
(* The objects of cdiag: the inductive invariant.  References are counted  *)
(* in two parts, those of other objects of the heap and the outer ones of  *)
(* the client, the session and calls under way.                            *)
(***************************************************************************)

One(condition) == IF condition THEN 1 ELSE 0

Dlls == {[name |-> m, module |-> m] : m \in Modules}

HeapOf(refs, formatterOf, resolverOf, dlls, loads, fresh) ==
    [refs |-> refs, formatterOf |-> formatterOf, resolverOf |-> resolverOf, dlls |-> dlls,
     loads |-> loads, fresh |-> fresh]

HeapShape(h) ==
    /\ h = HeapOf(h.refs, h.formatterOf, h.resolverOf, h.dlls, h.loads, h.fresh)
    /\ h.refs \in [Objects -> Int]
    /\ h.formatterOf \in [Handlers -> Formatters \cup {None}]
    /\ h.resolverOf \in [Formatters -> Resolvers \cup {None}]
    /\ h.dlls \in [Resolvers -> Seq(Dlls)]
    /\ h.loads \in [Modules -> Int]
    /\ h.fresh \subseteq Objects

\* The objects of the heap that refer to an object.
HandlersOf(h, o)   == {x \in Handlers : h.formatterOf[x] = o}
FormattersOf(h, o) == {f \in Formatters : h.resolverOf[f] = o}
Inner(h, o)        == Cardinality(HandlersOf(h, o)) + Cardinality(FormattersOf(h, o))

\* Where a message DLL is registered.
Registered(dlls, r, m) == {i \in DOMAIN dlls[r] : dlls[r][i].module = m}
DllPlaces(dlls, m)     == UNION {{r} \X Registered(dlls, r, m) : r \in Resolvers}

RefsExact(h, outer) == \A o \in Objects : h.refs[o] = outer[o] + Inner(h, o)

\* What was never allocated is referred to by nobody and refers to nothing.
FreshInv(h) ==
    \A o \in h.fresh : /\ h.refs[o] = 0
                       /\ o \in Handlers => h.formatterOf[o] = None
                       /\ o \in Formatters => h.resolverOf[o] = None

\* Loaded for every registration and for every one under way.
Loaded(loads, dlls, pending) == \A m \in Modules : loads[m] = Cardinality(DllPlaces(dlls, m)) + pending[m]
LoadsExact(h, pending)       == Loaded(h.loads, h.dlls, pending)

Exact(h, outer, pending) ==
    /\ HeapShape(h) /\ outer \in [Objects -> Nat] /\ pending \in [Modules -> Nat]
    /\ RefsExact(h, outer) /\ FreshInv(h) /\ LoadsExact(h, pending)

\* The outer references.
Tabled(s, o)  == {t \in Types : s.table[t] = o}
Handling(c, o) == {t \in Threads : c[t].op \in {"handle", "filtered"} /\ c[t].object = o}
Loading(c, m)  == {t \in Threads : c[t].op = "register" /\ c[t].module = m}

Outer(s, w, c) ==
    [o \in Objects |->
       w[o] + Cardinality(Tabled(s, o)) + One(s.default = o) + One(s.formatter = o)
       + One(s.resolver = o) + Cardinality(Handling(c, o))]

Pending(c) == [m \in Modules |-> Cardinality(Loading(c, m))]

\* What a call under way refers to.
Held(x) == IF x.op \in {"handle", "filtered"} THEN x.object ELSE None

SessionOf(default, table, filter, formatter, resolver) ==
    [default |-> default, table |-> table, filter |-> filter, formatter |-> formatter, resolver |-> resolver]

SessionType(s) ==
    /\ s = SessionOf(s.default, s.table, s.filter, s.formatter, s.resolver)
    /\ s.default \in Handlers \cup {None} /\ s.table \in [Types -> Handlers \cup {None}]
    /\ s.formatter \in Formatters \cup {None} /\ s.resolver \in Resolvers \cup {None}

\* A session has a formatter and a resolver.
SessionInv(s) == SessionType(s) /\ (s = NoSession \/ (s.formatter # None /\ s.resolver # None))

CallInv(x) ==
    /\ x.op \in {"handle", "filtered"} => x.object \in Handlers
    /\ x.op = "register" => x.object \in Resolvers /\ x.module \in Modules /\ x.name = x.module

CallsInv(c) == c = [t \in Threads |-> c[t]] /\ \A t \in Threads : CallInv(c[t])

\* A session that is owned exists, one never created does not.
OwnerInv ==
    /\ owned["session"] > 0 => session # NoSession
    /\ "session" \in heap.fresh => session = NoSession

DiagInv ==
    /\ Exact(heap, Outer(session, owned, call), Pending(call))
    /\ SessionInv(session) /\ owned \in [Objects -> Nat] /\ CallsInv(call) /\ OwnerInv

-----------------------------------------------------------------------------
(***************************************************************************)
(* Counting.                                                               *)
(***************************************************************************)

\* Two sets that differ in x at most.
LEMMA CountFact ==
  ASSUME NEW S, IsFiniteSet(S), NEW A, A \subseteq S, NEW B, B \subseteq S, NEW x,
         \A y \in S : y # x => (y \in A <=> y \in B)
  PROVE  /\ Cardinality(A) \in Nat /\ Cardinality(B) \in Nat
         /\ Cardinality(B) = Cardinality(A) - One(x \in A) + One(x \in B)
<1>1. IsFiniteSet(A) /\ IsFiniteSet(B)
  BY FS_Subset
<1>2. Cardinality(A) \in Nat /\ Cardinality(B) \in Nat
  BY <1>1, FS_CardinalityType
<1>3. CASE (x \in A) <=> (x \in B)
  <2>1. A = B
    BY <1>3
  <2> QED BY <1>2, <2>1 DEF One
<1>4. CASE x \in A /\ x \notin B
  <2>1. B = A \ {x}
    BY <1>4
  <2>2. Cardinality(A \ {x}) = Cardinality(A) - 1
    BY <1>1, <1>4, FS_RemoveElement
  <2> QED BY <1>2, <1>4, <2>1, <2>2 DEF One
<1>5. CASE x \notin A /\ x \in B
  <2>1. A = B \ {x}
    BY <1>5
  <2>2. Cardinality(B \ {x}) = Cardinality(B) - 1
    BY <1>1, <1>5, FS_RemoveElement
  <2> QED BY <1>2, <1>5, <2>1, <2>2 DEF One
<1> QED BY <1>3, <1>4, <1>5

\* The fields of a heap.
LEMMA FieldsFact ==
  ASSUME NEW refs, NEW formatterOf, NEW resolverOf, NEW dlls, NEW loads, NEW fresh,
         NEW g, g = HeapOf(refs, formatterOf, resolverOf, dlls, loads, fresh)
  PROVE  /\ g.refs = refs /\ g.formatterOf = formatterOf /\ g.resolverOf = resolverOf
         /\ g.dlls = dlls /\ g.loads = loads /\ g.fresh = fresh
         /\ g = HeapOf(g.refs, g.formatterOf, g.resolverOf, g.dlls, g.loads, g.fresh)
BY DEF HeapOf

\* The finite sets of the instance.
LEMMA FiniteSets ==
  /\ IsFiniteSet(Handlers) /\ IsFiniteSet(Formatters) /\ IsFiniteSet(Resolvers)
  /\ IsFiniteSet(Types) /\ IsFiniteSet(Threads)
BY DiagAssumption

\* The objects of the heap that refer to one are finite in number.
LEMMA InnerType ==
  ASSUME NEW h, NEW o
  PROVE  /\ Cardinality(HandlersOf(h, o)) \in Nat /\ Cardinality(FormattersOf(h, o)) \in Nat
         /\ Inner(h, o) \in Nat
<1>1. HandlersOf(h, o) \subseteq Handlers /\ FormattersOf(h, o) \subseteq Formatters
  BY DEF HandlersOf, FormattersOf
<1>2. IsFiniteSet(HandlersOf(h, o)) /\ IsFiniteSet(FormattersOf(h, o))
  BY <1>1, FiniteSets, FS_Subset
<1>3. Cardinality(HandlersOf(h, o)) \in Nat /\ Cardinality(FormattersOf(h, o)) \in Nat
  BY <1>2, FS_CardinalityType
<1> QED BY <1>3 DEF Inner

\* Outer references that come and go.
Shift(outer, o, d) == [outer EXCEPT ![o] = @ + d]

\* Shift adds d at o.
LEMMA ShiftFact ==
  ASSUME NEW S, NEW outer \in [S -> Nat], NEW o \in S, NEW d \in Int, outer[o] + d >= 0
  PROVE  /\ Shift(outer, o, d) \in [S -> Nat]
         /\ \A p \in S : Shift(outer, o, d)[p] = outer[p] + (IF p = o THEN d ELSE 0)
BY DEF Shift

\* What is referred to from outside is allocated.
LEMMA UsedFact ==
  ASSUME NEW h, NEW outer, NEW pending, Exact(h, outer, pending), NEW o \in Objects, outer[o] > 0
  PROVE  h.refs[o] > 0 /\ o \notin h.fresh
<1>1. outer[o] \in Nat /\ h.refs[o] = outer[o] + Inner(h, o) /\ Inner(h, o) \in Nat
  BY InnerType DEF Exact, RefsExact
<1>2. o \in h.fresh => h.refs[o] = 0
  BY DEF Exact, FreshInv
<1> QED BY <1>1, <1>2

-----------------------------------------------------------------------------
(***************************************************************************)
(* References on the heap.                                                 *)
(***************************************************************************)

\* g is h with other counts.
Recounted(g, h, refs, fresh) == g = HeapOf(refs, h.formatterOf, h.resolverOf, h.dlls, h.loads, fresh)

\* A heap that differs in counts only.
LEMMA RecountFact ==
  ASSUME NEW h, NEW outer, NEW pending, Exact(h, outer, pending),
         NEW refs \in [Objects -> Int], NEW o \in Objects, NEW d \in Int, outer[o] + d >= 0,
         \A p \in Objects : refs[p] = h.refs[p] + (IF p = o THEN d ELSE 0),
         NEW fresh, fresh \subseteq h.fresh, o \notin fresh, NEW g, Recounted(g, h, refs, fresh)
  PROVE  Exact(g, Shift(outer, o, d), pending) /\ g.fresh = fresh
<1> DEFINE next == Shift(outer, o, d)
<1>0. /\ HeapShape(h) /\ outer \in [Objects -> Nat] /\ pending \in [Modules -> Nat]
      /\ RefsExact(h, outer) /\ FreshInv(h) /\ LoadsExact(h, pending)
  BY DEF Exact
<1>1. /\ g.refs = refs /\ g.formatterOf = h.formatterOf /\ g.resolverOf = h.resolverOf
      /\ g.dlls = h.dlls /\ g.loads = h.loads /\ g.fresh = fresh
      /\ g = HeapOf(g.refs, g.formatterOf, g.resolverOf, g.dlls, g.loads, g.fresh)
  BY DEF Recounted, HeapOf
<1>2. HeapShape(g)
  BY <1>0, <1>1 DEF HeapShape
<1>3. next \in [Objects -> Nat] /\ \A p \in Objects : next[p] = outer[p] + (IF p = o THEN d ELSE 0)
  BY <1>0, ShiftFact
<1> HIDE DEF next
<1>4. RefsExact(g, next)
  <2> SUFFICES ASSUME NEW p \in Objects PROVE g.refs[p] = next[p] + Inner(g, p)
    BY DEF RefsExact
  <2>1. Inner(g, p) = Inner(h, p)
    BY <1>1 DEF Inner, HandlersOf, FormattersOf
  <2>2. Inner(h, p) \in Nat
    BY InnerType
  <2>3. h.refs[p] = outer[p] + Inner(h, p) /\ outer[p] \in Nat
    BY <1>0 DEF RefsExact
  <2> QED BY <1>1, <1>3, <2>1, <2>2, <2>3
<1>5. FreshInv(g)
  <2> SUFFICES ASSUME NEW p \in fresh
               PROVE  /\ g.refs[p] = 0
                      /\ p \in Handlers => g.formatterOf[p] = None
                      /\ p \in Formatters => g.resolverOf[p] = None
    BY <1>1 DEF FreshInv
  <2>1. p \in h.fresh /\ p \in Objects /\ p # o
    BY <1>0 DEF HeapShape
  <2> QED BY <1>0, <1>1, <2>1 DEF FreshInv
<1>6. LoadsExact(g, pending)
  BY <1>0, <1>1 DEF LoadsExact
<1> QED BY <1>0, <1>1, <1>2, <1>3, <1>4, <1>5, <1>6 DEF Exact, next

\* Reference counts one more.
LEMMA RaiseFact ==
  ASSUME NEW h, NEW outer, NEW pending, Exact(h, outer, pending), NEW o \in Objects, o \notin h.fresh
  PROVE  /\ Exact(Reference(h, o), Shift(outer, o, 1), pending)
         /\ Reference(h, o).fresh = h.fresh
<1> DEFINE refs == [h.refs EXCEPT ![o] = @ + 1]
           g == Reference(h, o)
<1>0. HeapShape(h) /\ outer \in [Objects -> Nat]
  BY DEF Exact
<1>1. refs \in [Objects -> Int] /\ \A p \in Objects : refs[p] = h.refs[p] + (IF p = o THEN 1 ELSE 0)
  BY <1>0 DEF HeapShape
<1>2. Recounted(g, h, refs, h.fresh)
  <2>1. g = [h EXCEPT !.refs = refs]
    BY DEF Reference
  <2> HIDE DEF refs, g
  <2> QED BY <1>0, <2>1 DEF HeapShape, Recounted, HeapOf
<1>3. outer[o] + 1 >= 0
  BY <1>0
<1> HIDE DEF refs, g
<1>4. Exact(g, Shift(outer, o, 1), pending) /\ g.fresh = h.fresh
  BY <1>1, <1>2, <1>3, RecountFact
<1> QED BY <1>4 DEF g

\* An object just created has the reference of its creator.
LEMMA AllocFact ==
  ASSUME NEW h, NEW outer, NEW pending, Exact(h, outer, pending), NEW o \in Objects, o \in h.fresh
  PROVE  /\ Exact(Allocate(h, o), Shift(outer, o, 1), pending)
         /\ Allocate(h, o).fresh = h.fresh \ {o}
<1> DEFINE refs == [h.refs EXCEPT ![o] = 1]
           fresh == h.fresh \ {o}
           g == Allocate(h, o)
<1>0. HeapShape(h) /\ outer \in [Objects -> Nat] /\ h.refs[o] = 0
  BY DEF Exact, FreshInv
<1>1. refs \in [Objects -> Int] /\ \A p \in Objects : refs[p] = h.refs[p] + (IF p = o THEN 1 ELSE 0)
  BY <1>0 DEF HeapShape
<1>2. Recounted(g, h, refs, fresh)
  <2>1. g = [h EXCEPT !.refs = refs, !.fresh = fresh]
    BY DEF Allocate
  <2> HIDE DEF refs, fresh, g
  <2> QED BY <1>0, <2>1 DEF HeapShape, Recounted, HeapOf
<1>3. outer[o] + 1 >= 0 /\ fresh \subseteq h.fresh /\ o \notin fresh
  BY <1>0
<1> HIDE DEF refs, fresh, g
<1>4. Exact(g, Shift(outer, o, 1), pending) /\ g.fresh = fresh
  BY <1>1, <1>2, <1>3, RecountFact
<1> QED BY <1>4 DEF g, fresh

\* An outer reference less: the count goes down and nothing else moves.
LEMMA LowerFact ==
  ASSUME NEW h, NEW outer, NEW pending, Exact(h, outer, pending), NEW o \in Objects, outer[o] > 0,
         NEW g, Recounted(g, h, [h.refs EXCEPT ![o] = @ - 1], h.fresh)
  PROVE  Exact(g, Shift(outer, o, -1), pending) /\ g.fresh = h.fresh
<1> DEFINE refs == [h.refs EXCEPT ![o] = @ - 1]
           d == -1
<1>0. HeapShape(h) /\ outer \in [Objects -> Nat] /\ o \notin h.fresh
  BY UsedFact DEF Exact
<1>1. d \in Int /\ outer[o] + d >= 0
  BY <1>0
<1>2. refs \in [Objects -> Int] /\ \A p \in Objects : refs[p] = h.refs[p] + (IF p = o THEN d ELSE 0)
  BY <1>0 DEF HeapShape
<1>3. Recounted(g, h, refs, h.fresh)
  OBVIOUS
<1> HIDE DEF refs, d
<1>4. Exact(g, Shift(outer, o, d), pending) /\ g.fresh = h.fresh
  BY <1>0, <1>1, <1>2, <1>3, RecountFact
<1> QED BY <1>4 DEF d

-----------------------------------------------------------------------------
\* References of the heap.  One reference moves from old to new, either of
\* which may be None.
Moved(outer, next, old, new) == \A p \in Objects : next[p] = outer[p] - One(p = old) + One(p = new)

\* A move is a shift up, a shift down, or both in either order.
LEMMA MoveFact ==
  ASSUME NEW outer \in [Objects -> Nat], NEW next \in [Objects -> Nat], NEW old, NEW new,
         Moved(outer, next, old, new)
  PROVE  /\ old = None /\ new \in Objects => next = Shift(outer, new, 1)
         /\ new = None /\ old \in Objects => next = Shift(outer, old, -1)
         /\ old \in Objects /\ new \in Objects =>
               /\ next = Shift(Shift(outer, old, -1), new, 1)
               /\ next = Shift(Shift(outer, new, 1), old, -1)
         /\ old = None /\ new = None => next = outer
<1>0. None \notin Objects
  BY DiagAssumption
<1>1. CASE old = None /\ new \in Objects
  <2>1. Shift(outer, new, 1) \in [Objects -> Int]
    BY <1>1 DEF Shift
  <2>2. \A p \in Objects : next[p] = Shift(outer, new, 1)[p]
    BY <1>0, <1>1 DEF Moved, Shift, One
  <2> QED BY <1>0, <1>1, <2>1, <2>2
<1>2. CASE new = None /\ old \in Objects
  <2>1. Shift(outer, old, -1) \in [Objects -> Int]
    BY <1>2 DEF Shift
  <2>2. \A p \in Objects : next[p] = Shift(outer, old, -1)[p]
    BY <1>0, <1>2 DEF Moved, Shift, One
  <2> QED BY <1>0, <1>2, <2>1, <2>2
<1>3. CASE old \in Objects /\ new \in Objects
  <2> DEFINE a == Shift(outer, old, -1)
             b == Shift(outer, new, 1)
  <2>1. /\ a \in [Objects -> Int] /\ b \in [Objects -> Int]
        /\ \A p \in Objects : a[p] = outer[p] - One(p = old) /\ b[p] = outer[p] + One(p = new)
    BY <1>3 DEF Shift, One
  <2> HIDE DEF a, b
  <2>2. /\ Shift(a, new, 1) \in [Objects -> Int] /\ Shift(b, old, -1) \in [Objects -> Int]
        /\ \A p \in Objects : /\ Shift(a, new, 1)[p] = a[p] + One(p = new)
                              /\ Shift(b, old, -1)[p] = b[p] - One(p = old)
    BY <1>3, <2>1 DEF Shift, One
  <2>3. \A p \in Objects : next[p] = Shift(a, new, 1)[p] /\ next[p] = Shift(b, old, -1)[p]
    BY <2>1, <2>2 DEF Moved, One
  <2>4. next = Shift(a, new, 1) /\ next = Shift(b, old, -1)
    BY <2>2, <2>3
  <2> QED BY <1>0, <1>3, <2>4 DEF a, b
<1>4. CASE old = None /\ new = None
  <2>1. \A p \in Objects : next[p] = outer[p]
    BY <1>0, <1>4 DEF Moved, One
  <2> QED BY <1>0, <1>4, <2>1
<1> QED BY <1>1, <1>2, <1>3, <1>4

\* g is h but for one reference.
ResolvesWith(g, h, f, r) == g = [h EXCEPT !.resolverOf[f] = r]
FormatsWith(g, h, x, f)  == g = [h EXCEPT !.formatterOf[x] = f]

\* A formatter refers to another resolver, or to none.
LEMMA RelinkResolver ==
  ASSUME NEW h, NEW outer, NEW pending, Exact(h, outer, pending),
         NEW f \in Formatters, f \notin h.fresh, NEW r \in Resolvers \cup {None},
         NEW next \in [Objects -> Nat], Moved(outer, next, r, h.resolverOf[f]),
         NEW g, ResolvesWith(g, h, f, r)
  PROVE  Exact(g, next, pending) /\ g.fresh = h.fresh /\ g.formatterOf = h.formatterOf /\ g.refs = h.refs
<1>0. /\ HeapShape(h) /\ outer \in [Objects -> Nat] /\ pending \in [Modules -> Nat]
      /\ RefsExact(h, outer) /\ FreshInv(h) /\ LoadsExact(h, pending)
  BY DEF Exact
<1> DEFINE links == [h.resolverOf EXCEPT ![f] = r]
<1>1. links \in [Formatters -> Resolvers \cup {None}] /\ links[f] = r
      /\ \A x \in Formatters : x # f => links[x] = h.resolverOf[x]
  BY <1>0 DEF HeapShape
<1>2. g = HeapOf(h.refs, h.formatterOf, links, h.dlls, h.loads, h.fresh)
  <2>1. g = [h EXCEPT !.resolverOf = links]
    BY DEF ResolvesWith
  <2> HIDE DEF links
  <2> QED BY <1>0, <2>1 DEF HeapShape, HeapOf
<1> HIDE DEF links
<1>3. /\ g.refs = h.refs /\ g.formatterOf = h.formatterOf /\ g.resolverOf = links
      /\ g.dlls = h.dlls /\ g.loads = h.loads /\ g.fresh = h.fresh
      /\ g = HeapOf(g.refs, g.formatterOf, g.resolverOf, g.dlls, g.loads, g.fresh)
  BY <1>2, FieldsFact
<1>4. HeapShape(g)
  BY <1>0, <1>1, <1>3 DEF HeapShape
<1>5. RefsExact(g, next)
  <2> SUFFICES ASSUME NEW p \in Objects PROVE g.refs[p] = next[p] + Inner(g, p)
    BY DEF RefsExact
  <2> DEFINE A == FormattersOf(h, p)
             B == FormattersOf(g, p)
  <2>1. A \subseteq Formatters /\ B \subseteq Formatters /\ \A y \in Formatters : y # f => (y \in A <=> y \in B)
    BY <1>1, <1>3 DEF FormattersOf
  <2>2. (f \in A <=> p = h.resolverOf[f]) /\ (f \in B <=> p = r)
    BY <1>1, <1>3 DEF FormattersOf
  <2> HIDE DEF A, B
  <2>3. Cardinality(B) = Cardinality(A) - One(f \in A) + One(f \in B) /\ Cardinality(A) \in Nat
    BY <2>1, FiniteSets, CountFact
  <2>4. Inner(g, p) = Inner(h, p) - One(p = h.resolverOf[f]) + One(p = r)
    <3>1. HandlersOf(g, p) = HandlersOf(h, p)
      BY <1>3 DEF HandlersOf
    <3>2. Cardinality(HandlersOf(h, p)) \in Nat
      BY InnerType
    <3> QED BY <2>2, <2>3, <3>1, <3>2 DEF Inner, A, B, One
  <2>5. h.refs[p] = outer[p] + Inner(h, p) /\ Inner(h, p) \in Nat /\ outer[p] \in Nat /\ next[p] \in Nat
    BY <1>0, InnerType DEF RefsExact
  <2>6. next[p] = outer[p] - One(p = r) + One(p = h.resolverOf[f])
    BY DEF Moved
  <2> QED BY <1>3, <2>4, <2>5, <2>6 DEF One
<1>6. FreshInv(g)
  BY <1>0, <1>1, <1>3 DEF FreshInv
<1>7. LoadsExact(g, pending)
  BY <1>0, <1>3 DEF LoadsExact
<1> QED BY <1>0, <1>3, <1>4, <1>5, <1>6, <1>7 DEF Exact

\* A handler refers to another formatter, or to none.
LEMMA RelinkFormatter ==
  ASSUME NEW h, NEW outer, NEW pending, Exact(h, outer, pending),
         NEW x \in Handlers, x \notin h.fresh, NEW f \in Formatters \cup {None},
         NEW next \in [Objects -> Nat], Moved(outer, next, f, h.formatterOf[x]),
         NEW g, FormatsWith(g, h, x, f)
  PROVE  Exact(g, next, pending) /\ g.fresh = h.fresh
<1>0. /\ HeapShape(h) /\ outer \in [Objects -> Nat] /\ pending \in [Modules -> Nat]
      /\ RefsExact(h, outer) /\ FreshInv(h) /\ LoadsExact(h, pending)
  BY DEF Exact
<1> DEFINE links == [h.formatterOf EXCEPT ![x] = f]
<1>1. links \in [Handlers -> Formatters \cup {None}] /\ links[x] = f
      /\ \A y \in Handlers : y # x => links[y] = h.formatterOf[y]
  BY <1>0 DEF HeapShape
<1>2. g = HeapOf(h.refs, links, h.resolverOf, h.dlls, h.loads, h.fresh)
  <2>1. g = [h EXCEPT !.formatterOf = links]
    BY DEF FormatsWith
  <2> HIDE DEF links
  <2> QED BY <1>0, <2>1 DEF HeapShape, HeapOf
<1> HIDE DEF links
<1>3. /\ g.refs = h.refs /\ g.formatterOf = links /\ g.resolverOf = h.resolverOf
      /\ g.dlls = h.dlls /\ g.loads = h.loads /\ g.fresh = h.fresh
      /\ g = HeapOf(g.refs, g.formatterOf, g.resolverOf, g.dlls, g.loads, g.fresh)
  BY <1>2, FieldsFact
<1>4. HeapShape(g)
  BY <1>0, <1>1, <1>3 DEF HeapShape
<1>5. RefsExact(g, next)
  <2> SUFFICES ASSUME NEW p \in Objects PROVE g.refs[p] = next[p] + Inner(g, p)
    BY DEF RefsExact
  <2> DEFINE A == HandlersOf(h, p)
             B == HandlersOf(g, p)
  <2>1. A \subseteq Handlers /\ B \subseteq Handlers /\ \A y \in Handlers : y # x => (y \in A <=> y \in B)
    BY <1>1, <1>3 DEF HandlersOf
  <2>2. (x \in A <=> p = h.formatterOf[x]) /\ (x \in B <=> p = f)
    BY <1>1, <1>3 DEF HandlersOf
  <2> HIDE DEF A, B
  <2>3. Cardinality(B) = Cardinality(A) - One(x \in A) + One(x \in B) /\ Cardinality(A) \in Nat
    BY <2>1, FiniteSets, CountFact
  <2>4. Inner(g, p) = Inner(h, p) - One(p = h.formatterOf[x]) + One(p = f)
    <3>1. FormattersOf(g, p) = FormattersOf(h, p)
      BY <1>3 DEF FormattersOf
    <3>2. Cardinality(FormattersOf(h, p)) \in Nat
      BY InnerType
    <3> QED BY <2>2, <2>3, <3>1, <3>2 DEF Inner, A, B, One
  <2>5. h.refs[p] = outer[p] + Inner(h, p) /\ Inner(h, p) \in Nat /\ outer[p] \in Nat /\ next[p] \in Nat
    BY <1>0, InnerType DEF RefsExact
  <2>6. next[p] = outer[p] - One(p = f) + One(p = h.formatterOf[x])
    BY DEF Moved
  <2> QED BY <1>3, <2>4, <2>5, <2>6 DEF One
<1>6. FreshInv(g)
  BY <1>0, <1>1, <1>3 DEF FreshInv
<1>7. LoadsExact(g, pending)
  BY <1>0, <1>3 DEF LoadsExact
<1> QED BY <1>0, <1>3, <1>4, <1>5, <1>6, <1>7 DEF Exact

-----------------------------------------------------------------------------
(***************************************************************************)
(* The message DLLs of the resolvers.                                      *)
(***************************************************************************)

\* The registrations of a DLL are finite in number.
LEMMA PlacesFinite ==
  ASSUME NEW dlls \in [Resolvers -> Seq(Dlls)], NEW m
  PROVE  /\ IsFiniteSet(DllPlaces(dlls, m))
         /\ \A r \in Resolvers : IsFiniteSet(Registered(dlls, r, m))
<1> DEFINE F == [r \in Resolvers |-> {r} \X Registered(dlls, r, m)]
           T == {{r} \X Registered(dlls, r, m) : r \in Resolvers}
<1>1. \A r \in Resolvers : IsFiniteSet(Registered(dlls, r, m))
  <2> SUFFICES ASSUME NEW r \in Resolvers PROVE IsFiniteSet(Registered(dlls, r, m))
    OBVIOUS
  <2>1. Registered(dlls, r, m) \subseteq 1 .. Len(dlls[r]) /\ Len(dlls[r]) \in Nat
    BY DEF Registered
  <2>2. IsFiniteSet(1 .. Len(dlls[r]))
    BY <2>1, FS_Interval
  <2> QED BY <2>1, <2>2, FS_Subset
<1>2. \A r \in Resolvers : IsFiniteSet({r} \X Registered(dlls, r, m))
  BY <1>1, FS_Product, FS_Singleton
<1>3. F \in Surjection(Resolvers, T)
  BY DEF Surjection
<1>4. IsFiniteSet(T)
  <2> HIDE DEF F, T
  <2> QED BY <1>3, FiniteSets, FS_Surjection
<1>5. \A U \in T : IsFiniteSet(U)
  BY <1>2
<1>6. IsFiniteSet(UNION T)
  <2> HIDE DEF T
  <2> QED BY <1>4, <1>5, FS_UNION
<1> QED BY <1>1, <1>6 DEF DllPlaces

\* The registrations with other resolvers.
Elsewhere(dlls, r, m) == {p \in DllPlaces(dlls, m) : p[1] # r}

\* The registrations of one resolver are a part of all of them.
LEMMA PlacesSplit ==
  ASSUME NEW dlls \in [Resolvers -> Seq(Dlls)], NEW m, NEW r \in Resolvers
  PROVE  /\ Cardinality(Elsewhere(dlls, r, m)) \in Nat /\ Cardinality(Registered(dlls, r, m)) \in Nat
         /\ Cardinality(DllPlaces(dlls, m))
              = Cardinality(Elsewhere(dlls, r, m)) + Cardinality(Registered(dlls, r, m))
<1> DEFINE A == DllPlaces(dlls, m)
           rest == Elsewhere(dlls, r, m)
           G == Registered(dlls, r, m)
           P == {r} \X G
<1>1. IsFiniteSet(A) /\ IsFiniteSet(G)
  BY PlacesFinite
<1>2. A = rest \cup P /\ rest \cap P = {}
  BY DEF DllPlaces, Elsewhere
<1>3. rest \subseteq A
  BY DEF Elsewhere
<1> HIDE DEF A, rest, G
<1>4. IsFiniteSet(rest)
  BY <1>1, <1>3, FS_Subset
<1>5. IsFiniteSet({r}) /\ Cardinality({r}) = 1
  BY FS_Singleton
<1>6. Cardinality(rest) \in Nat /\ Cardinality(G) \in Nat
  BY <1>1, <1>4, FS_CardinalityType
<1>7. IsFiniteSet(P) /\ Cardinality(P) = Cardinality({r}) * Cardinality(G)
  BY <1>1, <1>5, FS_Product
<1>8. Cardinality(P) = Cardinality(G)
  BY <1>5, <1>6, <1>7
<1> HIDE DEF P
<1>9. Cardinality(rest \cup P) = Cardinality(rest) + Cardinality(P) - Cardinality(rest \cap P)
  BY <1>4, <1>7, FS_Union
<1>10. Cardinality(rest \cap P) = 0
  BY <1>2, FS_EmptySet
<1>11. Cardinality(A) = Cardinality(rest) + Cardinality(G)
  BY <1>2, <1>6, <1>8, <1>9, <1>10
<1> QED BY <1>6, <1>11 DEF A, rest, G

\* The lists of one resolver change.
LEMMA PlacesChange ==
  ASSUME NEW dlls \in [Resolvers -> Seq(Dlls)], NEW next \in [Resolvers -> Seq(Dlls)],
         NEW m, NEW r \in Resolvers, \A q \in Resolvers : q # r => next[q] = dlls[q]
  PROVE  /\ Cardinality(DllPlaces(dlls, m)) \in Nat /\ Cardinality(DllPlaces(next, m)) \in Nat
         /\ Cardinality(Registered(dlls, r, m)) \in Nat /\ Cardinality(Registered(next, r, m)) \in Nat
         /\ Cardinality(DllPlaces(next, m))
              = Cardinality(DllPlaces(dlls, m)) - Cardinality(Registered(dlls, r, m))
                + Cardinality(Registered(next, r, m))
<1> DEFINE a == Elsewhere(dlls, r, m)
           b == Elsewhere(next, r, m)
<1>1. a = b
  <2>1. \A q \in Resolvers : q # r => Registered(next, q, m) = Registered(dlls, q, m)
    BY DEF Registered
  <2> QED BY <2>1 DEF DllPlaces, Elsewhere
<1>2. /\ Cardinality(a) \in Nat /\ Cardinality(Registered(dlls, r, m)) \in Nat
      /\ Cardinality(DllPlaces(dlls, m)) = Cardinality(a) + Cardinality(Registered(dlls, r, m))
  BY PlacesSplit
<1>3. /\ Cardinality(b) \in Nat /\ Cardinality(Registered(next, r, m)) \in Nat
      /\ Cardinality(DllPlaces(next, m)) = Cardinality(b) + Cardinality(Registered(next, r, m))
  BY PlacesSplit
<1> HIDE DEF a, b
<1> QED BY <1>1, <1>2, <1>3

\* Every entry is named after its module.
LEMMA DllFact ==
  ASSUME NEW dlls \in [Resolvers -> Seq(Dlls)], NEW r \in Resolvers, NEW i \in DOMAIN dlls[r]
  PROVE  dlls[r][i].module \in Modules /\ dlls[r][i].name = dlls[r][i].module
<1>1. dlls[r] \in Seq(Dlls) /\ i \in 1 .. Len(dlls[r])
  OBVIOUS
<1>2. dlls[r][i] \in Dlls
  BY <1>1
<1> QED BY <1>2 DEF Dlls

\* next is dlls with another list for r.
Relisted(next, dlls, r, list) == next = [dlls EXCEPT ![r] = list]

\* list is was with one entry more; next is dlls with an entry of r less.
Registers(list, was, m) == list = Append(was, [name |-> m, module |-> m])

Unregistered(next, dlls, r, i, m) ==
    /\ i \in DOMAIN dlls[r] /\ dlls[r][i].module = m
    /\ Relisted(next, dlls, r, RemoveAt(dlls[r], i))

\* CdiagsRegisterMessageDll: one entry more at the end.
LEMMA AppendDll ==
  ASSUME NEW dlls \in [Resolvers -> Seq(Dlls)], NEW r \in Resolvers, NEW m \in Modules,
         NEW was, was = dlls[r], NEW list, Registers(list, was, m),
         NEW next, Relisted(next, dlls, r, list),
         NEW n \in Modules
  PROVE  /\ next \in [Resolvers -> Seq(Dlls)]
         /\ Cardinality(DllPlaces(dlls, n)) \in Nat
         /\ Cardinality(DllPlaces(next, n)) = Cardinality(DllPlaces(dlls, n)) + One(n = m)
<1> DEFINE e == [name |-> m, module |-> m]
           k == Len(was) + 1
<1>1. was \in Seq(Dlls) /\ e \in Dlls /\ e.module = m
  BY DEF Dlls
<1>2. list = Append(was, e)
  BY DEF Registers
<1> HIDE DEF e
<1>3. /\ list \in Seq(Dlls) /\ Len(list) = k /\ list[k] = e /\ Len(was) \in Nat
      /\ \A i \in 1 .. Len(was) : list[i] = was[i]
  BY <1>1, <1>2, AppendProperties
<1>4. /\ next \in [Resolvers -> Seq(Dlls)] /\ next[r] = list
      /\ \A q \in Resolvers : q # r => next[q] = dlls[q]
  BY <1>3 DEF Relisted
<1> DEFINE A == Registered(dlls, r, n)
           B == Registered(next, r, n)
           S == 1 .. k
<1>4a. /\ \A j : j \in A <=> j \in 1 .. Len(was) /\ was[j].module = n
       /\ \A j : j \in B <=> j \in 1 .. k /\ list[j].module = n
  BY <1>1, <1>3, <1>4 DEF Registered
<1>5. A \subseteq S /\ B \subseteq S /\ \A y \in S : y # k => (y \in A <=> y \in B)
  <2> HIDE DEF A, B
  <2> QED BY <1>3, <1>4a, SMTT(30)
<1>6. k \notin A /\ (k \in B <=> n = m)
  <2>1. k \notin A
    BY <1>1, <1>3 DEF Registered
  <2>2. k \in DOMAIN next[r] /\ next[r][k].module = m
    BY <1>1, <1>3, <1>4
  <2>3. k \in B <=> n = m
    BY <2>2 DEF Registered
  <2> QED BY <2>1, <2>3
<1>7. IsFiniteSet(S)
  BY <1>3, FS_Interval
<1> HIDE DEF A, B, S, k
<1>8. Cardinality(A) \in Nat /\ Cardinality(B) = Cardinality(A) - One(k \in A) + One(k \in B)
  BY <1>5, <1>7, CountFact
<1>9. Cardinality(B) = Cardinality(A) + One(n = m)
  BY <1>6, <1>8 DEF One
<1>10. /\ Cardinality(DllPlaces(dlls, n)) \in Nat
       /\ Cardinality(DllPlaces(next, n)) = Cardinality(DllPlaces(dlls, n)) - Cardinality(A) + Cardinality(B)
  BY <1>4, PlacesChange DEF A, B
<1> QED BY <1>4, <1>8, <1>9, <1>10 DEF One

\* Taking the i-th entry out of a list.
LEMMA RemoveFact ==
  ASSUME NEW list \in Seq(Dlls), NEW i \in DOMAIN list
  PROVE  /\ RemoveAt(list, i) \in Seq(Dlls)
         /\ Len(RemoveAt(list, i)) = Len(list) - 1
         /\ \A j \in 1 .. Len(list) - 1 : RemoveAt(list, i)[j] = IF j < i THEN list[j] ELSE list[j + 1]
<1> DEFINE a == SubSeq(list, 1, i - 1)
           b == SubSeq(list, i + 1, Len(list))
<1>0. Len(list) \in Nat /\ i \in 1 .. Len(list) /\ \A j \in 1 .. Len(list) : list[j] \in Dlls
  OBVIOUS
<1>1. a \in Seq(Dlls) /\ Len(a) = i - 1 /\ \A j \in 1 .. i - 1 : a[j] = list[j]
  BY <1>0
<1>2. b \in Seq(Dlls) /\ Len(b) = Len(list) - i /\ \A j \in 1 .. Len(list) - i : b[j] = list[i + j]
  BY <1>0
<1>3. RemoveAt(list, i) = a \o b
  BY DEF RemoveAt
<1> HIDE DEF a, b
<1>4. /\ a \o b \in Seq(Dlls) /\ Len(a \o b) = Len(a) + Len(b)
      /\ \A j \in 1 .. Len(a) + Len(b) : (a \o b)[j] = IF j <= Len(a) THEN a[j] ELSE b[j - Len(a)]
  BY <1>1, <1>2, ConcatProperties
<1>5. Len(a) + Len(b) = Len(list) - 1
  BY <1>0, <1>1, <1>2
<1>6. ASSUME NEW j \in 1 .. Len(list) - 1
      PROVE  (a \o b)[j] = IF j < i THEN list[j] ELSE list[j + 1]
  <2>1. CASE j < i
    <3>0. j \in 1 .. Len(a) + Len(b) /\ j <= Len(a) /\ j \in 1 .. i - 1
      BY <1>0, <1>1, <1>5, <2>1
    <3>1. (a \o b)[j] = a[j]
      BY <1>4, <3>0
    <3>2. a[j] = list[j]
      BY <1>1, <3>0
    <3> QED BY <2>1, <3>1, <3>2
  <2>2. CASE ~ (j < i)
    <3>0. j \in 1 .. Len(a) + Len(b) /\ ~ (j <= Len(a)) /\ Len(a) = i - 1
      BY <1>0, <1>1, <1>5, <2>2
    <3>1. (a \o b)[j] = b[j - (i - 1)]
      BY <1>4, <3>0
    <3>2. j - (i - 1) \in 1 .. Len(list) - i /\ i + (j - (i - 1)) = j + 1
      BY <1>0, <2>2
    <3>3. b[j - (i - 1)] = list[i + (j - (i - 1))]
      BY <1>2, <3>2
    <3>4. b[j - (i - 1)] = list[j + 1]
      BY <3>2, <3>3
    <3> QED BY <2>2, <3>1, <3>4
  <2> QED BY <2>1, <2>2
<1> QED BY <1>3, <1>4, <1>5, <1>6

\* CdiagsUnregisterMessageDll: one entry less.
LEMMA RemoveDll ==
  ASSUME NEW dlls \in [Resolvers -> Seq(Dlls)], NEW r \in Resolvers,
         NEW i, NEW m, NEW next, Unregistered(next, dlls, r, i, m), NEW n \in Modules
  PROVE  /\ next \in [Resolvers -> Seq(Dlls)]
         /\ Cardinality(DllPlaces(dlls, n)) \in Nat
         /\ Cardinality(DllPlaces(next, n)) = Cardinality(DllPlaces(dlls, n)) - One(n = m)
<1> DEFINE was == dlls[r]
           list == RemoveAt(was, i)
<1>1. was \in Seq(Dlls) /\ was = dlls[r]
  OBVIOUS
<1>2. /\ Len(was) \in Nat /\ i \in DOMAIN was /\ i \in 1 .. Len(was) /\ was[i].module = m
      /\ list = RemoveAt(was, i) /\ Relisted(next, dlls, r, list)
  BY DEF Unregistered
<1> HIDE DEF was, list
<1>3. /\ list \in Seq(Dlls) /\ Len(list) = Len(was) - 1
      /\ \A j \in 1 .. Len(was) - 1 : list[j] = IF j < i THEN was[j] ELSE was[j + 1]
  BY <1>1, <1>2, RemoveFact
<1>4. /\ next \in [Resolvers -> Seq(Dlls)] /\ next[r] = list
      /\ \A q \in Resolvers : q # r => next[q] = dlls[q]
  BY <1>2, <1>3 DEF Relisted
<1> DEFINE A == Registered(dlls, r, n)
           C == A \ {i}
           B == Registered(next, r, n)
           phi == [j \in B |-> IF j < i THEN j ELSE j + 1]
<1>5. /\ \A j : j \in A <=> j \in 1 .. Len(was) /\ was[j].module = n
      /\ \A j : j \in B <=> j \in 1 .. Len(was) - 1 /\ list[j].module = n
  BY <1>1, <1>2, <1>3, <1>4 DEF Registered
<1> HIDE DEF A, B
<1>6. \A j \in B : phi[j] \in C
  <2> SUFFICES ASSUME NEW j \in B PROVE phi[j] \in C
    OBVIOUS
  <2>1. j \in 1 .. Len(was) - 1 /\ list[j].module = n
    BY <1>5
  <2>2. CASE j < i
    <3>1. phi[j] = j /\ j # i /\ j \in 1 .. Len(was) /\ was[j].module = n
      BY <1>2, <1>3, <2>1, <2>2
    <3> QED BY <1>5, <3>1
  <2>3. CASE ~ (j < i)
    <3>1. phi[j] = j + 1 /\ j + 1 # i /\ j + 1 \in 1 .. Len(was) /\ was[j + 1].module = n
      BY <1>2, <1>3, <2>1, <2>3
    <3> QED BY <1>5, <3>1
  <2> QED BY <2>2, <2>3
<1>7. \A j, k \in B : phi[j] = phi[k] => j = k
  BY <1>2, <1>5
<1>8. ASSUME NEW y \in C PROVE \E j \in B : phi[j] = y
  <2>1. y \in 1 .. Len(was) /\ was[y].module = n /\ y # i
    BY <1>5
  <2>2. CASE y < i
    <3>1. y \in 1 .. Len(was) - 1 /\ list[y].module = n
      BY <1>2, <1>3, <2>1, <2>2
    <3>2. y \in B
      BY <1>5, <3>1
    <3> QED BY <2>2, <3>2
  <2>3. CASE ~ (y < i)
    <3>0. y - 1 \in 1 .. Len(was) - 1 /\ ~ (y - 1 < i) /\ (y - 1) + 1 = y
      BY <1>2, <2>1, <2>3
    <3>1. list[y - 1] = was[y]
      BY <1>3, <3>0
    <3>2. y - 1 \in B
      BY <1>5, <2>1, <3>0, <3>1
    <3> QED BY <3>0, <3>2
  <2> QED BY <2>2, <2>3
<1>9. phi \in [B -> C]
  BY <1>6
<1> HIDE DEF phi, C
<1>10. phi \in Injection(B, C) /\ phi \in Surjection(B, C)
  BY <1>7, <1>8, <1>9 DEF Injection, IsInjective, Surjection
<1>11. IsFiniteSet(A)
  BY PlacesFinite DEF A
<1>12. IsFiniteSet(C) /\ Cardinality(C) = Cardinality(A) - One(i \in A)
  <2>1. i \in A => Cardinality(C) = Cardinality(A) - 1 /\ IsFiniteSet(C)
    BY <1>11, FS_RemoveElement DEF C
  <2>2. i \notin A => C = A
    BY DEF C
  <2>3. Cardinality(A) \in Nat
    BY <1>11, FS_CardinalityType
  <2> QED BY <1>11, <2>1, <2>2, <2>3 DEF One
<1>13. Cardinality(B) = Cardinality(C)
  BY <1>10, <1>12, FS_Injection
<1>14. i \in A <=> n = m
  BY <1>2, <1>5
<1>15. /\ Cardinality(DllPlaces(dlls, n)) \in Nat /\ Cardinality(A) \in Nat
       /\ Cardinality(DllPlaces(next, n)) = Cardinality(DllPlaces(dlls, n)) - Cardinality(A) + Cardinality(B)
  BY <1>4, PlacesChange DEF A, B
<1> QED BY <1>4, <1>12, <1>13, <1>14, <1>15 DEF One

\* CdiagsDeleteResolver: none of the entries of the resolver is left.
LEMMA ClearDlls ==
  ASSUME NEW dlls \in [Resolvers -> Seq(Dlls)], NEW r \in Resolvers,
         NEW next, Relisted(next, dlls, r, <<>>), NEW n \in Modules
  PROVE  /\ next \in [Resolvers -> Seq(Dlls)]
         /\ Cardinality(DllPlaces(dlls, n)) \in Nat /\ Cardinality(Registered(dlls, r, n)) \in Nat
         /\ Cardinality(DllPlaces(next, n)) = Cardinality(DllPlaces(dlls, n)) - Cardinality(Registered(dlls, r, n))
<1> DEFINE list == <<>>
<1>1. list \in Seq(Dlls) /\ DOMAIN list = {}
  OBVIOUS
<1> HIDE DEF list
<1>2. Relisted(next, dlls, r, list)
  BY DEF list
<1>3. /\ next \in [Resolvers -> Seq(Dlls)] /\ next[r] = list
      /\ \A q \in Resolvers : q # r => next[q] = dlls[q]
  BY <1>1, <1>2 DEF Relisted
<1>4. Registered(next, r, n) = {}
  BY <1>1, <1>3 DEF Registered
<1>5. Cardinality(Registered(next, r, n)) = 0
  BY <1>4, FS_EmptySet
<1>6. /\ Cardinality(DllPlaces(dlls, n)) \in Nat /\ Cardinality(Registered(dlls, r, n)) \in Nat
      /\ Cardinality(DllPlaces(next, n))
           = Cardinality(DllPlaces(dlls, n)) - Cardinality(Registered(dlls, r, n))
             + Cardinality(Registered(next, r, n))
  BY <1>3, PlacesChange
<1> QED BY <1>3, <1>5, <1>6

DllTypes(dlls, loads, pending) ==
    dlls \in [Resolvers -> Seq(Dlls)] /\ loads \in [Modules -> Int] /\ pending \in [Modules -> Nat]

\* g is h with other DLLs.
Reloaded(g, h, dlls, loads) == g = HeapOf(h.refs, h.formatterOf, h.resolverOf, dlls, loads, h.fresh)

\* A heap that differs in the DLLs only.
LEMMA DllsFact ==
  ASSUME NEW h, NEW outer, NEW pending, Exact(h, outer, pending),
         NEW dlls, NEW loads, NEW next, DllTypes(dlls, loads, next), Loaded(loads, dlls, next),
         NEW g, Reloaded(g, h, dlls, loads)
  PROVE  Exact(g, outer, next) /\ g.fresh = h.fresh
<1>0. HeapShape(h) /\ outer \in [Objects -> Nat] /\ RefsExact(h, outer) /\ FreshInv(h)
  BY DEF Exact
<1>1. /\ g.refs = h.refs /\ g.formatterOf = h.formatterOf /\ g.resolverOf = h.resolverOf
      /\ g.dlls = dlls /\ g.loads = loads /\ g.fresh = h.fresh
      /\ g = HeapOf(g.refs, g.formatterOf, g.resolverOf, g.dlls, g.loads, g.fresh)
  BY FieldsFact DEF Reloaded
<1>2. HeapShape(g)
  BY <1>0, <1>1 DEF HeapShape, DllTypes
<1>3. RefsExact(g, outer)
  BY <1>0, <1>1 DEF RefsExact, Inner, HandlersOf, FormattersOf
<1>4. FreshInv(g)
  BY <1>0, <1>1 DEF FreshInv
<1>5. LoadsExact(g, next)
  BY <1>1 DEF LoadsExact
<1> QED BY <1>0, <1>1, <1>2, <1>3, <1>4, <1>5 DEF Exact, DllTypes

-----------------------------------------------------------------------------
(***************************************************************************)
(* Dereferencing, with everything that a deletion takes along.             *)
(***************************************************************************)

\* A reference that comes and goes.
LEMMA ShiftBack ==
  ASSUME NEW outer \in [Objects -> Nat], NEW o \in Objects
  PROVE  /\ Shift(outer, o, 1) \in [Objects -> Nat] /\ Shift(outer, o, 1)[o] > 0
         /\ Moved(outer, Shift(outer, o, 1), None, o)
         /\ Shift(Shift(outer, o, 1), o, -1) = outer
<1>0. None \notin Objects
  BY DiagAssumption
<1> DEFINE b == Shift(outer, o, 1)
<1>1. b \in [Objects -> Nat] /\ b[o] = outer[o] + 1 /\ \A p \in Objects : p # o => b[p] = outer[p]
  BY DEF Shift
<1> HIDE DEF b
<1>2. Moved(outer, b, None, o)
  BY <1>0, <1>1 DEF Moved, One
<1>3. Shift(b, o, -1) \in [Objects -> Int] /\ \A p \in Objects : Shift(b, o, -1)[p] = outer[p]
  BY <1>1 DEF Shift
<1>4. Shift(b, o, -1) = outer
  BY <1>3
<1> QED BY <1>1, <1>2, <1>4 DEF b

\* The count of a record less one.
LEMMA LessFact ==
  ASSUME NEW h, HeapShape(h), NEW o \in Objects
  PROVE  Recounted([h EXCEPT !.refs[o] = @ - 1], h, [h.refs EXCEPT ![o] = @ - 1], h.fresh)
<1> DEFINE refs == [h.refs EXCEPT ![o] = @ - 1]
           g == [h EXCEPT !.refs[o] = @ - 1]
<1>1. g = [h EXCEPT !.refs = refs]
  OBVIOUS
<1> HIDE DEF refs, g
<1>2. Recounted(g, h, refs, h.fresh)
  BY <1>1 DEF HeapShape, Recounted, HeapOf
<1> QED BY <1>2 DEF refs, g

\* A resolver is released; the last one unloads its DLLs.
LEMMA DropResolver ==
  ASSUME NEW h, NEW outer, NEW pending, Exact(h, outer, pending), NEW r \in Resolvers, outer[r] > 0
  PROVE  /\ Exact(DereferenceResolver(h, r), Shift(outer, r, -1), pending)
         /\ DereferenceResolver(h, r).fresh = h.fresh
<1> DEFINE g == DereferenceResolver(h, r)
<1>0. /\ HeapShape(h) /\ r \in Objects /\ h.refs[r] > 0 /\ h.refs[r] \in Int
      /\ pending \in [Modules -> Nat] /\ LoadsExact(h, pending)
  <2>1. HeapShape(h) /\ pending \in [Modules -> Nat] /\ LoadsExact(h, pending)
    BY DEF Exact
  <2>2. r \in Objects
    BY DEF Objects
  <2> QED BY <2>1, <2>2, UsedFact DEF HeapShape
<1>1. CASE h.refs[r] > 1
  <2>1. g = [h EXCEPT !.refs[r] = @ - 1]
    BY <1>1 DEF DereferenceResolver
  <2> HIDE DEF g
  <2>2. Recounted(g, h, [h.refs EXCEPT ![r] = @ - 1], h.fresh)
    BY <1>0, <2>1, LessFact
  <2>3. Exact(g, Shift(outer, r, -1), pending) /\ g.fresh = h.fresh
    BY <1>0, <2>2, LowerFact
  <2> QED BY <2>3 DEF g
<1>2. CASE ~ (h.refs[r] > 1)
  <2> DEFINE refs == [h.refs EXCEPT ![r] = @ - 1]
             dlls == [h.dlls EXCEPT ![r] = <<>>]
             loads == [m \in Modules |-> h.loads[m] - Cardinality(Registered(h.dlls, r, m))]
             mid == HeapOf(refs, h.formatterOf, h.resolverOf, h.dlls, h.loads, h.fresh)
             next == Shift(outer, r, -1)
  <2>1. h.refs[r] = 1 /\ h.refs \in [Objects -> Int]
    BY <1>0, <1>2 DEF HeapShape
  <2>2. refs = [h.refs EXCEPT ![r] = 0]
    BY <1>0, <2>1
  <2>3. g = [h EXCEPT !.refs = [h.refs EXCEPT ![r] = 0], !.dlls = dlls, !.loads = loads]
    BY <1>2 DEF DereferenceResolver, Registered
  <2>4. g = [h EXCEPT !.refs = refs, !.dlls = dlls, !.loads = loads]
    BY <2>2, <2>3
  <2>5. Relisted(dlls, h.dlls, r, <<>>) /\ Recounted(mid, h, refs, h.fresh)
    BY DEF Relisted, Recounted
  <2>6. \A m \in Modules : loads[m] = h.loads[m] - Cardinality(Registered(h.dlls, r, m))
    OBVIOUS
  <2>6a. Recounted(mid, h, [h.refs EXCEPT ![r] = @ - 1], h.fresh)
    BY <2>5
  <2> HIDE DEF g, dlls, loads, mid, next
  <2>7. Exact(mid, next, pending) /\ mid.fresh = h.fresh
    BY <1>0, <2>6a, LowerFact DEF next
  <2> HIDE DEF refs
  <2>8. g = HeapOf(refs, h.formatterOf, h.resolverOf, dlls, loads, h.fresh)
    BY <1>0, <2>4 DEF HeapShape, HeapOf
  <2>9. mid.refs = refs /\ mid.formatterOf = h.formatterOf /\ mid.resolverOf = h.resolverOf
    BY FieldsFact DEF mid
  <2>10. h.dlls \in [Resolvers -> Seq(Dlls)]
    BY <1>0 DEF HeapShape
  <2>11. dlls \in [Resolvers -> Seq(Dlls)]
    BY <2>10 DEF dlls
  <2>12. ASSUME NEW m \in Modules
         PROVE  loads[m] \in Int /\ loads[m] = Cardinality(DllPlaces(dlls, m)) + pending[m]
    <3>1. /\ Cardinality(DllPlaces(h.dlls, m)) \in Nat /\ Cardinality(Registered(h.dlls, r, m)) \in Nat
          /\ Cardinality(DllPlaces(dlls, m))
               = Cardinality(DllPlaces(h.dlls, m)) - Cardinality(Registered(h.dlls, r, m))
      BY <2>5, <2>10, ClearDlls
    <3>2. h.loads[m] = Cardinality(DllPlaces(h.dlls, m)) + pending[m] /\ pending[m] \in Nat
      BY <1>0 DEF LoadsExact, Loaded
    <3> QED BY <2>6, <3>1, <3>2
  <2>13. loads \in [Modules -> Int]
    <3>1. loads = [m \in Modules |-> loads[m]]
      BY DEF loads
    <3> QED BY <2>12, <3>1
  <2>14. Reloaded(g, mid, dlls, loads)
    BY <2>7, <2>8, <2>9 DEF Reloaded
  <2>15. Loaded(loads, dlls, pending)
    BY <2>12 DEF Loaded
  <2>16. DllTypes(dlls, loads, pending)
    BY <1>0, <2>11, <2>13 DEF DllTypes
  <2>17. Exact(g, next, pending) /\ g.fresh = mid.fresh
    BY <2>7, <2>14, <2>15, <2>16, DllsFact
  <2> QED BY <2>7, <2>17 DEF g, next
<1> QED BY <1>1, <1>2

\* A formatter is released; the last one releases its resolver.
LEMMA DropFormatter ==
  ASSUME NEW h, NEW outer, NEW pending, Exact(h, outer, pending), NEW f \in Formatters, outer[f] > 0
  PROVE  /\ Exact(DereferenceFormatter(h, f), Shift(outer, f, -1), pending)
         /\ DereferenceFormatter(h, f).fresh = h.fresh
<1> DEFINE g == DereferenceFormatter(h, f)
           less == [h EXCEPT !.refs[f] = @ - 1]
           next == Shift(outer, f, -1)
<1>0. HeapShape(h) /\ f \in Objects /\ f \notin h.fresh /\ Resolvers \subseteq Objects
  <2>1. HeapShape(h)
    BY DEF Exact
  <2>2. f \in Objects /\ Resolvers \subseteq Objects
    BY DEF Objects
  <2> QED BY <2>1, <2>2, UsedFact
<1>1. Recounted(less, h, [h.refs EXCEPT ![f] = @ - 1], h.fresh)
  BY <1>0, LessFact
<1>2. less.resolverOf = h.resolverOf
  OBVIOUS
<1>3. \/ g = less
      \/ h.resolverOf[f] # None /\ g = DereferenceResolver([less EXCEPT !.resolverOf[f] = None], h.resolverOf[f])
  BY DEF DereferenceFormatter
<1> HIDE DEF g, less, next
<1>4. Exact(less, next, pending) /\ less.fresh = h.fresh
  BY <1>0, <1>1, LowerFact DEF next
<1>5. CASE g = less
  BY <1>4, <1>5 DEF g, next
<1>6. CASE h.resolverOf[f] # None /\ g = DereferenceResolver([less EXCEPT !.resolverOf[f] = None], h.resolverOf[f])
  <2> DEFINE r == h.resolverOf[f]
             mid == [less EXCEPT !.resolverOf[f] = None]
             more == Shift(next, r, 1)
             none == None
  <2>1. r \in Resolvers /\ r \in Objects
    BY <1>0, <1>6 DEF HeapShape
  <2>2. next \in [Objects -> Nat]
    BY <1>4 DEF Exact
  <2>3. g = DereferenceResolver(mid, r) /\ r = less.resolverOf[f]
    BY <1>2, <1>6
  <2>4. ResolvesWith(mid, less, f, none) /\ none \in Resolvers \cup {None}
    BY DEF ResolvesWith
  <2> HIDE DEF r, mid
  <2>5. /\ more \in [Objects -> Nat] /\ more[r] > 0 /\ Moved(next, more, none, r)
        /\ Shift(more, r, -1) = next
    BY <2>1, <2>2, ShiftBack
  <2>6. Moved(next, more, none, less.resolverOf[f])
    BY <2>3, <2>5
  <2> HIDE DEF more, none
  <2>7. Exact(mid, more, pending) /\ mid.fresh = less.fresh
    BY <1>0, <1>4, <2>4, <2>5, <2>6, RelinkResolver
  <2>8. Exact(g, Shift(more, r, -1), pending) /\ g.fresh = mid.fresh
    BY <2>1, <2>3, <2>5, <2>7, DropResolver
  <2> QED BY <1>4, <2>5, <2>7, <2>8 DEF g, next
<1> QED BY <1>3, <1>5, <1>6

\* A handler is released; the last one releases its formatter.
LEMMA DropHandler ==
  ASSUME NEW h, NEW outer, NEW pending, Exact(h, outer, pending), NEW x \in Handlers, outer[x] > 0
  PROVE  /\ Exact(DereferenceHandler(h, x), Shift(outer, x, -1), pending)
         /\ DereferenceHandler(h, x).fresh = h.fresh
<1> DEFINE g == DereferenceHandler(h, x)
           less == [h EXCEPT !.refs[x] = @ - 1]
           next == Shift(outer, x, -1)
<1>0. HeapShape(h) /\ x \in Objects /\ x \notin h.fresh /\ Formatters \subseteq Objects
  <2>1. HeapShape(h)
    BY DEF Exact
  <2>2. x \in Objects /\ Formatters \subseteq Objects
    BY DEF Objects
  <2> QED BY <2>1, <2>2, UsedFact
<1>1. Recounted(less, h, [h.refs EXCEPT ![x] = @ - 1], h.fresh)
  BY <1>0, LessFact
<1>2. less.formatterOf = h.formatterOf
  OBVIOUS
<1>3. \/ g = less
      \/ h.formatterOf[x] # None /\ g = DereferenceFormatter([less EXCEPT !.formatterOf[x] = None], h.formatterOf[x])
  BY DEF DereferenceHandler
<1> HIDE DEF g, less, next
<1>4. Exact(less, next, pending) /\ less.fresh = h.fresh
  BY <1>0, <1>1, LowerFact DEF next
<1>5. CASE g = less
  BY <1>4, <1>5 DEF g, next
<1>6. CASE h.formatterOf[x] # None /\ g = DereferenceFormatter([less EXCEPT !.formatterOf[x] = None], h.formatterOf[x])
  <2> DEFINE f == h.formatterOf[x]
             mid == [less EXCEPT !.formatterOf[x] = None]
             more == Shift(next, f, 1)
             none == None
  <2>1. f \in Formatters /\ f \in Objects
    BY <1>0, <1>6 DEF HeapShape
  <2>2. next \in [Objects -> Nat]
    BY <1>4 DEF Exact
  <2>3. g = DereferenceFormatter(mid, f) /\ f = less.formatterOf[x]
    BY <1>2, <1>6
  <2>4. FormatsWith(mid, less, x, none) /\ none \in Formatters \cup {None}
    BY DEF FormatsWith
  <2> HIDE DEF f, mid
  <2>5. /\ more \in [Objects -> Nat] /\ more[f] > 0 /\ Moved(next, more, none, f)
        /\ Shift(more, f, -1) = next
    BY <2>1, <2>2, ShiftBack
  <2>6. Moved(next, more, none, less.formatterOf[x])
    BY <2>3, <2>5
  <2> HIDE DEF more, none
  <2>7. Exact(mid, more, pending) /\ mid.fresh = less.fresh
    BY <1>0, <1>4, <2>4, <2>5, <2>6, RelinkFormatter
  <2>8. Exact(g, Shift(more, f, -1), pending) /\ g.fresh = mid.fresh
    BY <2>1, <2>3, <2>5, <2>7, DropFormatter
  <2> QED BY <1>4, <2>5, <2>7, <2>8 DEF g, next
<1> QED BY <1>3, <1>5, <1>6

-----------------------------------------------------------------------------
(***************************************************************************)
(* What clients do to the heap: the count moves with the reference.        *)
(***************************************************************************)

\* The heap once a reference to o, if any, is given back.
Release(h, o) ==
    CASE o = None       -> h
      [] o \in Handlers   -> DereferenceHandler(h, o)
      [] o \in Formatters -> DereferenceFormatter(h, o)
      [] o \in Resolvers  -> DereferenceResolver(h, o)
      [] o = "session"    -> [h EXCEPT !.refs[o] = @ - 1]

\* Release, kind by kind.
LEMMA ReleaseIs ==
  ASSUME NEW h
  PROVE  /\ Release(h, None) = h
         /\ \A x \in Handlers : Release(h, x) = DereferenceHandler(h, x)
         /\ \A x \in Handlers \cup {None} : Release(h, x) = ReleaseHandler(h, x)
         /\ \A f \in Formatters : Release(h, f) = DereferenceFormatter(h, f)
         /\ \A r \in Resolvers : Release(h, r) = DereferenceResolver(h, r)
         /\ Release(h, "session") = [h EXCEPT !.refs["session"] = @ - 1]
BY DiagAssumption DEF Release, ReleaseHandler, Objects

\* The kinds of objects.
LEMMA KindsFact ==
  /\ None \notin Objects /\ "session" \in Objects
  /\ Handlers \subseteq Objects /\ Formatters \subseteq Objects /\ Resolvers \subseteq Objects
  /\ \A o \in Objects : \/ o \in Handlers \/ o \in Formatters \/ o \in Resolvers \/ o = "session"
BY DiagAssumption DEF Objects

\* A reference is given back.
LEMMA DropFact ==
  ASSUME NEW h, NEW outer, NEW pending, Exact(h, outer, pending),
         NEW o \in Objects \cup {None}, o # None => outer[o] > 0,
         NEW next \in [Objects -> Nat], Moved(outer, next, o, None)
  PROVE  Exact(Release(h, o), next, pending) /\ Release(h, o).fresh = h.fresh
<1>0. outer \in [Objects -> Nat] /\ HeapShape(h)
  BY DEF Exact
<1>1. CASE o = None
  <2>1. next = outer
    BY <1>0, <1>1, MoveFact
  <2> QED BY <1>1, <2>1, ReleaseIs
<1>2. CASE o \in Objects
  <2>0. next = Shift(outer, o, -1) /\ outer[o] > 0
    BY <1>0, <1>2, MoveFact, KindsFact
  <2>1. CASE o \in Handlers
    <3>1. Exact(DereferenceHandler(h, o), Shift(outer, o, -1), pending) /\ DereferenceHandler(h, o).fresh = h.fresh
      BY <2>0, <2>1, DropHandler
    <3> QED BY <2>0, <2>1, <3>1, ReleaseIs
  <2>2. CASE o \in Formatters
    <3>1. Exact(DereferenceFormatter(h, o), Shift(outer, o, -1), pending) /\ DereferenceFormatter(h, o).fresh = h.fresh
      BY <2>0, <2>2, DropFormatter
    <3> QED BY <2>0, <2>2, <3>1, ReleaseIs
  <2>3. CASE o \in Resolvers
    <3>1. Exact(DereferenceResolver(h, o), Shift(outer, o, -1), pending) /\ DereferenceResolver(h, o).fresh = h.fresh
      BY <2>0, <2>3, DropResolver
    <3> QED BY <2>0, <2>3, <3>1, ReleaseIs
  <2>4. CASE o = "session"
    <3> DEFINE g == [h EXCEPT !.refs[o] = @ - 1]
    <3>1. Recounted(g, h, [h.refs EXCEPT ![o] = @ - 1], h.fresh)
      BY <1>0, <1>2, LessFact
    <3>2. Release(h, o) = g
      BY <2>4, ReleaseIs
    <3> HIDE DEF g
    <3>3. Exact(g, Shift(outer, o, -1), pending) /\ g.fresh = h.fresh
      BY <1>2, <2>0, <3>1, LowerFact
    <3> QED BY <2>0, <3>2, <3>3
  <2> QED BY <1>2, <2>1, <2>2, <2>3, <2>4, KindsFact
<1> QED BY <1>1, <1>2

\* A reference is taken, to an object that exists.
LEMMA TakeFact ==
  ASSUME NEW h, NEW outer, NEW pending, Exact(h, outer, pending), NEW o \in Objects, o \notin h.fresh,
         NEW next \in [Objects -> Nat], Moved(outer, next, None, o)
  PROVE  Exact(Reference(h, o), next, pending) /\ Reference(h, o).fresh = h.fresh
<1>1. outer \in [Objects -> Nat]
  BY DEF Exact
<1>2. next = Shift(outer, o, 1)
  BY <1>1, MoveFact
<1> QED BY <1>2, RaiseFact

\* A reference is taken, to an object just created.
LEMMA NewFact ==
  ASSUME NEW h, NEW outer, NEW pending, Exact(h, outer, pending), NEW o \in Objects, o \in h.fresh,
         NEW next \in [Objects -> Nat], Moved(outer, next, None, o)
  PROVE  Exact(Allocate(h, o), next, pending) /\ Allocate(h, o).fresh = h.fresh \ {o}
<1>1. outer \in [Objects -> Nat]
  BY DEF Exact
<1>2. next = Shift(outer, o, 1)
  BY <1>1, MoveFact
<1> QED BY <1>2, AllocFact

\* A reference to one object replaces that to another, in either order.
LEMMA SwapFact ==
  ASSUME NEW h, NEW outer, NEW pending, Exact(h, outer, pending),
         NEW o \in Objects \cup {None}, o # None => outer[o] > 0,
         NEW n \in Objects, n \notin h.fresh,
         NEW next \in [Objects -> Nat], Moved(outer, next, o, n)
  PROVE  /\ Exact(Reference(Release(h, o), n), next, pending)
         /\ Exact(Release(Reference(h, n), o), next, pending)
         /\ Reference(Release(h, o), n).fresh = h.fresh
         /\ Release(Reference(h, n), o).fresh = h.fresh
<1>0. outer \in [Objects -> Nat]
  BY DEF Exact
<1> DEFINE less == [p \in Objects |-> outer[p] - One(p = o)]
           more == [p \in Objects |-> outer[p] + One(p = n)]
<1>1. /\ less \in [Objects -> Nat] /\ more \in [Objects -> Nat]
      /\ \A p \in Objects : less[p] = outer[p] - One(p = o) /\ more[p] = outer[p] + One(p = n)
  BY <1>0, KindsFact DEF One
<1> HIDE DEF less, more
<1>2. /\ Moved(outer, less, o, None) /\ Moved(less, next, None, n)
      /\ Moved(outer, more, None, n) /\ Moved(more, next, o, None)
  BY <1>0, <1>1, KindsFact DEF Moved, One
<1>3. Exact(Release(h, o), less, pending) /\ Release(h, o).fresh = h.fresh
  BY <1>1, <1>2, DropFact
<1>4. Exact(Reference(h, n), more, pending) /\ Reference(h, n).fresh = h.fresh
  BY <1>1, <1>2, TakeFact
<1>5. o # None => more[o] > 0
  BY <1>0, <1>1 DEF One
<1> DEFINE a == Release(h, o)
           b == Reference(h, n)
<1> HIDE DEF a, b
<1>6. Exact(Reference(a, n), next, pending) /\ Reference(a, n).fresh = a.fresh
  BY <1>1, <1>2, <1>3, TakeFact DEF a
<1>7. Exact(Release(b, o), next, pending) /\ Release(b, o).fresh = b.fresh
  BY <1>1, <1>2, <1>4, <1>5, DropFact DEF b
<1> QED BY <1>3, <1>4, <1>6, <1>7 DEF a, b

\* One reference of the heap for one from outside.
LEMMA LentFact ==
  ASSUME NEW outer \in [Objects -> Nat], NEW o \in Objects, outer[o] > 0
  PROVE  \E less \in [Objects -> Nat] : Moved(outer, less, o, None) /\ Moved(less, outer, None, o)
<1> DEFINE less == [p \in Objects |-> outer[p] - One(p = o)]
<1>1. less \in [Objects -> Nat] /\ \A p \in Objects : less[p] = outer[p] - One(p = o)
  BY DEF One
<1> HIDE DEF less
<1>2. Moved(outer, less, o, None) /\ Moved(less, outer, None, o)
  BY <1>1, KindsFact DEF Moved, One
<1> QED BY <1>1, <1>2

\* A formatter just created holds a reference to its resolver.
LEMMA NewFormatterFact ==
  ASSUME NEW h, NEW outer, NEW pending, Exact(h, outer, pending), NEW f \in Formatters, f \in h.fresh,
         NEW r \in Resolvers \cup {None}, r # None => outer[r] > 0,
         NEW next \in [Objects -> Nat], Moved(outer, next, None, f)
  PROVE  Exact(NewFormatter(h, f, r), next, pending) /\ NewFormatter(h, f, r).fresh = h.fresh \ {f}
<1> DEFINE a == Allocate(h, f)
           mid == [a EXCEPT !.resolverOf[f] = r]
           g == NewFormatter(h, f, r)
<1>0. f \in Objects /\ h.resolverOf[f] = None
  BY KindsFact DEF Exact, FreshInv
<1>1. Exact(a, next, pending) /\ a.fresh = h.fresh \ {f}
  BY <1>0, NewFact
<1>2. a.resolverOf = h.resolverOf
  BY DEF Allocate
<1>3. CASE r = None
  <2>1. g = a
    BY <1>3 DEF NewFormatter
  <2> QED BY <1>1, <2>1
<1>4. CASE r \in Resolvers
  <2>1. g = Reference(mid, r) /\ r \in Objects
    BY <1>4, KindsFact DEF NewFormatter
  <2>2. ResolvesWith(mid, a, f, r)
    BY DEF ResolvesWith
  <2> HIDE DEF a, mid, g
  <2>3. outer[r] > 0 /\ r \notin h.fresh
    BY <1>4, <2>1, UsedFact, KindsFact
  <2>4. next[r] > 0
    <3>1. outer[r] \in Nat /\ next[r] = outer[r] - One(r = None) + One(r = f)
      BY <2>1 DEF Exact, Moved
    <3> QED BY <2>1, <2>3, <3>1, KindsFact DEF One
  <2>5. PICK less \in [Objects -> Nat] : Moved(next, less, r, None) /\ Moved(less, next, None, r)
    BY <2>1, <2>4, LentFact
  <2>6. Moved(next, less, r, a.resolverOf[f])
    BY <1>0, <1>2, <2>5
  <2>7. f \notin a.fresh
    BY <1>1
  <2>8. Exact(mid, less, pending) /\ mid.fresh = a.fresh
    BY <1>1, <2>2, <2>6, <2>7, RelinkResolver
  <2>9. r \notin mid.fresh
    BY <1>1, <2>3, <2>8
  <2>10. Exact(g, next, pending) /\ g.fresh = mid.fresh
    BY <2>1, <2>5, <2>8, <2>9, TakeFact
  <2> QED BY <1>1, <2>8, <2>10 DEF g
<1> QED BY <1>3, <1>4

\* The same for a handler with formatter f.
HandlerWith(h, x, f) == Reference([Allocate(h, x) EXCEPT !.formatterOf[x] = f], f)

\* A handler just created holds a reference to its formatter.
LEMMA NewHandlerFact ==
  ASSUME NEW h, NEW outer, NEW pending, Exact(h, outer, pending), NEW x \in Handlers, x \in h.fresh,
         NEW f \in Formatters, outer[f] > 0,
         NEW next \in [Objects -> Nat], Moved(outer, next, None, x)
  PROVE  Exact(HandlerWith(h, x, f), next, pending) /\ HandlerWith(h, x, f).fresh = h.fresh \ {x}
<1> DEFINE a == Allocate(h, x)
           mid == [a EXCEPT !.formatterOf[x] = f]
           g == HandlerWith(h, x, f)
<1>0. x \in Objects /\ h.formatterOf[x] = None
  BY KindsFact DEF Exact, FreshInv
<1>1. Exact(a, next, pending) /\ a.fresh = h.fresh \ {x}
  BY <1>0, NewFact
<1>2. a.formatterOf = h.formatterOf
  BY DEF Allocate
<1>3. g = Reference(mid, f) /\ f \in Objects
  BY KindsFact DEF HandlerWith
<1>4. FormatsWith(mid, a, x, f)
  BY DEF FormatsWith
<1> HIDE DEF a, mid, g
<1>5. f \notin h.fresh
  BY <1>3, UsedFact
<1>6. next[f] > 0
  <2>1. outer[f] \in Nat /\ next[f] = outer[f] - One(f = None) + One(f = x)
    BY <1>3 DEF Exact, Moved
  <2> QED BY <1>3, <2>1, KindsFact DEF One
<1>7. PICK less \in [Objects -> Nat] : Moved(next, less, f, None) /\ Moved(less, next, None, f)
  BY <1>3, <1>6, LentFact
<1>8. Moved(next, less, f, a.formatterOf[x])
  BY <1>0, <1>2, <1>7
<1>9. x \notin a.fresh
  BY <1>1
<1>10. Exact(mid, less, pending) /\ mid.fresh = a.fresh
  BY <1>1, <1>4, <1>8, <1>9, RelinkFormatter
<1>11. f \notin mid.fresh
  BY <1>1, <1>5, <1>10
<1>12. Exact(g, next, pending) /\ g.fresh = mid.fresh
  BY <1>3, <1>7, <1>10, <1>11, TakeFact
<1> QED BY <1>1, <1>10, <1>12 DEF g

-----------------------------------------------------------------------------
(***************************************************************************)
(* The outer references.                                                   *)
(***************************************************************************)

\* The session, the client and calls under way refer to an object so many times.
LEMMA OuterAt ==
  ASSUME NEW s, NEW w \in [Objects -> Nat], NEW c, NEW o \in Objects
  PROVE  /\ Cardinality(Tabled(s, o)) \in Nat /\ Cardinality(Handling(c, o)) \in Nat /\ w[o] \in Nat
         /\ Outer(s, w, c)[o]
              = w[o] + Cardinality(Tabled(s, o)) + One(s.default = o) + One(s.formatter = o)
                + One(s.resolver = o) + Cardinality(Handling(c, o))
<1>1. Tabled(s, o) \subseteq Types /\ Handling(c, o) \subseteq Threads
  BY DEF Tabled, Handling
<1>2. IsFiniteSet(Tabled(s, o)) /\ IsFiniteSet(Handling(c, o))
  BY <1>1, FiniteSets, FS_Subset
<1>3. Cardinality(Tabled(s, o)) \in Nat /\ Cardinality(Handling(c, o)) \in Nat
  BY <1>2, FS_CardinalityType
<1>4. Outer(s, w, c)[o]
        = w[o] + Cardinality(Tabled(s, o)) + One(s.default = o) + One(s.formatter = o)
          + One(s.resolver = o) + Cardinality(Handling(c, o))
  BY DEF Outer
<1> QED BY <1>3, <1>4

\* Those are natural numbers.
LEMMA OuterFact ==
  ASSUME NEW s, NEW w \in [Objects -> Nat], NEW c
  PROVE  Outer(s, w, c) \in [Objects -> Nat]
<1>1. ASSUME NEW o \in Objects PROVE Outer(s, w, c)[o] \in Nat
  <2>1. /\ Cardinality(Tabled(s, o)) \in Nat /\ Cardinality(Handling(c, o)) \in Nat /\ w[o] \in Nat
        /\ Outer(s, w, c)[o]
             = w[o] + Cardinality(Tabled(s, o)) + One(s.default = o) + One(s.formatter = o)
               + One(s.resolver = o) + Cardinality(Handling(c, o))
    BY OuterAt
  <2> QED BY <2>1 DEF One
<1>2. Outer(s, w, c) = [o \in Objects |-> Outer(s, w, c)[o]]
  BY DEF Outer
<1> QED BY <1>1, <1>2

\* Whoever is referred to by somebody has outer references.
LEMMA HolderFact ==
  ASSUME NEW s, NEW w \in [Objects -> Nat], NEW c, NEW o \in Objects,
         \/ w[o] > 0 \/ s.default = o \/ s.formatter = o \/ s.resolver = o
         \/ \E type \in Types : s.table[type] = o
         \/ \E t \in Threads : Held(c[t]) = o
  PROVE  Outer(s, w, c)[o] > 0
<1>1. /\ Cardinality(Tabled(s, o)) \in Nat /\ Cardinality(Handling(c, o)) \in Nat /\ w[o] \in Nat
      /\ Outer(s, w, c)[o]
           = w[o] + Cardinality(Tabled(s, o)) + One(s.default = o) + One(s.formatter = o)
             + One(s.resolver = o) + Cardinality(Handling(c, o))
  BY OuterAt
<1>2. (\E type \in Types : s.table[type] = o) => Cardinality(Tabled(s, o)) # 0
  <2>1. (\E type \in Types : s.table[type] = o) => Tabled(s, o) # {}
    BY DEF Tabled
  <2>2. Tabled(s, o) \subseteq Types
    BY DEF Tabled
  <2>3. IsFiniteSet(Tabled(s, o))
    BY <2>2, FiniteSets, FS_Subset
  <2> QED BY <2>1, <2>3, FS_EmptySet
<1>3. (\E t \in Threads : Held(c[t]) = o) => Cardinality(Handling(c, o)) # 0
  <2>1. (\E t \in Threads : Held(c[t]) = o) => Handling(c, o) # {}
    BY KindsFact DEF Handling, Held
  <2>2. Handling(c, o) \subseteq Threads
    BY DEF Handling
  <2>3. IsFiniteSet(Handling(c, o))
    BY <2>2, FiniteSets, FS_Subset
  <2> QED BY <2>1, <2>3, FS_EmptySet
<1> QED BY <1>1, <1>2, <1>3 DEF One

\* The client's references.
LEMMA OwnedMove ==
  ASSUME NEW s, NEW w \in [Objects -> Nat], NEW v \in [Objects -> Nat], NEW c, NEW old, NEW new,
         Moved(w, v, old, new)
  PROVE  Moved(Outer(s, w, c), Outer(s, v, c), old, new)
<1> SUFFICES ASSUME NEW o \in Objects
             PROVE  Outer(s, v, c)[o] = Outer(s, w, c)[o] - One(o = old) + One(o = new)
  BY DEF Moved
<1>1. v[o] = w[o] - One(o = old) + One(o = new) /\ w[o] \in Nat /\ v[o] \in Nat
  BY DEF Moved
<1>2. Cardinality(Tabled(s, o)) \in Nat /\ Cardinality(Handling(c, o)) \in Nat
  BY OuterAt
<1>3. Outer(s, w, c)[o]
        = w[o] + Cardinality(Tabled(s, o)) + One(s.default = o) + One(s.formatter = o)
          + One(s.resolver = o) + Cardinality(Handling(c, o))
  BY OuterAt
<1>4. Outer(s, v, c)[o]
        = v[o] + Cardinality(Tabled(s, o)) + One(s.default = o) + One(s.formatter = o)
          + One(s.resolver = o) + Cardinality(Handling(c, o))
  BY OuterAt
<1> QED BY <1>1, <1>2, <1>3, <1>4 DEF One

\* The session's references: one of its members changes.
LEMMA MemberMove ==
  ASSUME NEW s, NEW q, NEW w \in [Objects -> Nat], NEW c, q.table = s.table
  PROVE  /\ q.formatter = s.formatter /\ q.resolver = s.resolver =>
              Moved(Outer(s, w, c), Outer(q, w, c), s.default, q.default)
         /\ q.default = s.default /\ q.resolver = s.resolver =>
              Moved(Outer(s, w, c), Outer(q, w, c), s.formatter, q.formatter)
         /\ q.default = s.default /\ q.formatter = s.formatter =>
              Moved(Outer(s, w, c), Outer(q, w, c), s.resolver, q.resolver)
         /\ q.default = s.default /\ q.formatter = s.formatter /\ q.resolver = s.resolver =>
              Outer(q, w, c) = Outer(s, w, c)
<1>1. ASSUME NEW o \in Objects
      PROVE  Outer(q, w, c)[o]
               = Outer(s, w, c)[o]
                 - One(o = s.default) - One(o = s.formatter) - One(o = s.resolver)
                 + One(o = q.default) + One(o = q.formatter) + One(o = q.resolver)
  <2>1. Tabled(q, o) = Tabled(s, o)
    BY DEF Tabled
  <2>2. /\ Cardinality(Tabled(s, o)) \in Nat /\ Cardinality(Handling(c, o)) \in Nat /\ w[o] \in Nat
        /\ Outer(s, w, c)[o]
             = w[o] + Cardinality(Tabled(s, o)) + One(s.default = o) + One(s.formatter = o)
               + One(s.resolver = o) + Cardinality(Handling(c, o))
    BY OuterAt
  <2>3. Outer(q, w, c)[o]
          = w[o] + Cardinality(Tabled(q, o)) + One(q.default = o) + One(q.formatter = o)
            + One(q.resolver = o) + Cardinality(Handling(c, o))
    BY OuterAt
  <2> QED BY <2>1, <2>2, <2>3 DEF One
<1>2. Outer(s, w, c) \in [Objects -> Nat] /\ Outer(q, w, c) \in [Objects -> Nat]
  BY OuterFact
<1> DEFINE a == Outer(s, w, c)
           b == Outer(q, w, c)
<1>3. \A o \in Objects :
         b[o] = a[o] - One(o = s.default) - One(o = s.formatter) - One(o = s.resolver)
                + One(o = q.default) + One(o = q.formatter) + One(o = q.resolver)
  BY <1>1
<1>4. a \in [Objects -> Nat] /\ b \in [Objects -> Nat]
  BY <1>2
<1> HIDE DEF a, b
<1>5. q.formatter = s.formatter /\ q.resolver = s.resolver => Moved(a, b, s.default, q.default)
  BY <1>3, <1>4 DEF Moved, One
<1>6. q.default = s.default /\ q.resolver = s.resolver => Moved(a, b, s.formatter, q.formatter)
  BY <1>3, <1>4 DEF Moved, One
<1>7. q.default = s.default /\ q.formatter = s.formatter => Moved(a, b, s.resolver, q.resolver)
  BY <1>3, <1>4 DEF Moved, One
<1>8. q.default = s.default /\ q.formatter = s.formatter /\ q.resolver = s.resolver => b = a
  <2>1. q.default = s.default /\ q.formatter = s.formatter /\ q.resolver = s.resolver =>
           \A o \in Objects : b[o] = a[o]
    BY <1>3, <1>4 DEF One
  <2> QED BY <1>4, <2>1
<1> QED BY <1>5, <1>6, <1>7, <1>8 DEF a, b

\* The session's references: an entry of the table changes.
LEMMA TableMove ==
  ASSUME NEW s, NEW q, NEW w \in [Objects -> Nat], NEW c, NEW type \in Types,
         q.default = s.default, q.formatter = s.formatter, q.resolver = s.resolver,
         \A y \in Types : y # type => q.table[y] = s.table[y]
  PROVE  Moved(Outer(s, w, c), Outer(q, w, c), s.table[type], q.table[type])
<1> SUFFICES ASSUME NEW o \in Objects
             PROVE  Outer(q, w, c)[o] = Outer(s, w, c)[o] - One(o = s.table[type]) + One(o = q.table[type])
  BY DEF Moved
<1> DEFINE A == Tabled(s, o)
           B == Tabled(q, o)
<1>1. /\ A \subseteq Types /\ B \subseteq Types /\ \A y \in Types : y # type => (y \in A <=> y \in B)
      /\ (type \in A <=> o = s.table[type]) /\ (type \in B <=> o = q.table[type])
  BY DEF Tabled
<1>2. /\ Cardinality(A) \in Nat /\ Cardinality(Handling(c, o)) \in Nat /\ w[o] \in Nat
      /\ Outer(s, w, c)[o]
           = w[o] + Cardinality(A) + One(s.default = o) + One(s.formatter = o)
             + One(s.resolver = o) + Cardinality(Handling(c, o))
  BY OuterAt
<1>3. Outer(q, w, c)[o]
        = w[o] + Cardinality(B) + One(q.default = o) + One(q.formatter = o)
          + One(q.resolver = o) + Cardinality(Handling(c, o))
  BY OuterAt
<1> HIDE DEF A, B
<1>4. Cardinality(B) = Cardinality(A) - One(type \in A) + One(type \in B)
  BY <1>1, FiniteSets, CountFact
<1> QED BY <1>1, <1>2, <1>3, <1>4 DEF One

\* c and d differ in t only.
SameBut(d, c, t) == \A u \in Threads : u # t => d[u] = c[u]

\* The references of calls: that of one thread changes.
LEMMA CallMove ==
  ASSUME NEW s, NEW w \in [Objects -> Nat], NEW c, NEW d, NEW t \in Threads,
         SameBut(d, c, t)
  PROVE  Moved(Outer(s, w, c), Outer(s, w, d), Held(c[t]), Held(d[t]))
<1> SUFFICES ASSUME NEW o \in Objects
             PROVE  Outer(s, w, d)[o] = Outer(s, w, c)[o] - One(o = Held(c[t])) + One(o = Held(d[t]))
  BY DEF Moved
<1> DEFINE A == Handling(c, o)
           B == Handling(d, o)
<1>1. /\ A \subseteq Threads /\ B \subseteq Threads /\ \A u \in Threads : u # t => (u \in A <=> u \in B)
      /\ (t \in A <=> o = Held(c[t])) /\ (t \in B <=> o = Held(d[t]))
  BY KindsFact DEF Handling, Held, SameBut
<1>2. /\ Cardinality(Tabled(s, o)) \in Nat /\ Cardinality(A) \in Nat /\ w[o] \in Nat
      /\ Outer(s, w, c)[o]
           = w[o] + Cardinality(Tabled(s, o)) + One(s.default = o) + One(s.formatter = o)
             + One(s.resolver = o) + Cardinality(A)
  BY OuterAt
<1>3. Outer(s, w, d)[o]
        = w[o] + Cardinality(Tabled(s, o)) + One(s.default = o) + One(s.formatter = o)
          + One(s.resolver = o) + Cardinality(B)
  BY OuterAt
<1> HIDE DEF A, B
<1>4. Cardinality(B) = Cardinality(A) - One(t \in A) + One(t \in B)
  BY <1>1, FiniteSets, CountFact
<1> QED BY <1>1, <1>2, <1>3, <1>4 DEF One

\* The DLLs calls have loaded: those of one thread change.
Loads(x, m) == x.op = "register" /\ x.module = m

\* One thread registers, or stops to.
LEMMA PendingMove ==
  ASSUME NEW c, NEW d, NEW t \in Threads, SameBut(d, c, t)
  PROVE  /\ Pending(c) \in [Modules -> Nat] /\ Pending(d) \in [Modules -> Nat]
         /\ \A m \in Modules : Pending(d)[m] = Pending(c)[m] - One(Loads(c[t], m)) + One(Loads(d[t], m))
<1>1. ASSUME NEW m \in Modules
      PROVE  /\ Cardinality(Loading(c, m)) \in Nat /\ Cardinality(Loading(d, m)) \in Nat
             /\ Cardinality(Loading(d, m))
                  = Cardinality(Loading(c, m)) - One(Loads(c[t], m)) + One(Loads(d[t], m))
  <2> DEFINE A == Loading(c, m)
             B == Loading(d, m)
  <2>1. /\ A \subseteq Threads /\ B \subseteq Threads /\ \A u \in Threads : u # t => (u \in A <=> u \in B)
        /\ (t \in A <=> Loads(c[t], m)) /\ (t \in B <=> Loads(d[t], m))
    BY DEF Loading, Loads, SameBut
  <2> HIDE DEF A, B
  <2>2. /\ Cardinality(A) \in Nat /\ Cardinality(B) \in Nat
        /\ Cardinality(B) = Cardinality(A) - One(t \in A) + One(t \in B)
    BY <2>1, FiniteSets, CountFact
  <2>3. Cardinality(B) = Cardinality(A) - One(Loads(c[t], m)) + One(Loads(d[t], m))
    BY <2>1, <2>2 DEF One
  <2> QED BY <2>2, <2>3 DEF A, B
<1>2. Pending(c) \in [Modules -> Nat] /\ Pending(d) \in [Modules -> Nat]
  BY <1>1 DEF Pending
<1>3. \A m \in Modules : Pending(d)[m] = Cardinality(Loading(d, m)) /\ Pending(c)[m] = Cardinality(Loading(c, m))
  BY DEF Pending
<1> QED BY <1>1, <1>2, <1>3

-----------------------------------------------------------------------------
(***************************************************************************)
(* The steps.                                                              *)
(***************************************************************************)

\* The members of a session.
LEMMA MembersFact ==
  ASSUME NEW default \in Handlers \cup {None}, NEW table \in [Types -> Handlers \cup {None}], NEW filter,
         NEW formatter \in Formatters \cup {None}, NEW resolver \in Resolvers \cup {None},
         NEW q, q = SessionOf(default, table, filter, formatter, resolver)
  PROVE  /\ q.default = default /\ q.table = table /\ q.formatter = formatter /\ q.resolver = resolver
         /\ SessionType(q)
         /\ formatter # None /\ resolver # None => SessionInv(q) /\ q # NoSession
<1>1. /\ q.default = default /\ q.table = table /\ q.filter = filter
      /\ q.formatter = formatter /\ q.resolver = resolver
  BY DEF SessionOf
<1>2. SessionType(q)
  BY <1>1 DEF SessionType
<1>3. q = NoSession => q.formatter = None
  BY DEF NoSession
<1> QED BY <1>1, <1>2, <1>3 DEF SessionInv

\* No session.
LEMMA NoSessionFact ==
  /\ SessionInv(NoSession)
  /\ NoSession = SessionOf(None, [t \in Types |-> None], [t \in Types |-> {}], None, None)
<1> DEFINE table == [t \in Types |-> None]
           filter == [t \in Types |-> {}]
<1>1. NoSession = SessionOf(None, table, filter, None, None)
  BY DEF NoSession, SessionOf
<1>2. table \in [Types -> Handlers \cup {None}]
  OBVIOUS
<1> HIDE DEF table, filter
<1>3. SessionType(NoSession)
  BY <1>1, <1>2, MembersFact
<1> QED BY <1>1, <1>3 DEF SessionInv, table, filter

\* What DiagInv says of the parts.
LEMMA DiagFacts ==
  ASSUME DiagInv
  PROVE  /\ Exact(heap, Outer(session, owned, call), Pending(call))
         /\ Outer(session, owned, call) \in [Objects -> Nat] /\ Pending(call) \in [Modules -> Nat]
         /\ HeapShape(heap) /\ SessionType(session) /\ SessionInv(session)
         /\ owned \in [Objects -> Nat] /\ CallsInv(call) /\ OwnerInv
BY DEF DiagInv, Exact, SessionInv

\* A client that owns the session has one with all its members.
LEMMA OwnerFact ==
  ASSUME DiagInv, Owns("session")
  PROVE  /\ session # NoSession /\ "session" \notin heap.fresh
         /\ session.formatter \in Formatters /\ session.resolver \in Resolvers
BY DiagFacts DEF Owns, OwnerInv, SessionInv, SessionType

\* An object the client owns exists.
LEMMA OwnsFact ==
  ASSUME DiagInv, NEW o \in Objects, owned[o] > 0
  PROVE  Outer(session, owned, call)[o] > 0 /\ o \notin heap.fresh
<1>1. owned \in [Objects -> Nat] /\ Exact(heap, Outer(session, owned, call), Pending(call))
  BY DiagFacts
<1>2. Outer(session, owned, call)[o] > 0
  BY <1>1, HolderFact
<1> QED BY <1>1, <1>2, UsedFact

\* A client gets a reference.
LEMMA GiveMove ==
  ASSUME DiagInv, NEW o \in Objects, Give(o)
  PROVE  /\ owned' \in [Objects -> Nat] /\ \A p \in Objects : p # o => owned'[p] = owned[p]
         /\ Outer(session, owned', call) \in [Objects -> Nat]
         /\ Moved(Outer(session, owned, call), Outer(session, owned', call), None, o)
<1>0. owned \in [Objects -> Nat]
  BY DiagFacts
<1>1. owned' \in [Objects -> Nat] /\ owned'[o] = owned[o] + 1 /\ \A p \in Objects : p # o => owned'[p] = owned[p]
  BY <1>0 DEF Give
<1>2. Moved(owned, owned', None, o)
  BY <1>0, <1>1, KindsFact DEF Moved, One
<1>3. Moved(Outer(session, owned, call), Outer(session, owned', call), None, o)
  BY <1>0, <1>1, <1>2, OwnedMove
<1>4. Outer(session, owned', call) \in [Objects -> Nat]
  BY <1>1, OuterFact
<1> QED BY <1>1, <1>3, <1>4

\* A step that gives a reference to the client and changes the heap to match.
LEMMA GivesStep ==
  ASSUME DiagInv, NEW o \in Objects, Give(o), UNCHANGED <<session, call>>,
         o = "session" => owned["session"] > 0,
         Exact(heap', Outer(session, owned', call), Pending(call)), heap'.fresh \subseteq heap.fresh
  PROVE  DiagInv'
<1>0. SessionInv(session) /\ owned \in [Objects -> Nat] /\ CallsInv(call) /\ OwnerInv
  BY DiagFacts
<1>1. owned' \in [Objects -> Nat] /\ \A p \in Objects : p # o => owned'[p] = owned[p]
  BY GiveMove
<1>2. session' = session /\ call' = call
  OBVIOUS
<1>3. owned'["session"] > 0 => session # NoSession
  BY <1>0, <1>1, KindsFact DEF OwnerInv
<1>4. OwnerInv'
  BY <1>0, <1>2, <1>3 DEF OwnerInv
<1> QED BY <1>0, <1>1, <1>2, <1>4 DEF DiagInv

\* A step that changes a session.
LEMMA SessionStep ==
  ASSUME DiagInv, UNCHANGED <<owned, call>>, session # NoSession, session' # NoSession, SessionInv(session'),
         Exact(heap', Outer(session', owned, call), Pending(call)), heap'.fresh \subseteq heap.fresh
  PROVE  DiagInv'
<1>0. owned \in [Objects -> Nat] /\ CallsInv(call) /\ OwnerInv
  BY DiagFacts
<1>1. owned' = owned /\ call' = call
  OBVIOUS
<1>2. OwnerInv'
  BY <1>0, <1>1 DEF OwnerInv
<1> QED BY <1>0, <1>1, <1>2 DEF DiagInv

\* Calls that begin or end.
LEMMA CallsStep ==
  ASSUME DiagInv, UNCHANGED <<session, owned>>, NEW t \in Threads, NEW x, CallInv(x),
         call' = [call EXCEPT ![t] = x],
         Exact(heap', Outer(session, owned, call'), Pending(call')), heap'.fresh \subseteq heap.fresh
  PROVE  DiagInv'
<1>0. SessionInv(session) /\ owned \in [Objects -> Nat] /\ CallsInv(call) /\ OwnerInv
  BY DiagFacts
<1>1. owned' = owned /\ session' = session
  OBVIOUS
<1>2. OwnerInv'
  BY <1>0, <1>1 DEF OwnerInv
<1>3. CallsInv(call')
  BY <1>0 DEF CallsInv
<1> QED BY <1>0, <1>1, <1>2, <1>3 DEF DiagInv

\* The thread's entry changes and no other.
LEMMA CallFact ==
  ASSUME DiagInv, NEW t \in Threads, NEW x, call' = [call EXCEPT ![t] = x]
  PROVE  call'[t] = x /\ SameBut(call', call, t)
<1>1. call = [u \in Threads |-> call[u]]
  BY DiagFacts DEF CallsInv
<1> QED BY <1>1 DEF SameBut

-----------------------------------------------------------------------------
\* The Dereference methods.
LEMMA ClientReleasesStep ==
  ASSUME DiagInv, NEW o \in Objects, ClientReleases(o)
  PROVE  DiagInv'
<1> DEFINE outer == Outer(session, owned, call)
           next == Outer(session, owned', call)
<1>0. /\ SessionInv(session) /\ owned \in [Objects -> Nat] /\ CallsInv(call) /\ OwnerInv
      /\ Exact(heap, outer, Pending(call))
  BY DiagFacts
<1>1. owned[o] > 0
  <2>1. {t \in Threads : call[t].op = "register" /\ call[t].object = o} \subseteq Threads
    OBVIOUS
  <2>2. IsFiniteSet({t \in Threads : call[t].op = "register" /\ call[t].object = o})
    BY <2>1, FiniteSets, FS_Subset
  <2>3. InUse(o) \in Nat
    BY <2>2, FS_CardinalityType DEF InUse
  <2> QED BY <1>0, <2>3 DEF ClientReleases
<1>2. /\ owned' \in [Objects -> Nat] /\ owned'[o] = owned[o] - 1
      /\ \A p \in Objects : p # o => owned'[p] = owned[p]
  BY <1>0, <1>1 DEF ClientReleases
<1>3. Moved(owned, owned', o, None)
  BY <1>0, <1>1, <1>2, KindsFact DEF Moved, One
<1>4. Moved(outer, next, o, None)
  BY <1>0, <1>2, <1>3, OwnedMove
<1>5. next \in [Objects -> Nat]
  BY <1>2, OuterFact
<1>6. outer[o] > 0
  BY <1>1, OwnsFact
<1>7. heap' = Release(heap, o)
  BY KindsFact DEF ClientReleases, Release
<1> HIDE DEF outer, next
<1>8. Exact(heap', next, Pending(call)) /\ heap'.fresh = heap.fresh
  BY <1>0, <1>4, <1>5, <1>6, <1>7, DropFact
<1>9. session' = session /\ call' = call
  BY DEF ClientReleases
<1>10. owned'["session"] > 0 => owned["session"] > 0
  BY <1>0, <1>1, <1>2, KindsFact
<1>11. OwnerInv'
  BY <1>0, <1>8, <1>9, <1>10 DEF OwnerInv
<1> QED BY <1>0, <1>2, <1>8, <1>9, <1>11 DEF DiagInv, next

\* A reference more for the client.
LEMMA TakesStep ==
  ASSUME DiagInv, NEW o \in Objects, Give(o), UNCHANGED <<session, call>>, owned["session"] > 0 \/ o # "session",
         heap' = Reference(heap, o), Outer(session, owned, call)[o] > 0
  PROVE  DiagInv'
<1> DEFINE outer == Outer(session, owned, call)
           next == Outer(session, owned', call)
<1>1. Exact(heap, outer, Pending(call)) /\ outer[o] > 0
  BY DiagFacts
<1>2. next \in [Objects -> Nat] /\ Moved(outer, next, None, o)
  BY GiveMove
<1> HIDE DEF outer, next
<1>3. o \notin heap.fresh
  BY <1>1, UsedFact
<1>4. Exact(heap', next, Pending(call)) /\ heap'.fresh = heap.fresh
  BY <1>1, <1>2, <1>3, TakeFact
<1> QED BY <1>4, GivesStep DEF next

\* The Reference methods.
LEMMA ClientReferencesStep ==
  ASSUME DiagInv, NEW o \in Objects, ClientReferences(o)
  PROVE  DiagInv'
<1>1. owned[o] > 0 /\ Give(o) /\ UNCHANGED <<session, call>> /\ heap' = Reference(heap, o)
  BY DEF ClientReferences, Owns
<1>2. Outer(session, owned, call)[o] > 0
  BY <1>1, OwnsFact
<1> QED BY <1>1, <1>2, TakesStep

\* CdiagQueryInformationSession
LEMMA QueryInformationStep ==
  ASSUME DiagInv, NEW o \in Objects, QueryInformation(o)
  PROVE  DiagInv'
<1>1. /\ owned["session"] > 0 /\ Give(o) /\ UNCHANGED <<session, call>> /\ heap' = Reference(heap, o)
      /\ \/ session.default = o \/ session.formatter = o \/ session.resolver = o
         \/ \E type \in Types : session.table[type] = o
  BY DEF QueryInformation, QueriedHandlers, Owns
<1>2. owned \in [Objects -> Nat]
  BY DiagFacts
<1>3. Outer(session, owned, call)[o] > 0
  BY <1>1, <1>2, HolderFact
<1> QED BY <1>1, <1>3, TakesStep

\* CdiagCreateMessageResolver
LEMMA CreateMessageResolverStep ==
  ASSUME DiagInv, NEW r \in Resolvers, CreateMessageResolver(r)
  PROVE  DiagInv'
<1> DEFINE outer == Outer(session, owned, call)
           next == Outer(session, owned', call)
<1>0. r \in Objects /\ r # "session"
  BY DiagAssumption, KindsFact
<1>1. r \in heap.fresh /\ Give(r) /\ UNCHANGED <<session, call>> /\ heap' = Allocate(heap, r)
  BY DEF CreateMessageResolver
<1>2. Exact(heap, outer, Pending(call))
  BY DiagFacts
<1>3. next \in [Objects -> Nat] /\ Moved(outer, next, None, r)
  BY <1>0, <1>1, GiveMove
<1> HIDE DEF outer, next
<1>4. Exact(heap', next, Pending(call)) /\ heap'.fresh = heap.fresh \ {r}
  BY <1>0, <1>1, <1>2, <1>3, NewFact
<1>5. heap'.fresh \subseteq heap.fresh
  BY <1>4
<1> QED BY <1>0, <1>1, <1>4, <1>5, GivesStep DEF next

\* CdiagCreateFormatter
LEMMA CreateFormatterStep ==
  ASSUME DiagInv, NEW f \in Formatters, NEW r \in Resolvers \cup {None}, CreateFormatter(f, r)
  PROVE  DiagInv'
<1> DEFINE outer == Outer(session, owned, call)
           next == Outer(session, owned', call)
<1>0. f \in Objects /\ f # "session"
  BY DiagAssumption, KindsFact
<1>1. /\ f \in heap.fresh /\ Give(f) /\ UNCHANGED <<session, call>> /\ heap' = NewFormatter(heap, f, r)
      /\ r # None => owned[r] > 0
  BY DEF CreateFormatter, Owns
<1>2. Exact(heap, outer, Pending(call))
  BY DiagFacts
<1>3. next \in [Objects -> Nat] /\ Moved(outer, next, None, f)
  BY <1>0, <1>1, GiveMove
<1>4. r # None => outer[r] > 0
  BY <1>1, OwnsFact, KindsFact
<1> HIDE DEF outer, next
<1>5. Exact(heap', next, Pending(call)) /\ heap'.fresh = heap.fresh \ {f}
  BY <1>1, <1>2, <1>3, <1>4, NewFormatterFact
<1>6. heap'.fresh \subseteq heap.fresh
  BY <1>5
<1> QED BY <1>0, <1>1, <1>5, <1>6, GivesStep DEF next

\* CdiagCreateOutputHandler, CdiagCreateTextFileHandler
LEMMA CreateHandlerStep ==
  ASSUME DiagInv, NEW x \in Handlers, CreateHandler(x)
  PROVE  DiagInv'
<1> DEFINE outer == Outer(session, owned, call)
           next == Outer(session, owned', call)
           f == session.formatter
<1>0. x \in Objects /\ x # "session"
  BY DiagAssumption, KindsFact
<1>1. /\ x \in heap.fresh /\ Give(x) /\ UNCHANGED <<session, call>> /\ heap' = HandlerWith(heap, x, f)
      /\ Owns("session")
  BY DEF CreateHandler, NewHandler, HandlerWith
<1>2. Exact(heap, outer, Pending(call)) /\ owned \in [Objects -> Nat]
  BY DiagFacts
<1>3. next \in [Objects -> Nat] /\ Moved(outer, next, None, x)
  BY <1>0, <1>1, GiveMove
<1>4. f \in Formatters /\ f \in Objects
  BY <1>1, OwnerFact, KindsFact
<1>5. outer[f] > 0
  BY <1>2, <1>4, HolderFact
<1> HIDE DEF outer, next, f
<1>6. Exact(heap', next, Pending(call)) /\ heap'.fresh = heap.fresh \ {x}
  BY <1>1, <1>2, <1>3, <1>4, <1>5, NewHandlerFact
<1>7. heap'.fresh \subseteq heap.fresh
  BY <1>6
<1> QED BY <1>0, <1>1, <1>6, <1>7, GivesStep DEF next

-----------------------------------------------------------------------------
\* CdiagsSetDefaultHandler
LEMMA SetDefaultHandlerStep ==
  ASSUME DiagInv, NEW x \in Handlers, SetDefaultHandler(x)
  PROVE  DiagInv'
<1> DEFINE outer == Outer(session, owned, call)
           next == Outer(session', owned, call)
           o == session.default
<1>0. /\ Owns("session") /\ owned[x] > 0 /\ UNCHANGED <<owned, call>>
      /\ heap' = Reference(ReleaseHandler(heap, o), x) /\ session' = [session EXCEPT !.default = x]
  BY DEF SetDefaultHandler, Owns
<1>1. Exact(heap, outer, Pending(call)) /\ owned \in [Objects -> Nat] /\ SessionType(session)
  BY DiagFacts
<1>2. x \in Objects /\ session # NoSession /\ session.formatter \in Formatters /\ session.resolver \in Resolvers
  BY <1>0, OwnerFact, KindsFact
<1>3. o \in Handlers \cup {None} /\ o \in Objects \cup {None}
  BY <1>1, KindsFact DEF SessionType
<1>4. session' = SessionOf(x, session.table, session.filter, session.formatter, session.resolver)
  BY <1>0, <1>1 DEF SessionType, SessionOf
<1>5. /\ session'.default = x /\ session'.table = session.table /\ session'.formatter = session.formatter
      /\ session'.resolver = session.resolver /\ SessionInv(session') /\ session' # NoSession
  <2>1. session.table \in [Types -> Handlers \cup {None}]
    BY <1>1 DEF SessionType
  <2> QED BY <1>2, <1>4, <2>1, MembersFact, KindsFact
<1>6. Moved(outer, next, o, x)
  BY <1>1, <1>5, MemberMove
<1>7. next \in [Objects -> Nat]
  BY <1>1, OuterFact
<1>8. o # None => outer[o] > 0
  BY <1>1, <1>3, HolderFact
<1>9. x \notin heap.fresh
  BY <1>0, <1>2, OwnsFact
<1>10. heap' = Reference(Release(heap, o), x)
  BY <1>0, <1>3, ReleaseIs
<1> HIDE DEF outer, next, o
<1>11. Exact(heap', next, Pending(call)) /\ heap'.fresh = heap.fresh
  BY <1>1, <1>2, <1>3, <1>6, <1>7, <1>8, <1>9, <1>10, SwapFact
<1> QED BY <1>0, <1>2, <1>5, <1>11, SessionStep DEF next

\* CdiagsSetHandler
LEMMA SetHandlerStep ==
  ASSUME DiagInv, NEW type \in Types, NEW x \in Handlers, SetHandler(type, x)
  PROVE  DiagInv'
<1> DEFINE outer == Outer(session, owned, call)
           next == Outer(session', owned, call)
           o == session.table[type]
           table == [session.table EXCEPT ![type] = x]
           filter == [session.filter EXCEPT ![type] = Types]
<1>0. /\ Owns("session") /\ owned[x] > 0 /\ UNCHANGED <<owned, call>>
      /\ heap' = ReleaseHandler(Reference(heap, x), o)
      /\ session' = [session EXCEPT !.table = table, !.filter = filter]
  BY DEF SetHandler, Owns
<1>1. Exact(heap, outer, Pending(call)) /\ owned \in [Objects -> Nat] /\ SessionType(session)
  BY DiagFacts
<1>2. x \in Objects /\ session # NoSession /\ session.formatter \in Formatters /\ session.resolver \in Resolvers
  BY <1>0, OwnerFact, KindsFact
<1>3. /\ o \in Handlers \cup {None} /\ o \in Objects \cup {None}
      /\ table \in [Types -> Handlers \cup {None}] /\ table[type] = x
      /\ \A y \in Types : y # type => table[y] = session.table[y]
      /\ session.default \in Handlers \cup {None}
  BY <1>1, KindsFact DEF SessionType
<1> HIDE DEF table, filter
<1>4. session' = SessionOf(session.default, table, filter, session.formatter, session.resolver)
  BY <1>0, <1>1 DEF SessionType, SessionOf
<1>5. /\ session'.default = session.default /\ session'.table = table
      /\ session'.formatter = session.formatter /\ session'.resolver = session.resolver
      /\ SessionInv(session') /\ session' # NoSession
  BY <1>2, <1>3, <1>4, MembersFact, KindsFact
<1>6. Moved(outer, next, session.table[type], session'.table[type])
  BY <1>1, <1>3, <1>5, TableMove
<1>6a. Moved(outer, next, o, x)
  BY <1>3, <1>5, <1>6
<1>7. next \in [Objects -> Nat]
  BY <1>1, OuterFact
<1>8. o # None => outer[o] > 0
  BY <1>1, <1>3, HolderFact
<1>9. x \notin heap.fresh
  BY <1>0, <1>2, OwnsFact
<1>10. heap' = Release(Reference(heap, x), o)
  BY <1>0, <1>3, ReleaseIs, ZenonT(30)
<1> HIDE DEF outer, next, o
<1>11. Exact(heap', next, Pending(call)) /\ heap'.fresh = heap.fresh
  BY <1>1, <1>2, <1>3, <1>6a, <1>7, <1>8, <1>9, <1>10, SwapFact
<1> QED BY <1>0, <1>2, <1>5, <1>11, SessionStep DEF next

\* CdiagsSetSeverityFilter
LEMMA SetSeverityFilterStep ==
  ASSUME DiagInv, NEW type \in Types, NEW mask, SetSeverityFilter(type, mask)
  PROVE  DiagInv'
<1> DEFINE outer == Outer(session, owned, call)
           next == Outer(session', owned, call)
           filter == [session.filter EXCEPT ![type] = mask]
<1>0. /\ Owns("session") /\ UNCHANGED <<owned, call>> /\ heap' = heap
      /\ session' = [session EXCEPT !.filter = filter]
  BY DEF SetSeverityFilter
<1>1. Exact(heap, outer, Pending(call)) /\ owned \in [Objects -> Nat] /\ SessionType(session)
  BY DiagFacts
<1>2. session # NoSession /\ session.formatter \in Formatters /\ session.resolver \in Resolvers
  BY <1>0, OwnerFact
<1>3. session.table \in [Types -> Handlers \cup {None}] /\ session.default \in Handlers \cup {None}
  BY <1>1 DEF SessionType
<1> HIDE DEF filter
<1>4. session' = SessionOf(session.default, session.table, filter, session.formatter, session.resolver)
  BY <1>0, <1>1 DEF SessionType, SessionOf
<1>5. /\ session'.default = session.default /\ session'.table = session.table
      /\ session'.formatter = session.formatter /\ session'.resolver = session.resolver
      /\ SessionInv(session') /\ session' # NoSession
  BY <1>2, <1>3, <1>4, MembersFact, KindsFact
<1>6. next = outer
  BY <1>1, <1>5, MemberMove
<1>7. Exact(heap', next, Pending(call)) /\ heap'.fresh \subseteq heap.fresh
  BY <1>0, <1>1, <1>6
<1> HIDE DEF outer, next
<1> QED BY <1>0, <1>2, <1>5, <1>7, SessionStep DEF next

\* CdiagSetInformationSession, for the resolver
LEMMA SetResolverStep ==
  ASSUME DiagInv, NEW r \in Resolvers, SetResolver(r)
  PROVE  DiagInv'
<1> DEFINE outer == Outer(session, owned, call)
           next == Outer(session', owned, call)
           o == session.resolver
<1>0. /\ Owns("session") /\ owned[r] > 0 /\ UNCHANGED <<owned, call>>
      /\ heap' = Reference(DereferenceResolver(heap, o), r) /\ session' = [session EXCEPT !.resolver = r]
  BY DEF SetResolver, Owns
<1>1. Exact(heap, outer, Pending(call)) /\ owned \in [Objects -> Nat] /\ SessionType(session)
  BY DiagFacts
<1>2. /\ r \in Objects /\ session # NoSession /\ session.formatter \in Formatters
      /\ o \in Resolvers /\ o \in Objects \cup {None} /\ o \in Objects
  BY <1>0, OwnerFact, KindsFact
<1>3. session.table \in [Types -> Handlers \cup {None}] /\ session.default \in Handlers \cup {None}
  BY <1>1 DEF SessionType
<1>4. session' = SessionOf(session.default, session.table, session.filter, session.formatter, r)
  BY <1>0, <1>1 DEF SessionType, SessionOf
<1>5. /\ session'.default = session.default /\ session'.table = session.table
      /\ session'.formatter = session.formatter /\ session'.resolver = r
      /\ SessionInv(session') /\ session' # NoSession
  BY <1>2, <1>3, <1>4, MembersFact, KindsFact
<1>6. Moved(outer, next, o, r)
  BY <1>1, <1>5, MemberMove
<1>7. next \in [Objects -> Nat]
  BY <1>1, OuterFact
<1>8. o # None => outer[o] > 0
  BY <1>1, <1>2, HolderFact
<1>9. r \notin heap.fresh
  BY <1>0, <1>2, OwnsFact
<1>10. heap' = Reference(Release(heap, o), r)
  BY <1>0, <1>2, ReleaseIs
<1> HIDE DEF outer, next, o
<1>11. Exact(heap', next, Pending(call)) /\ heap'.fresh = heap.fresh
  BY <1>1, <1>2, <1>6, <1>7, <1>8, <1>9, <1>10, SwapFact
<1> QED BY <1>0, <1>2, <1>5, <1>11, SessionStep DEF next

\* CdiagSetInformationSession, for the formatter
LEMMA SetFormatterStep ==
  ASSUME DiagInv, NEW f \in Formatters, SetFormatter(f)
  PROVE  DiagInv'
<1> DEFINE outer == Outer(session, owned, call)
           next == Outer(session', owned, call)
           o == session.formatter
<1>0. /\ Owns("session") /\ owned[f] > 0 /\ UNCHANGED <<owned, call>>
      /\ heap' = Reference(DereferenceFormatter(heap, o), f) /\ session' = [session EXCEPT !.formatter = f]
  BY DEF SetFormatter, Owns
<1>1. Exact(heap, outer, Pending(call)) /\ owned \in [Objects -> Nat] /\ SessionType(session)
  BY DiagFacts
<1>2. /\ f \in Objects /\ session # NoSession /\ session.resolver \in Resolvers
      /\ o \in Formatters /\ o \in Objects \cup {None} /\ o \in Objects
  BY <1>0, OwnerFact, KindsFact
<1>3. session.table \in [Types -> Handlers \cup {None}] /\ session.default \in Handlers \cup {None}
  BY <1>1 DEF SessionType
<1>4. session' = SessionOf(session.default, session.table, session.filter, f, session.resolver)
  BY <1>0, <1>1 DEF SessionType, SessionOf
<1>5. /\ session'.default = session.default /\ session'.table = session.table
      /\ session'.formatter = f /\ session'.resolver = session.resolver
      /\ SessionInv(session') /\ session' # NoSession
  BY <1>2, <1>3, <1>4, MembersFact, KindsFact
<1>6. Moved(outer, next, o, f)
  BY <1>1, <1>5, MemberMove
<1>7. next \in [Objects -> Nat]
  BY <1>1, OuterFact
<1>8. o # None => outer[o] > 0
  BY <1>1, <1>2, HolderFact
<1>9. f \notin heap.fresh
  BY <1>0, <1>2, OwnsFact
<1>10. heap' = Reference(Release(heap, o), f)
  BY <1>0, <1>2, ReleaseIs
<1> HIDE DEF outer, next, o
<1>11. Exact(heap', next, Pending(call)) /\ heap'.fresh = heap.fresh
  BY <1>1, <1>2, <1>6, <1>7, <1>8, <1>9, <1>10, SwapFact
<1> QED BY <1>0, <1>2, <1>5, <1>11, SessionStep DEF next

\* CdiagsTearDownHandlerFromHashtableCallback
LEMMA TearDownHandlerStep ==
  ASSUME DiagInv, NEW type \in Types, TearDownHandler(type)
  PROVE  DiagInv'
<1> DEFINE outer == Outer(session, owned, call)
           next == Outer(session', owned, call)
           o == session.table[type]
           table == [session.table EXCEPT ![type] = None]
<1>0. /\ session # NoSession /\ o # None /\ UNCHANGED <<owned, call>>
      /\ heap' = DereferenceHandler(heap, o)
      /\ session' = [session EXCEPT !.table = table]
  BY DEF TearDownHandler, Deleting
<1>1. Exact(heap, outer, Pending(call)) /\ owned \in [Objects -> Nat] /\ SessionType(session)
  BY DiagFacts
<1>2. /\ session.formatter \in Formatters /\ session.resolver \in Resolvers
      /\ session.default \in Handlers \cup {None}
  BY <1>0, DiagFacts DEF SessionInv, SessionType
<1>3. /\ o \in Handlers /\ o \in Objects /\ o \in Objects \cup {None}
      /\ table \in [Types -> Handlers \cup {None}] /\ table[type] = None
      /\ \A y \in Types : y # type => table[y] = session.table[y]
  BY <1>0, <1>1, KindsFact DEF SessionType
<1> HIDE DEF table
<1>4. session' = SessionOf(session.default, table, session.filter, session.formatter, session.resolver)
  BY <1>0, <1>1 DEF SessionType, SessionOf
<1>5. /\ session'.default = session.default /\ session'.table = table
      /\ session'.formatter = session.formatter /\ session'.resolver = session.resolver
      /\ SessionInv(session') /\ session' # NoSession
  BY <1>2, <1>3, <1>4, MembersFact, KindsFact
<1>6. Moved(outer, next, session.table[type], session'.table[type])
  BY <1>1, <1>3, <1>5, TableMove
<1>7. Moved(outer, next, o, None)
  BY <1>3, <1>5, <1>6
<1>8. next \in [Objects -> Nat]
  BY <1>1, OuterFact
<1>9. o # None => outer[o] > 0
  BY <1>1, <1>3, HolderFact
<1>10. heap' = Release(heap, o)
  BY <1>0, <1>3, ReleaseIs
<1> HIDE DEF outer, next, o
<1>11. Exact(heap', next, Pending(call)) /\ heap'.fresh = heap.fresh
  BY <1>1, <1>3, <1>7, <1>8, <1>9, <1>10, DropFact
<1> QED BY <1>0, <1>5, <1>11, SessionStep DEF next

\* The rest of CdiagsDeleteSession: the default handler, the formatter and the resolver.
LEMMA FreeSessionStep ==
  ASSUME DiagInv, FreeSession
  PROVE  DiagInv'
<1> DEFINE d == session.default
           f == session.formatter
           r == session.resolver
           s1 == SessionOf(None, session.table, session.filter, f, r)
           s2 == SessionOf(None, session.table, session.filter, None, r)
           o0 == Outer(session, owned, call)
           o1 == Outer(s1, owned, call)
           o2 == Outer(s2, owned, call)
           o3 == Outer(NoSession, owned, call)
           h1 == Release(heap, d)
           h2 == Release(h1, f)
<1>0. /\ session # NoSession /\ UNCHANGED <<owned, call>> /\ session' = NoSession
      /\ \A type \in Types : session.table[type] = None
      /\ heap' = DereferenceResolver(DereferenceFormatter(ReleaseHandler(heap, d), f), r)
      /\ "session" \notin heap.fresh /\ heap.refs["session"] = 0
  BY DEF FreeSession, Deleting
<1>1. /\ Exact(heap, o0, Pending(call)) /\ owned \in [Objects -> Nat] /\ SessionType(session)
      /\ CallsInv(call)
  BY DiagFacts
<1>2. /\ f \in Formatters /\ r \in Resolvers /\ d \in Handlers \cup {None}
      /\ session.table \in [Types -> Handlers \cup {None}]
  BY <1>0, DiagFacts DEF SessionInv, SessionType
<1>3. f \in Objects /\ r \in Objects /\ d \in Objects \cup {None}
  BY <1>2, KindsFact
<1>4. heap' = Release(h2, r)
  <2>1. h1 = ReleaseHandler(heap, d)
    BY <1>2, ReleaseIs
  <2>2. h2 = DereferenceFormatter(h1, f)
    <3> HIDE DEF h1, f
    <3> QED BY <1>2, ReleaseIs
  <2>3. Release(h2, r) = DereferenceResolver(h2, r)
    <3> HIDE DEF h2, r
    <3> QED BY <1>2, ReleaseIs
  <2> QED BY <1>0, <2>1, <2>2, <2>3
<1>5. s1.default = None /\ s1.table = session.table /\ s1.formatter = f /\ s1.resolver = r
  BY DEF SessionOf
<1>6. s2.default = None /\ s2.table = session.table /\ s2.formatter = None /\ s2.resolver = r
  BY DEF SessionOf
<1>7. /\ NoSession.default = None /\ NoSession.table = [t \in Types |-> None]
      /\ NoSession.formatter = None /\ NoSession.resolver = None
  BY DEF NoSession
<1>8. NoSession.table = s2.table
  <2>1. session.table = [t \in Types |-> None]
    BY <1>0, <1>2
  <2> QED BY <1>6, <1>7, <2>1
<1>9. o1 \in [Objects -> Nat] /\ o2 \in [Objects -> Nat] /\ o3 \in [Objects -> Nat]
  BY <1>1, OuterFact
<1>10. (d # None => o0[d] > 0) /\ (f # None => o1[f] > 0) /\ (r # None => o2[r] > 0)
  <2>1. d # None => o0[d] > 0
    BY <1>1, <1>3, HolderFact
  <2> HIDE DEF s1, s2
  <2>2. o1[f] > 0
    BY <1>1, <1>3, <1>5, HolderFact
  <2>3. o2[r] > 0
    BY <1>1, <1>3, <1>6, HolderFact
  <2> QED BY <2>1, <2>2, <2>3
<1> HIDE DEF s1, s2
<1>11. Moved(o0, o1, d, s1.default)
  BY <1>1, <1>5, MemberMove
<1>12. Moved(o1, o2, s1.formatter, s2.formatter)
  BY <1>1, <1>5, <1>6, MemberMove
<1>13. Moved(o2, o3, s2.resolver, NoSession.resolver)
  BY <1>1, <1>6, <1>7, <1>8, MemberMove
<1>14. Moved(o0, o1, d, None) /\ Moved(o1, o2, f, None) /\ Moved(o2, o3, r, None)
  BY <1>5, <1>6, <1>7, <1>11, <1>12, <1>13
<1> HIDE DEF d, f, r, o0, o1, o2, o3
<1>15. Exact(h1, o1, Pending(call)) /\ h1.fresh = heap.fresh
  BY <1>1, <1>3, <1>9, <1>10, <1>14, DropFact
<1> HIDE DEF h1
<1>16. Exact(h2, o2, Pending(call)) /\ h2.fresh = h1.fresh
  BY <1>3, <1>9, <1>10, <1>14, <1>15, DropFact
<1> HIDE DEF h2
<1>17. Exact(heap', o3, Pending(call)) /\ heap'.fresh = h2.fresh
  BY <1>3, <1>4, <1>9, <1>10, <1>14, <1>16, DropFact
<1>18. ~ (owned["session"] > 0)
  <2>1. owned["session"] > 0 => heap.refs["session"] > 0
    BY <1>1, HolderFact, UsedFact, KindsFact DEF o0
  <2> QED BY <1>0, <2>1
<1>19. owned' = owned /\ call' = call
  BY <1>0
<1>20. OwnerInv'
  BY <1>0, <1>15, <1>16, <1>17, <1>18, <1>19 DEF OwnerInv
<1>21. SessionInv(session')
  BY <1>0, NoSessionFact
<1> QED BY <1>0, <1>1, <1>17, <1>19, <1>20, <1>21 DEF DiagInv, o3

\* CdiagCreateSession that fails releases the resolver again.
LEMMA CreateSessionFailsStep ==
  ASSUME DiagInv, NEW r \in Resolvers \cup {None}, NEW dr \in Resolvers, CreateSessionFails(r, dr)
  PROVE  DiagInv'
<1> DEFINE outer == Outer(session, owned, call)
<1>0. /\ UNCHANGED <<session, owned, call>>
      /\ IF r # None THEN owned[r] > 0 ELSE dr \in heap.fresh
      /\ heap' = IF r # None THEN DereferenceResolver(Reference(heap, r), r)
                 ELSE DereferenceResolver(Allocate(heap, dr), dr)
  BY DEF CreateSessionFails, Owns
<1>1. /\ Exact(heap, outer, Pending(call)) /\ outer \in [Objects -> Nat] /\ SessionInv(session)
      /\ owned \in [Objects -> Nat] /\ CallsInv(call) /\ OwnerInv
  BY DiagFacts
<1> HIDE DEF outer
<1>2. Exact(heap', outer, Pending(call)) /\ heap'.fresh \subseteq heap.fresh
  <2> DEFINE u == IF r # None THEN r ELSE dr
             h == IF r # None THEN Reference(heap, r) ELSE Allocate(heap, dr)
             more == Shift(outer, u, 1)
  <2>1. u \in Resolvers /\ u \in Objects /\ heap' = DereferenceResolver(h, u)
    BY <1>0, KindsFact
  <2>2. Exact(h, more, Pending(call)) /\ h.fresh \subseteq heap.fresh
    <3>1. CASE r # None
      <4>1. r \in Objects /\ r \notin heap.fresh
        BY <1>0, <3>1, OwnsFact, KindsFact
      <4>2. Exact(Reference(heap, r), Shift(outer, r, 1), Pending(call)) /\ Reference(heap, r).fresh = heap.fresh
        BY <1>1, <4>1, RaiseFact
      <4> QED BY <3>1, <4>2
    <3>2. CASE r = None
      <4>1. dr \in Objects /\ dr \in heap.fresh
        BY <1>0, <3>2, KindsFact
      <4>2. Exact(Allocate(heap, dr), Shift(outer, dr, 1), Pending(call)) /\ Allocate(heap, dr).fresh = heap.fresh \ {dr}
        BY <1>1, <4>1, AllocFact
      <4> QED BY <3>2, <4>2
    <3> QED BY <3>1, <3>2
  <2>3. more[u] > 0 /\ Shift(more, u, -1) = outer
    BY <1>1, <2>1, ShiftBack
  <2> HIDE DEF u, h, more
  <2>4. Exact(heap', Shift(more, u, -1), Pending(call)) /\ heap'.fresh = h.fresh
    BY <2>1, <2>2, <2>3, DropResolver
  <2> QED BY <2>2, <2>3, <2>4
<1>3. session' = session /\ owned' = owned /\ call' = call
  BY <1>0
<1>4. OwnerInv'
  BY <1>1, <1>2, <1>3 DEF OwnerInv
<1> QED BY <1>1, <1>2, <1>3, <1>4 DEF DiagInv, outer

\* CdiagCreateSession: the session holds its formatter and its resolver,
\* whether they are new or the caller's.
LEMMA CreateSessionStep ==
  ASSUME DiagInv, NEW f \in Formatters \cup {None}, NEW r \in Resolvers \cup {None},
         NEW df \in Formatters, NEW dr \in Resolvers, CreateSession(f, r, df, dr)
  PROVE  DiagInv'
<1> DEFINE used == IF r # None THEN r ELSE dr
           form == IF f # None THEN f ELSE df
           base == Allocate(heap, "session")
           res == IF r # None THEN Reference(base, r) ELSE Allocate(base, dr)
           table == [t \in Types |-> None]
           filter == [t \in Types |-> {}]
           s1 == SessionOf(None, table, filter, None, used)
           s2 == SessionOf(None, table, filter, form, used)
           o0 == Outer(session, owned, call)
           o1 == Outer(NoSession, owned', call)
           o2 == Outer(s1, owned', call)
           o3 == Outer(s2, owned', call)
<1>0. /\ "session" \in heap.fresh /\ Give("session") /\ call' = call
      /\ IF r # None THEN owned[r] > 0 ELSE dr \in heap.fresh
      /\ IF f # None THEN owned[f] > 0 ELSE df \in heap.fresh
      /\ heap' = IF f # None THEN Reference(res, f) ELSE NewFormatter(res, df, used)
      /\ session' = [NoSession EXCEPT !.formatter = form, !.resolver = used]
  BY DEF CreateSession, Owns
<1>1. /\ Exact(heap, o0, Pending(call)) /\ CallsInv(call) /\ session = NoSession
  BY <1>0, DiagFacts DEF OwnerInv
<1>2. /\ used \in Resolvers /\ used \in Objects /\ form \in Formatters /\ form \in Objects
      /\ "session" \in Objects /\ used # "session" /\ form # "session" /\ form # used
  BY DiagAssumption, KindsFact
<1>3. /\ owned' \in [Objects -> Nat] /\ o1 \in [Objects -> Nat] /\ Moved(o0, o1, None, "session")
  BY <1>0, <1>1, <1>2, GiveMove
<1>4. session' = s2
  <2> HIDE DEF form, used
  <2> QED BY <1>0 DEF NoSession, SessionOf
<1>5. /\ NoSession.default = None /\ NoSession.table = table /\ NoSession.formatter = None /\ NoSession.resolver = None
  BY DEF NoSession
<1>6. s1.default = None /\ s1.table = table /\ s1.formatter = None /\ s1.resolver = used
  BY DEF SessionOf
<1>7. /\ s2.default = None /\ s2.table = table /\ s2.formatter = form /\ s2.resolver = used
      /\ SessionInv(s2) /\ s2 # NoSession
  <2>1. table \in [Types -> Handlers \cup {None}]
    OBVIOUS
  <2>3. /\ form \in Formatters \cup {None} /\ form # None /\ used \in Resolvers \cup {None} /\ used # None
    BY <1>2, KindsFact
  <2> DEFINE none == None
  <2>4. none \in Handlers \cup {None} /\ s2 = SessionOf(none, table, filter, form, used)
    OBVIOUS
  <2> HIDE DEF table, filter, form, used, s2, none
  <2>5. /\ s2.default = none /\ s2.table = table /\ s2.formatter = form /\ s2.resolver = used
        /\ form # None /\ used # None => SessionInv(s2) /\ s2 # NoSession
    BY <2>1, <2>3, <2>4, MembersFact
  <2> QED BY <2>3, <2>5 DEF none
<1>8. o2 \in [Objects -> Nat] /\ o3 \in [Objects -> Nat]
  BY <1>3, OuterFact
<1> HIDE DEF s1, s2, table, filter
<1>9. Moved(o1, o2, NoSession.resolver, s1.resolver)
  BY <1>3, <1>5, <1>6, MemberMove
<1>10. Moved(o2, o3, s1.formatter, s2.formatter)
  BY <1>3, <1>6, <1>7, MemberMove
<1>11. Moved(o1, o2, None, used) /\ Moved(o2, o3, None, form)
  BY <1>5, <1>6, <1>7, <1>9, <1>10
<1>12. o2[used] > 0
  BY <1>2, <1>3, <1>6, HolderFact
<1> HIDE DEF o0, o1, o2, o3
<1>13. Exact(base, o1, Pending(call)) /\ base.fresh = heap.fresh \ {"session"}
  BY <1>0, <1>1, <1>2, <1>3, NewFact
<1>14. (r # None => r \notin heap.fresh) /\ (f # None => f \notin heap.fresh)
  BY <1>0, OwnsFact, KindsFact
<1> HIDE DEF base
<1>15. Exact(res, o2, Pending(call)) /\ res.fresh \subseteq base.fresh /\ base.fresh \subseteq res.fresh \cup {dr}
  <2>1. CASE r # None
    <3>1. used = r /\ res = Reference(base, r) /\ r \notin base.fresh /\ r \in Objects
      BY <1>2, <1>13, <1>14, <2>1
    <3>2. Exact(Reference(base, r), o2, Pending(call)) /\ Reference(base, r).fresh = base.fresh
      BY <1>8, <1>11, <1>13, <3>1, TakeFact
    <3> QED BY <3>1, <3>2
  <2>2. CASE r = None
    <3>1. used = dr /\ res = Allocate(base, dr) /\ dr \in base.fresh /\ dr \in Objects
      BY <1>0, <1>2, <1>13, <2>2
    <3>2. Exact(Allocate(base, dr), o2, Pending(call)) /\ Allocate(base, dr).fresh = base.fresh \ {dr}
      BY <1>8, <1>11, <1>13, <3>1, NewFact
    <3> QED BY <3>1, <3>2
  <2> QED BY <2>1, <2>2
<1> HIDE DEF res
<1>16. Exact(heap', o3, Pending(call)) /\ heap'.fresh \subseteq res.fresh
  <2>1. CASE f # None
    <3>1. form = f /\ heap' = Reference(res, f) /\ f \notin res.fresh /\ f \in Objects
      BY <1>0, <1>2, <1>13, <1>14, <1>15, <2>1
    <3>2. Exact(Reference(res, f), o3, Pending(call)) /\ Reference(res, f).fresh = res.fresh
      BY <1>8, <1>11, <1>15, <3>1, TakeFact
    <3> QED BY <3>1, <3>2
  <2>2. CASE f = None
    <3>1. form = df /\ heap' = NewFormatter(res, df, used) /\ df \in heap.fresh
      BY <1>0, <2>2
    <3>2. df # "session" /\ df # dr
      BY DiagAssumption
    <3>3. df \in res.fresh
      BY <1>13, <1>15, <3>1, <3>2
    <3>4. used \in Resolvers \cup {None} /\ (used # None => o2[used] > 0)
      BY <1>2, <1>12
    <3> HIDE DEF used
    <3>5. Exact(NewFormatter(res, df, used), o3, Pending(call)) /\ NewFormatter(res, df, used).fresh = res.fresh \ {df}
      BY <1>8, <1>11, <1>15, <3>1, <3>3, <3>4, NewFormatterFact
    <3> QED BY <3>1, <3>5
  <2> QED BY <2>1, <2>2
<1>17. "session" \notin heap'.fresh
  BY <1>13, <1>15, <1>16
<1>18. OwnerInv'
  BY <1>4, <1>7, <1>17 DEF OwnerInv
<1>19. Exact(heap', Outer(session', owned', call'), Pending(call'))
  BY <1>0, <1>4, <1>16 DEF o3
<1> QED BY <1>0, <1>1, <1>3, <1>4, <1>7, <1>18, <1>19 DEF DiagInv

-----------------------------------------------------------------------------
\* What calls load, if one call changes that loads nothing before or after.
LEMMA PendingSame ==
  ASSUME NEW c, NEW d, NEW t \in Threads, SameBut(d, c, t),
         c[t].op # "register", d[t].op # "register"
  PROVE  Pending(d) = Pending(c)
<1>1. /\ Pending(c) \in [Modules -> Nat] /\ Pending(d) \in [Modules -> Nat]
      /\ \A m \in Modules : Pending(d)[m] = Pending(c)[m] - One(Loads(c[t], m)) + One(Loads(d[t], m))
  BY PendingMove
<1>2. \A m \in Modules : One(Loads(c[t], m)) = 0 /\ One(Loads(d[t], m)) = 0
  BY DEF One, Loads
<1> DEFINE a == Pending(c)
           b == Pending(d)
<1>3. a \in [Modules -> Nat] /\ b \in [Modules -> Nat] /\ \A m \in Modules : b[m] = a[m] - 0 + 0
  BY <1>1, <1>2
<1> HIDE DEF a, b
<1>4. \A m \in Modules : b[m] = a[m]
  BY <1>3
<1>5. b = a
  BY <1>3, <1>4
<1> QED BY <1>5 DEF a, b

\* CdiagHandleEvent, up to leaving the lock.
LEMMA HandleEventStep ==
  ASSUME DiagInv, NEW t \in Threads, NEW type \in Types, HandleEvent(t, type)
  PROVE  DiagInv'
<1> DEFINE outer == Outer(session, owned, call)
           next == Outer(session, owned, call')
           x == Selected(type)
           y == [Idle EXCEPT !.op = IF Passes(type) THEN "handle" ELSE "filtered", !.object = x]
<1>1. /\ Exact(heap, outer, Pending(call)) /\ owned \in [Objects -> Nat] /\ SessionType(session)
      /\ SessionInv(session) /\ CallsInv(call) /\ OwnerInv
  BY DiagFacts
<1>2. call[t] = Idle /\ UNCHANGED <<session, owned>>
  BY DEF HandleEvent
<1>3. CASE x = None
  <2>1. heap' = heap /\ call' = call /\ session' = session /\ owned' = owned
    BY <1>2, <1>3 DEF HandleEvent
  <2>2. OwnerInv'
    BY <1>1, <2>1 DEF OwnerInv
  <2> QED BY <1>1, <2>1, <2>2 DEF DiagInv
<1>4. CASE x # None
  <2>1. heap' = Reference(heap, x) /\ call' = [call EXCEPT ![t] = y]
    BY <1>4 DEF HandleEvent, Grab
  <2>2. /\ x \in Handlers /\ x \in Objects
        /\ x = session.default \/ \E z \in Types : x = session.table[z]
    BY <1>1, <1>4, KindsFact DEF Selected, SessionType
  <2>3. y.op \in {"handle", "filtered"} /\ y.object = x
    BY DEF Idle
  <2>4. outer[x] > 0
    BY <1>1, <2>2, HolderFact
  <2> HIDE DEF x, y
  <2>5. CallInv(y) /\ Held(y) = x /\ y.op # "register"
    BY <2>2, <2>3 DEF CallInv, Held
  <2>6. Held(call[t]) = None /\ call[t].op # "register"
    BY <1>2 DEF Held, Idle
  <2>7. call'[t] = y /\ SameBut(call', call, t)
    BY <2>1, CallFact
  <2>8. Moved(outer, next, Held(call[t]), Held(call'[t]))
    BY <1>1, <2>7, CallMove
  <2>9. Moved(outer, next, None, x)
    BY <2>5, <2>6, <2>7, <2>8
  <2>10. Pending(call') = Pending(call)
    BY <2>5, <2>6, <2>7, PendingSame
  <2>11. next \in [Objects -> Nat]
    BY <1>1, OuterFact
  <2> HIDE DEF outer, next
  <2>12. x \notin heap.fresh
    BY <1>1, <2>2, <2>4, UsedFact
  <2>13. Exact(heap', next, Pending(call)) /\ heap'.fresh = heap.fresh
    BY <1>1, <2>1, <2>2, <2>9, <2>11, <2>12, TakeFact
  <2>14. Exact(heap', Outer(session, owned, call'), Pending(call')) /\ heap'.fresh \subseteq heap.fresh
    BY <2>10, <2>13 DEF next
  <2> QED BY <1>2, <2>1, <2>5, <2>14, CallsStep
<1> QED BY <1>3, <1>4

\* CdiagHandleEvent, after the handler.
LEMMA HandleEventEndsStep ==
  ASSUME DiagInv, NEW t \in Threads, HandleEventEnds(t)
  PROVE  DiagInv'
<1> DEFINE outer == Outer(session, owned, call)
           next == Outer(session, owned, call')
           x == call[t].object
<1>1. Exact(heap, outer, Pending(call)) /\ owned \in [Objects -> Nat] /\ CallsInv(call)
  BY DiagFacts
<1>2. /\ call[t].op \in {"handle", "filtered"} /\ heap' = DereferenceHandler(heap, x)
      /\ call' = [call EXCEPT ![t] = Idle] /\ UNCHANGED <<session, owned>>
  BY DEF HandleEventEnds
<1>3. x \in Handlers /\ x \in Objects /\ x \in Objects \cup {None} /\ Held(call[t]) = x
  BY <1>1, <1>2, KindsFact DEF CallsInv, CallInv, Held
<1>4. CallInv(Idle) /\ Held(Idle) = None /\ Idle.op # "register"
  BY DEF CallInv, Idle, Held
<1>5. call'[t] = Idle /\ SameBut(call', call, t)
  BY <1>2, CallFact
<1>6. Moved(outer, next, Held(call[t]), Held(call'[t]))
  BY <1>1, <1>5, CallMove
<1>7. Moved(outer, next, x, None)
  BY <1>3, <1>4, <1>5, <1>6
<1>8. Pending(call') = Pending(call)
  BY <1>2, <1>4, <1>5, PendingSame
<1>9. next \in [Objects -> Nat]
  BY <1>1, OuterFact
<1>10. x # None => outer[x] > 0
  BY <1>1, <1>3, HolderFact
<1>11. heap' = Release(heap, x)
  BY <1>2, <1>3, ReleaseIs
<1> HIDE DEF outer, next, x
<1>12. Exact(heap', next, Pending(call)) /\ heap'.fresh = heap.fresh
  BY <1>1, <1>3, <1>7, <1>9, <1>10, <1>11, DropFact
<1>13. Exact(heap', Outer(session, owned, call'), Pending(call')) /\ heap'.fresh \subseteq heap.fresh
  BY <1>8, <1>12 DEF next
<1> QED BY <1>2, <1>4, <1>13, CallsStep

-----------------------------------------------------------------------------
\* A set of natural numbers has a least element, which Min finds.
LEMMA LeastDll ==
  ASSUME NEW T, T \subseteq Nat, T # {}
  PROVE  Min(T) \in T
<1>1. IsWellFoundedOn(OpToRel(<, Nat), Nat)
  BY NatLessThanWellFounded
<1>2. PICK x \in T : \A y \in T : ~ (<<y, x>> \in OpToRel(<, Nat))
  BY <1>1, WFMin
<1>3. \A y \in T : ~ (y < x)
  BY <1>2 DEF OpToRel
<1>4. \A y \in T : x <= y
  BY <1>3
<1> QED BY <1>4 DEF Min

\* A call that registers refers to no object in the count.
LEMMA RegisteringMove ==
  ASSUME NEW s, NEW w \in [Objects -> Nat], NEW c, NEW d, NEW t \in Threads,
         SameBut(d, c, t), Held(c[t]) = None, Held(d[t]) = None
  PROVE  Outer(s, w, d) = Outer(s, w, c)
<1> DEFINE a == Outer(s, w, c)
           b == Outer(s, w, d)
<1>1. Moved(a, b, Held(c[t]), Held(d[t]))
  BY CallMove
<1>2. Moved(a, b, None, None)
  BY <1>1
<1>3. a \in [Objects -> Nat] /\ b \in [Objects -> Nat]
  BY OuterFact
<1> HIDE DEF a, b
<1>4. b = a
  BY <1>2, <1>3, MoveFact
<1> QED BY <1>4 DEF a, b

\* CdiagsRegisterMessageDll, before the lock.
LEMMA LoadMessageDllStep ==
  ASSUME DiagInv, NEW t \in Threads, NEW r \in Resolvers, NEW m \in Modules, NEW path,
         LoadMessageDll(t, r, m, path)
  PROVE  DiagInv'
<1> DEFINE outer == Outer(session, owned, call)
           y == [op |-> "register", object |-> r, name |-> m, module |-> m, path |-> path]
           loads == [heap.loads EXCEPT ![m] = @ + 1]
           p == Pending(call)
           n == Pending(call')
<1>1. Exact(heap, outer, p) /\ owned \in [Objects -> Nat] /\ HeapShape(heap) /\ LoadsExact(heap, p)
  BY DiagFacts DEF Exact
<1>2. /\ call[t] = Idle /\ heap' = [heap EXCEPT !.loads = loads] /\ call' = [call EXCEPT ![t] = y]
      /\ UNCHANGED <<session, owned>>
  BY DEF LoadMessageDll
<1>3. CallInv(y) /\ Held(y) = None /\ \A k \in Modules : Loads(y, k) <=> k = m
  BY DEF CallInv, Held, Loads
<1>4. Held(Idle) = None /\ \A k \in Modules : ~ Loads(Idle, k)
  BY DEF Held, Idle, Loads
<1> HIDE DEF y
<1>5. call'[t] = y /\ SameBut(call', call, t)
  BY <1>2, CallFact
<1>5a. SameBut(call', call, t)
  BY <1>5
<1>5b. Held(call[t]) = None /\ Held(call'[t]) = None
  BY <1>2, <1>3, <1>4, <1>5
<1>6. Outer(session, owned, call') = outer
  BY <1>1, <1>5a, <1>5b, RegisteringMove
<1>7. /\ p \in [Modules -> Nat] /\ n \in [Modules -> Nat]
      /\ \A k \in Modules : n[k] = p[k] - One(Loads(call[t], k)) + One(Loads(call'[t], k))
  BY <1>5a, PendingMove
<1> HIDE DEF p, n, outer
<1>8. \A k \in Modules : n[k] = p[k] + One(k = m)
  BY <1>2, <1>3, <1>4, <1>5, <1>7 DEF One
<1>9. heap.loads \in [Modules -> Int] /\ heap.dlls \in [Resolvers -> Seq(Dlls)]
  BY <1>1 DEF HeapShape
<1>10. loads \in [Modules -> Int] /\ \A k \in Modules : loads[k] = heap.loads[k] + One(k = m)
  BY <1>9 DEF One
<1> HIDE DEF loads
<1>11. Loaded(loads, heap.dlls, n)
  <2> SUFFICES ASSUME NEW k \in Modules PROVE loads[k] = Cardinality(DllPlaces(heap.dlls, k)) + n[k]
    BY DEF Loaded
  <2>1. heap.loads[k] = Cardinality(DllPlaces(heap.dlls, k)) + p[k]
    BY <1>1 DEF LoadsExact, Loaded
  <2>2. Cardinality(DllPlaces(heap.dlls, k)) \in Nat
    BY <1>9, PlacesFinite, FS_CardinalityType
  <2> QED BY <1>7, <1>8, <1>10, <2>1, <2>2 DEF One
<1>12. Reloaded(heap', heap, heap.dlls, loads)
  BY <1>1, <1>2 DEF HeapShape, HeapOf, Reloaded
<1>13. DllTypes(heap.dlls, loads, n)
  BY <1>7, <1>9, <1>10 DEF DllTypes
<1>14. Exact(heap', outer, n) /\ heap'.fresh = heap.fresh
  BY <1>1, <1>11, <1>12, <1>13, DllsFact
<1>15. Exact(heap', Outer(session, owned, call'), Pending(call')) /\ heap'.fresh \subseteq heap.fresh
  BY <1>6, <1>14 DEF n
<1> QED BY <1>2, <1>3, <1>15, CallsStep

\* CdiagsRegisterMessageDll, under the lock.
LEMMA InsertMessageDllStep ==
  ASSUME DiagInv, NEW t \in Threads, InsertMessageDll(t)
  PROVE  DiagInv'
<1> DEFINE outer == Outer(session, owned, call)
           r == call[t].object
           m == call[t].module
           less == [heap.loads EXCEPT ![m] = @ - 1]
           longer == [heap.dlls EXCEPT ![r] = Append(@, [name |-> m, module |-> m])]
           p == Pending(call)
           n == Pending(call')
<1>1. Exact(heap, outer, p) /\ owned \in [Objects -> Nat] /\ HeapShape(heap) /\ LoadsExact(heap, p) /\ CallsInv(call)
  BY DiagFacts DEF Exact
<1>2. call[t].op = "register" /\ call' = [call EXCEPT ![t] = Idle] /\ UNCHANGED <<session, owned>>
  BY DEF InsertMessageDll
<1>3. /\ r \in Resolvers /\ m \in Modules /\ call[t].name = m /\ Held(call[t]) = None
      /\ \A k \in Modules : Loads(call[t], k) <=> k = m
  BY <1>1, <1>2 DEF CallsInv, CallInv, Held, Loads
<1>4. heap' = [heap EXCEPT !.loads = less] \/ heap' = [heap EXCEPT !.dlls = longer]
  BY <1>3 DEF InsertMessageDll, UnusedEntry
<1>5. CallInv(Idle) /\ Held(Idle) = None /\ \A k \in Modules : ~ Loads(Idle, k)
  BY DEF CallInv, Held, Idle, Loads
<1>6. call'[t] = Idle /\ SameBut(call', call, t)
  BY <1>2, CallFact
<1>7. Outer(session, owned, call') = outer
  BY <1>1, <1>3, <1>5, <1>6, RegisteringMove
<1>8. /\ p \in [Modules -> Nat] /\ n \in [Modules -> Nat]
      /\ \A k \in Modules : n[k] = p[k] - One(Loads(call[t], k)) + One(Loads(call'[t], k))
  BY <1>6, PendingMove
<1> HIDE DEF p, n, outer
<1>9. \A k \in Modules : n[k] = p[k] - One(k = m)
  BY <1>3, <1>5, <1>6, <1>8 DEF One
<1>10. heap.loads \in [Modules -> Int] /\ heap.dlls \in [Resolvers -> Seq(Dlls)]
  BY <1>1 DEF HeapShape
<1>11. \A k \in Modules : /\ heap.loads[k] = Cardinality(DllPlaces(heap.dlls, k)) + p[k]
                          /\ Cardinality(DllPlaces(heap.dlls, k)) \in Nat
  <2>1. \A k \in Modules : Cardinality(DllPlaces(heap.dlls, k)) \in Nat
    BY <1>10, PlacesFinite, FS_CardinalityType
  <2> QED BY <1>1, <2>1 DEF LoadsExact, Loaded
<1>12. less \in [Modules -> Int] /\ \A k \in Modules : less[k] = heap.loads[k] - One(k = m)
  BY <1>3, <1>10 DEF One
<1>13. Relisted(longer, heap.dlls, r, Append(heap.dlls[r], [name |-> m, module |-> m]))
  BY DEF Relisted
<1> HIDE DEF less, longer, r, m
<1>14. ASSUME NEW k \in Modules
       PROVE  /\ longer \in [Resolvers -> Seq(Dlls)]
              /\ Cardinality(DllPlaces(longer, k)) = Cardinality(DllPlaces(heap.dlls, k)) + One(k = m)
  <2> DEFINE dlls == heap.dlls
             was == heap.dlls[r]
             list == Append(was, [name |-> m, module |-> m])
  <2>1. dlls \in [Resolvers -> Seq(Dlls)] /\ was = dlls[r] /\ Registers(list, was, m) /\ Relisted(longer, dlls, r, list)
    BY <1>10, <1>13 DEF Registers
  <2> HIDE DEF dlls, was, list
  <2>2. /\ longer \in [Resolvers -> Seq(Dlls)]
        /\ Cardinality(DllPlaces(longer, k)) = Cardinality(DllPlaces(dlls, k)) + One(k = m)
    BY <1>3, <2>1, AppendDll
  <2> QED BY <2>2 DEF dlls
<1>15. Exact(heap', outer, n) /\ heap'.fresh = heap.fresh
  <2>1. CASE heap' = [heap EXCEPT !.loads = less]
    <3>1. Loaded(less, heap.dlls, n)
      BY <1>8, <1>9, <1>11, <1>12 DEF Loaded, One
    <3>2. Reloaded(heap', heap, heap.dlls, less)
      BY <1>1, <2>1 DEF HeapShape, HeapOf, Reloaded
    <3>3. DllTypes(heap.dlls, less, n)
      BY <1>8, <1>10, <1>12 DEF DllTypes
    <3> QED BY <1>1, <3>1, <3>2, <3>3, DllsFact
  <2>2. CASE heap' = [heap EXCEPT !.dlls = longer]
    <3>1. Loaded(heap.loads, longer, n)
      <4> SUFFICES ASSUME NEW k \in Modules PROVE heap.loads[k] = Cardinality(DllPlaces(longer, k)) + n[k]
        BY DEF Loaded
      <4>1. Cardinality(DllPlaces(longer, k)) = Cardinality(DllPlaces(heap.dlls, k)) + One(k = m)
        BY <1>14
      <4> QED BY <1>8, <1>9, <1>11, <4>1 DEF One
    <3>2. Reloaded(heap', heap, longer, heap.loads)
      BY <1>1, <2>2 DEF HeapShape, HeapOf, Reloaded
    <3>3. DllTypes(longer, heap.loads, n)
      BY <1>3, <1>8, <1>10, <1>14 DEF DllTypes
    <3> QED BY <1>1, <3>1, <3>2, <3>3, DllsFact
  <2> QED BY <1>4, <2>1, <2>2
<1>16. Exact(heap', Outer(session, owned, call'), Pending(call')) /\ heap'.fresh \subseteq heap.fresh
  BY <1>7, <1>15 DEF n
<1> QED BY <1>2, <1>5, <1>16, CallsStep

\* CdiagsUnregisterMessageDll
LEMMA UnregisterMessageDllStep ==
  ASSUME DiagInv, NEW r \in Resolvers, NEW m \in Modules, UnregisterMessageDll(r, m)
  PROVE  DiagInv'
<1> DEFINE outer == Outer(session, owned, call)
           p == Pending(call)
           i == FindRegisteredDll(r, m)
           found == {j \in DOMAIN heap.dlls[r] : heap.dlls[r][j].name = m}
           dlls == [heap.dlls EXCEPT ![r] = RemoveAt(@, i)]
           less == [heap.loads EXCEPT ![m] = @ - 1]
<1>1. /\ Exact(heap, outer, p) /\ p \in [Modules -> Nat] /\ HeapShape(heap) /\ LoadsExact(heap, p)
      /\ SessionInv(session) /\ owned \in [Objects -> Nat] /\ CallsInv(call) /\ OwnerInv
  BY DiagFacts DEF Exact
<1>2. /\ i # 0 /\ heap' = [heap EXCEPT !.dlls = dlls, !.loads = less]
      /\ session' = session /\ owned' = owned /\ call' = call
  BY DEF UnregisterMessageDll
<1>3. heap.loads \in [Modules -> Int] /\ heap.dlls \in [Resolvers -> Seq(Dlls)]
  BY <1>1 DEF HeapShape
<1>4. i \in DOMAIN heap.dlls[r] /\ heap.dlls[r][i].name = m
  <2>1. found \subseteq Nat
    BY <1>3
  <2>2. found # {} /\ i = Min(found)
    BY <1>2 DEF FindRegisteredDll
  <2>3. i \in found
    <3> HIDE DEF found, i
    <3> QED BY <2>1, <2>2, LeastDll
  <2> QED BY <2>3
<1>5. Relisted(dlls, heap.dlls, r, RemoveAt(heap.dlls[r], i))
  BY DEF Relisted
<1>6. less \in [Modules -> Int] /\ \A k \in Modules : less[k] = heap.loads[k] - One(k = m)
  BY <1>3 DEF One
<1> HIDE DEF outer, p, i, dlls, less
<1>7. heap.dlls[r][i].module = m
  BY <1>3, <1>4, DllFact
<1>8. ASSUME NEW k \in Modules
      PROVE  /\ dlls \in [Resolvers -> Seq(Dlls)] /\ Cardinality(DllPlaces(heap.dlls, k)) \in Nat
             /\ Cardinality(DllPlaces(dlls, k)) = Cardinality(DllPlaces(heap.dlls, k)) - One(k = m)
  <2> DEFINE before == heap.dlls
  <2>1. before \in [Resolvers -> Seq(Dlls)] /\ Unregistered(dlls, before, r, i, m)
    BY <1>3, <1>4, <1>5, <1>7 DEF Unregistered
  <2> HIDE DEF before
  <2>2. /\ dlls \in [Resolvers -> Seq(Dlls)] /\ Cardinality(DllPlaces(before, k)) \in Nat
        /\ Cardinality(DllPlaces(dlls, k)) = Cardinality(DllPlaces(before, k)) - One(k = m)
    BY <2>1, RemoveDll
  <2> QED BY <2>2 DEF before
<1>9. DllTypes(dlls, less, p)
  BY <1>1, <1>6, <1>8 DEF DllTypes
<1>10. Loaded(less, dlls, p)
  <2> SUFFICES ASSUME NEW k \in Modules PROVE less[k] = Cardinality(DllPlaces(dlls, k)) + p[k]
    BY DEF Loaded
  <2>1. heap.loads[k] = Cardinality(DllPlaces(heap.dlls, k)) + p[k]
    BY <1>1 DEF LoadsExact, Loaded
  <2>2. /\ Cardinality(DllPlaces(heap.dlls, k)) \in Nat
        /\ Cardinality(DllPlaces(dlls, k)) = Cardinality(DllPlaces(heap.dlls, k)) - One(k = m)
    BY <1>8
  <2>3. p[k] \in Nat /\ less[k] = heap.loads[k] - One(k = m)
    BY <1>1, <1>6
  <2> QED BY <2>1, <2>2, <2>3 DEF One
<1>11. Reloaded(heap', heap, dlls, less)
  BY <1>1, <1>2 DEF HeapShape, HeapOf, Reloaded
<1>12. Exact(heap', outer, p) /\ heap'.fresh = heap.fresh
  BY <1>1, <1>9, <1>10, <1>11, DllsFact
<1>13. OwnerInv'
  BY <1>1, <1>2, <1>12 DEF OwnerInv
<1> QED BY <1>1, <1>2, <1>12, <1>13 DEF DiagInv, outer, p

-----------------------------------------------------------------------------
(***************************************************************************)
(* The theorems.                                                           *)
(***************************************************************************)

\* Nothing exists at first.
LEMMA DiagInitStep ==
  DiagInit => DiagInv
<1> SUFFICES ASSUME DiagInit PROVE DiagInv
  OBVIOUS
<1> DEFINE outer == Outer(session, owned, call)
           p == Pending(call)
<1>1. /\ heap = HeapOf([o \in Objects |-> 0], [h \in Handlers |-> None], [f \in Formatters |-> None],
                       [r \in Resolvers |-> <<>>], [m \in Modules |-> 0], Objects)
      /\ session = NoSession /\ owned = [o \in Objects |-> 0] /\ call = [t \in Threads |-> Idle]
  BY DEF DiagInit, HeapOf
<1>2. /\ heap.refs = [o \in Objects |-> 0] /\ heap.formatterOf = [h \in Handlers |-> None]
      /\ heap.resolverOf = [f \in Formatters |-> None] /\ heap.dlls = [r \in Resolvers |-> <<>>]
      /\ heap.loads = [m \in Modules |-> 0] /\ heap.fresh = Objects
      /\ heap = HeapOf(heap.refs, heap.formatterOf, heap.resolverOf, heap.dlls, heap.loads, heap.fresh)
  BY <1>1, FieldsFact
<1>3. HeapShape(heap)
  <2>1. heap.dlls \in [Resolvers -> Seq(Dlls)]
    BY <1>2
  <2> QED BY <1>2, <2>1 DEF HeapShape
<1>4. /\ owned \in [Objects -> Nat] /\ \A t \in Threads : call[t].op = "idle"
      /\ \A t \in Types : session.table[t] = None
      /\ session.default = None /\ session.formatter = None /\ session.resolver = None
  BY <1>1 DEF Idle, NoSession
<1>5. outer \in [Objects -> Nat] /\ \A o \in Objects : outer[o] = 0
  <2>1. outer \in [Objects -> Nat]
    BY <1>4, OuterFact
  <2>2. ASSUME NEW o \in Objects PROVE outer[o] = 0
    <3>1. Tabled(session, o) = {} /\ Handling(call, o) = {}
      BY <1>4, KindsFact DEF Tabled, Handling
    <3>2. Cardinality(Tabled(session, o)) = 0 /\ Cardinality(Handling(call, o)) = 0
      BY <3>1, FS_EmptySet
    <3>3. owned[o] = 0 /\ One(session.default = o) = 0 /\ One(session.formatter = o) = 0 /\ One(session.resolver = o) = 0
      BY <1>1, <1>4, KindsFact DEF One
    <3>4. outer[o]
            = owned[o] + Cardinality(Tabled(session, o)) + One(session.default = o) + One(session.formatter = o)
              + One(session.resolver = o) + Cardinality(Handling(call, o))
      BY <1>4, OuterAt
    <3> HIDE DEF outer
    <3> QED BY <3>2, <3>3, <3>4
  <2> QED BY <2>1, <2>2
<1>6. p \in [Modules -> Nat] /\ \A m \in Modules : p[m] = 0
  <2>1. ASSUME NEW m \in Modules PROVE Cardinality(Loading(call, m)) = 0
    <3>1. Loading(call, m) = {}
      BY <1>4 DEF Loading
    <3> QED BY <3>1, FS_EmptySet
  <2> QED BY <2>1 DEF Pending
<1> HIDE DEF outer, p
<1>7. RefsExact(heap, outer)
  <2> SUFFICES ASSUME NEW o \in Objects PROVE heap.refs[o] = outer[o] + Inner(heap, o)
    BY DEF RefsExact
  <2>1. HandlersOf(heap, o) = {} /\ FormattersOf(heap, o) = {}
    BY <1>2, KindsFact DEF HandlersOf, FormattersOf
  <2>2. Cardinality(HandlersOf(heap, o)) = 0 /\ Cardinality(FormattersOf(heap, o)) = 0
    BY <2>1, FS_EmptySet
  <2> QED BY <1>2, <1>5, <2>2 DEF Inner
<1>8. FreshInv(heap)
  BY <1>2 DEF FreshInv
<1>9. LoadsExact(heap, p)
  <2> SUFFICES ASSUME NEW m \in Modules PROVE heap.loads[m] = Cardinality(DllPlaces(heap.dlls, m)) + p[m]
    BY DEF LoadsExact, Loaded
  <2>1. \A r \in Resolvers : Registered(heap.dlls, r, m) = {}
    BY <1>2 DEF Registered
  <2>2. DllPlaces(heap.dlls, m) = {}
    BY <2>1 DEF DllPlaces
  <2>3. Cardinality(DllPlaces(heap.dlls, m)) = 0
    BY <2>2, FS_EmptySet
  <2> QED BY <1>2, <1>6, <2>3
<1>10. Exact(heap, outer, p)
  BY <1>3, <1>5, <1>6, <1>7, <1>8, <1>9 DEF Exact
<1>11. SessionInv(session) /\ CallsInv(call)
  BY <1>1, NoSessionFact DEF CallsInv, CallInv, Idle
<1>12. OwnerInv
  BY <1>1, KindsFact DEF OwnerInv
<1> QED BY <1>4, <1>10, <1>11, <1>12 DEF DiagInv, outer, p

\* A step that changes nothing.
LEMMA DiagStutter ==
  DiagInv /\ UNCHANGED diagVars => DiagInv'
<1> SUFFICES ASSUME DiagInv, UNCHANGED diagVars PROVE DiagInv'
  OBVIOUS
<1>1. heap' = heap /\ session' = session /\ owned' = owned /\ call' = call
  BY DEF diagVars
<1>2. OwnerInv'
  BY <1>1 DEF DiagInv, OwnerInv
<1> QED BY <1>1, <1>2 DEF DiagInv

\* Every step keeps the invariant.
LEMMA DiagStep ==
  DiagInv /\ DiagNext => DiagInv'
<1> SUFFICES ASSUME DiagInv, DiagNext PROVE DiagInv'
  OBVIOUS
<1>1. ASSUME NEW o \in Objects, ClientReleases(o) \/ ClientReferences(o) PROVE DiagInv'
  BY <1>1, ClientReleasesStep, ClientReferencesStep
<1>2. ASSUME NEW type \in Types, TearDownHandler(type) PROVE DiagInv'
  BY <1>2, TearDownHandlerStep
<1>3. ASSUME FreeSession PROVE DiagInv'
  BY <1>3, FreeSessionStep
<1>4. ASSUME NEW r \in Resolvers, CreateMessageResolver(r) \/ SetResolver(r) PROVE DiagInv'
  BY <1>4, CreateMessageResolverStep, SetResolverStep
<1>5. ASSUME NEW f \in Formatters, NEW r \in Resolvers \cup {None}, CreateFormatter(f, r) PROVE DiagInv'
  BY <1>5, CreateFormatterStep
<1>6. ASSUME NEW f \in Formatters \cup {None}, NEW r \in Resolvers \cup {None},
             NEW df \in Formatters, NEW dr \in Resolvers,
             CreateSession(f, r, df, dr) \/ CreateSessionFails(r, dr)
      PROVE  DiagInv'
  BY <1>6, CreateSessionStep, CreateSessionFailsStep
<1>7. ASSUME NEW x \in Handlers, CreateHandler(x) \/ SetDefaultHandler(x) PROVE DiagInv'
  BY <1>7, CreateHandlerStep, SetDefaultHandlerStep
<1>8. ASSUME NEW type \in Types, NEW x \in Handlers, SetHandler(type, x) PROVE DiagInv'
  BY <1>8, SetHandlerStep
<1>9. ASSUME NEW type \in Types, NEW mask \in {{}, Types}, SetSeverityFilter(type, mask) PROVE DiagInv'
  BY <1>9, SetSeverityFilterStep
<1>10. ASSUME NEW f \in Formatters, SetFormatter(f) PROVE DiagInv'
  BY <1>10, SetFormatterStep
<1>11. ASSUME NEW o \in Objects, QueryInformation(o) PROVE DiagInv'
  BY <1>11, QueryInformationStep
<1>12. ASSUME NEW t \in Threads, NEW type \in Types, HandleEvent(t, type) PROVE DiagInv'
  BY <1>12, HandleEventStep
<1>13. ASSUME NEW t \in Threads, HandleEventEnds(t) \/ InsertMessageDll(t) PROVE DiagInv'
  BY <1>13, HandleEventEndsStep, InsertMessageDllStep
<1>14. ASSUME NEW t \in Threads, NEW r \in Resolvers, NEW m \in Modules, NEW path \in BOOLEAN,
              LoadMessageDll(t, r, m, path)
       PROVE  DiagInv'
  BY <1>14, LoadMessageDllStep
<1>15. ASSUME NEW r \in Resolvers, NEW m \in Modules, UnregisterMessageDll(r, m) PROVE DiagInv'
  BY <1>15, UnregisterMessageDllStep
<1> QED BY <1>1, <1>2, <1>3, <1>4, <1>5, <1>6, <1>7, <1>8, <1>9, <1>10, <1>11, <1>12, <1>13, <1>14, <1>15
        DEF DiagNext

\* The counts are exact.
LEMMA DiagInvExact ==
  DiagInv => ReferencesExact
<1> SUFFICES ASSUME DiagInv PROVE ReferencesExact
  OBVIOUS
<1> DEFINE outer == Outer(session, owned, call)
<1>1. owned \in [Objects -> Nat] /\ RefsExact(heap, outer) /\ LoadsExact(heap, Pending(call))
  BY DiagFacts DEF Exact
<1>2. ASSUME NEW o \in Objects PROVE heap.refs[o] = Holders(o)
  <2> DEFINE a == Cardinality(Tabled(session, o))
             b == Cardinality(Handling(call, o))
             c == Cardinality(HandlersOf(heap, o))
             d == Cardinality(FormattersOf(heap, o))
  <2>1. /\ a \in Nat /\ b \in Nat /\ owned[o] \in Nat
        /\ outer[o] = owned[o] + a + One(session.default = o) + One(session.formatter = o)
                      + One(session.resolver = o) + b
    BY <1>1, OuterAt
  <2>2. c \in Nat /\ d \in Nat /\ heap.refs[o] = outer[o] + (c + d)
    BY <1>1, InnerType DEF RefsExact, Inner
  <2>3. Holders(o) = owned[o] + a + One(session.default = o) + One(session.formatter = o)
                     + One(session.resolver = o) + c + d + b
    BY DEF Holders, One, Tabled, Handling, HandlersOf, FormattersOf
  <2> HIDE DEF a, b, c, d, outer
  <2> QED BY <2>1, <2>2, <2>3 DEF One
<1>3. ASSUME NEW m \in Modules
      PROVE  heap.loads[m] =
               Cardinality(UNION {{r} \X {i \in DOMAIN heap.dlls[r] : heap.dlls[r][i].module = m} :
                                     r \in Resolvers})
               + Cardinality({t \in Threads : call[t].op = "register" /\ call[t].module = m})
  <2>1. heap.loads[m] = Cardinality(DllPlaces(heap.dlls, m)) + Pending(call)[m]
    BY <1>1 DEF LoadsExact, Loaded
  <2>2. Pending(call)[m] = Cardinality(Loading(call, m))
    BY DEF Pending
  <2> QED BY <2>1, <2>2 DEF DllPlaces, Registered, Loading
<1> QED BY <1>2, <1>3 DEF ReferencesExact

\* The inductive invariant holds always: however many clients share however
\* many handlers, formatters and resolvers.
THEOREM DiagInvariance == DiagSpec => []DiagInv
<1>1. DiagInit => DiagInv
  BY DiagInitStep
<1>2. DiagInv /\ [DiagNext]_diagVars => DiagInv'
  BY DiagStep, DiagStutter
<1> QED BY <1>1, <1>2, PTL DEF DiagSpec

\* Every reference count is the number of holders, and every message DLL is
\* loaded as often as it is registered, or being registered, whatever the
\* interleaving of event handling, registration and teardown.
THEOREM ReferencesExactHolds == DiagSpec => []ReferencesExact
<1>1. DiagInv => ReferencesExact
  BY DiagInvExact
<1> QED BY <1>1, DiagInvariance, PTL
==============================================================================
