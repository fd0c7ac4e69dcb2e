----------------------------- MODULE ConfigStore -----------------------------
(***************************************************************************)
(* The registry backed configuration store, cdiag/cdiag/regconfigstore.c:  *)
(* one setting in the machine and in the user scope, and the notification  *)
(* of changes, in which a client thread, the wait thread of the system and *)
(* writers of the registry meet.  The registry, events and registered      *)
(* waits are external.                                                     *)
(***************************************************************************)
EXTENDS Naturals, FiniteSets

CONSTANTS
    Values,        \* settings: [type, length]
    AccessModes,   \* access modes to create the store with
    Contexts,      \* contexts of update callbacks
    Clients,       \* threads that use the store
    Nothing

Scopes == {"machine", "user"}       \* in the order of their index

VARIABLES
    registry,      \* the setting in each scope, NoValue or NoGroup
    store,         \* CDIAGP_REG_CONFIG_STORE and the state of its handles
    worker,        \* the callback on the wait thread
    client,        \* where each client is
    answer         \* what a read returned in the last step

storeVars == <<registry, store, worker, client, answer>>

\* The group's key exists without the value, or not at all.
NoValue == [type |-> "no_value", length |-> 0]
NoGroup == [type |-> "no_group", length |-> 0]

ASSUME StoreAssumption ==
    /\ Nothing \notin Contexts \cup {"worker"}
    /\ AccessModes \subseteq [Scopes -> SUBSET {"read", "write"}]
    /\ NoValue \notin Values /\ NoGroup \notin Values
    /\ \A v \in Values : v.length \in Nat

NoStore ==
    [live |-> FALSE, mask |-> [s \in Scopes |-> {}], event |-> "null", wait |-> "null",
     armed |-> {}, callback |-> Nothing, lock |-> Nothing]

Resting == [pc |-> "idle", context |-> Nothing]
NoAnswer == [hr |-> "none", scopes |-> {}, type |-> Nothing, size |-> 0, value |-> Nothing]

StoreInit ==
    /\ registry = [s \in Scopes |-> NoGroup]
    /\ store = NoStore
    /\ worker = Resting
    /\ client = [c \in Clients |-> "idle"]
    /\ answer = NoAnswer

Keys == {s \in Scopes : store.mask[s] # {}}

\* External: a change signals the event of the key's armed notification.
Signalled(s) ==
    IF s \in store.armed THEN [store EXCEPT !.event = "set", !.armed = @ \ {s}] ELSE store

-----------------------------------------------------------------------------
\* CdiagCreateRegistryStore: a key is opened with the rights asked for; if the
\* second one cannot be opened the structure is freed and the first one leaks.
CreateRegistryStore(c, mask) ==
    /\ ~ store.live /\ client[c] = "idle"
    /\ \E s \in Scopes : mask[s] # {}
    /\ \A d \in Clients : client[d] # "deleted"
    /\ store' = [NoStore EXCEPT !.live = TRUE, !.mask = mask]
    /\ answer' = NoAnswer
    /\ UNCHANGED <<registry, worker, client>>

\* CdiagsReadSettingInSingleScope.  Without read access the key can be opened
\* but not queried.
ReadInSingleScope(s, type, size) ==
    CASE store.mask[s] = {}                                   -> "access_denied"
      [] store.mask[s] # {} /\ registry[s] = NoGroup       -> "not_found"
      [] store.mask[s] # {} /\ registry[s] # NoGroup ->
           CASE "read" \notin store.mask[s]                   -> "access_denied"
             [] "read" \in store.mask[s] /\ registry[s] = NoValue -> "not_found"
             [] "read" \in store.mask[s] /\ registry[s] # NoValue ->
                  CASE registry[s].length > size              -> "too_small"
                    [] registry[s].length <= size /\ registry[s].type # type -> "mismatch"
                    [] OTHER                                  -> "ok"

\* Faulty variant: the machine scope is asked first.
ReadFromMachineFirst(scopes, type, size) ==
    IF "machine" \in scopes /\ ReadInSingleScope("machine", type, size) = "ok" THEN [hr |-> "ok", from |-> "machine"]
    ELSE [hr |-> ReadInSingleScope("user", type, size), from |-> "user"]

\* CdiagsReadSetting: only "not found" sends the read on to the machine scope.
ReadFrom(scopes, type, size) ==
    LET user == ReadInSingleScope("user", type, size)
    IN  CASE "user" \in scopes /\ (user # "not_found" \/ "machine" \notin scopes) -> [hr |-> user, from |-> "user"]
          [] OTHER -> [hr |-> ReadInSingleScope("machine", type, size), from |-> "machine"]

\* CdiagsReadDwordSetting, CdiagsReadStringSetting, CdiagsReadMultiStringSetting
ReadSetting(c, scopes, type, size) ==
    /\ store.live /\ client[c] = "idle"
    /\ type = "dword" => size = 1
    /\ LET read == ReadFrom(scopes, type, size)
           hr   == IF type = "dword" /\ read.hr = "too_small" THEN "mismatch" ELSE read.hr
       IN  answer' = [hr |-> hr, scopes |-> scopes, type |-> type, size |-> size,
                      value |-> IF hr = "ok" THEN registry[read.from] ELSE Nothing]
    /\ UNCHANGED <<registry, store, worker, client>>

\* CdiagsWriteDwordSetting, CdiagsWriteStringSetting, CdiagsWriteMultiStringSetting:
\* CdiagsWriteSettingInSingleScope creates the group and sets the value.
WriteSetting(c, s, v) ==
    /\ store.live /\ client[c] = "idle"
    /\ "write" \in store.mask[s]
    /\ registry' = [registry EXCEPT ![s] = v]
    /\ store' = Signalled(s)
    /\ answer' = NoAnswer
    /\ UNCHANGED <<worker, client>>

\* CdiagsDeleteSetting, CdiagsDeleteSettingInSingleScope
DeleteSetting(c, s) ==
    /\ store.live /\ client[c] = "idle"
    /\ "write" \in store.mask[s] /\ registry[s] \in Values
    /\ registry' = [registry EXCEPT ![s] = NoValue]
    /\ store' = Signalled(s)
    /\ answer' = NoAnswer
    /\ UNCHANGED <<worker, client>>

\* External: somebody else writes the same key.
OtherWriter(s, v) ==
    /\ registry' = [registry EXCEPT ![s] = v]
    /\ store' = Signalled(s)
    /\ answer' = NoAnswer
    /\ UNCHANGED <<worker, client>>

-----------------------------------------------------------------------------
\* CdiagsRegisterUpdateCallback.

\* What may become of the calls of the system on the way.
Outcomes == {"ok", "no_event", "no_wait", "no_notify"}

\* CdiagsCreateNotificationEventAndRegisterCallback: if the wait cannot be
\* registered the event is closed but its handle stays in the structure.
CreateNotificationEvent(outcome) ==
    CASE outcome \in {"ok", "no_notify"} -> [store EXCEPT !.event = "unset", !.wait = "registered"]
      [] outcome = "no_event"            -> store
      [] outcome = "no_wait"             -> [store EXCEPT !.event = "closed"]

\* CdiagsRegisterKeyChangeNotification for the first open key; for the second
\* one everything is "already set up", so that it is not armed.  If
\* RegNotifyChangeKeyValue fails the event and the wait stay, so that the next
\* registration finds them and succeeds without arming a key.
RegisterKeyChangeNotification(outcome) ==
    LET first == IF "machine" \in Keys THEN "machine" ELSE "user"
        made  == IF store.event = "null" THEN CreateNotificationEvent(outcome) ELSE store
    IN  CASE store.wait = "registered" -> [store |-> store, ok |-> TRUE]
          [] store.wait # "registered" /\ made.wait = "registered" /\ outcome = "ok" ->
               [store |-> [made EXCEPT !.armed = @ \cup {first}], ok |-> TRUE]
          [] OTHER -> [store |-> made, ok |-> FALSE]

\* The locked part.
RegisterUpdateCallback(c, context, outcome) ==
    /\ store.live /\ client[c] = "idle" /\ store.lock = Nothing
    /\ outcome # "ok" => store.event = "null"
    /\ LET reg == RegisterKeyChangeNotification(outcome)
       IN  store' = IF reg.ok THEN [reg.store EXCEPT !.callback = context] ELSE reg.store
    /\ client' = [client EXCEPT ![c] = "reset"]
    /\ answer' = NoAnswer
    /\ UNCHANGED <<registry, worker>>

UnregisterUpdateCallback(c) ==
    /\ store.live /\ client[c] = "idle" /\ store.lock = Nothing
    /\ store' = [store EXCEPT !.callback = Nothing]
    /\ client' = [client EXCEPT ![c] = "reset"]
    /\ answer' = NoAnswer
    /\ UNCHANGED <<registry, worker>>

\* ResetEvent, after the lock was left.
ResetNotification(c) ==
    /\ client[c] = "reset"
    /\ client' = [client EXCEPT ![c] = "idle"]
    /\ store' = [store EXCEPT !.event = IF @ = "set" THEN "unset" ELSE @]
    /\ answer' = NoAnswer
    /\ UNCHANGED <<registry, worker>>

-----------------------------------------------------------------------------
\* CdiagsKeyChangeNotificationCallback on the wait thread.

\* External: the wait is satisfied for as long as the event is set.
WaitSatisfied ==
    /\ store.wait = "registered" /\ store.event = "set" /\ worker = Resting
    /\ worker' = [worker EXCEPT !.pc = "entered"]
    /\ answer' = NoAnswer
    /\ UNCHANGED <<registry, store, client>>

\* Faulty variant: the callback is read, and the lock left, before it is called.
CallUpdateCallbackUnlocked ==
    /\ worker.pc = "entered" /\ store.lock = Nothing
    /\ worker' = [pc |-> "calling", context |-> store.callback]
    /\ answer' = NoAnswer
    /\ UNCHANGED <<registry, store, client>>

\* The lock is held while the callback runs.
CallUpdateCallback ==
    /\ worker.pc = "entered" /\ store.lock = Nothing
    /\ IF store.callback = Nothing THEN worker' = [worker EXCEPT !.pc = "rearm"] /\ UNCHANGED store
       ELSE /\ worker' = [pc |-> "calling", context |-> store.callback]
            /\ store' = [store EXCEPT !.lock = "worker"]
    /\ answer' = NoAnswer
    /\ UNCHANGED <<registry, client>>

UpdateCallbackReturns ==
    /\ worker.pc = "calling"
    /\ worker' = [pc |-> "rearm", context |-> Nothing]
    /\ store' = [store EXCEPT !.lock = Nothing]
    /\ answer' = NoAnswer
    /\ UNCHANGED <<registry, client>>

\* Every open key is armed again.  Whether arming clears the event is up to
\* the system; the code does not clear it here.
RearmNotifications ==
    /\ worker.pc = "rearm"
    /\ worker' = Resting
    /\ \E cleared \in BOOLEAN :
         store' = [store EXCEPT !.armed = Keys, !.event = IF cleared /\ @ = "set" THEN "unset" ELSE @]
    /\ answer' = NoAnswer
    /\ UNCHANGED <<registry, client>>

-----------------------------------------------------------------------------
\* CdiagsDeleteStore.  The client makes it the last call on the store.

DeleteStore(c) ==
    /\ store.live /\ \A d \in Clients : client[d] = "idle"
    /\ client' = [client EXCEPT ![c] = "deleting"]
    /\ store' = [store EXCEPT !.wait = IF @ = "registered" THEN "unregistering" ELSE @]
    /\ answer' = NoAnswer
    /\ UNCHANGED <<registry, worker>>

\* UnregisterWaitEx waits until the callbacks have completed.
CallbacksCompleted == worker = Resting

\* The keys and the event are closed and the store is freed; closing an event
\* that was closed before fails, and the store stays behind without its keys.
CloseStore(c) ==
    /\ client[c] = "deleting" /\ CallbacksCompleted
    /\ client' = [client EXCEPT ![c] = "deleted"]
    /\ store' = IF store.event = "closed" THEN [NoStore EXCEPT !.event = "closed"] ELSE NoStore
    /\ answer' = NoAnswer
    /\ UNCHANGED <<registry, worker>>

-----------------------------------------------------------------------------
StoreNext ==
    \/ \E c \in Clients :
         \/ \E mask \in AccessModes : CreateRegistryStore(c, mask)
         \/ \E scopes \in (SUBSET Scopes) \ {{}}, v \in Values, size \in 1 .. 2 : ReadSetting(c, scopes, v.type, size)
         \/ \E s \in Scopes, v \in Values : WriteSetting(c, s, v)
         \/ \E s \in Scopes : DeleteSetting(c, s)
         \/ \E x \in Contexts, outcome \in Outcomes : RegisterUpdateCallback(c, x, outcome)
         \/ UnregisterUpdateCallback(c) \/ ResetNotification(c)
         \/ DeleteStore(c) \/ CloseStore(c)
    \/ \E s \in Scopes, v \in Values : OtherWriter(s, v)
    \/ WaitSatisfied \/ CallUpdateCallback \/ UpdateCallbackReturns \/ RearmNotifications

-----------------------------------------------------------------------------
\* An update callback runs only with the context that is registered at that
\* moment, which therefore is still valid, and the wait thread is never in its
\* callback when the store is gone: registering, unregistering and deleting wait
\* for the callback (CdiagsKeyChangeNotificationCallback, CdiagsDeleteStore).
CallbackWhileRegistered ==
    /\ worker.pc = "calling" => worker.context # Nothing /\ worker.context = store.callback
    /\ ~ store.live => worker = Resting

\* A read answers with the setting of the user's scope if that one was asked for
\* and has a setting, else with that of the machine's (CdiagsReadSetting), or
\* says why it cannot.  Every answer has its reason: "not found" that no scope
\* asked for has a setting, "too small" that the one to return does not fit,
\* "mismatch" that it is no setting of the type asked for; and access is denied
\* only for want of rights in a scope that a setting of the user does not make
\* irrelevant.
ReadsEffective ==
    LET set   == {s \in answer.scopes : registry[s] \in Values}
        found == IF "user" \in set THEN registry["user"] ELSE registry["machine"]
    IN  /\ answer.hr \in {"none", "ok", "not_found", "too_small", "mismatch", "access_denied"}
        /\ answer.hr = "ok" => /\ set # {} /\ answer.value = found
                               /\ found.type = answer.type /\ found.length <= answer.size
        /\ answer.hr = "not_found" => set = {}
        /\ answer.hr = "too_small" => set # {} /\ found.length > answer.size
        /\ answer.hr = "mismatch"  => /\ set # {}
                                      /\ found.type # answer.type \/ found.length > answer.size
        /\ answer.hr = "access_denied" =>
              \E s \in answer.scopes : /\ "read" \notin store.mask[s]
                                       /\ s = "machine" => "user" \notin set

\* "Use effective scope, i.e. use user scope if available, else use global scope"
\* (cdiag.h): a store that was opened without the user's key answers a read of
\* the effective scope with the setting of the machine, if that one can be read
\* as asked.
EffectiveFallsBack ==
    (/\ answer.scopes = Scopes
     /\ store.mask["user"] = {} /\ "read" \in store.mask["machine"]
     /\ registry["machine"] \in Values
     /\ registry["machine"].type = answer.type /\ registry["machine"].length <= answer.size)
        => answer.value = registry["machine"]
=============================================================================
