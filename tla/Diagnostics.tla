----------------------------- MODULE Diagnostics -----------------------------
(***************************************************************************)
(* The objects of cdiag: a session (cdiag/cdiag/session.c) with its        *)
(* handlers (outputhandler.c, textfilehandler.c), formatters (formatter.c) *)
(* and message resolvers (msgresolver.c), all of them reference counted    *)
(* and shared by the threads of the client.  What a handler writes is the  *)
(* subject of MessageFormat.                                               *)
(*                                                                         *)
(* An operation that runs under a lock, or touches one reference count, is *)
(* a step.  CdiagHandleEvent and RegisterMessageDll work outside their     *)
(* lock and are split.  Clients keep the contract: they pass objects they  *)
(* hold a reference to, for as long as the call takes.                     *)
(***************************************************************************)
EXTENDS Integers, Sequences, FiniteSets, SequencesExt, FiniteSetsExt

CONSTANTS
    Handlers, Formatters, Resolvers,
    Types,                        \* event types
    Modules,                      \* loadable message DLLs
    Threads,                      \* client threads
    MaxOwned,                     \* references of the client to each object
    None

Objects == Handlers \cup Formatters \cup Resolvers \cup {"session"}

ASSUME DiagAssumption ==
    /\ None \notin Objects \cup Modules /\ "session" \notin Handlers \cup Formatters \cup Resolvers
    /\ Handlers \cap Formatters = {} /\ Handlers \cap Resolvers = {} /\ Formatters \cap Resolvers = {}
    /\ \A S \in {Handlers, Formatters, Resolvers, Types, Threads} : IsFiniteSet(S)
    /\ MaxOwned \in [Objects -> Nat \ {0}]

VARIABLES
    heap,      \* [refs, formatterOf, resolverOf, dlls, loads, fresh]
    session,   \* Members of the session
    owned,     \* references held by the client, per object
    call       \* what a thread does outside the locks

diagVars == <<heap, session, owned, call>>

Idle == [op |-> "idle", object |-> None, name |-> None, module |-> None, path |-> FALSE]

NoSession ==
    [default |-> None, table |-> [t \in Types |-> None], filter |-> [t \in Types |-> {}],
     formatter |-> None, resolver |-> None]

DiagInit ==
    /\ heap = [refs        |-> [o \in Objects |-> 0],
               formatterOf |-> [h \in Handlers |-> None],
               resolverOf  |-> [f \in Formatters |-> None],
               dlls        |-> [r \in Resolvers |-> <<>>],
               loads       |-> [m \in Modules |-> 0],
               fresh       |-> Objects]          \* not yet allocated
    /\ session = NoSession
    /\ owned = [o \in Objects |-> 0]
    /\ call = [t \in Threads |-> Idle]

-----------------------------------------------------------------------------
\* References.  The operators map a heap to a heap.

Reference(h, o) == [h EXCEPT !.refs[o] = @ + 1]

\* CdiagsDeleteResolver unloads every DLL that is still registered.
DereferenceResolver(h, r) ==
    IF h.refs[r] > 1 THEN [h EXCEPT !.refs[r] = @ - 1]
    ELSE [h EXCEPT !.refs[r] = 0, !.dlls[r] = <<>>,
                   !.loads = [m \in Modules |-> @[m] - Cardinality({i \in DOMAIN h.dlls[r] : h.dlls[r][i].module = m})]]

\* CdiagsDeleteFormatter
DereferenceFormatter(h, f) ==
    LET less == [h EXCEPT !.refs[f] = @ - 1]
    IN  IF h.refs[f] > 1 \/ h.resolverOf[f] = None THEN less
        ELSE DereferenceResolver([less EXCEPT !.resolverOf[f] = None], h.resolverOf[f])

\* CdiagsOutDeleteHandler, CdiagsTextFileDeleteHandler (the file stays open)
DereferenceHandler(h, x) ==
    LET less == [h EXCEPT !.refs[x] = @ - 1]
    IN  IF h.refs[x] > 1 \/ h.formatterOf[x] = None THEN less
        ELSE DereferenceFormatter([less EXCEPT !.formatterOf[x] = None], h.formatterOf[x])

ReleaseHandler(h, x) == IF x = None THEN h ELSE DereferenceHandler(h, x)

Give(o) == owned[o] < MaxOwned[o] /\ owned' = [owned EXCEPT ![o] = @ + 1]
Owns(o) == owned[o] > 0

\* Calls under way need the reference of their caller.
InUse(o) == Cardinality({t \in Threads : call[t].op = "register" /\ call[t].object = o})

\* A client drops a reference (the Dereference methods, CdiagDereferenceSession).
ClientReleases(o) ==
    /\ owned[o] > InUse(o)
    /\ owned' = [owned EXCEPT ![o] = @ - 1]
    /\ heap' = CASE o \in Handlers   -> DereferenceHandler(heap, o)
                 [] o \in Formatters -> DereferenceFormatter(heap, o)
                 [] o \in Resolvers  -> DereferenceResolver(heap, o)
                 [] o = "session"    -> [heap EXCEPT !.refs[o] = @ - 1]
    /\ UNCHANGED <<session, call>>

\* CdiagsDeleteSession: nobody refers to the session any more.
Deleting == "session" \notin heap.fresh /\ heap.refs["session"] = 0 /\ session # NoSession

\* CdiagsTearDownHandlerFromHashtableCallback, for an entry of the table.
TearDownHandler(type) ==
    /\ Deleting /\ session.table[type] # None
    /\ heap' = DereferenceHandler(heap, session.table[type])
    /\ session' = [session EXCEPT !.table[type] = None]
    /\ UNCHANGED <<owned, call>>

\* Then the default handler, the formatter and the resolver.
FreeSession ==
    /\ Deleting /\ \A type \in Types : session.table[type] = None
    /\ heap' = DereferenceResolver(
                  DereferenceFormatter(ReleaseHandler(heap, session.default), session.formatter),
                  session.resolver)
    /\ session' = NoSession
    /\ UNCHANGED <<owned, call>>

\* A client takes another one (the Reference methods, CdiagReferenceSession).
ClientReferences(o) ==
    /\ Owns(o) /\ Give(o)
    /\ heap' = Reference(heap, o)
    /\ UNCHANGED <<session, call>>

Allocate(h, o) == [h EXCEPT !.refs[o] = 1, !.fresh = @ \ {o}]

-----------------------------------------------------------------------------
\* Creation.  An allocation that fails leaves nothing behind.

\* CdiagCreateMessageResolver
CreateMessageResolver(r) ==
    /\ r \in heap.fresh /\ Give(r)
    /\ heap' = Allocate(heap, r)
    /\ UNCHANGED <<session, call>>

\* CdiagCreateFormatter with or without a resolver
NewFormatter(h, f, r) ==
    LET new == Allocate(h, f)
    IN  IF r = None THEN new ELSE Reference([new EXCEPT !.resolverOf[f] = r], r)

CreateFormatter(f, r) ==
    /\ f \in heap.fresh /\ Give(f)
    /\ r # None => Owns(r)
    /\ heap' = NewFormatter(heap, f, r)
    /\ UNCHANGED <<session, call>>

\* CdiagCreateSession: a formatter or resolver the caller does not pass is
\* created; if the formatter cannot be created the resolver is released again.
CreateSession(f, r, defaultFormatter, defaultResolver) ==
    /\ "session" \in heap.fresh /\ Give("session")
    /\ IF r # None THEN Owns(r) ELSE defaultResolver \in heap.fresh
    /\ IF f # None THEN Owns(f) ELSE defaultFormatter \in heap.fresh
    /\ LET base == Allocate(heap, "session")
           res  == IF r # None THEN Reference(base, r) ELSE Allocate(base, defaultResolver)
           used == IF r # None THEN r ELSE defaultResolver
           form == IF f # None THEN Reference(res, f) ELSE NewFormatter(res, defaultFormatter, used)
       IN  /\ heap' = form
           /\ session' = [NoSession EXCEPT !.formatter = IF f # None THEN f ELSE defaultFormatter,
                                           !.resolver = used]
    /\ UNCHANGED call

CreateSessionFails(r, defaultResolver) ==
    /\ "session" \in heap.fresh
    /\ IF r # None THEN Owns(r) ELSE defaultResolver \in heap.fresh
    /\ heap' = IF r # None THEN DereferenceResolver(Reference(heap, r), r)
               ELSE DereferenceResolver(Allocate(heap, defaultResolver), defaultResolver)
    /\ UNCHANGED <<session, owned, call>>

\* CdiagCreateOutputHandler: the handler takes the session's formatter.
NewHandler(h, x) ==
    Reference([Allocate(h, x) EXCEPT !.formatterOf[x] = session.formatter], session.formatter)

\* The same by CdiagCreateTextFileHandler.  The file is left out: it is opened
\* first and never closed.
CreateHandler(x) ==
    /\ x \in heap.fresh /\ Owns("session") /\ Give(x)
    /\ heap' = NewHandler(heap, x)
    /\ UNCHANGED <<session, call>>

-----------------------------------------------------------------------------
\* CdiagSetInformationSession and CdiagQueryInformationSession, under the lock.

\* CdiagsSetDefaultHandler: the old handler goes before the new one comes.
SetDefaultHandler(x) ==
    /\ Owns("session") /\ Owns(x)
    /\ heap' = Reference(ReleaseHandler(heap, session.default), x)
    /\ session' = [session EXCEPT !.default = x]
    /\ UNCHANGED <<owned, call>>

\* CdiagsSetHandler: the new registration replaces the old one in the table. The
\* result of its allocation is not tested (session.c:288): out of memory the process
\* faults there, before any count has changed, and that is not modelled.
SetHandler(type, x) ==
    /\ Owns("session") /\ Owns(x)
    /\ heap' = ReleaseHandler(Reference(heap, x), session.table[type])
    /\ session' = [session EXCEPT !.table[type] = x, !.filter[type] = Types]
    /\ UNCHANGED <<owned, call>>

\* CdiagsSetSeverityFilter does nothing for a type without a handler.
SetSeverityFilter(type, mask) ==
    /\ Owns("session") /\ session.table[type] # None
    /\ session' = [session EXCEPT !.filter[type] = mask]
    /\ UNCHANGED <<heap, owned, call>>

SetResolver(r) ==
    /\ Owns("session") /\ Owns(r)
    /\ heap' = Reference(DereferenceResolver(heap, session.resolver), r)
    /\ session' = [session EXCEPT !.resolver = r]
    /\ UNCHANGED <<owned, call>>

SetFormatter(f) ==
    /\ Owns("session") /\ Owns(f)
    /\ heap' = Reference(DereferenceFormatter(heap, session.formatter), f)
    /\ session' = [session EXCEPT !.formatter = f]
    /\ UNCHANGED <<owned, call>>

\* CdiagsQueryDefaultHandler, CdiagsQueryHandler
QueriedHandlers == {session.default} \cup {session.table[t] : t \in Types}

\* The queries hand out a reference to what the session holds.
QueryInformation(o) ==
    /\ Owns("session") /\ Give(o)
    /\ o \in {session.formatter, session.resolver} \cup QueriedHandlers
    /\ heap' = Reference(heap, o)
    /\ UNCHANGED <<session, call>>

-----------------------------------------------------------------------------
\* CdiagHandleEvent.

\* The handler for the type, or the default one whose filter cannot be changed.
Selected(type) == IF session.table[type] # None THEN session.table[type] ELSE session.default
Passes(type)   == session.table[type] # None => type \in session.filter[type]

\* Faulty variant: the lock is left without a reference to the handler.
GrabUnreferenced(h, x) == h

\* The reference that allows leaving the lock before the handler is called.
Grab(h, x) == Reference(h, x)

HandleEvent(t, type) ==
    /\ call[t] = Idle /\ Owns("session")
    /\ LET x == Selected(type)
       IN  IF x = None THEN UNCHANGED <<heap, call>>
           ELSE /\ heap' = Grab(heap, x)
                /\ call' = [call EXCEPT ![t] = [Idle EXCEPT !.op = IF Passes(type) THEN "handle" ELSE "filtered",
                                                           !.object = x]]
    /\ UNCHANGED <<session, owned>>

\* Handler->Handle returned, or was filtered: the reference is given back.
HandleEventEnds(t) ==
    /\ call[t].op \in {"handle", "filtered"}
    /\ heap' = DereferenceHandler(heap, call[t].object)
    /\ call' = [call EXCEPT ![t] = Idle]
    /\ UNCHANGED <<session, owned>>

-----------------------------------------------------------------------------
\* Message DLLs.  The name of a DLL is its module; with an explicit path the
\* name is cut out of the path for the entry, but the path is searched for.

\* CdiagsFindRegisteredDll
FindRegisteredDll(r, name) ==
    LET found == {i \in DOMAIN heap.dlls[r] : heap.dlls[r][i].name = name}
    IN  IF found = {} THEN 0 ELSE Min(found)

\* CdiagsRegisterMessageDll: LoadLibrary, before the lock is taken.
LoadMessageDll(t, r, m, path) ==
    /\ call[t] = Idle /\ owned[r] > InUse(r)
    /\ heap.loads[m] < Cardinality(Threads)      \* bound
    /\ heap' = [heap EXCEPT !.loads[m] = @ + 1]
    /\ call' = [call EXCEPT ![t] = [op |-> "register", object |-> r, name |-> m, module |-> m, path |-> path]]
    /\ UNCHANGED <<session, owned>>

\* CdiagsDeleteRegisteredDllEntry of an entry that is in no list.
UnusedEntry(h, m) == [h EXCEPT !.loads[m] = @ - 1]

\* The search and the insertion, under the lock.
InsertMessageDll(t) ==
    /\ call[t].op = "register"
    /\ LET r == call[t].object
           m == call[t].module
           known == ~ call[t].path /\ FindRegisteredDll(r, call[t].name) # 0
       IN  heap' = IF known THEN UnusedEntry(heap, m)
                   ELSE [heap EXCEPT !.dlls[r] = Append(@, [name |-> call[t].name, module |-> m])]
    /\ call' = [call EXCEPT ![t] = Idle]
    /\ UNCHANGED <<session, owned>>

\* CdiagsUnregisterMessageDll: the first entry with the name.
UnregisterMessageDll(r, m) ==
    /\ Owns(r)
    /\ LET i == FindRegisteredDll(r, m)
       IN  /\ i # 0
           /\ heap' = [heap EXCEPT !.dlls[r] = RemoveAt(@, i), !.loads[m] = @ - 1]
    /\ UNCHANGED <<session, owned, call>>

-----------------------------------------------------------------------------
DiagNext ==
    \/ \E o \in Objects : ClientReleases(o) \/ ClientReferences(o)
    \/ \E type \in Types : TearDownHandler(type)
    \/ FreeSession
    \/ \E r \in Resolvers : CreateMessageResolver(r) \/ SetResolver(r)
    \/ \E f \in Formatters, r \in Resolvers \cup {None} : CreateFormatter(f, r)
    \/ \E f \in Formatters \cup {None}, r \in Resolvers \cup {None}, df \in Formatters, dr \in Resolvers :
         CreateSession(f, r, df, dr) \/ CreateSessionFails(r, dr)
    \/ \E x \in Handlers : CreateHandler(x) \/ SetDefaultHandler(x)
    \/ \E type \in Types, x \in Handlers : SetHandler(type, x)
    \/ \E type \in Types, mask \in {{}, Types} : SetSeverityFilter(type, mask)
    \/ \E f \in Formatters : SetFormatter(f)
    \/ \E o \in Objects : QueryInformation(o)
    \/ \E t \in Threads, type \in Types : HandleEvent(t, type)
    \/ \E t \in Threads : HandleEventEnds(t) \/ InsertMessageDll(t)
    \/ \E t \in Threads, r \in Resolvers, m \in Modules, path \in BOOLEAN : LoadMessageDll(t, r, m, path)
    \/ \E r \in Resolvers, m \in Modules : UnregisterMessageDll(r, m)

-----------------------------------------------------------------------------
\* Who holds a reference to an object.
Holders(o) ==
    owned[o]
    + Cardinality({t \in Types : session.table[t] = o})
    + (IF session.default = o THEN 1 ELSE 0)
    + (IF session.formatter = o THEN 1 ELSE 0)
    + (IF session.resolver = o THEN 1 ELSE 0)
    + Cardinality({x \in Handlers : heap.formatterOf[x] = o})
    + Cardinality({f \in Formatters : heap.resolverOf[f] = o})
    + Cardinality({t \in Threads : call[t].op \in {"handle", "filtered"} /\ call[t].object = o})

\* Whatever the threads of the client do between leaving the session's lock and
\* releasing the handler, every reference count is the number of holders, so
\* that nothing in use is freed and nothing unused is kept; a message DLL is
\* loaded as often as it is registered or being registered
\* (CdiagHandleEvent, CdiagsDeleteSession, CdiagsRegisterMessageDll).
ReferencesExact ==
    /\ \A o \in Objects : heap.refs[o] = Holders(o)
    /\ \A m \in Modules :
         heap.loads[m] =
           Cardinality(UNION {{r} \X {i \in DOMAIN heap.dlls[r] : heap.dlls[r][i].module = m} :
                                 r \in Resolvers})
           + Cardinality({t \in Threads : call[t].op = "register" /\ call[t].module = m})
==============================================================================
