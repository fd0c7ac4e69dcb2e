--------------------------- MODULE FilamentProofs ----------------------------
(***************************************************************************)
(* Proofs about Filament for any number of threads, filaments and contexts *)
(* and any capacity of ChildThreads.  FilamentInvariant!IInv is inductive  *)
(* under the discipline stated there; the theorems at the end follow.      *)
(***************************************************************************)
EXTENDS FilamentInvariant, FiniteSetTheorems, TLAPS

-----------------------------------------------------------------------------
(***************************************************************************)
(* Facts about the operators of the model.                                 *)
(***************************************************************************)

\* The innermost routine of a thread is active and belongs to the thread.
LEMMA FrameFact ==
  ASSUME TypeOK, StackInv, NEW u \in Threads, stack[u] # <<>>
  PROVE  /\ Frame(u) \in Filaments
         /\ status[Frame(u)] = "active"
         /\ mainThread[Frame(u)] = u
<1>1. Len(stack[u]) \in 1 .. Len(stack[u])
  BY DEF TypeOK
<1> QED BY <1>1 DEF TypeOK, StackInv, Frame

\* A filament is the frame of one call.
LEMMA DistinctFact ==
  ASSUME StackInv, NEW u \in Threads,
         NEW i \in 1 .. Len(stack[u]), NEW j \in 1 .. Len(stack[u]),
         stack[u][i] = stack[u][j]
  PROVE  i = j
BY DEF StackInv

\* The main thread of an active filament is inside a routine.
LEMMA MainFact ==
  ASSUME TypeOK, StackInv, NEW f \in Filaments, status[f] = "active"
  PROVE  mainThread[f] \in Threads /\ stack[mainThread[f]] # <<>>
BY DEF TypeOK, StackInv

\* Counting references keeps them integers.
LEMMA RefsFact ==
  ASSUME TypeOK, NEW f, Reference(f) \/ Dereference(f)
  PROVE  refs' \in [Contexts -> Int]
BY DEF TypeOK, Reference, Dereference

\* What registration adds to the set of children.
LEMMA JoinedAppend ==
  ASSUME NEW S, NEW s \in Seq(S), NEW x \in S
  PROVE  {Append(s, x)[i] : i \in 1 .. Len(Append(s, x))}
            = {s[i] : i \in 1 .. Len(s)} \cup {x}
<1>1. /\ Len(Append(s, x)) = Len(s) + 1
      /\ \A i \in 1 .. Len(s) : Append(s, x)[i] = s[i]
      /\ Append(s, x)[Len(s) + 1] = x
      /\ Len(s) \in Nat
  OBVIOUS
<1>2. 1 .. Len(s) + 1 = (1 .. Len(s)) \cup {Len(s) + 1}
  BY <1>1
<1> QED BY <1>1, <1>2

\* Steps that leave the filaments, the stacks and the TLS slots alone.
LEMMA FilamentsFact ==
  ASSUME StackInv, RunnerInv, UNCHANGED <<stack, status, mainThread, prev, tls>>
  PROVE  StackInv' /\ RunnerInv'
<1>1. StackInv'
  BY DEF StackInv
<1>2. RunnerInv'
  BY DEF RunnerInv
<1> QED BY <1>1, <1>2

\* ChildInv is kept where only the filaments threads are about to take change.
LEMMA ChildFact ==
  ASSUME ChildInv, UNCHANGED <<tls, status, mainThread, prev, children>>,
         \A u \in Threads :
            \/ new'[u] = None
            \/ new'[u] = new[u] /\ (pc'[u] = "publish" => pc[u] = "publish")
            \/ status[new'[u]] = "active" /\ pc'[u] # "publish"
  PROVE  ChildInv'
<1>1. \A f : Joined(f)' = Joined(f)
  BY DEF Joined
<1>2. ASSUME NEW u \in Threads, new'[u] # None
      PROVE  /\ status'[new'[u]] = "active"
             /\ pc'[u] = "publish" /\ mainThread'[new'[u]] # u => u \in Joined(new[u])'
  BY <1>2 DEF ChildInv, Joined
<1> QED BY <1>2 DEF ChildInv, Joined

\* JoinInv is kept while the dead stay dead and no join ends.
LEMMA JoinFact ==
  ASSUME TypeOK, JoinInv, StackInv, UNCHANGED <<stack, children>>,
         \A c \in Threads : pc[c] = "dead" => pc'[c] = "dead",
         \A u \in Threads : pc'[u] = "destroy" \/ op'[u] = "leave"
                                => pc[u] = "destroy" \/ op[u] = "leave"
  PROVE  JoinInv'
<1>1. ASSUME NEW u \in Threads, stack[u] # <<>> PROVE Joined(Frame(u)) \subseteq Threads
  BY <1>1, FrameFact DEF TypeOK, Joined
<1> QED BY <1>1 DEF JoinInv, JoinOK, ChildrenTerminated, Joined, Frame

\* DefaultInv is kept when a call of CfixsSetCurrentFilament fails.
LEMMA DefaultFact ==
  ASSUME TypeOK, StackInv, DefaultInv, NEW t \in Threads,
         UNCHANGED <<stack, status, mainThread, prev, default>>,
         \A u \in Threads \ {t} : /\ pc'[u] = pc[u] /\ op'[u] = op[u]
                                  /\ new'[u] = new[u] /\ tls'[u] = tls[u],
         op'[t] = "none", pc'[t] \in {"dead", "user", "destroy"},
         pc'[t] = "destroy" => op[t] = "leave",
         default # None => mainThread[default] # t \/ tls'[t] = tls[t],
         op[t] = "derive" => lockOwner' = None /\ lockDepth' = 0,
         op[t] # "derive" => UNCHANGED <<lockOwner, lockDepth>>
  PROVE  DefaultInv'
<1>1. LockHeldToDerive'
  BY DEF TypeOK, DefaultInv, LockHeldToDerive
<1>2. default' # None => /\ default' \in DefaultFilaments
                         /\ status'[default'] = "active"
                         /\ tls'[mainThread'[default']] = default'
  <2> SUFFICES ASSUME default # None PROVE tls'[mainThread[default]] = default
    BY DEF DefaultInv
  <2>1. mainThread[default] \in Threads
    BY MainFact, FilamentsAssumption DEF DefaultInv
  <2> QED BY <2>1 DEF DefaultInv
<1>3. ASSUME NEW u \in Threads, op'[u] = "derive"
      PROVE  new'[u] = default' /\ lockOwner' = u
  <2>1. u # t /\ op[u] = "derive" /\ new'[u] = new[u]
    BY <1>3
  <2>2. new[u] = default /\ lockOwner = u
    BY <2>1 DEF DefaultInv
  <2>3. op[t] # "derive"
    BY <2>1, <2>2 DEF DefaultInv
  <2> QED BY <2>1, <2>2, <2>3
<1>4. \A u \in Threads : Deriving(u)' => Deriving(u)
  BY DEF Deriving
<1>5. Returning(default)' => Returning(default)
  BY DEF Returning, InRoutine, Frame
<1> QED BY <1>1, <1>2, <1>3, <1>4, <1>5 DEF DefaultInv

\* Who registers: the main thread of a new filament does not.
LEMMA RegistersAs ==
  ASSUME IInv, NEW t \in Threads, pc[t] = "set", IsChild(t)
  PROVE  op[t] \in {"leave", "start", "derive"}
<1>1. op[t] \in {"enter", "leave", "start", "derive"}
  BY DEF IInv, TypeOK, OpValues, ControlInv, ControlOK, IsChild
<1>2. ASSUME op[t] = "enter" PROVE FALSE
  <2>1. stack[t] # <<>> /\ new[t] = Frame(t)
    BY <1>2 DEF IInv, ControlInv, ControlOK, FrameInv, FrameOK
  <2> QED BY <2>1, FrameFact DEF IInv, IsChild
<1> QED BY <1>1, <1>2

\* A thread that is about to register with f finds f before the end of its join.
LEMMA RegistersInTime ==
  ASSUME IInv, NEW t \in Threads, pc[t] = "set", IsChild(t),
         NEW u \in Threads, stack[u] # <<>>, Frame(u) = new[t],
         pc[u] = "destroy" \/ op[u] = "leave"
  PROVE  FALSE
<1>1. /\ new[t] \in Filaments /\ mainThread[new[t]] = u /\ u # t
      /\ status[new[t]] = "active"
  BY FrameFact DEF IInv, IsChild
<1>2. op[t] \in {"leave", "start", "derive"}
  BY RegistersAs
<1>3. \A c \in Joined(new[t]) : pc[c] = "dead"
  BY DEF IInv, JoinInv, JoinOK, ChildrenTerminated
<1>5. CASE op[t] = "leave"
  <2>1. stack[t] # <<>> /\ new[t] = prev[Frame(t)]
    BY <1>5 DEF IInv, ControlInv, ControlOK, FrameInv, FrameOK
  <2>2. t \in Joined(new[t])
    BY <2>1, <1>1, FrameFact, FilamentsAssumption DEF IInv, ChildInv
  <2> QED BY <2>2, <1>3
<1>6. CASE op[t] = "start"
  <2>1. parent[t] \in Threads /\ pc[parent[t]] = "waitInit" /\ tls[parent[t]] = new[t]
    BY <1>6 DEF IInv, StartInv, StartOK
  <2>2. parent[t] # u
    BY <2>1 DEF IInv, ControlInv, ControlOK
  <2>3. parent[t] \in Joined(new[t])
    BY <2>1, <2>2, <1>1, FilamentsAssumption DEF IInv, ChildInv
  <2> QED BY <2>1, <2>3, <1>3
<1>7. CASE op[t] = "derive"
  <2>1. new[t] = default /\ Deriving(t)
    BY <1>7 DEF IInv, DefaultInv, Deriving
  <2>2. Returning(default)
    BY <2>1 DEF Returning, InRoutine
  <2> QED BY <2>1, <2>2, <1>1, FilamentsAssumption DEF IInv, DefaultInv
<1> QED BY <1>2, <1>5, <1>6, <1>7

\* The lock after a call of CfixsSetCurrentFilament.
LEMMA LockFact ==
  ASSUME TypeOK, DefaultInv, NEW t \in Threads, CallerReleasesLock(t)
  PROVE  /\ op[t] = "derive" => lockOwner = t /\ lockOwner' = None /\ lockDepth' = 0
         /\ op[t] # "derive" => UNCHANGED <<lockOwner, lockDepth>>
<1>1. CASE op[t] = "derive"
  <2>1. lockOwner = t /\ t # None
    BY <1>1, FilamentsAssumption DEF DefaultInv
  <2>2. lockDepth = 1
    BY <2>1 DEF DefaultInv, LockHeldToDerive
  <2> QED BY <1>1, <2>1, <2>2 DEF CallerReleasesLock, ReleaseDefaultLock
<1>2. CASE op[t] # "derive"
  BY <1>2 DEF CallerReleasesLock, lockVars
<1> QED BY <1>1, <1>2

-----------------------------------------------------------------------------
(***************************************************************************)
(* Every action preserves the invariant.                                   *)
(***************************************************************************)

\* The routine returns: by discipline no first call is under way, so that nobody
\* can become a child once the join has begun.
LEMMA JoinBeginInv ==
  ASSUME IInv, Disciplined, NEW t \in Threads, JoinBegin(t)
  PROVE  IInv'
<1>1. /\ pc[t] = "user" /\ stack[t] # <<>>
      /\ \A u \in Threads : ~ Deriving(u)
      /\ pc' = [pc EXCEPT ![t] = "joining"]
      /\ UNCHANGED <<op, new, tls, derived, stack, parent, status, mainThread, prev,
                     children, default, lockOwner, lockDepth, refs>>
  BY DEF JoinBegin, InRoutine, Disciplined, filamentVars, lockVars
<1>2. TypeOK'
  BY <1>1 DEF IInv, TypeOK, PcValues
<1>3. ControlInv' /\ FrameInv'
  BY <1>1 DEF IInv, TypeOK, ControlInv, ControlOK, FrameInv, FrameOK, Frame
<1>4. StackInv' /\ RunnerInv'
  BY <1>1, FilamentsFact DEF IInv
<1>5. ChildInv'
  BY <1>1 DEF IInv, TypeOK, ChildInv, Joined
<1>6. JoinInv' /\ StartInv'
  BY <1>1 DEF IInv, TypeOK, JoinInv, JoinOK, StartInv, StartOK, ChildrenTerminated, Joined, Frame
<1>7. DefaultInv'
  <2>1. \A u \in Threads : ~ Deriving(u)'
    BY <1>1 DEF IInv, TypeOK, Deriving
  <2> QED BY <2>1, <1>1 DEF IInv, DefaultInv, LockHeldToDerive
<1> QED BY <1>2, <1>3, <1>4, <1>5, <1>6, <1>7 DEF IInv

\* The children are dead when the join ends, which is what JoinInv records.
LEMMA JoinEndInv ==
  ASSUME IInv, Disciplined, NEW t \in Threads, JoinEnd(t)
  PROVE  IInv'
<1>1. /\ pc[t] = "joining"
      /\ ChildrenTerminated(Frame(t))
      /\ pc' = [pc EXCEPT ![t] = "set"]
      /\ op' = [op EXCEPT ![t] = "leave"]
      /\ new' = [new EXCEPT ![t] = prev[Frame(t)]]
      /\ UNCHANGED <<tls, derived, stack, parent, status, mainThread, prev,
                     children, default, lockOwner, lockDepth>>
  BY DEF JoinEnd, SetCurrentFilament, filamentVars, lockVars
<1>2. /\ stack[t] # <<>> /\ op[t] = "none"
      /\ Frame(t) \in Filaments /\ status[Frame(t)] = "active"
  BY <1>1, FrameFact DEF IInv, ControlInv, ControlOK
<1>3. TypeOK'
  BY <1>1, <1>2, RefsFact DEF IInv, TypeOK, PcValues, OpValues, JoinEnd, SetCurrentFilament
<1>4. ControlInv' /\ FrameInv'
  BY <1>1, <1>2 DEF IInv, TypeOK, ControlInv, ControlOK, FrameInv, FrameOK, Frame
<1>5. StackInv' /\ RunnerInv'
  BY <1>1, FilamentsFact DEF IInv
<1>6. ChildInv'
  BY <1>1, <1>2 DEF IInv, TypeOK, ChildInv, Joined
<1>7. JoinInv'
  <2>1. ASSUME NEW u \in Threads, stack[u] # <<>>, pc'[u] = "destroy" \/ op'[u] = "leave"
        PROVE  \A c \in Joined(Frame(u)) : pc'[c] = "dead"
    <3>1. ChildrenTerminated(Frame(u))
      BY <2>1, <1>1 DEF IInv, TypeOK, JoinInv, JoinOK
    <3>2. Joined(Frame(u)) \subseteq Threads
      BY <2>1, FrameFact DEF IInv, TypeOK, Joined
    <3> QED BY <3>1, <3>2, <1>1 DEF IInv, TypeOK, ChildrenTerminated
  <2> QED BY <2>1, <1>1 DEF JoinInv, JoinOK, ChildrenTerminated, Joined, Frame
<1>8. StartInv'
  BY <1>1, <1>2 DEF IInv, TypeOK, StartInv, StartOK
<1>9. DefaultInv'
  <2>1. LockHeldToDerive'
    BY <1>1, <1>2 DEF IInv, TypeOK, DefaultInv, LockHeldToDerive
  <2>2. \A u \in Threads : op'[u] = "derive" => op[u] = "derive" /\ new'[u] = new[u]
    BY <1>1 DEF IInv, TypeOK
  <2>3. \A u \in Threads : Deriving(u)' => Deriving(u)
    BY <1>1 DEF IInv, TypeOK, Deriving
  <2>4. Returning(default)' => Returning(default)
    BY <1>1, <1>2 DEF IInv, TypeOK, Returning, InRoutine, Frame
  <2> QED BY <2>1, <2>2, <2>3, <2>4, <1>1 DEF IInv, DefaultInv
<1> QED BY <1>3, <1>4, <1>5, <1>6, <1>7, <1>8, <1>9 DEF IInv

\* The creator goes on when its worker has registered or failed.
LEMMA InitializationCompletedInv ==
  ASSUME IInv, NEW t \in Threads, InitializationCompleted(t)
  PROVE  IInv'
<1>1. /\ pc[t] = "waitInit"
      /\ \A w \in Workers : parent[w] = t => op[w] # "start"
      /\ pc' = [pc EXCEPT ![t] = "user"]
      /\ UNCHANGED <<op, new, tls, derived, stack, parent, status, mainThread, prev,
                     children, default, lockOwner, lockDepth, refs>>
  BY DEF InitializationCompleted, filamentVars, lockVars
<1>2. TypeOK'
  BY <1>1 DEF IInv, TypeOK, PcValues
<1>3. ControlInv' /\ FrameInv'
  BY <1>1 DEF IInv, TypeOK, ControlInv, ControlOK, FrameInv, FrameOK, Frame
<1>4. StackInv' /\ RunnerInv'
  BY <1>1, FilamentsFact DEF IInv
<1>5. ChildInv'
  BY <1>1 DEF IInv, TypeOK, ChildInv, Joined
<1>6. JoinInv' /\ StartInv'
  BY <1>1 DEF IInv, TypeOK, JoinInv, JoinOK, StartInv, StartOK, ChildrenTerminated, Joined, Frame
<1>7. DefaultInv'
  BY <1>1 DEF IInv, TypeOK, DefaultInv, LockHeldToDerive, Deriving, Returning, InRoutine, Frame
<1> QED BY <1>2, <1>3, <1>4, <1>5, <1>6, <1>7 DEF IInv

\* The main thread of a filament takes it without registering.
LEMMA SkipRegistrationInv ==
  ASSUME IInv, NEW t \in Threads, SkipRegistration(t)
  PROVE  IInv'
<1>1. /\ pc[t] = "set" /\ (new[t] # None => mainThread[new[t]] = t)
      /\ pc' = [pc EXCEPT ![t] = "publish"]
      /\ UNCHANGED <<op, new, tls, derived, stack, parent, status, mainThread, prev,
                     children, default, lockOwner, lockDepth>>
  BY DEF SkipRegistration, IsChild, filamentVars, lockVars
<1>2. TypeOK'
  BY <1>1, RefsFact DEF IInv, TypeOK, PcValues, SkipRegistration
<1>3. ControlInv' /\ FrameInv'
  BY <1>1 DEF IInv, TypeOK, ControlInv, ControlOK, FrameInv, FrameOK, Frame
<1>4. StackInv' /\ RunnerInv'
  BY <1>1, FilamentsFact DEF IInv
<1>5. ChildInv'
  <2>1. ASSUME NEW u \in Threads, new[u] # None, pc'[u] = "publish", mainThread[new[u]] # u
        PROVE  u \in Joined(new[u])
    <3>1. pc[u] = "publish"
      BY <2>1, <1>1 DEF IInv, TypeOK
    <3> QED BY <2>1, <3>1 DEF IInv, ChildInv
  <2> QED BY <2>1, <1>1 DEF IInv, ChildInv, Joined
<1>6. JoinInv' /\ StartInv'
  BY <1>1 DEF IInv, TypeOK, JoinInv, JoinOK, StartInv, StartOK, ChildrenTerminated, Joined, Frame
<1>7. DefaultInv'
  BY <1>1 DEF IInv, TypeOK, DefaultInv, LockHeldToDerive, Deriving, Returning, InRoutine, Frame
<1> QED BY <1>2, <1>3, <1>4, <1>5, <1>6, <1>7 DEF IInv

\* The creator waits with the filament the worker inherits in its TLS slot.
LEMMA CreateThreadInv ==
  ASSUME IInv, NEW t \in Threads, NEW w \in Workers, CreateThread(t, w)
  PROVE  IInv'
<1>1. /\ pc[t] = "user" /\ pc[w] = "absent" /\ tls[t] # None
      /\ pc' = [pc EXCEPT ![t] = "waitInit", ![w] = "set"]
      /\ op' = [op EXCEPT ![w] = "start"]
      /\ new' = [new EXCEPT ![w] = tls[t]]
      /\ parent' = [parent EXCEPT ![w] = t]
      /\ UNCHANGED <<tls, derived, stack, status, mainThread, prev, children,
                     default, lockOwner, lockDepth, refs>>
  BY DEF CreateThread, filamentVars, lockVars
<1>2. /\ w \in Threads /\ w # t /\ w \notin Runners
      /\ op[w] = "none" /\ op[t] = "none" /\ tls[w] = None /\ stack[w] = <<>>
  BY <1>1, ThreadsAssumption DEF IInv, ControlInv, ControlOK, Threads
<1>3. /\ pc'[t] = "waitInit" /\ pc'[w] = "set" /\ op'[w] = "start"
      /\ new'[w] = tls[t] /\ parent'[w] = t
      /\ \A u \in Threads : u # t /\ u # w => pc'[u] = pc[u]
      /\ \A u \in Threads : u # w => op'[u] = op[u] /\ new'[u] = new[u] /\ parent'[u] = parent[u]
  BY <1>1, <1>2 DEF IInv, TypeOK
<1>4. TypeOK'
  BY <1>1, <1>2 DEF IInv, TypeOK, PcValues, OpValues
<1>5. ControlInv'
  <2>1. ASSUME NEW u \in Threads PROVE ControlOK(u)'
    <3>1. CASE u = w
      BY <3>1, <1>1, <1>2, <1>3 DEF ControlOK
    <3>2. CASE u = t
      BY <3>2, <1>1, <1>2, <1>3 DEF IInv, ControlInv, ControlOK
    <3>3. CASE u # w /\ u # t
      <4>1. pc'[u] = pc[u] /\ op'[u] = op[u] /\ new'[u] = new[u]
        BY <3>3, <1>3
      <4>2. tls' = tls /\ stack' = stack
        BY <1>1
      <4> QED BY <4>1, <4>2 DEF IInv, ControlInv, ControlOK
    <3> QED BY <3>1, <3>2, <3>3
  <2> QED BY <2>1 DEF ControlInv, ControlOK
<1>6. FrameInv'
  <2>1. ASSUME NEW u \in Threads PROVE FrameOK(u)'
    <3>1. CASE u = w
      BY <3>1, <1>1, <1>2 DEF FrameOK
    <3>2. CASE u = t
      BY <3>2, <1>1, <1>2, <1>3 DEF IInv, FrameInv, FrameOK, Frame
    <3>3. CASE u # w /\ u # t
      <4>1. pc'[u] = pc[u] /\ op'[u] = op[u] /\ new'[u] = new[u]
        BY <3>3, <1>3
      <4>2. tls' = tls /\ stack' = stack /\ prev' = prev
        BY <1>1
      <4> QED BY <4>1, <4>2 DEF IInv, FrameInv, FrameOK, Frame
    <3> QED BY <3>1, <3>2, <3>3
  <2> QED BY <2>1 DEF FrameInv, FrameOK
<1>7. StackInv' /\ RunnerInv'
  BY <1>1, FilamentsFact DEF IInv
<1>8. ChildInv'
  <2>1. new'[t] = None
    BY <1>2, <1>3 DEF IInv, ControlInv, ControlOK
  <2>2. status[new'[w]] = "active" /\ pc'[w] # "publish"
    BY <1>1, <1>3 DEF IInv, ChildInv
  <2> QED BY <2>1, <2>2, <1>1, <1>3, ChildFact DEF IInv
<1>9. JoinInv'
  <2>1. \A c \in Threads : pc[c] = "dead" => pc'[c] = "dead"
    BY <1>1, <1>3
  <2>2. \A u \in Threads : pc'[u] = "destroy" \/ op'[u] = "leave"
                             => pc[u] = "destroy" \/ op[u] = "leave"
    BY <1>3
  <2> QED BY <2>1, <2>2, <1>1, JoinFact DEF IInv
<1>10. StartInv'
  <2>1. ASSUME NEW u \in Threads PROVE StartOK(u)'
    <3>1. CASE u = w
      BY <3>1, <1>1, <1>2, <1>3 DEF StartOK
    <3>2. CASE u # w
      <4>1. op'[u] = op[u] /\ new'[u] = new[u] /\ parent'[u] = parent[u]
        BY <3>2, <1>3
      <4>2. op[u] = "start" => pc'[parent[u]] = "waitInit"
        <5>1. op[u] = "start" => parent[u] \in Threads /\ pc[parent[u]] = "waitInit"
          BY DEF IInv, StartInv, StartOK
        <5> QED BY <5>1, <1>1, <1>3
      <4> QED BY <4>1, <4>2, <1>1 DEF IInv, StartInv, StartOK
    <3> QED BY <3>1, <3>2
  <2> QED BY <2>1 DEF StartInv, StartOK
<1>11. DefaultInv'
  <2>1. \A u \in Threads : op'[u] = "derive" <=> op[u] = "derive"
    BY <1>2, <1>3
  <2>2. LockHeldToDerive'
    BY <2>1, <1>1 DEF IInv, TypeOK, DefaultInv, LockHeldToDerive
  <2>3. \A u \in Threads : Deriving(u)' => Deriving(u)
    BY <2>1, <1>3 DEF Deriving
  <2>4. Returning(default)' => Returning(default)
    BY <1>1, <1>2, <1>3 DEF Returning, InRoutine, Frame
  <2> QED BY <2>1, <2>2, <2>3, <2>4, <1>1, <1>2, <1>3 DEF IInv, DefaultInv
<1> QED BY <1>4, <1>5, <1>6, <1>7, <1>8, <1>9, <1>10, <1>11 DEF IInv

\* A worker or an anonymous thread gives up its filament.
LEMMA GiveUpInv ==
  ASSUME IInv, NEW t \in Threads \ Runners, pc[t] = "user", stack[t] = <<>>,
         SetCurrentFilament(t, None, "finish"),
         UNCHANGED <<tls, derived, stack, parent, filamentVars, default, lockVars>>
  PROVE  IInv'
<1>1. /\ pc' = [pc EXCEPT ![t] = "set"]
      /\ op' = [op EXCEPT ![t] = "finish"]
      /\ new' = [new EXCEPT ![t] = None]
      /\ UNCHANGED <<tls, derived, stack, parent, status, mainThread, prev, children,
                     default, lockOwner, lockDepth>>
  BY DEF SetCurrentFilament, filamentVars, lockVars
<1>2. op[t] = "none"
  BY DEF IInv, ControlInv, ControlOK
<1>3. TypeOK'
  BY <1>1, RefsFact DEF IInv, TypeOK, PcValues, OpValues, SetCurrentFilament
<1>4. ControlInv' /\ FrameInv'
  BY <1>1 DEF IInv, TypeOK, ControlInv, ControlOK, FrameInv, FrameOK, Frame
<1>5. StackInv' /\ RunnerInv'
  BY <1>1, FilamentsFact DEF IInv
<1>6. ChildInv'
  BY <1>1, ChildFact DEF IInv, TypeOK
<1>7. JoinInv' /\ StartInv'
  <2>1. JoinInv'
    BY <1>1, JoinFact DEF IInv, TypeOK
  <2>2. StartInv'
    BY <1>1 DEF IInv, TypeOK, StartInv, StartOK
  <2> QED BY <2>1, <2>2
<1>8. DefaultInv'
  <2>1. LockHeldToDerive'
    BY <1>1, <1>2 DEF IInv, TypeOK, DefaultInv, LockHeldToDerive
  <2>2. \A u \in Threads : op'[u] = "derive" => op[u] = "derive" /\ new'[u] = new[u]
    BY <1>1 DEF IInv, TypeOK
  <2>3. \A u \in Threads : Deriving(u)' => Deriving(u)
    BY <1>1 DEF IInv, TypeOK, Deriving
  <2>4. Returning(default)' => Returning(default)
    BY <1>1 DEF IInv, TypeOK, Returning, InRoutine, Frame
  <2> QED BY <2>1, <2>2, <2>3, <2>4, <1>1 DEF IInv, DefaultInv
<1> QED BY <1>3, <1>4, <1>5, <1>6, <1>7, <1>8 DEF IInv

\* The start routine of a worker is over.
LEMMA ThreadFinishInv ==
  ASSUME IInv, NEW t \in Threads, ThreadFinish(t)
  PROVE  IInv'
<1>1. t \notin Runners
  BY ThreadsAssumption DEF ThreadFinish
<1> QED BY <1>1, GiveUpInv DEF ThreadFinish, InRoutine

\* An anonymous thread ends, with or without a filament.
LEMMA ThreadDetachInv ==
  ASSUME IInv, NEW t \in Threads, ThreadDetach(t)
  PROVE  IInv'
<1>1. t \notin Runners /\ pc[t] = "user" /\ stack[t] = <<>>
  BY ThreadsAssumption DEF ThreadDetach, InRoutine
<1>2. CASE tls[t] # None
  BY <1>1, <1>2, GiveUpInv DEF ThreadDetach
<1>3. CASE tls[t] = None
  <2>1. /\ pc' = [pc EXCEPT ![t] = "dead"]
        /\ UNCHANGED <<op, new, tls, derived, stack, parent, status, mainThread, prev,
                       children, default, lockOwner, lockDepth, refs>>
    BY <1>3 DEF ThreadDetach, filamentVars, lockVars
  <2>2. TypeOK'
    BY <2>1 DEF IInv, TypeOK, PcValues
  <2>3. ControlInv' /\ FrameInv'
    BY <1>1, <1>3, <2>1 DEF IInv, TypeOK, ControlInv, ControlOK, FrameInv, FrameOK, Frame
  <2>4. StackInv' /\ RunnerInv'
    BY <2>1, FilamentsFact DEF IInv
  <2>5. ChildInv'
    BY <1>1, <2>1, ChildFact DEF IInv, TypeOK
  <2>6. JoinInv'
    BY <1>1, <2>1, JoinFact DEF IInv, TypeOK
  <2>8. StartInv'
    BY <1>1, <2>1 DEF IInv, TypeOK, StartInv, StartOK
  <2>7. DefaultInv'
    BY <1>1, <2>1 DEF IInv, TypeOK, DefaultInv, LockHeldToDerive, Deriving, Returning,
                      InRoutine, Frame
  <2> QED BY <2>2, <2>3, <2>4, <2>5, <2>6, <2>7, <2>8 DEF IInv
<1> QED BY <1>2, <1>3

\* The unlocked test: by discipline the default filament is not returning.
LEMMA CheckDefaultFilamentInv ==
  ASSUME IInv, Disciplined, NEW t \in Threads, CheckDefaultFilament(t)
  PROVE  IInv'
<1>1. /\ pc[t] = "user" /\ t \notin Runners /\ tls[t] = None
      /\ ~ Returning(default)
      /\ pc' = [pc EXCEPT ![t] = "derive"]
      /\ UNCHANGED <<op, new, tls, derived, stack, parent, status, mainThread, prev,
                     children, default, lockOwner, lockDepth, refs>>
  BY DEF CheckDefaultFilament, Disciplined, filamentVars, lockVars
<1>2. stack[t] = <<>>
  BY <1>1, FrameFact, FilamentsAssumption DEF IInv, FrameInv, FrameOK
<1>3. TypeOK'
  BY <1>1 DEF IInv, TypeOK, PcValues
<1>4. ControlInv' /\ FrameInv'
  BY <1>1, <1>2 DEF IInv, TypeOK, ControlInv, ControlOK, FrameInv, FrameOK, Frame
<1>5. StackInv' /\ RunnerInv'
  BY <1>1, FilamentsFact DEF IInv
<1>6. ChildInv'
  BY <1>1, ChildFact DEF IInv, TypeOK
<1>7. JoinInv' /\ StartInv'
  BY <1>1 DEF IInv, TypeOK, JoinInv, JoinOK, StartInv, StartOK, ChildrenTerminated, Joined, Frame
<1>8. DefaultInv'
  <2>1. ~ Returning(default)'
    BY <1>1, <1>2 DEF IInv, TypeOK, Returning, InRoutine, Frame
  <2> QED BY <2>1, <1>1 DEF IInv, DefaultInv, LockHeldToDerive
<1> QED BY <1>3, <1>4, <1>5, <1>6, <1>7, <1>8 DEF IInv

\* The test under the lock, with its two outcomes.
LEMMA DeriveDefaultFilamentInv ==
  ASSUME IInv, NEW t \in Threads, DeriveDefaultFilament(t)
  PROVE  IInv'
<1>1. /\ pc[t] = "derive" /\ op[t] = "none" /\ tls[t] = None /\ stack[t] = <<>>
      /\ t \notin Runners
      /\ UNCHANGED <<tls, derived, stack, parent, status, mainThread, prev, children,
                     default>>
  BY DEF DeriveDefaultFilament, IInv, ControlInv, ControlOK, filamentVars
<1>2. StackInv' /\ RunnerInv'
  BY <1>1, FilamentsFact DEF IInv
<1>3. CASE default # None
  <2>1. /\ lockOwner \in {None, t} /\ lockOwner' = t /\ lockDepth' = lockDepth + 1
        /\ pc' = [pc EXCEPT ![t] = "set"]
        /\ op' = [op EXCEPT ![t] = "derive"]
        /\ new' = [new EXCEPT ![t] = default]
    BY <1>3 DEF DeriveDefaultFilament, AcquireDefaultLock, DefaultLockAvailable,
                SetCurrentFilament
  <2>2. lockOwner = None /\ lockDepth' = 1
    BY <2>1, <1>1, FilamentsAssumption DEF IInv, TypeOK, DefaultInv, LockHeldToDerive
  <2>3. TypeOK'
    <3>1. refs' \in [Contexts -> Int]
      BY <1>3, RefsFact DEF IInv, DeriveDefaultFilament, SetCurrentFilament
    <3> QED BY <3>1, <1>1, <2>1, <2>2 DEF IInv, TypeOK, PcValues, OpValues
  <2>4. ControlInv' /\ FrameInv'
    BY <1>1, <1>3, <2>1 DEF IInv, TypeOK, ControlInv, ControlOK, FrameInv, FrameOK, Frame
  <2>5. ChildInv'
    BY <1>1, <1>3, <2>1 DEF IInv, TypeOK, ChildInv, DefaultInv, Joined
  <2>6. JoinInv'
    BY <1>1, <2>1, JoinFact DEF IInv, TypeOK
  <2>8. StartInv'
    BY <1>1, <2>1 DEF IInv, TypeOK, StartInv, StartOK
  <2>7. DefaultInv'
    <3>1. \A u \in Threads : op'[u] = "derive" => u = t
      BY <1>1, <2>1, <2>2, FilamentsAssumption DEF IInv, TypeOK, DefaultInv
    <3>2. LockHeldToDerive' /\ new'[t] = default
      BY <2>1, <2>2, FilamentsAssumption DEF IInv, TypeOK, LockHeldToDerive
    <3>3. ~ Returning(default)
      BY <1>1, <1>3 DEF IInv, DefaultInv, Deriving
    <3>4. ~ Returning(default)'
      BY <3>3, <1>1, <2>1 DEF IInv, TypeOK, Returning, InRoutine, Frame
    <3> QED BY <3>1, <3>2, <3>4, <1>1, <2>1 DEF IInv, DefaultInv
  <2> QED BY <1>2, <2>3, <2>4, <2>5, <2>6, <2>7, <2>8 DEF IInv
<1>4. CASE default = None
  <2>1. /\ pc' = [pc EXCEPT ![t] = "user"]
        /\ UNCHANGED <<op, new, lockOwner, lockDepth, refs>>
    BY <1>4 DEF DeriveDefaultFilament, lockVars
  <2>2. TypeOK'
    BY <1>1, <2>1 DEF IInv, TypeOK, PcValues
  <2>3. ControlInv' /\ FrameInv'
    BY <1>1, <2>1 DEF IInv, TypeOK, ControlInv, ControlOK, FrameInv, FrameOK, Frame
  <2>4. ChildInv'
    BY <1>1, <2>1 DEF IInv, TypeOK, ChildInv, Joined
  <2>5. JoinInv'
    BY <1>1, <2>1, JoinFact DEF IInv, TypeOK
  <2>7. StartInv'
    BY <1>1, <2>1 DEF IInv, TypeOK, StartInv, StartOK
  <2>6. DefaultInv'
    BY <1>1, <1>4, <2>1 DEF IInv, DefaultInv, LockHeldToDerive
  <2> QED BY <1>2, <2>2, <2>3, <2>4, <2>5, <2>6, <2>7 DEF IInv
<1> QED BY <1>3, <1>4

\* The TLS slot and the default filament are updated.
LEMMA PublishFilamentInv ==
  ASSUME IInv, Disciplined, NEW t \in Threads, PublishFilament(t)
  PROVE  IInv'
<1> USE DEF IInv
<1>1. /\ pc[t] = "publish"
      /\ PublishesDefault(t) => default = None
      /\ PublishesDefault(t) \/ RevokesDefault(t) => lockOwner \in {None, t}
      /\ default' = SetDefaultFilament(t)
      /\ pc' = [pc EXCEPT ![t] = AfterSuccess[op[t]]]
      /\ op' = [op EXCEPT ![t] = "none"]
      /\ new' = [new EXCEPT ![t] = None]
      /\ tls' = [tls EXCEPT ![t] = new[t]]
      /\ derived' = [derived EXCEPT ![t] = DerivedBit(t)]
      /\ CallerReleasesLock(t)
      /\ UNCHANGED <<stack, parent, status, mainThread, prev, children, refs>>
  BY DEF PublishFilament, Resume, filamentVars, DefaultLockAvailable
<1>2. op[t] \in {"enter", "leave", "start", "finish", "derive"}
  BY <1>1 DEF TypeOK, ControlInv, ControlOK, OpValues
<1>3. AfterSuccess[op[t]] = IF op[t] = "leave" THEN "destroy"
                            ELSE IF op[t] = "finish" THEN "dead" ELSE "user"
  BY <1>2 DEF AfterSuccess, OpValues
<1>4. /\ op[t] = "derive" => lockOwner = t /\ lockOwner' = None /\ lockDepth' = 0
      /\ op[t] # "derive" => UNCHANGED <<lockOwner, lockDepth>>
  BY <1>1, LockFact
<1>5. default' \in Filaments \cup {None}
  BY <1>1 DEF SetDefaultFilament, PublishesDefault, TypeOK
<1> HIDE DEF IInv
<1>a. TypeOK'
  <2>1. pc' \in [Threads -> PcValues] /\ op' \in [Threads -> OpValues]
    BY <1>1, <1>2, <1>3 DEF IInv, TypeOK, PcValues, OpValues
  <2>2. new' \in [Threads -> Filaments \cup {None}] /\ tls' \in [Threads -> Filaments \cup {None}]
    BY <1>1 DEF IInv, TypeOK
  <2>3. derived' \in [Threads -> BOOLEAN]
    BY <1>1 DEF IInv, TypeOK, DerivedBit
  <2>4. lockOwner' \in Threads \cup {None} /\ lockDepth' \in Nat
    BY <1>4 DEF IInv, TypeOK
  <2> QED BY <2>1, <2>2, <2>3, <2>4, <1>1, <1>5 DEF IInv, TypeOK
<1>b. ControlInv'
  BY <1>1, <1>2, <1>3 DEF IInv, TypeOK, ControlInv, ControlOK, FrameInv, FrameOK, Frame
<1>c. FrameInv'
  BY <1>1, <1>2, <1>3 DEF IInv, TypeOK, ControlInv, ControlOK, FrameInv, FrameOK, Frame
<1>d. StackInv'
  BY <1>1 DEF IInv, StackInv
<1>e. ChildInv'
  <2>1. ASSUME NEW u \in Threads, tls'[u] # None
        PROVE  status'[tls'[u]] = "active" /\ (mainThread'[tls'[u]] # u => u \in Joined(tls[u])')
    <3>1. CASE u = t
      <4>1. tls'[t] = new[t] /\ children' = children
        BY <1>1 DEF IInv, TypeOK
      <4>2. status[new[t]] = "active" /\ (mainThread[new[t]] # t => t \in Joined(new[t]))
        BY <4>1, <3>1, <2>1, <1>1 DEF IInv, ChildInv
      <4> QED BY <4>1, <4>2, <3>1, <1>1 DEF Joined
    <3>2. CASE u # t
      BY <3>2, <2>1, <1>1 DEF IInv, TypeOK, ChildInv, Joined
    <3> QED BY <3>1, <3>2
  <2>2. ASSUME NEW u \in Threads, new'[u] # None
        PROVE  /\ status'[new'[u]] = "active"
               /\ pc'[u] = "publish" /\ mainThread'[new'[u]] # u => u \in Joined(new[u])'
    BY <2>2, <1>1 DEF IInv, TypeOK, ChildInv, Joined
  <2> QED BY <2>1, <2>2, <1>1 DEF IInv, ChildInv, Joined
<1>f. RunnerInv'
  <2>1. ASSUME t \in Runners, new[t] # None PROVE mainThread[new[t]] = t
    <3>1. op[t] \in {"enter", "leave"} /\ stack[t] # <<>>
      BY <2>1, <1>1, <1>2 DEF IInv, ControlInv, ControlOK
    <3> QED BY <2>1, <3>1, FrameFact DEF IInv, FrameInv, FrameOK, RunnerInv
  <2> QED BY <2>1, <1>1 DEF IInv, TypeOK, RunnerInv
<1>g. JoinInv'
  BY <1>1, <1>2, <1>3 DEF IInv, TypeOK, ControlInv, ControlOK, JoinInv, JoinOK,
                           ChildrenTerminated, Joined, Frame
<1>h. StartInv'
  BY <1>1, <1>2, <1>3 DEF IInv, TypeOK, ControlInv, ControlOK, StartInv, StartOK
<1>i. DefaultInv'
  <2>1. LockHeldToDerive'
    BY <1>1, <1>4 DEF IInv, TypeOK, DefaultInv, LockHeldToDerive
  <2>2. default' # None => /\ default' \in DefaultFilaments
                           /\ status'[default'] = "active"
                           /\ tls'[mainThread'[default']] = default'
    <3>1. CASE PublishesDefault(t)
      BY <3>1, <1>1 DEF IInv, TypeOK, ChildInv, SetDefaultFilament, PublishesDefault
    <3>2. CASE ~ PublishesDefault(t) /\ RevokesDefault(t)
      BY <3>2, <1>1 DEF SetDefaultFilament
    <3>3. CASE ~ PublishesDefault(t) /\ ~ RevokesDefault(t)
      BY <3>3, <1>1 DEF IInv, TypeOK, ChildInv, DefaultInv, SetDefaultFilament,
                          PublishesDefault, RevokesDefault
    <3> QED BY <3>1, <3>2, <3>3
  <2>3. ASSUME NEW u \in Threads, op'[u] = "derive"
        PROVE  new'[u] = default' /\ lockOwner' = u
    <3>1. u # t /\ op[u] = "derive" /\ new'[u] = new[u]
      BY <2>3, <1>1 DEF IInv, TypeOK
    <3>2. new[u] = default /\ lockOwner = u
      BY <3>1 DEF IInv, DefaultInv
    <3>3. lockOwner' = u
      BY <3>1, <3>2, <1>4
    <3>4. ~ PublishesDefault(t) /\ ~ RevokesDefault(t)
      BY <3>1, <3>2, <1>1, FilamentsAssumption
    <3> QED BY <3>1, <3>2, <3>3, <3>4, <1>1 DEF SetDefaultFilament
  <2>4. ASSUME NEW u \in Threads, Deriving(u)', default' # None, Returning(default)'
        PROVE  FALSE
    <3>1. u # t /\ Deriving(u)
      BY <2>4, <1>1, <1>3 DEF IInv, TypeOK, Deriving
    <3>2. PICK v \in Threads : /\ stack[v] # <<>> /\ Frame(v) = default'
                               /\ pc'[v] \in {"joining", "destroy"} \/ op'[v] = "leave"
      BY <2>4, <1>1 DEF Returning, InRoutine, Frame
    <3>3. pc[v] \in {"joining", "destroy"} \/ op[v] = "leave"
      BY <3>2, <1>1, <1>3 DEF IInv, TypeOK
    <3>4. Returning(default')
      BY <3>2, <3>3 DEF Returning, InRoutine
    <3>5. CASE default' = default
      BY <3>5, <3>4, <3>1, <2>4 DEF IInv, DefaultInv
    <3>6. CASE default' # default
      <4>1. default' = new[t] /\ new[t] \in DefaultFilaments /\ mainThread[new[t]] = t
        BY <3>6, <2>4, <1>1 DEF SetDefaultFilament, PublishesDefault
      <4>2. v = t
        BY <4>1, <3>2, FrameFact DEF IInv
      <4>3. op[t] = "leave"
        BY <4>2, <3>3, <1>1
      <4>4. Frame(t) \in DefaultFilaments /\ status[Frame(t)] = "active"
        BY <4>1, <4>2, <3>2, FrameFact DEF IInv
      <4>5. new[t] = prev[Frame(t)] /\ new[t] \in Filaments
        BY <4>1, <4>2, <4>3, <3>2, FilamentsAssumption DEF IInv, FrameInv, FrameOK
      <4>6. prev[Frame(t)] = None
        BY <4>4 DEF IInv, DefaultInv
      <4> QED
        BY <4>5, <4>6, FilamentsAssumption
    <3> QED BY <3>5, <3>6
  <2> QED BY <2>1, <2>2, <2>3, <2>4, <1>1 DEF IInv, DefaultInv
<1> QED BY <1>a, <1>b, <1>c, <1>d, <1>e, <1>f, <1>g, <1>h, <1>i DEF IInv

\* Disciplined use never meets a conflict of default filaments.
LEMMA DefaultFilamentConflictInv ==
  ASSUME IInv, NEW t \in Threads, DefaultFilamentConflict(t)
  PROVE  FALSE
<1>1. /\ pc[t] = "publish" /\ default # None
      /\ new[t] \in DefaultFilaments /\ mainThread[new[t]] = t
  BY DEF DefaultFilamentConflict, PublishesDefault
<1>2. new[t] \in Filaments /\ new[t] # None /\ status[new[t]] = "active"
  BY <1>1, FilamentsAssumption DEF IInv, ChildInv
<1>3. default = new[t] /\ tls[t] = new[t]
  BY <1>1, <1>2 DEF IInv, DefaultInv
<1>4. stack[t] # <<>>
  BY <1>1, <1>2, MainFact DEF IInv
<1>5. op[t] \in {"enter", "leave"}
  BY <1>1, <1>4 DEF IInv, TypeOK, OpValues, ControlInv, ControlOK
<1>6. prev[new[t]] = None
  BY <1>1, <1>2 DEF IInv, DefaultInv
<1> QED BY <1>2, <1>3, <1>4, <1>5, <1>6 DEF IInv, FrameInv, FrameOK

\* Registration fails for a thread that started or came without a filament.
LEMMA DuplicateHandleFailsInv ==
  ASSUME IInv, Disciplined, NEW t \in Threads, DuplicateHandleFails(t)
  PROVE  IInv'
<1>1. /\ pc[t] = "set" /\ IsChild(t) /\ Callers \subseteq Runners
      /\ pc' = [pc EXCEPT ![t] = AfterFailure[op[t]]]
      /\ op' = [op EXCEPT ![t] = "none"]
      /\ new' = [new EXCEPT ![t] = None]
      /\ CallerReleasesLock(t)
      /\ UNCHANGED <<tls, derived, stack, parent, status, mainThread, prev, children,
                     default, refs>>
  BY DEF DuplicateHandleFails, Disciplined, Resume, filamentVars
<1>2. op[t] \in {"start", "derive"}
  <2>1. op[t] \in {"enter", "leave", "start", "derive"}
    BY <1>1 DEF IInv, TypeOK, OpValues, ControlInv, ControlOK, IsChild
  <2>2. ASSUME op[t] \in {"enter", "leave"} PROVE FALSE
    <3>1. stack[t] # <<>> /\ t \in Runners
      BY <2>2, <1>1 DEF IInv, ControlInv, ControlOK, FrameInv, FrameOK
    <3> QED BY <3>1, <2>2, <1>1, FrameFact
            DEF IInv, FrameInv, FrameOK, RunnerInv, IsChild
  <2> QED BY <2>1, <2>2
<1>3. /\ AfterFailure[op[t]] = IF op[t] = "start" THEN "dead" ELSE "user"
      /\ stack[t] = <<>> /\ tls[t] = None
  BY <1>2 DEF AfterFailure, OpValues, IInv, ControlInv, ControlOK
<1>4. /\ op[t] = "derive" => lockOwner = t /\ lockOwner' = None /\ lockDepth' = 0
      /\ op[t] # "derive" => UNCHANGED <<lockOwner, lockDepth>>
  BY <1>1, LockFact DEF IInv
<1>5. TypeOK'
  BY <1>1, <1>3, <1>4 DEF IInv, TypeOK, PcValues, OpValues
<1>6. ControlInv' /\ FrameInv'
  BY <1>1, <1>3 DEF IInv, TypeOK, ControlInv, ControlOK, FrameInv, FrameOK, Frame
<1>7. StackInv' /\ RunnerInv'
  BY <1>1, FilamentsFact DEF IInv
<1>8. ChildInv'
  BY <1>1, <1>3, ChildFact DEF IInv, TypeOK
<1>9. JoinInv'
  BY <1>1, <1>3, JoinFact DEF IInv, TypeOK
<1>10. StartInv'
  BY <1>1, <1>3 DEF IInv, TypeOK, StartInv, StartOK
<1>11. DefaultInv'
  BY <1>1, <1>3, <1>4, DefaultFact DEF IInv, TypeOK
<1> QED BY <1>5, <1>6, <1>7, <1>8, <1>9, <1>10, <1>11 DEF IInv

\* The table of the filament is full.
LEMMA TooManyChildThreadsInv ==
  ASSUME IInv, NEW t \in Threads, RegisterChildThread(t),
         Len(children[new[t]]) = MaxThreads
  PROVE  IInv'
<1>1. /\ pc[t] = "set" /\ IsChild(t)
      /\ pc' = [pc EXCEPT ![t] = AfterFailure[op[t]]]
      /\ op' = [op EXCEPT ![t] = "none"]
      /\ new' = [new EXCEPT ![t] = None]
      /\ tls' = [tls EXCEPT ![t] = None]
      /\ derived' = [derived EXCEPT ![t] = FALSE]
      /\ CallerReleasesLock(t)
      /\ UNCHANGED <<stack, parent, status, mainThread, prev, children, default, refs>>
  BY DEF RegisterChildThread, Resume
<1>2. op[t] \in {"leave", "start", "derive"}
  BY <1>1, RegistersAs
<1>3. /\ AfterFailure[op[t]] = IF op[t] = "start" THEN "dead"
                               ELSE IF op[t] = "leave" THEN "destroy" ELSE "user"
      /\ op[t] # "leave" => stack[t] = <<>>
      /\ op[t] = "leave" => stack[t] # <<>>
  BY <1>2 DEF AfterFailure, OpValues, IInv, ControlInv, ControlOK
<1>4. /\ op[t] = "derive" => lockOwner = t /\ lockOwner' = None /\ lockDepth' = 0
      /\ op[t] # "derive" => UNCHANGED <<lockOwner, lockDepth>>
  BY <1>1, LockFact DEF IInv
<1>5. TypeOK'
  BY <1>1, <1>3, <1>4 DEF IInv, TypeOK, PcValues, OpValues
<1>6. ControlInv'
  BY <1>1, <1>3 DEF IInv, TypeOK, ControlInv, ControlOK
<1>7. FrameInv'
  <2>1. op[t] = "leave" => Len(stack[t]) = 1
    <3> SUFFICES ASSUME op[t] = "leave", Len(stack[t]) # 1 PROVE FALSE
      OBVIOUS
    <3>1. stack[t] # <<>> /\ new[t] = prev[Frame(t)] /\ stack[t] \in Seq(Filaments)
      BY <1>3 DEF IInv, FrameInv, FrameOK, TypeOK
    <3>a. Len(stack[t]) \in Nat /\ Len(stack[t]) # 0
      BY <3>1
    <3>2. /\ Len(stack[t]) \in 1 .. Len(stack[t]) /\ Len(stack[t]) > 1
          /\ Len(stack[t]) - 1 \in 1 .. Len(stack[t])
      <4>1. \A n \in Nat : n # 0 /\ n # 1 => n \in 1 .. n /\ n > 1 /\ n - 1 \in 1 .. n
        OBVIOUS
      <4> QED BY <4>1, <3>a
    <3>3. new[t] = stack[t][Len(stack[t]) - 1]
      BY <3>1, <3>2 DEF IInv, StackInv, Frame
    <3>4. mainThread[new[t]] = t
      BY <3>2, <3>3 DEF IInv, StackInv
    <3> QED BY <3>4, <1>1 DEF IsChild
  <2>2. ASSUME NEW u \in Threads PROVE FrameOK(u)'
    <3>1. CASE u = t
      BY <3>1, <2>1, <1>1, <1>3 DEF IInv, TypeOK, FrameInv, FrameOK, Frame
    <3>2. CASE u # t
      BY <3>2, <1>1 DEF IInv, TypeOK, FrameInv, FrameOK, Frame
    <3> QED BY <3>1, <3>2
  <2> QED BY <2>2 DEF FrameInv
<1>8. StackInv'
  BY <1>1 DEF IInv, StackInv
<1>9. ChildInv'
  <2>1. ASSUME NEW u \in Threads, tls'[u] # None
        PROVE  tls'[u] = tls[u]
    BY <2>1, <1>1 DEF IInv, TypeOK
  <2>2. ASSUME NEW u \in Threads, new'[u] # None
        PROVE  new'[u] = new[u] /\ pc'[u] = pc[u]
    BY <2>2, <1>1 DEF IInv, TypeOK
  <2> QED BY <2>1, <2>2, <1>1 DEF IInv, ChildInv, Joined
<1>10. RunnerInv'
  BY <1>1, ThreadsAssumption DEF IInv, TypeOK, RunnerInv
<1>11. JoinInv'
  BY <1>1, <1>2, <1>3, JoinFact DEF IInv, TypeOK
<1>12. StartInv'
  <2>1. ASSUME NEW u \in Threads, op[u] = "start" PROVE parent[u] # t
    BY <2>1, <1>1 DEF IInv, StartInv, StartOK
  <2> QED BY <2>1, <1>1 DEF IInv, TypeOK, StartInv, StartOK
<1>13. DefaultInv'
  <2>1. default # None => mainThread[default] # t
    <3> SUFFICES ASSUME default # None, mainThread[default] = t PROVE FALSE
      OBVIOUS
    <3>1. /\ default \in DefaultFilaments /\ status[default] = "active"
          /\ tls[t] = default /\ prev[default] = None
      BY DEF IInv, DefaultInv
    <3>2. stack[t] # <<>>
      BY <3>1, MainFact, FilamentsAssumption DEF IInv
    <3>3. op[t] = "leave"
      BY <3>2, <1>2, <1>3
    <3> QED BY <3>1, <3>2, <3>3, <1>1 DEF IInv, FrameInv, FrameOK, IsChild
  <2> QED BY <2>1, <1>1, <1>3, <1>4, DefaultFact DEF IInv, TypeOK
<1> QED BY <1>5, <1>6, <1>7, <1>8, <1>9, <1>10, <1>11, <1>12, <1>13 DEF IInv

\* The thread is entered in the table.
LEMMA ChildRegisteredInv ==
  ASSUME IInv, NEW t \in Threads, RegisterChildThread(t),
         Len(children[new[t]]) # MaxThreads
  PROVE  IInv'
<1>1. /\ pc[t] = "set" /\ IsChild(t)
      /\ children' = [children EXCEPT ![new[t]] = Append(@, t)]
      /\ pc' = [pc EXCEPT ![t] = "publish"]
      /\ UNCHANGED <<op, new, tls, derived, stack, parent, status, mainThread, prev,
                     default, lockOwner, lockDepth>>
  BY DEF RegisterChildThread, lockVars
<1>2. new[t] \in Filaments
  BY <1>1 DEF IInv, TypeOK, IsChild
<1>3. \A f \in Filaments : Joined(f)' = IF f = new[t] THEN Joined(f) \cup {t} ELSE Joined(f)
  <2>1. CASE TRUE
    <3>1. children'[new[t]] = Append(children[new[t]], t)
      BY <1>1, <1>2 DEF IInv, TypeOK
    <3>2. Joined(new[t])' = Joined(new[t]) \cup {t}
      BY <3>1, <1>1, <1>2, JoinedAppend DEF IInv, TypeOK, Joined
    <3>3. \A f \in Filaments : f # new[t] => Joined(f)' = Joined(f)
      BY <1>1, <1>2 DEF IInv, TypeOK, Joined
    <3> QED BY <3>2, <3>3, <1>1
  <2> QED BY <2>1
<1>4. TypeOK'
  <2>1. children' \in [Filaments -> Seq(Threads)]
    BY <1>1, <1>2 DEF IInv, TypeOK
  <2>2. refs' \in [Contexts -> Int]
    BY RefsFact DEF IInv, RegisterChildThread
  <2> QED BY <2>1, <2>2, <1>1 DEF IInv, TypeOK, PcValues
<1>5. ControlInv' /\ FrameInv'
  BY <1>1 DEF IInv, TypeOK, ControlInv, ControlOK, FrameInv, FrameOK, Frame
<1>6. StackInv' /\ RunnerInv'
  BY <1>1, FilamentsFact DEF IInv
<1>7. ChildInv'
  <2>1. ASSUME NEW u \in Threads, tls'[u] # None
        PROVE  status'[tls'[u]] = "active" /\ (mainThread'[tls'[u]] # u => u \in Joined(tls[u])')
    <3>1. tls[u] \in Filaments /\ Joined(tls[u]) \subseteq Joined(tls[u])' /\ tls' = tls
      BY <2>1, <1>1, <1>3 DEF IInv, TypeOK, Joined
    <3> QED BY <3>1, <2>1, <1>1 DEF IInv, ChildInv
  <2>2. ASSUME NEW u \in Threads, new'[u] # None
        PROVE  /\ status'[new'[u]] = "active"
               /\ pc'[u] = "publish" /\ mainThread'[new'[u]] # u => u \in Joined(new[u])'
    <3>1. new[u] \in Filaments /\ new' = new
      BY <2>2, <1>1 DEF IInv, TypeOK
    <3>2. Joined(new[u])' = IF new[u] = new[t] THEN Joined(new[u]) \cup {t} ELSE Joined(new[u])
      BY <3>1, <1>3 DEF Joined
    <3>3. u # t => pc'[u] = pc[u]
      BY <1>1 DEF IInv, TypeOK
    <3> QED BY <3>1, <3>2, <3>3, <2>2, <1>1 DEF IInv, ChildInv
  <2>3. ASSUME NEW f \in Filaments, status'[f] = "active", prev'[f] # None
        PROVE  /\ status'[prev'[f]] = "active"
               /\ mainThread'[prev'[f]] # mainThread'[f] => mainThread'[f] \in Joined(prev[f])'
    <3>1. prev[f] \in Filaments /\ Joined(prev[f]) \subseteq Joined(prev[f])'
      BY <2>3, <1>1, <1>3 DEF IInv, TypeOK, Joined
    <3> QED BY <3>1, <2>3, <1>1 DEF IInv, ChildInv
  <2> QED BY <2>1, <2>2, <2>3 DEF ChildInv, Joined
<1>8. JoinInv'
  <2> SUFFICES ASSUME NEW u \in Threads, stack[u] # <<>>, pc'[u] = "destroy" \/ op[u] = "leave",
                      NEW c \in Joined(Frame(u))'
               PROVE  pc'[c] = "dead"
    BY <1>1 DEF JoinInv, JoinOK, ChildrenTerminated, Frame
  <2>1. pc[u] = "destroy" \/ op[u] = "leave"
    BY <1>1 DEF IInv, TypeOK
  <2>2. Frame(u) # new[t] /\ Frame(u) \in Filaments /\ Frame(u)' = Frame(u)
    BY <2>1, <1>1, RegistersInTime, FrameFact DEF IInv, Frame
  <2>3. c \in Joined(Frame(u)) /\ c \in Threads
    BY <2>2, <1>1 DEF IInv, TypeOK, Joined, Frame
  <2>4. pc[c] = "dead"
    BY <2>1, <2>3 DEF IInv, JoinInv, JoinOK, ChildrenTerminated
  <2> QED BY <2>3, <2>4, <1>1 DEF IInv, TypeOK
<1>9. StartInv'
  BY <1>1 DEF IInv, TypeOK, StartInv, StartOK
<1>10. DefaultInv'
  BY <1>1 DEF IInv, TypeOK, DefaultInv, LockHeldToDerive, Deriving, Returning, InRoutine, Frame
<1> QED BY <1>4, <1>5, <1>6, <1>7, <1>8, <1>9, <1>10 DEF IInv

\* Both outcomes of the registration.
LEMMA RegisterChildThreadInv ==
  ASSUME IInv, NEW t \in Threads, RegisterChildThread(t)
  PROVE  IInv'
BY TooManyChildThreadsInv, ChildRegisteredInv

\* A new filament is known to nobody.
LEMMA FreshFact ==
  ASSUME IInv, NEW f \in Filaments, status[f] = "unused"
  PROVE  /\ \A u \in Threads : tls[u] # f /\ new[u] # f
         /\ \A u \in Threads : \A i \in 1 .. Len(stack[u]) : stack[u][i] # f
         /\ \A g \in Filaments : status[g] = "active" => prev[g] # f
         /\ default # f
<1>1. f # None
  BY FilamentsAssumption
<1> QED BY <1>1 DEF IInv, ChildInv, StackInv, DefaultInv

\* A filament is initialized: it is new to everybody, and remembers the filament
\* its main thread used before.
LEMMA RunTestRoutineInv ==
  ASSUME IInv, Disciplined, NEW t \in Threads, NEW f \in Filaments, RunTestRoutine(t, f)
  PROVE  IInv'
<1>1. /\ pc[t] = "user" /\ t \in Callers /\ status[f] = "unused"
      /\ f \in DefaultFilaments => \A g \in Filaments : status[g] # "active"
      /\ status' = [status EXCEPT ![f] = "active"]
      /\ mainThread' = [mainThread EXCEPT ![f] = t]
      /\ prev' = [prev EXCEPT ![f] = tls[t]]
      /\ stack' = [stack EXCEPT ![t] = Append(@, f)]
      /\ pc' = [pc EXCEPT ![t] = "set"]
      /\ op' = [op EXCEPT ![t] = "enter"]
      /\ new' = [new EXCEPT ![t] = f]
      /\ UNCHANGED <<tls, derived, parent, children, default, lockOwner, lockDepth>>
  BY DEF RunTestRoutine, Disciplined, SetCurrentFilament, lockVars
<1>2. op[t] = "none" /\ f # None
  BY <1>1, FilamentsAssumption DEF IInv, ControlInv, ControlOK
<1>3. /\ status'[f] = "active" /\ mainThread'[f] = t /\ prev'[f] = tls[t]
      /\ \A g \in Filaments : g # f => /\ status'[g] = status[g]
                                       /\ mainThread'[g] = mainThread[g]
                                       /\ prev'[g] = prev[g]
      /\ \A g : Joined(g)' = Joined(g)
  BY <1>1 DEF IInv, TypeOK, Joined
<1>4. /\ pc'[t] = "set" /\ op'[t] = "enter" /\ new'[t] = f
      /\ \A u \in Threads : u # t => /\ pc'[u] = pc[u] /\ op'[u] = op[u]
                                     /\ new'[u] = new[u] /\ stack'[u] = stack[u]
  BY <1>1 DEF IInv, TypeOK
<1>5. /\ stack'[t] = Append(stack[t], f) /\ stack[t] \in Seq(Filaments)
      /\ stack'[t] # <<>>
      /\ Len(stack[t]) \in Nat /\ Len(stack'[t]) = Len(stack[t]) + 1
      /\ \A i \in 1 .. Len(stack[t]) : stack'[t][i] = stack[t][i]
      /\ stack'[t][Len(stack[t]) + 1] = f
  <2>1. stack'[t] = Append(stack[t], f) /\ stack[t] \in Seq(Filaments)
    BY <1>1 DEF IInv, TypeOK
  <2> QED BY <2>1
<1>6. Frame(t)' = f /\ \A u \in Threads : u # t => Frame(u)' = Frame(u)
  BY <1>4, <1>5 DEF Frame
<1>7. \A u \in Threads : u # t /\ stack[u] # <<>> => Frame(u) \in Filaments /\ Frame(u) # f
  BY <1>1, FrameFact DEF IInv
<1>a. TypeOK'
  <2>1. /\ status' \in [Filaments -> {"unused", "active", "destroyed"}]
        /\ mainThread' \in [Filaments -> Threads \cup {None}]
        /\ prev' \in [Filaments -> Filaments \cup {None}]
    BY <1>1 DEF IInv, TypeOK
  <2>2. /\ stack' \in [Threads -> Seq(Filaments)]
        /\ pc' \in [Threads -> PcValues] /\ op' \in [Threads -> OpValues]
        /\ new' \in [Threads -> Filaments \cup {None}]
    BY <1>1 DEF IInv, TypeOK, PcValues, OpValues
  <2>3. refs' \in [Contexts -> Int]
    BY RefsFact DEF IInv, RunTestRoutine, SetCurrentFilament
  <2> QED BY <2>1, <2>2, <2>3, <1>1 DEF IInv, TypeOK
<1>b. ControlInv'
  <2>1. ASSUME NEW u \in Threads PROVE ControlOK(u)'
    <3>1. CASE u = t
      BY <3>1, <1>4, <1>5 DEF ControlOK
    <3>2. CASE u # t
      BY <3>2, <1>1, <1>4 DEF IInv, ControlInv, ControlOK
    <3> QED BY <3>1, <3>2
  <2> QED BY <2>1 DEF ControlInv
<1>c. FrameInv'
  <2>1. ASSUME NEW u \in Threads PROVE FrameOK(u)'
    <3>1. CASE u = t
      BY <3>1, <1>1, <1>3, <1>4, <1>6 DEF FrameOK
    <3>2. CASE u # t
      <4>1. stack[u] # <<>> => prev'[Frame(u)'] = prev[Frame(u)]
        BY <3>2, <1>3, <1>6, <1>7
      <4> QED BY <3>2, <4>1, <1>1, <1>4, <1>6 DEF IInv, FrameInv, FrameOK
    <3> QED BY <3>1, <3>2
  <2> QED BY <2>1 DEF FrameInv
<1>d. StackInv'
  <2>1. ASSUME NEW u \in Threads, NEW i \in 1 .. Len(stack[u])
        PROVE  /\ stack[u][i] \in Filaments /\ stack[u][i] # f
               /\ stack'[u][i] = stack[u][i]
               /\ prev[stack[u][i]] # f
    <3>1. stack[u][i] \in Filaments
      BY DEF IInv, TypeOK
    <3> QED BY <3>1, <1>1, <1>4, <1>5, FreshFact DEF IInv, StackInv
  <2>2. ASSUME NEW u \in Threads, NEW i \in 1 .. Len(stack[u])
        PROVE  /\ status'[stack'[u][i]] = "active"
               /\ mainThread'[stack'[u][i]] = u
               /\ i > 1 => prev'[stack'[u][i]] = stack'[u][i - 1]
               /\ i = 1 /\ prev'[stack'[u][i]] # None => mainThread'[prev'[stack'[u][i]]] # u
    <3>1. status'[stack'[u][i]] = "active" /\ mainThread'[stack'[u][i]] = u
      BY <2>1, <1>3 DEF IInv, StackInv
    <3>2. prev'[stack'[u][i]] = prev[stack[u][i]]
      BY <2>1, <1>3
    <3>3. i > 1 => prev'[stack'[u][i]] = stack'[u][i - 1]
      <4> SUFFICES ASSUME i > 1 PROVE prev'[stack'[u][i]] = stack'[u][i - 1]
        OBVIOUS
      <4>1. i - 1 \in 1 .. Len(stack[u])
        BY DEF IInv, TypeOK
      <4> QED BY <4>1, <2>1, <3>2 DEF IInv, StackInv
    <3>4. i = 1 /\ prev'[stack'[u][i]] # None => mainThread'[prev'[stack'[u][i]]] # u
      <4>1. prev[stack[u][i]] # None => prev[stack[u][i]] \in Filaments
        BY <2>1 DEF IInv, TypeOK
      <4> QED BY <4>1, <3>2, <2>1, <1>3 DEF IInv, StackInv
    <3> QED BY <3>1, <3>3, <3>4
  <2>3. ASSUME NEW i, i = Len(stack[t]) + 1
        PROVE  /\ status'[stack'[t][i]] = "active"
               /\ mainThread'[stack'[t][i]] = t
               /\ i > 1 => prev'[stack'[t][i]] = stack'[t][i - 1]
               /\ i = 1 /\ prev'[stack'[t][i]] # None => mainThread'[prev'[stack'[t][i]]] # t
    <3>1. stack'[t][i] = f
      BY <2>3, <1>5
    <3>2. i > 1 => tls[t] = stack'[t][i - 1]
      <4> SUFFICES ASSUME i > 1 PROVE tls[t] = stack'[t][i - 1]
        OBVIOUS
      <4>1. Len(stack[t]) \in 1 .. Len(stack[t]) /\ i - 1 = Len(stack[t])
        BY <2>3, <1>5
      <4>2. stack[t] # <<>>
        BY <4>1
      <4>3. tls[t] = stack[t][Len(stack[t])]
        BY <4>2, <1>1 DEF IInv, FrameInv, FrameOK, Frame
      <4> QED BY <4>1, <4>3, <1>5
    <3>3. i = 1 /\ tls[t] # None => mainThread'[tls[t]] # t
      <4> SUFFICES ASSUME i = 1, tls[t] # None, mainThread'[tls[t]] = t PROVE FALSE
        OBVIOUS
      <4>1. stack[t] = <<>>
        <5>1. Len(stack[t]) = 0
          BY <2>3, <1>5
        <5> QED BY <5>1, <1>5
      <4>2. tls[t] \in Filaments /\ tls[t] # f /\ status[tls[t]] = "active"
        BY <1>1, FreshFact DEF IInv, TypeOK, ChildInv
      <4>3. mainThread[tls[t]] = t
        BY <4>2, <1>3
      <4> QED BY <4>1, <4>2, <4>3, MainFact DEF IInv
    <3> QED BY <3>1, <3>2, <3>3, <1>3
  <2>4. ASSUME NEW u \in Threads, NEW i \in 1 .. Len(stack'[u]), NEW j \in 1 .. Len(stack'[u]),
               stack'[u][i] = stack'[u][j]
        PROVE  i = j
    <3>1. CASE u # t
      BY <3>1, <2>4, <1>4 DEF IInv, StackInv
    <3>2. CASE u = t
      <4>1. /\ i \in 1 .. Len(stack[t]) \/ i = Len(stack[t]) + 1
            /\ j \in 1 .. Len(stack[t]) \/ j = Len(stack[t]) + 1
        BY <3>2, <1>5
      <4>2. CASE i \in 1 .. Len(stack[t]) /\ j \in 1 .. Len(stack[t])
        BY <4>2, <3>2, <2>4, <1>5 DEF IInv, StackInv
      <4>3. CASE i \in 1 .. Len(stack[t]) /\ j = Len(stack[t]) + 1
        BY <4>3, <3>2, <2>4, <2>1, <1>5
      <4>4. CASE i = Len(stack[t]) + 1 /\ j \in 1 .. Len(stack[t])
        BY <4>4, <3>2, <2>4, <2>1, <1>5
      <4> QED BY <4>1, <4>2, <4>3, <4>4
    <3> QED BY <3>1, <3>2
  <2>5. ASSUME NEW u \in Threads, NEW i \in 1 .. Len(stack'[u])
        PROVE  i \in 1 .. Len(stack[u]) \/ (u = t /\ i = Len(stack[t]) + 1)
    BY <1>4, <1>5
  <2>6. ASSUME NEW g \in Filaments, status'[g] = "active"
        PROVE  /\ mainThread'[g] \in Threads
               /\ \E i \in 1 .. Len(stack'[mainThread'[g]]) : stack'[mainThread'[g]][i] = g
    <3>1. CASE g = f
      <4>1. Len(stack[t]) + 1 \in 1 .. Len(stack'[t])
        BY <1>5
      <4> QED BY <3>1, <4>1, <1>3, <1>5
    <3>2. CASE g # f
      <4>1. status[g] = "active" /\ mainThread'[g] = mainThread[g]
        BY <3>2, <2>6, <1>3
      <4>2. PICK i \in 1 .. Len(stack[mainThread[g]]) : stack[mainThread[g]][i] = g
        BY <4>1 DEF IInv, StackInv
      <4>3. mainThread[g] \in Threads
        BY <4>1 DEF IInv, StackInv
      <4>4. i \in 1 .. Len(stack'[mainThread[g]])
        <5>1. CASE mainThread[g] = t
          BY <5>1, <1>5
        <5>2. CASE mainThread[g] # t
          BY <5>2, <4>3, <1>4
        <5> QED BY <5>1, <5>2
      <4> QED BY <4>1, <4>2, <4>3, <4>4, <2>1
    <3> QED BY <3>1, <3>2
  <2>7. ASSUME NEW u \in Threads, NEW i \in 1 .. Len(stack'[u])
        PROVE  /\ status'[stack'[u][i]] = "active"
               /\ mainThread'[stack'[u][i]] = u
               /\ i > 1 => prev'[stack'[u][i]] = stack'[u][i - 1]
               /\ i = 1 /\ prev'[stack'[u][i]] # None => mainThread'[prev'[stack'[u][i]]] # u
    BY <2>2, <2>3, <2>5
  <2> QED BY <2>4, <2>6, <2>7 DEF StackInv
<1>e. ChildInv'
  <2>1. ASSUME NEW u \in Threads, tls[u] # None
        PROVE  /\ tls[u] \in Filaments /\ tls[u] # f
               /\ status'[tls[u]] = "active"
               /\ mainThread'[tls[u]] # u => u \in Joined(tls[u])
    <3>1. tls[u] \in Filaments /\ tls[u] # f
      BY <2>1, <1>1, FreshFact DEF IInv, TypeOK
    <3> QED BY <3>1, <2>1, <1>3 DEF IInv, ChildInv
  <2>2. ASSUME NEW u \in Threads, new'[u] # None
        PROVE  /\ status'[new'[u]] = "active"
               /\ pc'[u] = "publish" /\ mainThread'[new'[u]] # u => u \in Joined(new'[u])
    <3>1. CASE u = t
      BY <3>1, <1>3, <1>4
    <3>2. CASE u # t
      <4>1. new[u] \in Filaments /\ new[u] # f /\ new'[u] = new[u] /\ pc'[u] = pc[u]
        BY <3>2, <2>2, <1>1, <1>4, FreshFact DEF IInv, TypeOK
      <4> QED BY <4>1, <2>2, <1>3 DEF IInv, ChildInv
    <3> QED BY <3>1, <3>2
  <2>3. ASSUME NEW g \in Filaments, status'[g] = "active", prev'[g] # None
        PROVE  /\ status'[prev'[g]] = "active"
               /\ mainThread'[prev'[g]] # mainThread'[g] => mainThread'[g] \in Joined(prev'[g])
    <3>1. CASE g = f
      BY <3>1, <2>1, <2>3, <1>3
    <3>2. CASE g # f
      <4>1. /\ status[g] = "active" /\ prev'[g] = prev[g] /\ mainThread'[g] = mainThread[g]
            /\ prev[g] \in Filaments
        BY <3>2, <2>3, <1>3 DEF IInv, TypeOK
      <4>2. prev[g] # f
        BY <4>1, <1>1, FreshFact
      <4> QED BY <4>1, <4>2, <2>3, <1>3 DEF IInv, ChildInv
    <3> QED BY <3>1, <3>2
  <2> QED BY <2>1, <2>2, <2>3, <1>1 DEF ChildInv, Joined
<1>f. RunnerInv'
  <2>1. ASSUME NEW u \in Threads, u \in Runners, tls[u] # None
        PROVE  tls[u] # f /\ mainThread'[tls[u]] = u
    <3>1. tls[u] \in Filaments /\ tls[u] # f
      BY <2>1, <1>1, FreshFact DEF IInv, TypeOK
    <3> QED BY <3>1, <2>1, <1>3 DEF IInv, RunnerInv
  <2>2. ASSUME NEW g \in Filaments, status'[g] = "active", mainThread'[g] \in Runners,
               prev'[g] # None
        PROVE  mainThread'[prev'[g]] = mainThread'[g]
    <3>1. CASE g = f
      BY <3>1, <2>1, <2>2, <1>3
    <3>2. CASE g # f
      <4>1. /\ status[g] = "active" /\ prev'[g] = prev[g] /\ mainThread'[g] = mainThread[g]
            /\ prev[g] \in Filaments
        BY <3>2, <2>2, <1>3 DEF IInv, TypeOK
      <4>2. prev[g] # f
        BY <4>1, <1>1, FreshFact
      <4> QED BY <4>1, <4>2, <2>2, <1>3 DEF IInv, RunnerInv
    <3> QED BY <3>1, <3>2
  <2>3. Runners \subseteq Threads /\ tls' = tls
    BY <1>1 DEF Threads
  <2> QED BY <2>1, <2>2, <2>3 DEF RunnerInv
<1>g. JoinInv'
  <2> SUFFICES ASSUME NEW u \in Threads, stack'[u] # <<>>, pc'[u] = "destroy" \/ op'[u] = "leave",
                      NEW c \in Joined(Frame(u)')
               PROVE  pc'[c] = "dead"
    BY <1>1 DEF JoinInv, JoinOK, ChildrenTerminated, Joined
  <2>1. u # t
    BY <1>4
  <2>2. /\ Frame(u)' = Frame(u) /\ Frame(u) \in Filaments /\ stack[u] # <<>>
        /\ pc[u] = "destroy" \/ op[u] = "leave"
    BY <2>1, <1>4, <1>6, <1>7
  <2>3. c \in Threads
    BY <2>2 DEF IInv, TypeOK, Joined
  <2>4. pc[c] = "dead"
    BY <2>2 DEF IInv, JoinInv, JoinOK, ChildrenTerminated
  <2> QED BY <2>3, <2>4, <1>1, <1>4
<1>h. StartInv'
  <2>1. ASSUME NEW u \in Threads PROVE StartOK(u)'
    <3> SUFFICES ASSUME op'[u] = "start" PROVE StartOK(u)'
      BY DEF StartOK
    <3>1. u # t /\ op[u] = "start" /\ new'[u] = new[u]
      BY <1>4
    <3>2. /\ u \in Workers /\ parent[u] \in Threads /\ pc[parent[u]] = "waitInit"
          /\ tls[parent[u]] = new[u]
      BY <3>1 DEF IInv, StartInv, StartOK
    <3>3. parent[u] # t
      BY <3>2, <1>1
    <3> QED BY <3>1, <3>2, <3>3, <1>1, <1>4 DEF StartOK
  <2> QED BY <2>1 DEF StartInv
<1>i. DefaultInv'
  <2>1. LockHeldToDerive'
    <3>1. lockOwner # None => lockOwner \in Threads /\ lockOwner # t
      BY <1>2 DEF IInv, TypeOK, DefaultInv, LockHeldToDerive
    <3> QED BY <3>1, <1>1, <1>4 DEF IInv, DefaultInv, LockHeldToDerive
  <2>2. ASSUME NEW g \in DefaultFilaments, NEW h \in DefaultFilaments,
               status'[g] = "active", status'[h] = "active"
        PROVE  g = h
    <3>1. g \in Filaments /\ h \in Filaments
      BY FilamentsAssumption
    <3> QED BY <3>1, <2>2, <1>1, <1>3 DEF IInv, DefaultInv
  <2>3. ASSUME NEW g \in DefaultFilaments, status'[g] = "active"
        PROVE  prev'[g] = None
    <3>1. g \in Filaments
      BY FilamentsAssumption
    <3>2. CASE g = f
      <4>1. tls[t] # None => tls[t] \in Filaments /\ status[tls[t]] = "active"
        BY DEF IInv, TypeOK, ChildInv
      <4> QED BY <4>1, <3>2, <1>1, <1>3
    <3>3. CASE g # f
      BY <3>1, <3>3, <2>3, <1>3 DEF IInv, DefaultInv
    <3> QED BY <3>2, <3>3
  <2>4. ASSUME default # None
        PROVE  /\ default \in DefaultFilaments
               /\ status'[default] = "active"
               /\ tls[mainThread'[default]] = default
    <3>1. default \in Filaments /\ default # f
      BY <2>4, <1>1, FreshFact DEF IInv, TypeOK
    <3> QED BY <3>1, <2>4, <1>3 DEF IInv, DefaultInv
  <2>5. \A u \in Threads : op'[u] = "derive" => new'[u] = default /\ lockOwner = u
    BY <1>4 DEF IInv, DefaultInv
  <2>6. \A u \in Threads : Deriving(u)' => Deriving(u)
    BY <1>4 DEF Deriving
  <2>7. Returning(default)' => Returning(default)
    BY <1>1, <1>4, <1>6 DEF Returning, InRoutine
  <2> QED BY <2>1, <2>2, <2>3, <2>4, <2>5, <2>6, <2>7, <1>1 DEF IInv, DefaultInv
<1> QED BY <1>a, <1>b, <1>c, <1>d, <1>e, <1>f, <1>g, <1>h, <1>i DEF IInv

\* Who still points to the filament that is about to be destroyed: nobody.
LEMMA ForgottenFact ==
  ASSUME IInv, NEW t \in Threads, pc[t] = "destroy"
  PROVE  /\ \A u \in Threads : tls[u] # Frame(t) /\ new[u] # Frame(t)
         /\ \A g \in Filaments : status[g] = "active" => prev[g] # Frame(t)
         /\ default # Frame(t)
<1> DEFINE f == Frame(t)
<1>1. /\ stack[t] # <<>> /\ op[t] = "none" /\ new[t] = None
      /\ f \in Filaments /\ status[f] = "active" /\ mainThread[f] = t /\ f # None
  BY FrameFact, FilamentsAssumption DEF IInv, ControlInv, ControlOK
<1>2. \A c \in Joined(f) : pc[c] = "dead"
  BY <1>1 DEF IInv, JoinInv, JoinOK, ChildrenTerminated
<1>3. /\ stack[t] \in Seq(Filaments) /\ Len(stack[t]) \in Nat
      /\ Len(stack[t]) \in 1 .. Len(stack[t])
      /\ f = stack[t][Len(stack[t])]
  BY <1>1 DEF IInv, TypeOK, Frame
<1> HIDE DEF f
<1>4. prev[f] # f
  <2>1. CASE Len(stack[t]) = 1
    BY <2>1, <1>1, <1>3 DEF IInv, StackInv
  <2>2. CASE Len(stack[t]) # 1
    <3>1. /\ Len(stack[t]) - 1 \in 1 .. Len(stack[t]) /\ Len(stack[t]) > 1
          /\ Len(stack[t]) - 1 # Len(stack[t])
      <4>1. \A n \in Nat : n \in 1 .. n /\ n # 1 => n - 1 \in 1 .. n /\ n > 1 /\ n - 1 # n
        OBVIOUS
      <4> QED BY <4>1, <2>2, <1>3
    <3>2. prev[f] = stack[t][Len(stack[t]) - 1]
      BY <3>1, <1>3 DEF IInv, StackInv
    <3> QED BY <3>1, <3>2, <1>3 DEF IInv, StackInv
  <2> QED BY <2>1, <2>2
<1>5. tls[t] # f
  BY <1>1, <1>4 DEF IInv, FrameInv, FrameOK, f
<1>6. ASSUME NEW u \in Threads, tls[u] = f PROVE FALSE
  <2>1. u # t
    BY <1>5, <1>6
  <2>2. u \in Joined(f)
    BY <2>1, <1>1, <1>6 DEF IInv, ChildInv
  <2> QED BY <2>2, <1>1, <1>2, <1>6 DEF IInv, ControlInv, ControlOK
<1>7. ASSUME NEW u \in Threads, new[u] = f PROVE FALSE
  <2>1. u # t /\ mainThread[new[u]] # u /\ new[u] # None
    BY <1>1, <1>7
  <2>2. pc[u] \in {"set", "publish"}
    BY <2>1 DEF IInv, ControlInv, ControlOK
  <2>3. CASE pc[u] = "publish"
    <3>1. u \in Joined(f)
      BY <2>1, <2>3, <1>7 DEF IInv, ChildInv
    <3> QED BY <3>1, <2>3, <1>2
  <2>4. CASE pc[u] = "set"
    BY <2>1, <2>4, <1>1, <1>7, RegistersInTime DEF IsChild, f
  <2> QED BY <2>2, <2>3, <2>4
<1>8. ASSUME NEW g \in Filaments, status[g] = "active", prev[g] = f PROVE FALSE
  <2>1. mainThread[g] \in Threads /\ stack[mainThread[g]] # <<>>
    BY <1>8, MainFact DEF IInv
  <2>2. CASE mainThread[g] # t
    <3>1. mainThread[g] \in Joined(f)
      BY <2>2, <1>1, <1>8 DEF IInv, ChildInv
    <3> QED BY <3>1, <2>1, <1>2 DEF IInv, ControlInv, ControlOK
  <2>3. CASE mainThread[g] = t
    <3>1. PICK i \in 1 .. Len(stack[t]) : stack[t][i] = g
      BY <2>3, <1>8 DEF IInv, StackInv
    <3>2. CASE i = 1
      BY <3>1, <3>2, <1>1, <1>8 DEF IInv, StackInv
    <3>3. CASE i # 1
      <4>1. i > 1 /\ i - 1 \in 1 .. Len(stack[t]) /\ i - 1 # Len(stack[t])
        BY <3>3, <1>3
      <4>2. stack[t][i - 1] = stack[t][Len(stack[t])]
        BY <4>1, <3>1, <1>3, <1>8 DEF IInv, StackInv
      <4> QED BY <4>1, <4>2, <1>3 DEF IInv, StackInv
    <3> QED BY <3>2, <3>3
  <2> QED BY <2>2, <2>3
<1>9. ASSUME default = f PROVE FALSE
  BY <1>1, <1>5, <1>9 DEF IInv, DefaultInv
<1> QED BY <1>6, <1>7, <1>8, <1>9 DEF f

\* A filament is destroyed: nobody points to it any more.
LEMMA DestroyFilamentInv ==
  ASSUME IInv, NEW t \in Threads, DestroyFilament(t)
  PROVE  IInv'
<1> DEFINE f == Frame(t)
           n == Len(stack[t])
<1>1. /\ pc[t] = "destroy"
      /\ status' = [status EXCEPT ![f] = "destroyed"]
      /\ children' = [children EXCEPT ![f] = <<>>]
      /\ stack' = [stack EXCEPT ![t] = SubSeq(@, 1, Len(@) - 1)]
      /\ pc' = [pc EXCEPT ![t] = "user"]
      /\ UNCHANGED <<op, new, tls, derived, parent, mainThread, prev, default,
                     lockOwner, lockDepth, refs>>
  BY DEF DestroyFilament, lockVars
<1>2. /\ stack[t] # <<>> /\ op[t] = "none" /\ new[t] = None
      /\ f \in Filaments /\ status[f] = "active" /\ mainThread[f] = t /\ f # None
  BY <1>1, FrameFact, FilamentsAssumption DEF IInv, ControlInv, ControlOK
<1>3. /\ stack[t] \in Seq(Filaments) /\ n \in Nat /\ n \in 1 .. n /\ f = stack[t][n]
  BY <1>2 DEF IInv, TypeOK, Frame
<1>4. /\ \A u \in Threads : tls[u] # f /\ new[u] # f
      /\ \A g \in Filaments : status[g] = "active" => prev[g] # f
      /\ default # f
  BY <1>1, ForgottenFact
<1>5. /\ stack'[t] \in Seq(Filaments) /\ Len(stack'[t]) = n - 1
      /\ \A i \in 1 .. n - 1 : stack'[t][i] = stack[t][i]
  <2>1. stack'[t] = SubSeq(stack[t], 1, n - 1) /\ n - 1 \in Nat
    BY <1>1, <1>3 DEF IInv, TypeOK
  <2> QED BY <2>1, <1>3
<1> HIDE DEF f, n
<1>6. /\ status'[f] = "destroyed"
      /\ \A g \in Filaments : g # f => status'[g] = status[g] /\ Joined(g)' = Joined(g)
      /\ \A g \in Filaments : status'[g] = "active" => status[g] = "active" /\ g # f
  BY <1>1, <1>2 DEF IInv, TypeOK, Joined
<1>7. /\ pc'[t] = "user"
      /\ \A u \in Threads : u # t => pc'[u] = pc[u] /\ stack'[u] = stack[u] /\ Frame(u)' = Frame(u)
  BY <1>1 DEF IInv, TypeOK, Frame
<1>8. ASSUME NEW u \in Threads, NEW i \in 1 .. Len(stack'[u])
      PROVE  /\ i \in 1 .. Len(stack[u]) /\ stack'[u][i] = stack[u][i]
             /\ stack[u][i] \in Filaments /\ stack[u][i] # f
  <2>1. CASE u = t
    <3>1. i \in 1 .. n /\ i # n /\ stack'[t][i] = stack[t][i]
      BY <2>1, <1>3, <1>5
    <3> QED BY <2>1, <3>1, <1>3 DEF IInv, StackInv, n
  <2>2. CASE u # t
    <3>1. i \in 1 .. Len(stack[u]) /\ stack'[u][i] = stack[u][i]
      BY <2>2, <1>7
    <3>2. stack[u][i] \in Filaments
      BY <3>1 DEF IInv, TypeOK
    <3> QED BY <2>2, <3>1, <3>2, <1>2 DEF IInv, StackInv
  <2> QED BY <2>1, <2>2
<1>a. TypeOK'
  <2>1. /\ status' \in [Filaments -> {"unused", "active", "destroyed"}]
        /\ children' \in [Filaments -> Seq(Threads)]
        /\ pc' \in [Threads -> PcValues]
    BY <1>1, <1>2 DEF IInv, TypeOK, PcValues
  <2>2. stack' \in [Threads -> Seq(Filaments)]
    BY <1>1, <1>5 DEF IInv, TypeOK
  <2> QED BY <2>1, <2>2, <1>1 DEF IInv, TypeOK
<1>b. ControlInv'
  <2>1. ASSUME NEW u \in Threads PROVE ControlOK(u)'
    <3>1. CASE u = t
      BY <3>1, <1>1, <1>2, <1>7 DEF IInv, ControlInv, ControlOK
    <3>2. CASE u # t
      BY <3>2, <1>1, <1>7 DEF IInv, ControlInv, ControlOK
    <3> QED BY <3>1, <3>2
  <2> QED BY <2>1 DEF ControlInv
<1>c. FrameInv'
  <2>1. ASSUME NEW u \in Threads PROVE FrameOK(u)'
    <3>1. CASE u = t
      <4> SUFFICES ASSUME stack'[t] # <<>> PROVE FrameOK(t)'
        BY <3>1 DEF FrameOK
      <4>1. n - 1 \in 1 .. n - 1 /\ n # 1 /\ n > 1
        <5>1. Len(stack'[t]) \in Nat /\ Len(stack'[t]) # 0
          BY <1>5
        <5> QED BY <5>1, <1>3, <1>5
      <4>2. tls[t] = prev[f] /\ t \in Callers
        BY <4>1, <1>1, <1>2 DEF IInv, FrameInv, FrameOK, f, n
      <4>3. prev[f] = stack[t][n - 1]
        BY <4>1, <1>3 DEF IInv, StackInv, n
      <4>4. tls[t] = Frame(t)'
        BY <4>1, <4>2, <4>3, <1>5 DEF Frame
      <4> QED BY <4>2, <4>4, <1>1, <1>2, <1>7 DEF FrameOK
    <3>2. CASE u # t
      BY <3>2, <1>1, <1>7 DEF IInv, FrameInv, FrameOK
    <3> QED BY <3>1, <3>2
  <2> QED BY <2>1 DEF FrameInv
<1>d. StackInv'
  <2>1. ASSUME NEW u \in Threads, NEW i \in 1 .. Len(stack'[u])
        PROVE  /\ status'[stack'[u][i]] = "active"
               /\ mainThread'[stack'[u][i]] = u
               /\ i > 1 => prev'[stack'[u][i]] = stack'[u][i - 1]
               /\ i = 1 /\ prev'[stack'[u][i]] # None => mainThread'[prev'[stack'[u][i]]] # u
               /\ \A j \in 1 .. Len(stack'[u]) : stack'[u][i] = stack'[u][j] => i = j
    <3>1. status'[stack'[u][i]] = "active"
      BY <1>6, <1>8 DEF IInv, StackInv
    <3>2. i > 1 => i - 1 \in 1 .. Len(stack'[u])
      <4>1. Len(stack'[u]) \in Nat
        BY <1>a DEF TypeOK
      <4> QED BY <4>1
    <3>3. i > 1 => prev'[stack'[u][i]] = stack'[u][i - 1]
      <4>1. i \in 1 .. Len(stack[u]) /\ stack'[u][i] = stack[u][i]
        BY <1>8
      <4>2. i > 1 => stack'[u][i - 1] = stack[u][i - 1]
        BY <3>2, <1>8
      <4>3. i > 1 => prev[stack[u][i]] = stack[u][i - 1]
        BY <4>1 DEF IInv, StackInv
      <4> QED BY <4>1, <4>2, <4>3, <1>1
    <3>4. ASSUME NEW j \in 1 .. Len(stack'[u]), stack'[u][i] = stack'[u][j] PROVE i = j
      <4>1. /\ i \in 1 .. Len(stack[u]) /\ stack'[u][i] = stack[u][i]
            /\ j \in 1 .. Len(stack[u]) /\ stack'[u][j] = stack[u][j]
        BY <1>8
      <4>2. stack[u][i] = stack[u][j]
        BY <4>1, <3>4
      <4> QED BY <4>1, <4>2, DistinctFact DEF IInv
    <3>5. /\ mainThread'[stack'[u][i]] = u
          /\ i = 1 /\ prev'[stack'[u][i]] # None => mainThread'[prev'[stack'[u][i]]] # u
      <4>1. i \in 1 .. Len(stack[u]) /\ stack'[u][i] = stack[u][i]
        BY <1>8
      <4>2. /\ mainThread[stack[u][i]] = u
            /\ i = 1 /\ prev[stack[u][i]] # None => mainThread[prev[stack[u][i]]] # u
        BY <4>1 DEF IInv, StackInv
      <4> QED BY <4>1, <4>2, <1>1
    <3> QED BY <3>1, <3>3, <3>4, <3>5
  <2>2. ASSUME NEW g \in Filaments, status'[g] = "active"
        PROVE  /\ mainThread'[g] \in Threads
               /\ \E i \in 1 .. Len(stack'[mainThread'[g]]) : stack'[mainThread'[g]][i] = g
    <3>1. status[g] = "active" /\ g # f /\ mainThread[g] \in Threads
      BY <2>2, <1>6 DEF IInv, StackInv
    <3>2. PICK i \in 1 .. Len(stack[mainThread[g]]) : stack[mainThread[g]][i] = g
      BY <3>1 DEF IInv, StackInv
    <3>3. CASE mainThread[g] = t
      <4>1. i \in 1 .. n /\ i # n
        BY <3>1, <3>2, <3>3, <1>3 DEF n
      <4>2. i \in 1 .. n - 1
        BY <4>1, <1>3
      <4> QED BY <4>2, <3>1, <3>2, <3>3, <1>1, <1>5
    <3>4. CASE mainThread[g] # t
      BY <3>1, <3>2, <3>4, <1>1, <1>7
    <3> QED BY <3>3, <3>4
  <2> QED BY <2>1, <2>2 DEF StackInv
<1>e. ChildInv'
  <2>1. ASSUME NEW u \in Threads, tls[u] # None
        PROVE  status'[tls[u]] = "active" /\ (mainThread[tls[u]] # u => u \in Joined(tls[u])')
    <3>1. tls[u] \in Filaments /\ tls[u] # f
      BY <2>1, <1>4 DEF IInv, TypeOK
    <3>2. status'[tls[u]] = status[tls[u]] /\ Joined(tls[u])' = Joined(tls[u])
      BY <3>1, <1>1, <1>6 DEF Joined
    <3> QED BY <3>2, <2>1 DEF IInv, ChildInv
  <2>2. ASSUME NEW u \in Threads, new[u] # None
        PROVE  /\ status'[new[u]] = "active"
               /\ pc'[u] = "publish" /\ mainThread[new[u]] # u => u \in Joined(new[u])'
    <3>1. new[u] \in Filaments /\ new[u] # f /\ u # t
      BY <2>2, <1>2, <1>4 DEF IInv, TypeOK
    <3>2. status'[new[u]] = status[new[u]] /\ Joined(new[u])' = Joined(new[u]) /\ pc'[u] = pc[u]
      BY <3>1, <1>1, <1>6, <1>7 DEF Joined
    <3> QED BY <3>2, <2>2 DEF IInv, ChildInv
  <2>3. ASSUME NEW g \in Filaments, status'[g] = "active", prev[g] # None
        PROVE  /\ status'[prev[g]] = "active"
               /\ mainThread[prev[g]] # mainThread[g] => mainThread[g] \in Joined(prev[g])'
    <3>1. status[g] = "active" /\ prev[g] \in Filaments /\ prev[g] # f
      BY <2>3, <1>4, <1>6 DEF IInv, TypeOK
    <3>2. status'[prev[g]] = status[prev[g]] /\ Joined(prev[g])' = Joined(prev[g])
      BY <3>1, <1>1, <1>6 DEF Joined
    <3> QED BY <3>1, <3>2, <2>3 DEF IInv, ChildInv
  <2> QED BY <2>1, <2>2, <2>3, <1>1 DEF ChildInv, Joined
<1>f. RunnerInv'
  BY <1>1, <1>6 DEF IInv, RunnerInv
<1>g. JoinInv'
  <2>1. ASSUME NEW u \in Threads, stack'[u] # <<>>, pc'[u] = "destroy" \/ op'[u] = "leave"
        PROVE  ChildrenTerminated(Frame(u))'
    <3>1. u # t
      BY <2>1, <1>1, <1>2, <1>7
    <3>2. /\ stack[u] # <<>> /\ Frame(u)' = Frame(u)
          /\ pc[u] = "destroy" \/ op[u] = "leave"
      BY <2>1, <3>1, <1>1, <1>7
    <3>3. Frame(u) \in Filaments /\ mainThread[Frame(u)] = u
      BY <3>2, FrameFact DEF IInv
    <3>4. Joined(Frame(u))' = Joined(Frame(u))
      <4>1. Frame(u) # f
        BY <3>1, <3>3, <1>2
      <4>2. children'[Frame(u)] = children[Frame(u)]
        BY <4>1, <3>3, <1>1 DEF IInv, TypeOK
      <4> QED BY <4>2, <3>2 DEF Joined
    <3>5. \A c \in Joined(Frame(u)) : c \in Threads /\ pc[c] = "dead"
      BY <3>2, <3>3 DEF IInv, TypeOK, JoinInv, JoinOK, ChildrenTerminated, Joined
    <3>6. \A c \in Joined(Frame(u)) : pc'[c] = "dead"
      BY <3>5, <1>1, <1>7
    <3> QED BY <3>4, <3>6 DEF ChildrenTerminated
  <2> QED BY <2>1 DEF JoinInv, JoinOK
<1>h. StartInv'
  BY <1>1, <1>2, <1>7 DEF IInv, StartInv, StartOK
<1>i. DefaultInv'
  <2>1. default # None => status'[default] = "active"
    <3>1. default # None => default \in Filaments
      BY DEF IInv, TypeOK
    <3> QED BY <3>1, <1>4, <1>6 DEF IInv, DefaultInv
  <2>2. \A g \in DefaultFilaments : status'[g] = "active" => status[g] = "active"
    BY <1>6, FilamentsAssumption
  <2>3. \A u \in Threads : Deriving(u)' => Deriving(u)
    BY <1>1, <1>7 DEF Deriving
  <2>4. Returning(default)' => Returning(default)
    BY <1>1, <1>2, <1>7 DEF Returning, InRoutine
  <2> QED BY <2>1, <2>2, <2>3, <2>4, <1>1 DEF IInv, DefaultInv, LockHeldToDerive
<1> QED BY <1>a, <1>b, <1>c, <1>d, <1>e, <1>f, <1>g, <1>h, <1>i DEF IInv

-----------------------------------------------------------------------------
(***************************************************************************)
(* The theorems.                                                           *)
(***************************************************************************)

\* The invariant holds initially.
LEMMA InitInv == Init => IInv
<1> SUFFICES ASSUME Init PROVE IInv
  OBVIOUS
<1>1. TypeOK
  <2>1. \A t \in Threads : pc[t] \in PcValues
    BY DEF Init, PcValues
  <2> QED BY <2>1 DEF Init, TypeOK, OpValues
<1>2. \A t \in Threads : /\ stack[t] = <<>> /\ op[t] = "none" /\ new[t] = None
                         /\ tls[t] = None /\ pc[t] \in {"absent", "user"}
  BY DEF Init
<1>3. \A f \in Filaments : status[f] = "unused"
  BY DEF Init
<1>4. default = None /\ lockOwner = None /\ lockDepth = 0
  BY DEF Init
<1>5. ControlInv /\ FrameInv /\ JoinInv /\ StartInv
  BY <1>2 DEF ControlInv, ControlOK, FrameInv, FrameOK, JoinInv, JoinOK, StartInv, StartOK
<1>6. StackInv /\ ChildInv
  BY <1>2, <1>3 DEF StackInv, ChildInv
<1>7. RunnerInv
  BY <1>2, <1>3 DEF RunnerInv, Threads
<1>8. DefaultInv
  BY <1>2, <1>3, <1>4, FilamentsAssumption DEF DefaultInv, LockHeldToDerive
<1> QED BY <1>1, <1>5, <1>6, <1>7, <1>8 DEF IInv

\* Steps of others leave the invariant alone.
LEMMA StutterInv ==
  ASSUME IInv, UNCHANGED vars
  PROVE  IInv'
<1>1. UNCHANGED <<pc, op, new, tls, derived, stack, parent, status, mainThread, prev, children,
                  default, lockOwner, lockDepth, refs>>
  BY DEF vars, threadVars, filamentVars, lockVars
<1>2. TypeOK' /\ StackInv' /\ RunnerInv'
  BY <1>1 DEF IInv, TypeOK, StackInv, RunnerInv
<1>3. ControlInv' /\ FrameInv' /\ StartInv'
  BY <1>1 DEF IInv, ControlInv, ControlOK, FrameInv, FrameOK, StartInv, StartOK, Frame
<1>4. ChildInv' /\ JoinInv'
  BY <1>1 DEF IInv, ChildInv, JoinInv, JoinOK, ChildrenTerminated, Joined, Frame
<1>5. DefaultInv'
  BY <1>1 DEF IInv, DefaultInv, LockHeldToDerive, Deriving, Returning, InRoutine, Frame
<1> QED BY <1>2, <1>3, <1>4, <1>5 DEF IInv

\* One case per action.
LEMMA NextInv ==
  ASSUME Disciplined, IInv, [Next]_vars
  PROVE  IInv'
<1>1. CASE UNCHANGED vars
  BY <1>1, StutterInv
<1>2. ASSUME NEW t \in Threads, Step(t) PROVE IInv'
  <2>1. ASSUME NEW f \in Filaments, RunTestRoutine(t, f) PROVE IInv'
    BY <2>1, RunTestRoutineInv
  <2>2. CASE RegisterChildThread(t)
    BY <2>2, RegisterChildThreadInv
  <2>3. CASE DuplicateHandleFails(t)
    BY <2>3, DuplicateHandleFailsInv
  <2>4. CASE SkipRegistration(t)
    BY <2>4, SkipRegistrationInv
  <2>5. CASE DefaultFilamentConflict(t)
    BY <2>5, DefaultFilamentConflictInv
  <2>6. CASE PublishFilament(t)
    BY <2>6, PublishFilamentInv
  <2>7. CASE JoinBegin(t)
    BY <2>7, JoinBeginInv
  <2>8. CASE JoinEnd(t)
    BY <2>8, JoinEndInv
  <2>9. CASE DestroyFilament(t)
    BY <2>9, DestroyFilamentInv
  <2>10. ASSUME NEW w \in Workers, CreateThread(t, w) PROVE IInv'
    BY <2>10, CreateThreadInv
  <2>11. CASE InitializationCompleted(t)
    BY <2>11, InitializationCompletedInv
  <2>12. CASE ThreadFinish(t)
    BY <2>12, ThreadFinishInv
  <2>13. CASE CheckDefaultFilament(t)
    BY <2>13, CheckDefaultFilamentInv
  <2>14. CASE DeriveDefaultFilament(t)
    BY <2>14, DeriveDefaultFilamentInv
  <2>15. CASE ThreadDetach(t)
    BY <2>15, ThreadDetachInv
  <2> QED BY <1>2, <2>1, <2>2, <2>3, <2>4, <2>5, <2>6, <2>7, <2>8, <2>9, <2>10, <2>11,
             <2>12, <2>13, <2>14, <2>15 DEF Step
<1> QED BY <1>1, <1>2 DEF Next

\* The invariant holds in every state of a disciplined use of the library.
THEOREM Invariance == ASSUME Disciplined PROVE Spec => []IInv
<1>1. Init => IInv
  BY InitInv
<1>2. IInv /\ [Next]_vars => IInv'
  BY NextInv
<1> QED BY <1>1, <1>2, PTL DEF Spec

\* No thread is left with a pointer to a filament whose frame on the stack of
\* CfixsRunTestRoutine is gone: for any number of threads, routines and nesting,
\* and any capacity of ChildThreads.
THEOREM NoDangling == ASSUME Disciplined PROVE Spec => []NoDanglingFilament
<1>1. IInv => NoDanglingFilament
  BY DEF IInv, ChildInv, NoDanglingFilament
<1> QED BY <1>1, Invariance, PTL

\* CfixsDefaultFilament.Filament is NULL or the filament in the TLS slot of a
\* thread whose routine is still active.
THEOREM DefaultLive == ASSUME Disciplined PROVE Spec => []DefaultIsLive
<1>1. IInv => DefaultIsLive
  BY DEF IInv, DefaultInv, DefaultIsLive
<1> QED BY <1>1, Invariance, PTL

\* CfixCreateThread2 does not return, and its caller keeps its filament, before
\* the new thread has evaluated its start parameters and registered.
THEOREM CreatorIsWaiting == ASSUME Disciplined PROVE Spec => []CreatorWaits
<1>1. IInv => CreatorWaits
  <2> SUFFICES ASSUME IInv, NEW w \in Workers, op[w] = "start"
               PROVE  /\ parent[w] # None /\ pc[parent[w]] = "waitInit"
                      /\ tls[parent[w]] = new[w]
    BY DEF CreatorWaits
  <2>1. w \in Threads
    BY DEF Threads
  <2> QED BY <2>1, FilamentsAssumption DEF IInv, StartInv, StartOK
<1> QED BY <1>1, Invariance, PTL

\* The critical section of the default filament is held by a thread that is
\* taking the default filament, once, and by nobody else.
THEOREM LockIsHeldToDerive == ASSUME Disciplined PROVE Spec => []LockHeldToDerive
<1>1. IInv => LockHeldToDerive
  BY DEF IInv, DefaultInv
<1> QED BY <1>1, Invariance, PTL

\* CfixpDestroyFilament runs after every thread in ChildThreads has terminated.
THEOREM JoinsAll == ASSUME Disciplined PROVE Spec => AutoJoin
<1>1. ASSUME IInv, [Next]_vars, NEW f \in Filaments,
             status[f] = "active", status'[f] = "destroyed"
      PROVE  \A c \in Joined(f) : pc[c] = "dead"
  <2>1. status' # status
    BY <1>1
  <2>2. PICK t \in Threads : Step(t)
    BY <1>1, <2>1 DEF Next, vars, filamentVars
  <2>3. CASE DestroyFilament(t)
    <3>1. pc[t] = "destroy" /\ stack[t] # <<>> /\ f = Frame(t)
      BY <2>3, <1>1 DEF DestroyFilament, IInv, TypeOK, ControlInv, ControlOK
    <3> QED BY <3>1, <1>1 DEF IInv, JoinInv, JoinOK, ChildrenTerminated
  <2>4. ASSUME NEW g \in Filaments, RunTestRoutine(t, g) PROVE FALSE
    BY <2>4, <1>1 DEF RunTestRoutine, IInv, TypeOK
  <2>5. CASE UNCHANGED status
    BY <2>5, <2>1
  <2>6. \/ \E g \in Filaments : RunTestRoutine(t, g)
        \/ DestroyFilament(t)
        \/ UNCHANGED status
    BY <2>2 DEF Step, filamentVars, RegisterChildThread, DuplicateHandleFails,
       SkipRegistration, DefaultFilamentConflict, PublishFilament, JoinBegin, JoinEnd,
       CreateThread, InitializationCompleted, ThreadFinish, CheckDefaultFilament,
       DeriveDefaultFilament, ThreadDetach
  <2> QED BY <2>3, <2>4, <2>5, <2>6
<1>2. IInv /\ [Next]_vars =>
        [\A f \in Filaments : status[f] = "active" /\ status'[f] = "destroyed"
                                 => \A c \in Joined(f) : pc[c] = "dead"]_vars
  BY <1>1
<1> QED BY <1>2, Invariance, PTL DEF Spec, AutoJoin


-----------------------------------------------------------------------------
(***************************************************************************)
(* On top of IInv: the references to execution contexts are exact, threads *)
(* created by CfixCreateThread run registered, and the default filament is *)
(* available while its own routine runs.                                   *)
(***************************************************************************)

\* Test code that CfixCreateThread starts does not run test routines itself.
RunnersOnly == Callers \subseteq Runners

\* One thread at a time runs test routines, as the test runner does: the default
\* filament is one for the whole process.
SoleCaller == \A x, y \in Callers : x = y

\* A worker's code runs with a filament, so that it never looks for the default
\* filament.
RegisteredInv ==
    \A w \in Workers : /\ pc[w] \in {"user", "waitInit"} => tls[w] # None
                       /\ ~ Deriving(w)

\* The default filament is published while its routine runs, and given back
\* before a nested routine is popped.
AvailableOK(t) ==
    stack[t] # <<>> =>
        /\ pc[t] \in {"user", "waitInit"} /\ Frame(t) \in DefaultFilaments => default = Frame(t)
        /\ pc[t] = "destroy" /\ Len(stack[t]) > 1 /\ prev[Frame(t)] \in DefaultFilaments
              => default = prev[Frame(t)]

AvailableInv == \A t \in Threads : AvailableOK(t)

-----------------------------------------------------------------------------
(***************************************************************************)
(* References to execution contexts.                                       *)
(***************************************************************************)

Holders(c) == {t \in Threads : Held(t) # None /\ ContextOf[Held(t)] = c}

\* Threads are finite in number, so that references can be counted.
LEMMA HoldersFinite ==
  ASSUME NEW c
  PROVE  IsFiniteSet(Holders(c)) /\ Cardinality(Holders(c)) \in Nat
<1>1. Holders(c) \subseteq Threads
  BY DEF Holders
<1> QED BY <1>1, ThreadsAssumption, FS_Subset, FS_CardinalityType

\* What a thread holds is a filament or nothing.
LEMMA HeldType ==
  ASSUME TypeOK, NEW t \in Threads
  PROVE  Held(t) \in Filaments \cup {None}
BY DEF TypeOK, Held

\* Nobody takes or drops a reference.
LEMMA HeldSame ==
  ASSUME ContextsBalanced, refs' = refs, \A u \in Threads : Held(u)' = Held(u)
  PROVE  ContextsBalanced'
<1>1. \A c : Holders(c)' = Holders(c)
  BY DEF Holders
<1> QED BY <1>1 DEF ContextsBalanced, Holders

\* CfixsSetCurrentFilament drops the reference to the old filament's context.
LEMMA HeldDropped ==
  ASSUME TypeOK, ContextsBalanced, NEW t \in Threads, Dereference(Held(t)), Held(t)' = None,
         \A u \in Threads \ {t} : Held(u)' = Held(u)
  PROVE  ContextsBalanced'
<1> SUFFICES ASSUME NEW c \in Contexts PROVE refs'[c] = Cardinality(Holders(c)')
  BY DEF ContextsBalanced, Holders
<1>1. refs[c] = Cardinality(Holders(c))
  BY DEF ContextsBalanced, Holders
<1>2. Holders(c)' = Holders(c) \ {t}
  BY DEF Holders
<1>3. t \in Holders(c) <=> Held(t) # None /\ c = ContextOf[Held(t)]
  BY DEF Holders
<1>4. refs'[c] = IF t \in Holders(c) THEN refs[c] - 1 ELSE refs[c]
  BY <1>3 DEF Dereference
<1>5. Cardinality(Holders(c) \ {t}) = IF t \in Holders(c) THEN Cardinality(Holders(c)) - 1 ELSE Cardinality(Holders(c))
  BY HoldersFinite, FS_RemoveElement
<1> QED BY <1>1, <1>2, <1>4, <1>5

\* CfixsSetCurrentFilament takes a reference to the new filament's context.
LEMMA HeldTaken ==
  ASSUME TypeOK, ContextsBalanced, NEW t \in Threads, NEW f, Reference(f), Held(t) = None, Held(t)' = f,
         \A u \in Threads \ {t} : Held(u)' = Held(u)
  PROVE  ContextsBalanced'
<1> SUFFICES ASSUME NEW c \in Contexts PROVE refs'[c] = Cardinality(Holders(c)')
  BY DEF ContextsBalanced, Holders
<1>1. refs[c] = Cardinality(Holders(c)) /\ t \notin Holders(c)
  BY DEF ContextsBalanced, Holders
<1>2. CASE f # None /\ c = ContextOf[f]
  <2>1. Holders(c)' = Holders(c) \cup {t}
    BY <1>2 DEF Holders
  <2>2. Cardinality(Holders(c) \cup {t}) = Cardinality(Holders(c)) + 1
    BY <1>1, HoldersFinite, FS_AddElement
  <2>3. refs'[c] = refs[c] + 1
    BY <1>2 DEF Reference
  <2> QED BY <1>1, <2>1, <2>2, <2>3
<1>3. CASE ~ (f # None /\ c = ContextOf[f])
  <2>1. Holders(c)' = Holders(c)
    BY <1>1, <1>3 DEF Holders
  <2>2. refs'[c] = refs[c]
    BY <1>3 DEF Reference
  <2> QED BY <1>1, <2>1, <2>2
<1> QED BY <1>2, <1>3

\* A call of CfixsSetCurrentFilament begins in code that holds the filament of
\* the TLS slot.
LEMMA CallDrops ==
  ASSUME IInv, ContextsBalanced, NEW t \in Threads, NEW f, NEW o, SetCurrentFilament(t, f, o),
         pc[t] \notin {"set", "publish"}, tls' = tls
  PROVE  ContextsBalanced'
<1>1. Held(t) = tls[t] /\ Held(t)' = None
  BY DEF Held, SetCurrentFilament, IInv, TypeOK
<1>2. \A u \in Threads \ {t} : Held(u)' = Held(u)
  BY DEF Held, SetCurrentFilament, IInv, TypeOK
<1> QED BY <1>1, <1>2, HeldDropped DEF SetCurrentFilament, IInv

\* Steps outside CfixsSetCurrentFilament take and drop nothing.
LEMMA OutsideCalls ==
  ASSUME ContextsBalanced, refs' = refs, tls' = tls,
         \A u \in Threads : \/ pc'[u] = pc[u] /\ new'[u] = new[u]
                            \/ pc[u] \notin {"set", "publish"} /\ pc'[u] \notin {"set", "publish"}
                            \/ tls[u] = None /\ pc[u] # "publish" /\ pc'[u] # "publish"
  PROVE  ContextsBalanced'
<1>1. \A u \in Threads : Held(u)' = Held(u)
  BY DEF Held
<1> QED BY <1>1, HeldSame

\* Registration, its failure for a full table, and publication.
LEMMA InsideCalls ==
  ASSUME IInv, ContextsBalanced, NEW t \in Threads,
         RegisterChildThread(t) \/ SkipRegistration(t) \/ PublishFilament(t)
  PROVE  ContextsBalanced'
<1>1. \A o \in OpValues : AfterSuccess[o] \in {"user", "dead", "destroy"} /\ AfterFailure[o] \in {"user", "dead", "destroy"}
  BY DEF AfterSuccess, AfterFailure, OpValues
<1>2. op[t] \in OpValues
  BY DEF IInv, TypeOK
<1>3. CASE RegisterChildThread(t) /\ Len(children[new[t]]) = MaxThreads
  <2>1. /\ pc[t] = "set" /\ pc' = [pc EXCEPT ![t] = AfterFailure[op[t]]] /\ tls' = [tls EXCEPT ![t] = None]
        /\ new' = [new EXCEPT ![t] = None] /\ refs' = refs
    BY <1>3 DEF RegisterChildThread, Resume
  <2>2. Held(t)' = None /\ Held(t) = None
    BY <1>1, <1>2, <2>1 DEF IInv, TypeOK, Held
  <2>3. \A u \in Threads \ {t} : Held(u)' = Held(u)
    BY <2>1 DEF IInv, TypeOK, Held
  <2> QED BY <2>1, <2>2, <2>3, HeldSame
<1>4. CASE (RegisterChildThread(t) /\ Len(children[new[t]]) # MaxThreads) \/ SkipRegistration(t)
  <2>1. pc[t] = "set" /\ pc' = [pc EXCEPT ![t] = "publish"] /\ new' = new /\ tls' = tls /\ Reference(new[t])
    BY <1>4 DEF RegisterChildThread, SkipRegistration
  <2>2. Held(t) = None /\ Held(t)' = new[t]
    BY <2>1 DEF IInv, TypeOK, Held
  <2>3. \A u \in Threads \ {t} : Held(u)' = Held(u)
    BY <2>1 DEF IInv, TypeOK, Held
  <2> QED BY <2>1, <2>2, <2>3, HeldTaken DEF IInv
<1>5. CASE PublishFilament(t)
  <2>1. /\ pc[t] = "publish" /\ pc' = [pc EXCEPT ![t] = AfterSuccess[op[t]]] /\ tls' = [tls EXCEPT ![t] = new[t]]
        /\ new' = [new EXCEPT ![t] = None] /\ refs' = refs
    BY <1>5 DEF PublishFilament, Resume
  <2>2. Held(t)' = new[t] /\ Held(t) = new[t]
    BY <1>1, <1>2, <2>1 DEF IInv, TypeOK, Held
  <2>3. \A u \in Threads \ {t} : Held(u)' = Held(u)
    BY <2>1 DEF IInv, TypeOK, Held
  <2> QED BY <2>1, <2>2, <2>3, HeldSame
<1> QED BY <1>3, <1>4, <1>5

\* DuplicateHandle fails for threads that have no filament to go back to.
LEMMA FailsWithout ==
  ASSUME IInv, Disciplined, NEW t \in Threads, DuplicateHandleFails(t)
  PROVE  tls[t] = None /\ op[t] \in {"start", "derive"}
<1>1. pc[t] = "set" /\ IsChild(t) /\ Callers \subseteq Runners
  BY DEF DuplicateHandleFails, Disciplined
<1>2. op[t] \in {"leave", "start", "derive"}
  BY <1>1, RegistersAs
<1>3. ASSUME op[t] = "leave" PROVE FALSE
  <2>1. stack[t] # <<>> /\ t \in Runners
    BY <1>1, <1>3 DEF IInv, ControlInv, ControlOK, FrameInv, FrameOK
  <2> QED BY <1>1, <1>3, <2>1, FrameFact DEF IInv, FrameInv, FrameOK, RunnerInv, IsChild
<1> QED BY <1>2, <1>3 DEF IInv, ControlInv, ControlOK

\* Every step of the library keeps the references exact.
LEMMA BalancedStep ==
  ASSUME IInv, ContextsBalanced, Disciplined, [Next]_vars
  PROVE  ContextsBalanced'
<1>1. CASE UNCHANGED vars
  BY <1>1, OutsideCalls DEF vars, threadVars
<1>2. ASSUME NEW t \in Threads, Step(t) PROVE ContextsBalanced'
  <2>1. CASE \/ \E f \in Filaments : RunTestRoutine(t, f)
             \/ JoinEnd(t) \/ ThreadFinish(t)
             \/ DeriveDefaultFilament(t) /\ default # None
             \/ ThreadDetach(t) /\ tls[t] # None
    <3>1. /\ pc[t] \notin {"set", "publish"} /\ tls' = tls
          /\ \E f, o : SetCurrentFilament(t, f, o)
      BY <2>1 DEF RunTestRoutine, JoinEnd, ThreadFinish, DeriveDefaultFilament, ThreadDetach
    <3> QED BY <3>1, CallDrops
  <2>2. CASE \/ JoinBegin(t) \/ DestroyFilament(t) \/ InitializationCompleted(t) \/ CheckDefaultFilament(t)
             \/ DeriveDefaultFilament(t) /\ default = None
             \/ ThreadDetach(t) /\ tls[t] = None
    <3>1. /\ pc[t] \notin {"set", "publish"} /\ refs' = refs /\ tls' = tls /\ new' = new
          /\ \E p \in {"joining", "user", "derive", "dead"} : pc' = [pc EXCEPT ![t] = p]
      BY <2>2 DEF JoinBegin, DestroyFilament, InitializationCompleted, CheckDefaultFilament,
                  DeriveDefaultFilament, ThreadDetach
    <3>2. \A u \in Threads : \/ pc'[u] = pc[u] /\ new'[u] = new[u]
                             \/ pc[u] \notin {"set", "publish"} /\ pc'[u] \notin {"set", "publish"}
      BY <3>1 DEF IInv, TypeOK
    <3> QED BY <3>1, <3>2, OutsideCalls
  <2>3. ASSUME NEW w \in Workers, CreateThread(t, w) PROVE ContextsBalanced'
    <3>1. /\ pc[t] = "user" /\ pc[w] = "absent" /\ refs' = refs /\ tls' = tls
          /\ pc' = [pc EXCEPT ![t] = "waitInit", ![w] = "set"] /\ new' = [new EXCEPT ![w] = tls[t]]
      BY <2>3 DEF CreateThread
    <3>2. w \in Threads /\ tls[w] = None /\ w # t
      BY <3>1 DEF Threads, IInv, ControlInv, ControlOK
    <3>3. \A u \in Threads : \/ pc'[u] = pc[u] /\ new'[u] = new[u]
                             \/ pc[u] \notin {"set", "publish"} /\ pc'[u] \notin {"set", "publish"}
                             \/ tls[u] = None /\ pc[u] # "publish" /\ pc'[u] # "publish"
      BY <3>1, <3>2 DEF IInv, TypeOK
    <3> QED BY <3>1, <3>3, OutsideCalls
  <2>4. CASE DuplicateHandleFails(t)
    <3>1. /\ pc[t] = "set" /\ pc' = [pc EXCEPT ![t] = AfterFailure[op[t]]] /\ refs' = refs /\ tls' = tls
          /\ new' = [new EXCEPT ![t] = None]
      BY <2>4 DEF DuplicateHandleFails, Resume
    <3>2. tls[t] = None
      BY <2>4, FailsWithout
    <3>3. AfterFailure[op[t]] \in {"user", "dead", "destroy"}
      BY DEF AfterFailure, OpValues, IInv, TypeOK
    <3>4. \A u \in Threads : \/ pc'[u] = pc[u] /\ new'[u] = new[u]
                             \/ tls[u] = None /\ pc[u] # "publish" /\ pc'[u] # "publish"
      BY <3>1, <3>2, <3>3 DEF IInv, TypeOK
    <3> QED BY <3>1, <3>4, OutsideCalls
  <2>5. CASE RegisterChildThread(t) \/ SkipRegistration(t) \/ PublishFilament(t)
    BY <2>5, InsideCalls
  <2>6. ~ DefaultFilamentConflict(t)
    BY DefaultFilamentConflictInv
  <2> QED BY <1>2, <2>1, <2>2, <2>3, <2>4, <2>5, <2>6 DEF Step
<1> QED BY <1>1, <1>2 DEF Next

\* Without a routine nobody holds a reference.
LEMMA BalancedInit == Init => ContextsBalanced
<1> SUFFICES ASSUME Init, NEW c \in Contexts PROVE refs[c] = Cardinality(Holders(c))
  BY DEF ContextsBalanced, Holders
<1>1. refs[c] = 0
  BY DEF Init
<1>2. \A t \in Threads : pc[t] \in {"user", "absent"} /\ tls[t] = None
  BY DEF Init
<1>3. Holders(c) = {}
  BY <1>2 DEF Holders, Held
<1>4. Cardinality({}) = 0
  BY FS_EmptySet
<1> QED BY <1>1, <1>3, <1>4

\* CfixsSetCurrentFilament: the references to an execution context are those of
\* the threads that use its filaments, whatever fails and however routines nest.
THEOREM ContextsAreBalanced == ASSUME Disciplined PROVE Spec => []ContextsBalanced
<1>1. Init => ContextsBalanced
  BY BalancedInit
<1>2. IInv /\ ContextsBalanced /\ [Next]_vars => ContextsBalanced'
  BY BalancedStep
<1> QED BY <1>1, <1>2, Invariance, PTL DEF Spec

-----------------------------------------------------------------------------
(***************************************************************************)
(* Threads created by CfixCreateThread.                                    *)
(***************************************************************************)

\* A worker gets its filament before its code runs and keeps it to the end.
LEMMA RegisteredStep ==
  ASSUME IInv, RegisteredInv, Disciplined, RunnersOnly, [Next]_vars
  PROVE  RegisteredInv'
<1> SUFFICES ASSUME NEW w \in Workers
             PROVE  (pc'[w] \in {"user", "waitInit"} => tls'[w] # None) /\ ~ Deriving(w)'
  BY DEF RegisteredInv
<1>1. /\ w \in Threads /\ w \notin Callers /\ stack[w] = <<>> /\ op[w] \notin {"enter", "leave"}
      /\ pc[w] \notin {"joining", "destroy", "derive"} /\ op[w] # "derive" /\ op[w] \in OpValues
  BY ThreadsAssumption DEF Threads, RunnersOnly, IInv, TypeOK, FrameInv, FrameOK, ControlInv, ControlOK, RegisteredInv, Deriving
<1>2. pc[w] \in {"user", "waitInit"} => tls[w] # None
  BY DEF RegisteredInv
<1>3. CASE pc'[w] = pc[w] /\ tls'[w] = tls[w] /\ op'[w] = op[w]
  BY <1>1, <1>2, <1>3 DEF Deriving
<1>4. ASSUME NEW t \in Threads, Step(t), t # w PROVE (pc'[w] = pc[w] /\ tls'[w] = tls[w] /\ op'[w] = op[w]) \/ (pc'[w] = "set" /\ op'[w] = "start")
  BY <1>1, <1>4 DEF Step, RunTestRoutine, RegisterChildThread, DuplicateHandleFails, SkipRegistration,
     DefaultFilamentConflict, PublishFilament, JoinBegin, JoinEnd, DestroyFilament, CreateThread,
     InitializationCompleted, ThreadFinish, CheckDefaultFilament, DeriveDefaultFilament, ThreadDetach,
     SetCurrentFilament, Resume, IInv, TypeOK
<1>5. CASE Step(w)
  <2>1. ~ (\/ \E f \in Filaments : RunTestRoutine(w, f)
           \/ JoinBegin(w) \/ JoinEnd(w) \/ DestroyFilament(w) \/ CheckDefaultFilament(w)
           \/ DeriveDefaultFilament(w) \/ ThreadDetach(w) \/ DefaultFilamentConflict(w))
    BY <1>1, <1>2, DefaultFilamentConflictInv, ThreadsAssumption DEF RunTestRoutine, JoinBegin, JoinEnd, DestroyFilament,
       CheckDefaultFilament, DeriveDefaultFilament, ThreadDetach, InRoutine
  <2>2. CASE RegisterChildThread(w) \/ DuplicateHandleFails(w)
    <3>1. IsChild(w) /\ pc[w] = "set"
      BY <2>2 DEF RegisterChildThread, DuplicateHandleFails
    <3>2. op[w] = "start"
      BY <1>1, <3>1, RegistersAs
    <3>3. AfterFailure["start"] = "dead"
      BY DEF AfterFailure, OpValues
    <3>4. (pc'[w] = "dead" /\ op'[w] = "none") \/ (pc'[w] = "publish" /\ op'[w] = "start")
      BY <1>1, <2>2, <3>2, <3>3 DEF RegisterChildThread, DuplicateHandleFails, Resume, IInv, TypeOK
    <3> QED BY <3>4 DEF Deriving
  <2>3. CASE SkipRegistration(w)
    <3>1. pc'[w] = "publish" /\ op'[w] = op[w]
      BY <1>1, <2>3 DEF SkipRegistration, IInv, TypeOK
    <3> QED BY <1>1, <3>1 DEF Deriving
  <2>4. CASE PublishFilament(w)
    <3>1. op[w] \in {"start", "finish"}
      BY <1>1, <2>4 DEF PublishFilament, OpValues, IInv, ControlInv, ControlOK
    <3>2. AfterSuccess["start"] = "user" /\ AfterSuccess["finish"] = "dead"
      BY DEF AfterSuccess, OpValues
    <3>3. op[w] = "start" => new[w] # None
      BY <1>1 DEF IInv, ControlInv, ControlOK
    <3>4. pc'[w] = AfterSuccess[op[w]] /\ op'[w] = "none" /\ tls'[w] = new[w]
      BY <1>1, <2>4 DEF PublishFilament, Resume, IInv, TypeOK
    <3> QED BY <3>1, <3>2, <3>3, <3>4 DEF Deriving
  <2>5. ASSUME NEW v \in Workers, CreateThread(w, v) PROVE pc'[w] \in {"waitInit", "set"} /\ tls'[w] # None /\ ~ Deriving(w)'
    <3>1. /\ tls[w] # None /\ tls' = tls /\ pc[w] = "user" /\ pc[v] = "absent"
          /\ pc' = [pc EXCEPT ![w] = "waitInit", ![v] = "set"] /\ op' = [op EXCEPT ![v] = "start"]
      BY <2>5 DEF CreateThread
    <3>2. v # w /\ v \in Threads
      BY <3>1 DEF Threads
    <3>3. pc'[w] = "waitInit" /\ op'[w] = op[w]
      BY <1>1, <3>1, <3>2 DEF IInv, TypeOK
    <3> QED BY <1>1, <3>1, <3>3 DEF Deriving
  <2>6. CASE InitializationCompleted(w)
    <3>1. pc[w] = "waitInit" /\ pc'[w] = "user" /\ tls' = tls /\ op' = op
      BY <1>1, <2>6 DEF InitializationCompleted, IInv, TypeOK
    <3> QED BY <1>1, <1>2, <3>1 DEF Deriving
  <2>7. CASE ThreadFinish(w)
    <3>1. pc'[w] = "set" /\ op'[w] = "finish"
      BY <1>1, <2>7 DEF ThreadFinish, SetCurrentFilament, IInv, TypeOK
    <3> QED BY <3>1 DEF Deriving
  <2> QED BY <1>5, <2>1, <2>2, <2>3, <2>4, <2>5, <2>6, <2>7 DEF Step
<1>6. CASE UNCHANGED vars
  BY <1>3, <1>6 DEF vars, threadVars
<1> QED BY <1>3, <1>4, <1>5, <1>6 DEF Next, Deriving

\* CfixsThreadStart: the start routine of a thread created by CfixCreateThread
\* runs as a registered child of the filament in its TLS slot, or not at all.
THEOREM RunsRegisteredHolds == ASSUME Disciplined, RunnersOnly PROVE Spec => []RunsRegistered
<1>1. Init => RegisteredInv
  <2>1. Init => \A w \in Workers : w \in Threads /\ pc[w] = "absent" /\ op[w] = "none"
    BY DEF Init, Threads
  <2> QED BY <2>1 DEF RegisteredInv, Deriving
<1>2. IInv /\ RegisteredInv /\ [Next]_vars => RegisteredInv'
  BY RegisteredStep
<1>3. IInv /\ RegisteredInv => RunsRegistered
  <2> SUFFICES ASSUME IInv, RegisteredInv, NEW w \in Workers, pc[w] \in {"user", "waitInit"}, stack[w] = <<>>
               PROVE  tls[w] # None /\ w \in Joined(tls[w])
    BY DEF RunsRegistered, InRoutine
  <2>1. w \in Threads /\ tls[w] # None /\ tls[w] \in Filaments /\ status[tls[w]] = "active"
    BY DEF Threads, RegisteredInv, IInv, TypeOK, ChildInv
  <2>2. mainThread[tls[w]] # w
    BY <2>1, MainFact DEF IInv
  <2> QED BY <2>1, <2>2 DEF IInv, ChildInv
<1> QED BY <1>1, <1>2, <1>3, Invariance, PTL DEF Spec

-----------------------------------------------------------------------------
(***************************************************************************)
(* The default filament.                                                   *)
(***************************************************************************)

\* The filament below a nested routine's is the one its thread comes back to.
LEMMA BelowFact ==
  ASSUME IInv, NEW t \in Threads, Len(stack[t]) > 1
  PROVE  /\ stack[t] # <<>> /\ Len(stack[t]) - 1 \in 1 .. Len(stack[t])
         /\ prev[Frame(t)] = stack[t][Len(stack[t]) - 1]
         /\ prev[Frame(t)] \in Filaments /\ prev[Frame(t)] # None
         /\ mainThread[prev[Frame(t)]] = t /\ status[prev[Frame(t)]] = "active"
<1>1. stack[t] \in Seq(Filaments) /\ Len(stack[t]) \in Nat
  BY DEF IInv, TypeOK
<1>2. stack[t] # <<>> /\ Len(stack[t]) \in 1 .. Len(stack[t]) /\ Len(stack[t]) - 1 \in 1 .. Len(stack[t])
  BY <1>1
<1>3. prev[Frame(t)] = stack[t][Len(stack[t]) - 1]
  BY <1>2 DEF IInv, StackInv, Frame
<1>4. stack[t][Len(stack[t]) - 1] \in Filaments
  BY <1>1, <1>2
<1> QED BY <1>2, <1>3, <1>4, FilamentsAssumption DEF IInv, StackInv

\* A default filament is at the bottom of its thread's stack.
LEMMA BottomFact ==
  ASSUME IInv, NEW t \in Threads, NEW i \in 1 .. Len(stack[t]), stack[t][i] \in DefaultFilaments
  PROVE  i = 1
<1>1. Len(stack[t]) \in Nat /\ stack[t] \in Seq(Filaments)
  BY DEF IInv, TypeOK
<1>2. status[stack[t][i]] = "active" /\ (i > 1 => prev[stack[t][i]] = stack[t][i - 1])
  BY DEF IInv, StackInv
<1>3. prev[stack[t][i]] = None
  BY <1>2 DEF IInv, DefaultInv
<1>4. i > 1 => i - 1 \in 1 .. Len(stack[t])
  BY <1>1
<1>5. i > 1 => stack[t][i - 1] \in Filaments
  BY <1>1, <1>4
<1> QED BY <1>1, <1>2, <1>3, <1>5, FilamentsAssumption

\* No other thread revokes or replaces the default filament while its routine
\* runs or is about to be resumed: they all belong to the filament of a routine
\* that is active on the only thread that runs routines.
LEMMA OthersKeepDefault ==
  ASSUME IInv, SoleCaller, NEW t \in Threads, NEW u \in Threads, u # t, PublishFilament(u), stack[t] # <<>>,
         \/ pc[t] \in {"user", "waitInit"} /\ Frame(t) \in DefaultFilaments
         \/ pc[t] = "destroy" /\ Len(stack[t]) > 1 /\ prev[Frame(t)] \in DefaultFilaments
  PROVE  default' = default
<1>1. pc[u] = "publish" /\ default' = SetDefaultFilament(u)
  BY DEF PublishFilament
<1>2. t \in Callers /\ \A v \in Threads : stack[v] # <<>> => v = t
  BY DEF IInv, FrameInv, FrameOK, SoleCaller
<1>3. ~ PublishesDefault(u)
  <2> SUFFICES ASSUME PublishesDefault(u) PROVE FALSE
    OBVIOUS
  <2>1. new[u] \in Filaments /\ new[u] # None /\ mainThread[new[u]] = u
    BY FilamentsAssumption DEF PublishesDefault
  <2>2. status[new[u]] = "active"
    BY <2>1 DEF IInv, ChildInv
  <2> QED BY <1>2, <2>1, <2>2, MainFact DEF IInv
<1>4. ~ (new[u] = None /\ tls[u] \in DefaultFilaments /\ mainThread[tls[u]] = u)
  <2> SUFFICES ASSUME tls[u] \in DefaultFilaments, mainThread[tls[u]] = u PROVE FALSE
    OBVIOUS
  <2>1. tls[u] \in Filaments /\ tls[u] # None
    BY FilamentsAssumption
  <2>2. status[tls[u]] = "active"
    BY <2>1 DEF IInv, ChildInv
  <2> QED BY <1>2, <2>1, <2>2, MainFact DEF IInv
<1>5. ASSUME new[u] # None, new[u] \notin DefaultFilaments PROVE FALSE
  <2>1. new[u] \in Filaments /\ status[new[u]] = "active"
    BY <1>5 DEF IInv, TypeOK, ChildInv
  <2>2. mainThread[new[u]] = t
    BY <1>2, <2>1, MainFact DEF IInv
  <2>3. u \in Joined(new[u])
    BY <1>1, <1>5, <2>2 DEF IInv, ChildInv
  <2>4. PICK i \in 1 .. Len(stack[t]) : stack[t][i] = new[u]
    BY <2>1, <2>2 DEF IInv, StackInv
  <2>5. Len(stack[t]) \in Nat
    BY DEF IInv, TypeOK
  <2>6. CASE Frame(t) \in DefaultFilaments
    <3>1. Len(stack[t]) = 1
      <4>1. Len(stack[t]) \in 1 .. Len(stack[t])
        BY <2>4, <2>5
      <4>2. stack[t][Len(stack[t])] \in DefaultFilaments
        BY <2>6 DEF Frame
      <4> QED BY <4>1, <4>2, BottomFact
    <3> QED BY <1>5, <2>4, <2>6, <3>1 DEF Frame
  <2>7. CASE pc[t] = "destroy" /\ Len(stack[t]) > 1 /\ prev[Frame(t)] \in DefaultFilaments
    <3>1. Len(stack[t]) - 1 = 1 /\ prev[Frame(t)] = stack[t][1]
      BY <2>7, BelowFact, BottomFact
    <3>2. i # 1
      BY <1>5, <2>4, <2>7, <3>1
    <3>3. i = Len(stack[t])
      <4>1. Len(stack[t]) = 2 /\ i \in 1 .. Len(stack[t])
        BY <2>4, <2>5, <3>1
      <4> HIDE DEF IInv
      <4> QED BY <3>2, <4>1
    <3>4. new[u] = Frame(t)
      BY <2>4, <3>3 DEF Frame
    <3>5. pc[u] = "dead"
      BY <2>3, <2>7, <3>4 DEF IInv, JoinInv, JoinOK, ChildrenTerminated
    <3> QED BY <1>1, <3>5
  <2> QED BY <2>6, <2>7
<1>6. ~ RevokesDefault(u)
  BY <1>4, <1>5 DEF RevokesDefault
<1> QED BY <1>1, <1>3, <1>6 DEF SetDefaultFilament

\* A step of another thread.
LEMMA AvailableOther ==
  ASSUME IInv, SoleCaller, NEW t \in Threads, AvailableOK(t), NEW u \in Threads, u # t, Step(u)
  PROVE  AvailableOK(t)'
<1> SUFFICES ASSUME stack'[t] # <<>> PROVE AvailableOK(t)'
  BY DEF AvailableOK
<1>1. stack'[t] = stack[t]
  BY DEF Step, RunTestRoutine, RegisterChildThread, DuplicateHandleFails, SkipRegistration,
     DefaultFilamentConflict, PublishFilament, JoinBegin, JoinEnd, DestroyFilament, CreateThread,
     InitializationCompleted, ThreadFinish, CheckDefaultFilament, DeriveDefaultFilament, ThreadDetach, IInv, TypeOK
<1>2. pc'[t] = pc[t]
  <2>1. pc[t] # "absent"
    BY <1>1 DEF IInv, ControlInv, ControlOK
  <2> QED BY <2>1 DEF Step, RunTestRoutine, RegisterChildThread, DuplicateHandleFails, SkipRegistration,
     DefaultFilamentConflict, PublishFilament, JoinBegin, JoinEnd, DestroyFilament, CreateThread,
     InitializationCompleted, ThreadFinish, CheckDefaultFilament, DeriveDefaultFilament, ThreadDetach,
     SetCurrentFilament, Resume, IInv, TypeOK
<1>3. Frame(t)' = Frame(t) /\ Frame(t) \in Filaments /\ status[Frame(t)] = "active"
  BY <1>1, FrameFact DEF Frame, IInv
<1>4. prev'[Frame(t)] = prev[Frame(t)]
  <2>1. ASSUME NEW f \in Filaments, RunTestRoutine(u, f) PROVE prev'[Frame(t)] = prev[Frame(t)]
    BY <1>3, <2>1 DEF RunTestRoutine, IInv, TypeOK
  <2>2. (\E f \in Filaments : RunTestRoutine(u, f)) \/ prev' = prev
    BY DEF Step, RegisterChildThread, DuplicateHandleFails, SkipRegistration,
     DefaultFilamentConflict, PublishFilament, JoinBegin, JoinEnd, DestroyFilament, CreateThread,
     InitializationCompleted, ThreadFinish, CheckDefaultFilament, DeriveDefaultFilament, ThreadDetach, filamentVars
  <2> QED BY <2>1, <2>2
<1>5. PublishFilament(u) \/ default' = default
  BY DEF Step, RunTestRoutine, RegisterChildThread, DuplicateHandleFails, SkipRegistration,
     DefaultFilamentConflict, JoinBegin, JoinEnd, DestroyFilament, CreateThread,
     InitializationCompleted, ThreadFinish, CheckDefaultFilament, DeriveDefaultFilament, ThreadDetach
<1>6. ASSUME \/ pc[t] \in {"user", "waitInit"} /\ Frame(t) \in DefaultFilaments
             \/ pc[t] = "destroy" /\ Len(stack[t]) > 1 /\ prev[Frame(t)] \in DefaultFilaments
      PROVE  default' = default
  BY <1>1, <1>5, <1>6, OthersKeepDefault
<1> QED BY <1>1, <1>2, <1>3, <1>4, <1>6 DEF AvailableOK

\* The thread publishes the filament of the routine it starts or resumes.
LEMMA AvailablePublished ==
  ASSUME IInv, NEW t \in Threads, PublishFilament(t)
  PROVE  AvailableOK(t)'
<1> SUFFICES ASSUME stack[t] # <<>> PROVE AvailableOK(t)'
  BY DEF AvailableOK, PublishFilament
<1>1. /\ pc[t] = "publish" /\ default' = SetDefaultFilament(t) /\ stack' = stack /\ prev' = prev
      /\ pc'[t] = AfterSuccess[op[t]] /\ Frame(t)' = Frame(t)
  BY DEF PublishFilament, Resume, filamentVars, Frame, IInv, TypeOK
<1>2. op[t] \in {"enter", "leave"}
  BY <1>1 DEF IInv, TypeOK, OpValues, ControlInv, ControlOK
<1>3. AfterSuccess["enter"] = "user" /\ AfterSuccess["leave"] = "destroy"
  BY DEF AfterSuccess, OpValues
<1>4. CASE op[t] = "enter"
  <2>1. new[t] = Frame(t) /\ mainThread[Frame(t)] = t
    BY <1>4, FrameFact DEF IInv, FrameInv, FrameOK
  <2>2. Frame(t) \in DefaultFilaments => default' = Frame(t)
    BY <1>1, <2>1 DEF SetDefaultFilament, PublishesDefault
  <2> QED BY <1>1, <1>3, <1>4, <2>2 DEF AvailableOK
<1>5. CASE op[t] = "leave"
  <2>1. new[t] = prev[Frame(t)]
    BY <1>5 DEF IInv, FrameInv, FrameOK
  <2>2. Len(stack[t]) > 1 /\ prev[Frame(t)] \in DefaultFilaments => default' = prev[Frame(t)]
    BY <1>1, <2>1, BelowFact DEF SetDefaultFilament, PublishesDefault
  <2> QED BY <1>1, <1>3, <1>5, <2>2 DEF AvailableOK
<1> QED BY <1>2, <1>4, <1>5

\* The nested routine is popped.
LEMMA AvailablePopped ==
  ASSUME IInv, NEW t \in Threads, AvailableOK(t), DestroyFilament(t)
  PROVE  AvailableOK(t)'
<1> SUFFICES ASSUME stack'[t] # <<>> PROVE AvailableOK(t)'
  BY DEF AvailableOK
<1>1. /\ pc[t] = "destroy" /\ pc'[t] = "user" /\ stack'[t] = SubSeq(stack[t], 1, Len(stack[t]) - 1)
      /\ default' = default
  BY DEF DestroyFilament, IInv, TypeOK
<1>2. stack[t] \in Seq(Filaments) /\ stack[t] # <<>> /\ Len(stack[t]) \in Nat
  BY <1>1 DEF IInv, TypeOK, ControlInv, ControlOK
<1>3. Len(stack[t]) > 1
  <2>1. Len(stack[t]) = 1 => SubSeq(stack[t], 1, Len(stack[t]) - 1) = <<>>
    BY <1>2
  <2>2. Len(stack[t]) # 0
    BY <1>2
  <2> QED BY <1>1, <1>2, <2>1, <2>2
<1>4. Len(stack'[t]) = Len(stack[t]) - 1 /\ stack'[t][Len(stack[t]) - 1] = stack[t][Len(stack[t]) - 1]
  BY <1>1, <1>2, <1>3
<1>5. Frame(t)' = prev[Frame(t)]
  BY <1>3, <1>4, BelowFact DEF Frame
<1>6. prev[Frame(t)] \in DefaultFilaments => default = prev[Frame(t)]
  BY <1>1, <1>2, <1>3 DEF AvailableOK
<1> QED BY <1>1, <1>5, <1>6 DEF AvailableOK

\* A thread that cannot get its filament back has no default filament below.
LEMMA AvailableRefused ==
  ASSUME IInv, Disciplined, NEW t \in Threads, AvailableOK(t), RegisterChildThread(t) \/ DuplicateHandleFails(t)
  PROVE  AvailableOK(t)'
<1> SUFFICES ASSUME stack[t] # <<>> PROVE AvailableOK(t)'
  BY DEF AvailableOK, RegisterChildThread, DuplicateHandleFails
<1>1. pc[t] = "set" /\ IsChild(t)
  BY DEF RegisterChildThread, DuplicateHandleFails
<1>2. op[t] = "leave"
  BY <1>1, RegistersAs DEF IInv, ControlInv, ControlOK
<1>3. Len(stack[t]) <= 1
  <2>1. new[t] = prev[Frame(t)] /\ mainThread[new[t]] # t
    BY <1>1, <1>2 DEF IInv, FrameInv, FrameOK, IsChild
  <2>2. ~ (Len(stack[t]) > 1)
    BY <2>1, BelowFact
  <2>3. Len(stack[t]) \in Nat
    BY DEF IInv, TypeOK
  <2> QED BY <2>2, <2>3
<1>4. AfterFailure["leave"] = "destroy"
  BY DEF AfterFailure, OpValues
<1>5. stack' = stack /\ pc'[t] \in {"publish", "destroy"}
  BY <1>2, <1>4 DEF RegisterChildThread, DuplicateHandleFails, Resume, IInv, TypeOK
<1> QED BY <1>3, <1>5 DEF AvailableOK, IInv, TypeOK

\* Every other step of the thread leaves the default filament alone.
LEMMA AvailableOwn ==
  ASSUME IInv, Disciplined, NEW t \in Threads, AvailableOK(t), Step(t)
  PROVE  AvailableOK(t)'
<1>1. CASE (\E f \in Filaments : RunTestRoutine(t, f)) \/ SkipRegistration(t) \/ JoinBegin(t) \/ JoinEnd(t)
           \/ ThreadFinish(t) \/ CheckDefaultFilament(t) \/ ThreadDetach(t)
  <2>1. pc'[t] \in {"set", "publish", "joining", "derive", "dead"}
    BY <1>1 DEF RunTestRoutine, SkipRegistration, JoinBegin, JoinEnd, ThreadFinish, CheckDefaultFilament,
                ThreadDetach, SetCurrentFilament, IInv, TypeOK
  <2> QED BY <2>1 DEF AvailableOK
<1>2. CASE DeriveDefaultFilament(t)
  <2>1. stack'[t] = <<>>
    BY <1>2 DEF DeriveDefaultFilament, IInv, ControlInv, ControlOK
  <2> QED BY <2>1 DEF AvailableOK
<1>3. CASE InitializationCompleted(t) \/ \E w \in Workers : CreateThread(t, w)
  <2>1. stack' = stack /\ prev' = prev /\ default' = default /\ pc[t] \in {"user", "waitInit"}
    BY <1>3 DEF InitializationCompleted, CreateThread, filamentVars
  <2>2. pc'[t] \in {"user", "waitInit"}
    <3>1. ASSUME NEW w \in Workers, CreateThread(t, w) PROVE pc'[t] = "waitInit"
      <4>1. pc[t] = "user" /\ pc[w] = "absent" /\ pc' = [pc EXCEPT ![t] = "waitInit", ![w] = "set"]
        BY <3>1 DEF CreateThread
      <4> QED BY <4>1 DEF IInv, TypeOK
    <3> QED BY <1>3, <3>1 DEF InitializationCompleted, IInv, TypeOK
  <2> QED BY <2>1, <2>2 DEF AvailableOK, Frame
<1>4. ~ DefaultFilamentConflict(t)
  BY DefaultFilamentConflictInv
<1> QED BY <1>1, <1>2, <1>3, <1>4, AvailablePublished, AvailablePopped, AvailableRefused DEF Step

\* CfixsSetDefaultFilament: while the main thread of a default filament executes
\* its own routine, anonymous threads find the filament; a nested routine gives
\* it back.
THEOREM DefaultAvailableHolds == ASSUME Disciplined, SoleCaller PROVE Spec => []DefaultAvailable
<1>1. Init => AvailableInv
  <2>1. Init => \A t \in Threads : stack[t] = <<>>
    BY DEF Init
  <2> QED BY <2>1 DEF AvailableInv, AvailableOK
<1>2. IInv /\ AvailableInv /\ [Next]_vars => AvailableInv'
  <2> SUFFICES ASSUME IInv, AvailableInv, [Next]_vars, NEW t \in Threads PROVE AvailableOK(t)'
    BY DEF AvailableInv
  <2>1. AvailableOK(t)
    BY DEF AvailableInv
  <2>2. CASE UNCHANGED vars
    BY <2>1, <2>2 DEF AvailableOK, Frame, vars, threadVars, filamentVars
  <2>3. CASE Next
    BY <2>1, <2>3, AvailableOwn, AvailableOther DEF Next
  <2> QED BY <2>2, <2>3
<1>3. AvailableInv => DefaultAvailable
  BY DEF AvailableInv, AvailableOK, DefaultAvailable, InRoutine
<1> QED BY <1>1, <1>2, <1>3, Invariance, PTL DEF Spec
=============================================================================
