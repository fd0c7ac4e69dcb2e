------------------------- MODULE FilamentInvariant --------------------------
(***************************************************************************)
(* The inductive invariant behind NoDanglingFilament, for disciplined use  *)
(* of the library.                                                         *)
(***************************************************************************)
EXTENDS Filament

\* What the library relies on and does not enforce: first calls of anonymous
\* threads do not overlap with the end of the routine whose filament they would
\* take; default filaments are not nested; and a thread that is registered with
\* another routine's filament can get it back after a routine of its own.
Disciplined ==
    /\ ~ FirstCallsMayRace
    /\ ~ DefaultMayNest
    /\ ~ HandleCanFail \/ Callers \subseteq Runners

\* Where a thread is determines what CfixsSetCurrentFilament is doing for it.
ControlOK(t) ==
    /\ pc[t] \in {"set", "publish"} <=> op[t] # "none"
    /\ op[t] = "none" => new[t] = None
    /\ pc[t] \in {"absent", "dead", "derive"} => tls[t] = None /\ stack[t] = <<>>
    /\ pc[t] \in {"joining", "destroy"} => stack[t] # <<>>
    /\ op[t] \in {"enter", "leave"} => stack[t] # <<>>
    /\ op[t] \in {"start", "finish", "derive"} => stack[t] = <<>>
    /\ op[t] \in {"start", "derive"} => tls[t] = None /\ new[t] # None
    /\ op[t] = "finish" => new[t] = None
    /\ t \in Runners => /\ pc[t] # "derive"
                        /\ op[t] \notin {"start", "derive", "finish"}

ControlInv == \A t \in Threads : ControlOK(t)

\* The TLS slot of a thread that runs routines of its own.
FrameOK(t) ==
    stack[t] # <<>> =>
        /\ pc[t] \in {"user", "waitInit", "joining"} => tls[t] = Frame(t)
        /\ op[t] = "enter" => new[t] = Frame(t) /\ tls[t] = prev[Frame(t)]
        /\ op[t] = "leave" => new[t] = prev[Frame(t)] /\ tls[t] = Frame(t)
        /\ pc[t] = "destroy" => \/ tls[t] = prev[Frame(t)]
                                \/ tls[t] = None /\ Len(stack[t]) = 1
        /\ t \in Callers

FrameInv == \A t \in Threads : FrameOK(t)

\* The active filaments are those on the stacks of their main threads, where
\* each remembers the one below it.
StackInv ==
    /\ \A t \in Threads : \A i \in 1 .. Len(stack[t]) :
          /\ status[stack[t][i]] = "active"
          /\ mainThread[stack[t][i]] = t
          /\ i > 1 => prev[stack[t][i]] = stack[t][i - 1]
          /\ i = 1 /\ prev[stack[t][i]] # None => mainThread[prev[stack[t][i]]] # t
          /\ \A j \in 1 .. Len(stack[t]) : stack[t][i] = stack[t][j] => i = j
    /\ \A f \in Filaments : status[f] = "active" =>
          /\ mainThread[f] \in Threads
          /\ \E i \in 1 .. Len(stack[mainThread[f]]) : stack[mainThread[f]][i] = f

\* A thread that uses a filament of another thread, now or after its own
\* routines, is one of the filament's children.
ChildInv ==
    /\ \A t \in Threads : tls[t] # None =>
          status[tls[t]] = "active" /\ (mainThread[tls[t]] # t => t \in Joined(tls[t]))
    /\ \A t \in Threads : new[t] # None =>
          /\ status[new[t]] = "active"
          /\ pc[t] = "publish" /\ mainThread[new[t]] # t => t \in Joined(new[t])
    /\ \A f \in Filaments : status[f] = "active" /\ prev[f] # None =>
          /\ status[prev[f]] = "active"
          /\ mainThread[prev[f]] # mainThread[f] => mainThread[f] \in Joined(prev[f])

\* A runner never becomes another thread's child.
RunnerInv ==
    /\ \A t \in Runners : tls[t] # None => mainThread[tls[t]] = t
    /\ \A f \in Filaments :
          status[f] = "active" /\ mainThread[f] \in Runners /\ prev[f] # None
              => mainThread[prev[f]] = mainThread[f]

\* The join is over: the children are dead.
JoinOK(t) ==
    stack[t] # <<>> /\ (pc[t] = "destroy" \/ op[t] = "leave")
        => ChildrenTerminated(Frame(t))

JoinInv == \A t \in Threads : JoinOK(t)

\* A thread that has not registered yet is awaited by its creator.
StartOK(w) ==
    op[w] = "start" => /\ w \in Workers
                       /\ parent[w] \in Threads
                       /\ pc[parent[w]] = "waitInit"
                       /\ tls[parent[w]] = new[w]

StartInv == \A w \in Threads : StartOK(w)

\* The default filament is the only active one of its kind, and stays while a
\* thread that holds the lock is taking it.
DefaultInv ==
    /\ LockHeldToDerive
    /\ \A f, g \in DefaultFilaments :
          status[f] = "active" /\ status[g] = "active" => f = g
    /\ \A f \in DefaultFilaments : status[f] = "active" => prev[f] = None
    /\ default # None => /\ default \in DefaultFilaments
                         /\ status[default] = "active"
                         /\ tls[mainThread[default]] = default
    /\ \A t \in Threads : op[t] = "derive" => new[t] = default /\ lockOwner = t
    /\ \A t \in Threads : Deriving(t) /\ default # None => ~ Returning(default)

IInv ==
    /\ TypeOK /\ ControlInv /\ FrameInv /\ StackInv /\ ChildInv
    /\ RunnerInv /\ JoinInv /\ StartInv /\ DefaultInv

=============================================================================
