-------------------------------- MODULE Spawn --------------------------------
(***************************************************************************)
(* cfix -exe (cfixcmd/main.c): the program starts the executable, which    *)
(* runs its tests by CfixEmbMain (cfixemb/embmain.c), relays what it       *)
(* writes to a pipe, and returns its exit code.                            *)
(***************************************************************************)
EXTENDS Naturals, FiniteSets

CONSTANTS
    Capacity,    \* of the pipe
    MaxOutput,   \* what the tests write
    ExitCodes    \* of the spawned process

ASSUME SpawnAssumption == Capacity \in Nat \ {0} /\ MaxOutput \in Nat

VARIABLES
    parent,  \* [step, code, stdout, relayed]
    pipe,    \* [buffer, writers]
    child    \* [step, code, written]

spawnVars == <<parent, pipe, child>>

SpawnInit ==
    /\ parent = [step |-> "start", code |-> "none", stdout |-> "ok", relayed |-> 0]
    /\ pipe = [buffer |-> 0, writers |-> {}]
    /\ child = [step |-> "none", code |-> "none", written |-> 0]

\* The file, the path of cfixemb.dll or the pipe is missing.
SpawnFails ==
    /\ parent.step = "start"
    /\ parent' = [parent EXCEPT !.step = "done", !.code = "USAGE_FAILURE"]
    /\ UNCHANGED <<pipe, child>>

\* CfixcmdsCreatePipe
CreateRelayPipe ==
    /\ parent.step = "start"
    /\ pipe' = [pipe EXCEPT !.writers = {"parent"}]
    /\ parent' = [parent EXCEPT !.step = "launch"]
    /\ UNCHANGED child

\* Faulty variant: the program keeps its write end.
CreateProcessKeepingPipe ==
    /\ parent.step = "launch"
    /\ child' = [child EXCEPT !.step = "running"]
    /\ pipe' = [pipe EXCEPT !.writers = {"parent", "child"}]
    /\ parent' = [parent EXCEPT !.step = "relay"]

\* CreateProcess; whether or not it succeeds the program closes its write end,
\* which the process has inherited.
CreateChildProcess ==
    /\ parent.step = "launch"
    /\ \/ /\ child' = [child EXCEPT !.step = "running"]
          /\ pipe' = [pipe EXCEPT !.writers = {"child"}]
          /\ parent' = [parent EXCEPT !.step = "relay"]
       \/ /\ parent' = [parent EXCEPT !.step = "relay", !.code = "USAGE_FAILURE"]
          /\ pipe' = [pipe EXCEPT !.writers = {}]
          /\ UNCHANGED child

\* CfixcmdsRelayOutput: read, and write to stdout.
RelayOutput ==
    /\ parent.step = "relay" /\ pipe.buffer > 0
    /\ pipe' = [pipe EXCEPT !.buffer = 0]
    /\ \/ parent' = [parent EXCEPT !.relayed = @ + pipe.buffer]
       \/ parent' = [parent EXCEPT !.stdout = "failed", !.step = "wait"]
    /\ UNCHANGED child

\* GetStdHandle fails: nothing is relayed.
NoStandardOutput ==
    /\ parent.step = "relay" /\ parent.relayed = 0
    /\ parent' = [parent EXCEPT !.stdout = "failed", !.step = "wait"]
    /\ UNCHANGED <<pipe, child>>

\* ReadFile fails once the pipe is empty and nobody can write.
RelayEnds ==
    /\ parent.step = "relay" /\ pipe.buffer = 0 /\ pipe.writers = {}
    /\ parent' = [parent EXCEPT !.step = "wait"]
    /\ UNCHANGED <<pipe, child>>

\* WaitForSingleObject and GetExitCodeProcess, which fail without a process.
ProcessEnded ==
    /\ parent.step = "wait" /\ child.step # "running"
    /\ parent' = [parent EXCEPT !.step = "done",
                                !.code = IF child.step = "none" THEN @ ELSE child.code]
    /\ UNCHANGED <<pipe, child>>

\* A test or the event sink prints; a full pipe blocks the writer.
ChildWrites ==
    /\ child.step = "running" /\ child.written < MaxOutput /\ pipe.buffer < Capacity
    /\ child' = [child EXCEPT !.written = @ + 1]
    /\ pipe' = [pipe EXCEPT !.buffer = @ + 1]
    /\ UNCHANGED parent

\* CfixEmbMain ends the process with the code of CfixrunMain, or of the failure
\* to read the command line, once everything is printed.
ChildExits ==
    /\ child.step = "running" /\ child.written = MaxOutput
    /\ \E c \in ExitCodes : child' = [child EXCEPT !.step = "exited", !.code = c]
    /\ pipe' = [pipe EXCEPT !.writers = @ \ {"child"}]
    /\ UNCHANGED parent

SpawnNext ==
    \/ SpawnFails \/ CreateRelayPipe \/ CreateChildProcess
    \/ RelayOutput \/ NoStandardOutput \/ RelayEnds \/ ProcessEnded
    \/ ChildWrites \/ ChildExits

-----------------------------------------------------------------------------
(***************************************************************************)
(* Properties.                                                             *)
(***************************************************************************)

\* Unless the standard output fails, program and process never wait for each
\* other for ever; the program returns the exit code of the process, after it
\* has passed on everything that was written, however small the pipe is.
SpawnReturns ==
    /\ parent.step = "launch" ~> parent.step = "done" \/ parent.stdout = "failed"
    /\ [](parent.step = "done" /\ child.step # "none" =>
            /\ parent.code = child.code
            /\ parent.stdout = "ok" => parent.relayed = child.written)
==============================================================================
