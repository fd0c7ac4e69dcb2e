-------------------------------- MODULE MCRun --------------------------------
(***************************************************************************)
(* A run of fixtures and, beside it, the threads and filaments of          *)
(* routines.  The two share no state: one of them moves while the other    *)
(* is at rest.                                                             *)
(***************************************************************************)
EXTENDS MCFilament, TestRun

TwoAndOne == <<2, 1>>
OneAndOne == <<1, 1>>

\* The run waits with one of its initial states for the filaments.
RunAtRest == TestRunInit /\ options = {} /\ \A f \in Fixtures : testCaseIndex[f] = 0

RunAlone == Init /\ TestRunNext /\ UNCHANGED vars

ThreadAlone(t) == RunAtRest /\ Step(t) /\ UNCHANGED testRunVars

\* To select the only test case of a fixture is to run all of them.
SelectsLess == \A f \in Fixtures : TestCaseCount[f] = 1 => testCaseIndex[f] = 0

RunsInit == Init /\ TestRunInit /\ SelectsLess

RunsNext == RunAlone \/ \E t \in Threads : ThreadAlone(t)

\* The run goes on.
RunsSpec == RunsInit /\ [][RunsNext]_<<vars, testRunVars>> /\ WF_<<vars, testRunVars>>(RunAlone)

\* And threads are scheduled, and routines end.
FairRunsSpec == RunsSpec /\ \A t \in Threads : WF_<<vars, testRunVars>>(ThreadAlone(t))
==============================================================================
