------------------------------ MODULE TestRun -------------------------------
(***************************************************************************)
(* A test run on its main thread: a sequence action (cfix/cfix/            *)
(* sequenceaction.c) runs one fixture execution action (tsexecaction.c)    *)
(* after the other; these call the setup, before, test, after and teardown *)
(* routines through the module (CfixsRun*TestModule of pe.c) and notify    *)
(* the execution context, here the event emitting proxy in front of the    *)
(* runner's own context.                                                   *)
(*                                                                         *)
(* What a routine does is one of a few events: it reports nothing, a log   *)
(* message, a failed assertion, an uncaught exception or inconclusiveness, *)
(* or a thread it created reports a failed assertion.  The control between *)
(* the routines is kept whole.  Child threads are the subject of module    *)
(* Filament.                                                               *)
(***************************************************************************)
EXTENDS Integers, Sequences, FiniteSets, EventEmitter, ExecContext

CONSTANTS
    FixtureCount,      \* the number of entries of the sequence action
    TestCaseCount,     \* the number of test cases of each fixture
    Provided,          \* the optional routines the fixtures provide
    Setters,           \* the routines that call CfixPeSetValue
    MaxTestCases,      \* bound: test cases of a fixture
    MaxEvents,         \* bound: routines of a run that report an event
    ContextMayFail,    \* may BeforeTestCaseStart of a context fail?
    FilamentMayFail    \* may CfixpSetCurrentFilament fail for a routine?

Fixtures == 1 .. FixtureCount

ASSUME TestRunAssumption ==
    /\ FixtureCount \in Nat \ {0}
    /\ MaxTestCases \in Nat
    /\ TestCaseCount \in [Fixtures -> 0 .. MaxTestCases]
    /\ Provided \subseteq {"setup", "before", "after", "teardown"}
    /\ Setters \subseteq {"setup", "before", "test", "after", "teardown"}
    /\ MaxEvents \in Nat
    /\ ContextMayFail \in BOOLEAN
    /\ FilamentMayFail \in BOOLEAN

VARIABLES
    stage,           \* where CfixsRunFixtureExecutionAction is
    fixture,         \* the action the sequence is running
    testCase,        \* Index, counted from 1
    testCaseIndex,   \* TestCaseIndex of each action: 0 for all
    hr,              \* Hr
    hrTestCase,      \* HrTestCase
    completed,       \* FixtureRanToCompletion
    shortCircuit,    \* FixtureShortCircuit
    slot,            \* the TLS storage slot values survive in
    events,          \* the number of routines that reported an event
    log              \* history: the routines that were run

controlVars == <<stage, fixture, testCase, testCaseIndex, hr, hrTestCase,
                 completed, shortCircuit>>
routineVars == <<slot, events, log>>
testRunVars == <<controlVars, routineVars, emitterVars, execContextVars>>

Kinds == {"setup", "before", "test", "after", "teardown"}

Events == {"none", "log", "failedAssertion", "uncaughtException",
           "inconclusiveness", "childFailure"}

\* HRESULTs: S_OK, CFIX_E_*_ROUTINE_FAILED, CFIX_E_TESTRUN_ABORTED, and any
\* other failure.
RoutineFailed == [setup |-> "SETUP_FAILED", before |-> "BEFORE_FAILED",
                  test |-> "TEST_FAILED", after |-> "AFTER_FAILED",
                  teardown |-> "TEARDOWN_FAILED"]
HResults == {"S_OK", "ABORTED", "FATAL"} \cup {RoutineFailed[k] : k \in Kinds}

Succeeded(h) == h = "S_OK"

-----------------------------------------------------------------------------
(***************************************************************************)
(* Flags of the action, as CfixrunsCreateTsExecAction derives them from    *)
(* the command line.                                                       *)
(***************************************************************************)
\* Faulty variant: -fsr does not imply -fsf.
ShortCircuitOnlyByFsf == "fsf" \in options

ShortCircuitFixtureOnFailure == {"fsf", "fsr"} \cap options # {}
ShortCircuitRunOnSetupFailure == {"fss", "fsr"} \cap options # {}
EscalateFixtureFailures == "fsr" \in options

-----------------------------------------------------------------------------
(***************************************************************************)
(* Running a routine.                                                      *)
(***************************************************************************)

\* What becomes of a routine that reports the event (CfixPeReport*, CfixPeFail
\* and CfixpExceptionFilter, no debugger attached).  A child thread that fails
\* ends alone, unless it hits a breakpoint nobody handles.
Outcome(event) ==
    LET disposition == ReportEvent(event)
    IN  CASE event = "failedAssertion" ->
                [abort |-> "aborted", breakAlways |-> "crashed",
                 break |-> "failed"][disposition]
          [] event = "uncaughtException" ->
                [abort |-> "aborted", break |-> "crashed",
                 continue |-> "failed"][disposition]
          [] event = "inconclusiveness" -> "failed"
          [] event = "childFailure" /\ ReportEvent("failedAssertion") = "breakAlways" ->
                "crashed"
          [] OTHER -> "ok"

\* Faulty variant: an aborted routine counts as one that failed.
AbortCountsAsFailure(kind, outcome) ==
    CASE outcome \in {"aborted", "failed"} -> RoutineFailed[kind]
      [] outcome = "fatal" -> "FATAL"
      [] OTHER -> "S_OK"

\* The HRESULT of CfixsRun<kind>TestModule.
ResultOf(kind, outcome) ==
    CASE outcome = "aborted" -> "ABORTED"
      [] outcome = "failed" -> RoutineFailed[kind]
      [] outcome = "fatal" -> "FATAL"
      [] OTHER -> "S_OK"

\* Faulty variant: before routines see what the last test case stored.
RestoresStorageEarly(kind) == kind \in {"before", "test", "after"}

\* CfixpInitializeFilament loads the slot if RestoreStorage is set.
RestoresStorage(kind) == kind \in {"test", "after"}

NoValue == [fixture |-> 0, testCase |-> 0, kind |-> "none"]

\* CfixsRunTestRoutine: the value a routine sees and leaves in the slot.
StorageSeen(kind) == IF RestoresStorage(kind) THEN slot ELSE NoValue

StorageLeft(kind) ==
    IF kind \in Setters
    THEN [fixture |-> fixture, testCase |-> testCase, kind |-> kind]
    ELSE StorageSeen(kind)

LogRoutine(kind, event, outcome) ==
    log' = Append(log, [kind |-> kind, fixture |-> fixture,
                        testCase |-> IF kind \in {"setup", "teardown"}
                                     THEN 0 ELSE testCase,
                        outcome |-> outcome, saw |-> StorageSeen(kind),
                        event |-> event, name |-> EventName])

\* CfixsRunTestRoutine with the wrapper for the kind; result is its HRESULT.
RunRoutine(kind, outcome) ==
    \/ /\ kind \notin Provided \cup {"test"}
       /\ outcome = "ok"
       /\ UNCHANGED routineVars
    \/ /\ kind \in Provided \cup {"test"}
       /\ \E event \in Events :
             /\ event # "none" => events < MaxEvents
             /\ events' = IF event = "none" THEN events ELSE events + 1
             /\ outcome = Outcome(event)
             /\ slot' = StorageLeft(kind)
             /\ LogRoutine(kind, event, outcome)
    \/ \* CfixpSetCurrentFilament failed; the new filament is destroyed.
       /\ FilamentMayFail
       /\ kind \in Provided \cup {"test"}
       /\ outcome = "fatal"
       /\ slot' = StorageSeen(kind)
       /\ UNCHANGED <<events, log>>

Outcomes == {"ok", "failed", "aborted", "crashed", "fatal"}

-----------------------------------------------------------------------------
TestRunTypeOK ==
    /\ stage \in {"beforeFixture", "setup", "loop", "before", "test", "after",
                  "caseEnd", "teardown", "fixtureEnd", "done", "crashed"}
    /\ fixture \in 1 .. FixtureCount
    /\ testCase \in 0 .. TestCaseCount[fixture]
    /\ testCaseIndex \in [Fixtures -> Nat]
    /\ hr \in HResults /\ hrTestCase \in HResults
    /\ completed \in BOOLEAN /\ shortCircuit \in BOOLEAN
    /\ events \in 0 .. MaxEvents
    /\ currentFixture \in 0 .. FixtureCount
    /\ options \subseteq ExecOptions

\* Each action runs all test cases of its fixture, or the selected one.
TestRunInit ==
    /\ stage = "beforeFixture"
    /\ fixture = 1
    /\ testCase = 0
    /\ testCaseIndex \in {s \in [Fixtures -> 0 .. MaxTestCases] :
                             \A f \in Fixtures : s[f] <= TestCaseCount[f]}
    /\ hr = "S_OK"
    /\ hrTestCase = "S_OK"
    /\ completed = TRUE
    /\ shortCircuit = FALSE
    /\ slot = NoValue
    /\ events = 0
    /\ log = <<>>
    /\ EmitterInit
    /\ ExecContextInit

-----------------------------------------------------------------------------
(***************************************************************************)
(* CfixsRunFixtureExecutionAction, within CfixsRunSequenceAction.          *)
(***************************************************************************)

\* Faulty variant: the sequence goes on whatever its actions return.
SequenceIgnoresFailure(h) == fixture < FixtureCount

\* CfixsRunSequenceAction goes on with the next action unless one fails.
SequenceContinues(h) == Succeeded(h) /\ fixture < FixtureCount

\* The action returns h to the sequence.
ReturnFromAction(h) ==
    /\ hr' = h
    /\ IF SequenceContinues(h)
       THEN /\ stage' = "beforeFixture"
            /\ fixture' = fixture + 1
            /\ testCase' = 0
            /\ completed' = TRUE
            /\ shortCircuit' = FALSE
       ELSE /\ stage' = "done"
            /\ UNCHANGED <<fixture, testCase, completed, shortCircuit>>
    /\ UNCHANGED <<testCaseIndex, hrTestCase>>

\* A breakpoint or an exception nobody handles ends the process.
Crash(outcome) ==
    /\ outcome = "crashed"
    /\ stage' = "crashed"
    /\ UNCHANGED <<fixture, testCase, testCaseIndex, hr, hrTestCase, completed,
                   shortCircuit>>

BeforeFixtureStart ==
    /\ stage = "beforeFixture"
    /\ EmitBeforeFixtureStart(fixture)
    /\ \/ /\ ContextBeforeFixtureStart
          /\ stage' = "setup"
          /\ UNCHANGED <<fixture, testCase, testCaseIndex, hr, hrTestCase,
                         completed, shortCircuit>>
       \/ /\ ContextBeforeFixtureStartFails
          /\ ReturnFromAction("FATAL")
    /\ UNCHANGED routineVars

\* Setup is vital: test cases and teardown depend on it.
AfterSetup(outcome) == IF outcome = "ok" THEN "loop" ELSE "fixtureEnd"

Setup ==
    /\ stage = "setup"
    /\ \E outcome \in Outcomes :
          /\ RunRoutine("setup", outcome)
          /\ \/ Crash(outcome)
             \/ /\ outcome = "fatal"
                /\ ReturnFromAction("FATAL")
             \/ /\ outcome \in {"ok", "failed", "aborted"}
                /\ completed' = (outcome = "ok")
                /\ hr' = IF ShortCircuitRunOnSetupFailure
                         THEN ResultOf("setup", outcome) ELSE "S_OK"
                /\ stage' = AfterSetup(outcome)
                /\ UNCHANGED <<fixture, testCase, testCaseIndex, hrTestCase,
                               shortCircuit>>
    /\ UNCHANGED <<emitterVars, execContextVars>>

\* Faulty variant: the loop leaves out the last test case.
RemainingOneTooFew ==
    {c \in testCase + 1 .. TestCaseCount[fixture] - 1 :
        testCaseIndex[fixture] \in {0, c}}

\* The test cases the loop has not come to and does not skip.
Remaining ==
    {c \in testCase + 1 .. TestCaseCount[fixture] :
        testCaseIndex[fixture] \in {0, c}}

BeforeTestCaseStart ==
    /\ stage = "loop"
    /\ ~ shortCircuit
    /\ \E c \in Remaining :
          /\ \A d \in Remaining : c <= d
          /\ testCase' = c
          /\ EmitBeforeTestCaseStart(c)
    /\ \/ /\ stage' = "before"
          /\ hr' = "S_OK"
          /\ UNCHANGED <<completed, shortCircuit>>
       \/ /\ ContextMayFail
          /\ hr' = "FATAL"
          /\ shortCircuit' = TRUE
          /\ completed' = FALSE
          /\ stage' = "teardown"
    /\ UNCHANGED <<fixture, testCaseIndex, hrTestCase, routineVars,
                   execContextVars>>

\* CfixsRunTestCaseFixtureExecutionAction: a before routine that fails ends the
\* test case.
Before ==
    /\ stage = "before"
    /\ \E outcome \in Outcomes :
          /\ RunRoutine("before", outcome)
          /\ \/ Crash(outcome)
             \/ /\ outcome # "crashed"
                /\ hr' = ResultOf("before", outcome)
                /\ stage' = IF outcome = "ok" THEN "test" ELSE "caseEnd"
                /\ UNCHANGED <<fixture, testCase, testCaseIndex, hrTestCase,
                               completed, shortCircuit>>
    /\ UNCHANGED <<emitterVars, execContextVars>>

Test ==
    /\ stage = "test"
    /\ \E outcome \in Outcomes :
          /\ RunRoutine("test", outcome)
          /\ \/ Crash(outcome)
             \/ /\ outcome # "crashed"
                /\ hrTestCase' = ResultOf("test", outcome)
                /\ stage' = "after"
                /\ UNCHANGED <<fixture, testCase, testCaseIndex, hr, completed,
                               shortCircuit>>
    /\ UNCHANGED <<emitterVars, execContextVars>>

\* The after routine runs whatever became of the test routine, whose failure
\* takes precedence.
After ==
    /\ stage = "after"
    /\ \E outcome \in Outcomes :
          /\ RunRoutine("after", outcome)
          /\ \/ Crash(outcome)
             \/ /\ outcome # "crashed"
                /\ hr' = IF Succeeded(hrTestCase) THEN ResultOf("after", outcome)
                         ELSE hrTestCase
                /\ stage' = "caseEnd"
                /\ UNCHANGED <<fixture, testCase, testCaseIndex, hrTestCase,
                               completed, shortCircuit>>
    /\ UNCHANGED <<emitterVars, execContextVars>>

\* The test case has returned hr.
TestCaseEnds ==
    /\ stage = "caseEnd"
    /\ hr # "FATAL"
    /\ LET failed == hr \in {RoutineFailed[k] : k \in {"before", "test", "after"}}
       IN  /\ shortCircuit' = \/ failed /\ ShortCircuitFixtureOnFailure
                              \/ hr = "ABORTED"
           /\ hr' = IF failed /\ ~ (/\ ShortCircuitFixtureOnFailure
                                    /\ EscalateFixtureFailures)
                    THEN "S_OK" ELSE hr
    /\ EmitAfterTestCaseFinish
    /\ ContextAfterTestCaseFinish
    /\ stage' = "loop"
    /\ UNCHANGED <<fixture, testCase, testCaseIndex, hrTestCase, completed,
                   routineVars>>

\* A fatal error: neither AfterTestCaseFinish nor the teardown routine follows.
TestCaseFailsFatally ==
    /\ stage = "caseEnd"
    /\ hr = "FATAL"
    /\ ReturnFromAction(hr)
    /\ UNCHANGED <<routineVars, emitterVars, execContextVars>>

\* Faulty variant: a short-circuited fixture is not torn down.
LoopEndsWithoutTeardown ==
    /\ stage = "loop"
    /\ shortCircuit \/ Remaining = {}
    /\ completed' = ~ shortCircuit
    /\ stage' = IF shortCircuit THEN "fixtureEnd" ELSE "teardown"
    /\ UNCHANGED <<fixture, testCase, testCaseIndex, hr, hrTestCase,
                   shortCircuit, routineVars, emitterVars, execContextVars>>

LoopEnds ==
    /\ stage = "loop"
    /\ shortCircuit \/ Remaining = {}
    /\ completed' = ~ shortCircuit
    /\ stage' = "teardown"
    /\ UNCHANGED <<fixture, testCase, testCaseIndex, hr, hrTestCase,
                   shortCircuit, routineVars, emitterVars, execContextVars>>

Teardown ==
    /\ stage = "teardown"
    /\ \E outcome \in Outcomes :
          /\ RunRoutine("teardown", outcome)
          /\ \/ Crash(outcome)
             \/ /\ outcome # "crashed"
                /\ completed' = (completed /\ outcome = "ok")
                /\ hr' = IF outcome # "ok" /\ EscalateFixtureFailures
                         THEN ResultOf("teardown", outcome) ELSE hr
                /\ stage' = "fixtureEnd"
                /\ UNCHANGED <<fixture, testCase, testCaseIndex, hrTestCase,
                               shortCircuit>>
    /\ UNCHANGED <<emitterVars, execContextVars>>

AfterFixtureFinish ==
    /\ stage = "fixtureEnd"
    /\ EmitAfterFixtureFinish
    /\ ContextAfterFixtureFinish
    /\ ReturnFromAction(hr)
    /\ UNCHANGED routineVars

\* CfixrunsMainWorker computes the exit code and returns.
Finished ==
    /\ stage \in {"done", "crashed"}
    /\ UNCHANGED testRunVars

TestRunNext ==
    \/ BeforeFixtureStart \/ Setup \/ BeforeTestCaseStart
    \/ Before \/ Test \/ After \/ TestCaseEnds \/ TestCaseFailsFatally
    \/ LoopEnds \/ Teardown \/ AfterFixtureFinish \/ Finished

\* The main thread is never blocked between routines, and routines return.
TestRunSpec == TestRunInit /\ [][TestRunNext]_testRunVars /\ WF_testRunVars(TestRunNext)

-----------------------------------------------------------------------------
(***************************************************************************)
(* Properties.                                                             *)
(***************************************************************************)

\* Positions of the log of which the second was written later.
LaterPairs == {p \in (1 .. Len(log)) \X (1 .. Len(log)) : p[1] < p[2]}

\* The fixtures whose AfterFixtureFinish has been called.
Over == {f \in Fixtures : f < fixture \/ (f = fixture /\ stage = "done")}

Ran(f, kind) == {i \in 1 .. Len(log) : log[i].fixture = f /\ log[i].kind = kind}

\* Whatever the test cases of a fixture did, its teardown routine runs exactly
\* once, as its last routine, if setup succeeded; and every test routine is
\* followed by the after routine of its test case, also if the run was aborted.
\* A setup routine that fails is the last routine of its fixture: neither test
\* cases nor the teardown routine follow.
RoutinesBracketed ==
    /\ \A p \in LaterPairs :
          log[p[1]].kind = "setup" /\ log[p[1]].outcome # "ok"
             => log[p[2]].fixture # log[p[1]].fixture
    /\ \A f \in Over :
          (\A i \in Ran(f, "setup") : log[i].outcome = "ok")
             => \E i \in Ran(f, "teardown") :
                   /\ Ran(f, "teardown") = {i}
                   /\ \A j \in i + 1 .. Len(log) : log[j].fixture # f
    /\ \A i \in 1 .. Len(log) - 1 :
          log[i].kind = "test" => /\ log[i + 1].kind = "after"
                                  /\ log[i + 1].testCase = log[i].testCase

\* A run that is aborted by a before or test routine starts no further test case
\* and no further fixture; only the routines that clean up are run.
TestAbortStopsRun ==
    \A p \in LaterPairs :
        log[p[1]].outcome = "aborted" /\ log[p[1]].kind \in {"before", "test"}
            => /\ log[p[2]].fixture = log[p[1]].fixture
               /\ log[p[2]].kind \in {"after", "teardown"}

\* -fsf: once a routine of a test case failed, no other test case of the fixture
\* is started; -fsr: nor is another fixture, whichever routine failed.
ShortCircuits ==
    \A p \in LaterPairs :
        LET e == log[p[1]]
            l == log[p[2]]
        IN  e.outcome = "failed" =>
              /\ ({"fsf", "fsr"} \cap options # {} /\ l.fixture = e.fixture
                     => l.kind \in {"after", "teardown"})
              /\ ("fsr" \in options => l.fixture = e.fixture)

\* Without a short-circuit option and without an abort, a failure never costs
\* another test case its run: at the end every selected test case was begun in
\* every fixture whose setup succeeded.
NothingSkipped ==
    (/\ stage = "done"
     /\ {"fsf", "fss", "fsr"} \cap options = {}
     /\ \A i \in 1 .. Len(log) : log[i].outcome # "aborted")
        => /\ fixture = FixtureCount
           /\ \A f \in Fixtures :
                 (\A i \in Ran(f, "setup") : log[i].outcome = "ok") =>
                    \A c \in 1 .. TestCaseCount[f] :
                       testCaseIndex[f] \in {0, c} =>
                          \E i \in Ran(f, "before") \cup Ran(f, "test") :
                             log[i].testCase = c

\* A value stored by CfixPeSetValue is never seen by a routine of another
\* fixture or test case (the before routine is the first of a test case that has
\* one), and setup, before and teardown routines see none at all.
StorageOfTestCase ==
    \A i \in 1 .. Len(log) :
        /\ log[i].saw.fixture \in {0, log[i].fixture}
        /\ log[i].saw.testCase \in {0, log[i].testCase}
        /\ log[i].saw.kind # "setup"
        /\ log[i].kind \in {"setup", "before", "teardown"} => log[i].saw = NoValue

\* The event sink is told the right routine for every event.
EventsAttributed ==
    \A i \in 1 .. Len(log) :
        log[i].event # "none" =>
           log[i].name = CASE log[i].kind = "setup" -> <<"[Setup]", 0>>
                           [] log[i].kind = "teardown" -> <<"[Teardown]", 0>>
                           [] OTHER -> <<"testCase", log[i].testCase>>

\* At the end of a run the statistics count every test case and fixture that was
\* begun, the state of the thread has been released, and the exit code tells a
\* run without any test case from one that had some.
StatisticsComplete ==
    stage = "done" =>
        LET begun == {<<log[i].fixture, log[i].testCase>> :
                         i \in {j \in 1 .. Len(log) :
                                   log[j].kind \in {"before", "test"}}}
        IN  /\ statistics.testCases = Cardinality(begun)
            /\ statistics.fixtures = fixture
            /\ ~ HaveState
            /\ ExitCode = "NONE_EXECUTED" <=> begun = {}

\* Once the HRESULT of CfixsRunFixtureExecutionAction is an error that is no failure
\* of a routine (the execution context, a filament or an allocation failed), no later
\* fixture is started: the teardown routine that still runs may replace the HRESULT,
\* never by success. Errors that do not become the HRESULT are another matter: without
\* escalation the code eats whatever the teardown routine returns "s.t. run
\* continues" (tsexecaction.c:411-426), and that of an after routine is eaten when
\* the test routine has failed before it.
FatalEndsRun ==
    \A f \in Fixtures : [](hr = "FATAL" /\ fixture = f => [](fixture = f))

\* What was announced to the event sink is finished, in order: the run implements
\* the protocol event sinks rely on.
Protocol == INSTANCE EventProtocol
SinkProtocol == Protocol!Spec

=============================================================================
