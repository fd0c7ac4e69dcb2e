---------------------------- MODULE TestRunProofs ----------------------------
(***************************************************************************)
(* Proofs about TestRun for any number of fixtures and test cases, any     *)
(* selection of routines that are provided or store values, any number of  *)
(* events and all options.  Some properties need a run in which nothing    *)
(* but the routines fails; the theorems say which.                         *)
(***************************************************************************)
EXTENDS TestRun, FiniteSetTheorems, TLAPS

\* Only routines fail: neither the execution context nor the filaments do.
FaultFree == ~ ContextMayFail /\ ~ FilamentMayFail /\ ~ StateAllocationMayFail

-----------------------------------------------------------------------------
(***************************************************************************)
(* The invariants.                                                         *)
(***************************************************************************)

Value == [fixture : Nat, testCase : Nat, kind : Kinds \cup {"none"}]

Entry == [kind : Kinds, fixture : Fixtures, testCase : Nat, outcome : Outcomes, saw : Value,
          event : Events, name : {"testCase", "[Setup]", "[Teardown]"} \X Nat]

LogType ==
    /\ log \in Seq(Entry)
    /\ slot \in Value
    /\ currentTestCase \in Nat

InCase == {"before", "test", "after", "caseEnd"}
Ended  == {"fixtureEnd", "done", "crashed"}

\* What the control state says about the HRESULTs, and the log about the past.
ControlInv ==
    /\ stage \in {"beforeFixture", "setup"} => testCase = 0
    /\ stage \in InCase => testCase >= 1
    /\ stage \in {"beforeFixture", "setup"} \cup InCase => ~ shortCircuit
    /\ stage \in {"beforeFixture", "setup", "before", "test", "after"} => hr = "S_OK"
    /\ stage = "after" => hrTestCase \in {"S_OK", "ABORTED", "FATAL", "TEST_FAILED"}
    /\ stage = "caseEnd" => hr \in {"S_OK", "ABORTED", "FATAL", "BEFORE_FAILED", "TEST_FAILED", "AFTER_FAILED"}
    /\ stage = "loop" => hr # "FATAL" /\ (~ shortCircuit => hr = "S_OK")

PastInv ==
    \A i \in 1 .. Len(log) : /\ log[i].fixture <= fixture
                             /\ log[i].fixture = fixture => log[i].testCase <= testCase /\ stage # "beforeFixture"

RunInv == TestRunTypeOK /\ LogType /\ ControlInv /\ PastInv

\* The run ends with this fixture because of an HRESULT in F.
Stopping(F) ==
    \/ stage = "after" /\ hrTestCase \in F
    \/ stage = "caseEnd" /\ hr \in F
    \/ stage = "loop" /\ shortCircuit /\ hr # "S_OK"
    \/ stage \in {"teardown", "fixtureEnd"} /\ hr # "S_OK"
    \/ stage \in {"done", "crashed"}

Failures == HResults \ {"S_OK"}

Aborts(e) == e.outcome = "aborted" /\ e.kind \in {"before", "test"}

AbortInv == \A i \in 1 .. Len(log) : Aborts(log[i]) => log[i].fixture = fixture /\ Stopping({"ABORTED"})

EscalationInv ==
    "fsr" \in options =>
        \A i \in 1 .. Len(log) : log[i].outcome = "failed" => log[i].fixture = fixture /\ Stopping(Failures)

\* No further test case of the fixture is started.
Skipping ==
    \/ stage = "after" /\ ~ Succeeded(hrTestCase)
    \/ stage = "caseEnd" /\ ~ Succeeded(hr)
    \/ stage = "loop" /\ shortCircuit
    \/ stage \in {"teardown"} \cup Ended

SkipInv ==
    ShortCircuitFixtureOnFailure =>
        \A i \in 1 .. Len(log) : log[i].outcome = "failed" => log[i].fixture < fixture \/ Skipping

\* The last routine of a fixture.
Ends(e) == e.kind = "teardown" \/ (e.kind = "setup" /\ e.outcome # "ok")

EndInv == \A i \in 1 .. Len(log) : Ends(log[i]) => log[i].fixture < fixture \/ stage \in Ended

\* The values of the storage slot and the names of events.
SlotInv ==
    stage \in {"test", "after"} => /\ slot.fixture \in {0, fixture} /\ slot.testCase \in {0, testCase}
                                /\ slot.kind # "setup"

NameInv ==
    /\ stage \in {"beforeFixture", "setup", "loop", "teardown", "fixtureEnd"} => currentTestCase = NoneCurrent
    /\ stage \in InCase => currentTestCase = testCase
    /\ stage = "setup" => ~ firstTestCaseBegun
    /\ stage = "loop" => firstTestCaseBegun \/ (testCase = 0 /\ ~ shortCircuit)
    /\ stage \in InCase \cup {"teardown"} => firstTestCaseBegun

\* In a run without faults: a fixture that is over was torn down unless its setup
\* failed, and a test routine is followed by the after routine.
TornDownInv ==
    \A f \in Fixtures :
        /\ f < fixture \/ (f = fixture /\ stage \in {"fixtureEnd", "done"})
        /\ \A i \in Ran(f, "setup") : log[i].outcome = "ok"
        => Ran(f, "teardown") # {}

FollowedInv ==
    log # <<>> /\ log[Len(log)].kind = "test" =>
        \/ stage = "after" /\ log[Len(log)].testCase = testCase
        \/ stage = "crashed"

\* Nothing of what stops a run early has happened.
Calm ==
    /\ {"fsf", "fss", "fsr"} \cap options = {}
    /\ \A i \in 1 .. Len(log) : log[i].outcome # "aborted"

Begun(f, c) == \E i \in 1 .. Len(log) : /\ log[i].fixture = f /\ log[i].testCase = c
                                        /\ log[i].kind \in {"before", "test"}

\* The test cases of f that must have been begun.
Due(f) ==
    {c \in 1 .. TestCaseCount[f] :
        /\ testCaseIndex[f] \in {0, c}
        /\ \/ f < fixture
           \/ f = fixture /\ stage \in {"teardown", "fixtureEnd", "done"}
           \/ f = fixture /\ stage \in {"loop", "after", "caseEnd"} /\ c <= testCase
           \/ f = fixture /\ stage \in {"before", "test"} /\ c < testCase}

\* The statistics count the test cases that are over; one more may be under way.
BegunSet == {<<log[i].fixture, log[i].testCase>> :
                i \in {j \in 1 .. Len(log) : log[j].kind \in {"before", "test"}}}

Statistics == [fixtures : Nat, testCases : Nat, succeeded : Nat, failed : Nat, inconclusive : Nat]

-----------------------------------------------------------------------------
(***************************************************************************)
(* Steps that run a routine, in one form.                                  *)
(***************************************************************************)

\* The routine of kind stage had outcome o and left entry e.
Wrote(o, e) ==
    /\ log' = Append(log, e)
    /\ e.kind = stage /\ e.fixture = fixture /\ e.outcome = o
    /\ e.testCase = IF stage \in {"setup", "teardown"} THEN 0 ELSE testCase
    /\ e.saw = StorageSeen(stage) /\ e.name = EventName

Logged(o) ==
    /\ stage \in Provided \cup {"test"} /\ o # "fatal" /\ slot' = StorageLeft(stage)
    /\ \E e \in Entry : Wrote(o, e)

NotLogged(o) ==
    /\ log' = log
    /\ \/ o = "ok" /\ stage \notin Provided \cup {"test"} /\ slot' = slot
       \/ o = "fatal" /\ FilamentMayFail /\ slot' = StorageSeen(stage)

\* The control of the five steps that run a routine.
Moves(o) ==
    /\ IF o = "crashed" THEN stage' = "crashed" /\ hr' = hr
       ELSE /\ stage = "setup" => IF o = "fatal" THEN stage' = "done" /\ hr' = "FATAL"
                               ELSE /\ stage' = IF o = "ok" THEN "loop" ELSE "fixtureEnd"
                                    /\ hr' = IF ShortCircuitRunOnSetupFailure THEN ResultOf("setup", o) ELSE "S_OK"
            /\ stage = "before" => hr' = ResultOf("before", o) /\ stage' = IF o = "ok" THEN "test" ELSE "caseEnd"
            /\ stage = "test" => hr' = hr /\ stage' = "after" /\ hrTestCase' = ResultOf("test", o)
            /\ stage = "after" => /\ hr' = IF Succeeded(hrTestCase) THEN ResultOf("after", o) ELSE hrTestCase
                               /\ stage' = "caseEnd"
            /\ stage = "teardown" => /\ hr' = IF o # "ok" /\ EscalateFixtureFailures THEN ResultOf("teardown", o) ELSE hr
                                  /\ stage' = "fixtureEnd"
    /\ stage # "test" \/ o = "crashed" => hrTestCase' = hrTestCase
    /\ UNCHANGED <<fixture, testCase, testCaseIndex, shortCircuit>>

RoutineStep(o) ==
    /\ stage \in Kinds
    /\ Logged(o) \/ NotLogged(o)
    /\ Moves(o)
    /\ events' \in 0 .. MaxEvents /\ completed' \in BOOLEAN
    /\ UNCHANGED <<firstTestCaseBegun, currentTestCase, currentFixture, sink, options, threadState, statistics>>

\* No event is fatal; only a filament that cannot be set up is.
LEMMA OutcomeFact ==
  ASSUME NEW event \in Events
  PROVE  Outcome(event) \in {"ok", "failed", "aborted", "crashed"}
<1>1. CASE event = "failedAssertion"
  <2>1. ReportEvent(event) \in {"abort", "breakAlways", "break"}
    BY <1>1 DEF ReportEvent, Disposition
  <2> QED BY <1>1, <2>1 DEF Outcome
<1>2. CASE event = "uncaughtException"
  <2>1. ReportEvent(event) \in {"abort", "break", "continue"}
    BY <1>2 DEF ReportEvent, Disposition
  <2> QED BY <1>2, <2>1 DEF Outcome
<1>3. CASE event \in {"none", "log", "inconclusiveness", "childFailure"}
  BY <1>3 DEF Outcome
<1> QED BY <1>1, <1>2, <1>3 DEF Events

\* The HRESULT of a routine by its outcome.
LEMMA ResultFact ==
  ASSUME NEW k \in Kinds, NEW o \in Outcomes
  PROVE  /\ ResultOf(k, "ok") = "S_OK" /\ ResultOf(k, "aborted") = "ABORTED" /\ ResultOf(k, "fatal") = "FATAL"
         /\ ResultOf(k, "failed") = RoutineFailed[k] /\ ResultOf(k, "crashed") = "S_OK"
         /\ RoutineFailed[k] \in {"SETUP_FAILED", "BEFORE_FAILED", "TEST_FAILED", "AFTER_FAILED", "TEARDOWN_FAILED"}
         /\ RoutineFailed["setup"] = "SETUP_FAILED" /\ RoutineFailed["before"] = "BEFORE_FAILED"
         /\ RoutineFailed["test"] = "TEST_FAILED" /\ RoutineFailed["after"] = "AFTER_FAILED"
         /\ RoutineFailed["teardown"] = "TEARDOWN_FAILED"
         /\ ResultOf(k, o) \in HResults
<1>1. /\ RoutineFailed["setup"] = "SETUP_FAILED" /\ RoutineFailed["before"] = "BEFORE_FAILED"
      /\ RoutineFailed["test"] = "TEST_FAILED" /\ RoutineFailed["after"] = "AFTER_FAILED"
      /\ RoutineFailed["teardown"] = "TEARDOWN_FAILED"
  BY DEF RoutineFailed
<1>2. RoutineFailed[k] \in {"SETUP_FAILED", "BEFORE_FAILED", "TEST_FAILED", "AFTER_FAILED", "TEARDOWN_FAILED"}
  BY <1>1 DEF Kinds
<1>3. /\ ResultOf(k, "ok") = "S_OK" /\ ResultOf(k, "aborted") = "ABORTED" /\ ResultOf(k, "fatal") = "FATAL"
      /\ ResultOf(k, "failed") = RoutineFailed[k] /\ ResultOf(k, "crashed") = "S_OK"
  BY DEF ResultOf
<1>4. RoutineFailed[k] \in HResults
  BY DEF HResults
<1>5. ResultOf(k, o) \in HResults
  BY <1>3, <1>4 DEF Outcomes, HResults
<1> QED BY <1>1, <1>2, <1>3, <1>5

\* The value a routine sees and the one it leaves.
LEMMA StorageFact ==
  ASSUME TestRunTypeOK, LogType, NEW k \in Kinds
  PROVE  StorageSeen(k) \in Value /\ StorageLeft(k) \in Value
<1>1. NoValue \in Value
  BY DEF NoValue, Value
<1>2. StorageSeen(k) \in Value
  BY <1>1 DEF StorageSeen, LogType
<1>3. fixture \in Nat /\ testCase \in Nat
  BY TestRunAssumption DEF TestRunTypeOK, Fixtures
<1>4. [fixture |-> fixture, testCase |-> testCase, kind |-> k] \in Value
  BY <1>3 DEF Value
<1> QED BY <1>2, <1>4 DEF StorageLeft

\* What RunRoutine does to the log, the slot and the count of events.
LEMMA RunFact ==
  ASSUME TestRunTypeOK, LogType, stage \in Kinds, NEW o \in Outcomes, RunRoutine(stage, o)
  PROVE  (Logged(o) \/ NotLogged(o)) /\ events' \in 0 .. MaxEvents
<1>1. CASE stage \notin Provided \cup {"test"} /\ o = "ok" /\ UNCHANGED routineVars
  BY <1>1 DEF routineVars, NotLogged, TestRunTypeOK
<1>2. CASE stage \in Provided \cup {"test"} /\ \E event \in Events :
             /\ event # "none" => events < MaxEvents
             /\ events' = IF event = "none" THEN events ELSE events + 1
             /\ o = Outcome(event)
             /\ slot' = StorageLeft(stage)
             /\ LogRoutine(stage, event, o)
  <2>1. PICK event \in Events :
             /\ event # "none" => events < MaxEvents
             /\ events' = IF event = "none" THEN events ELSE events + 1
             /\ o = Outcome(event)
             /\ slot' = StorageLeft(stage)
             /\ LogRoutine(stage, event, o)
    BY <1>2
  <2>2. PICK e : e = [kind |-> stage, fixture |-> fixture,
                      testCase |-> IF stage \in {"setup", "teardown"} THEN 0 ELSE testCase,
                      outcome |-> o, saw |-> StorageSeen(stage), event |-> event, name |-> EventName]
    OBVIOUS
  <2>3. log' = Append(log, e)
    BY <2>1, <2>2 DEF LogRoutine
  <2>4. EventName \in {"testCase", "[Setup]", "[Teardown]"} \X Nat
    BY DEF EventName, NoneCurrent, LogType
  <2>5. fixture \in Fixtures /\ testCase \in Nat /\ StorageSeen(stage) \in Value
    BY StorageFact, TestRunAssumption DEF TestRunTypeOK, Fixtures
  <2>6. e \in Entry
    BY <2>2, <2>4, <2>5 DEF Entry
  <2>7. o # "fatal"
    BY <2>1, OutcomeFact
  <2>8. Wrote(o, e)
    BY <2>2, <2>3 DEF Wrote
  <2>9. events' \in 0 .. MaxEvents
    BY <2>1, TestRunAssumption DEF TestRunTypeOK
  <2> QED BY <1>2, <2>1, <2>6, <2>7, <2>8, <2>9 DEF Logged
<1>3. CASE FilamentMayFail /\ stage \in Provided \cup {"test"} /\ o = "fatal" /\ slot' = StorageSeen(stage) /\ UNCHANGED <<events, log>>
  BY <1>3 DEF NotLogged, TestRunTypeOK
<1> QED BY <1>1, <1>2, <1>3 DEF RunRoutine

\* The five actions that run a routine.
LEMMA RoutineFact ==
  ASSUME TestRunTypeOK, LogType, Setup \/ Before \/ Test \/ After \/ Teardown
  PROVE  \E o \in Outcomes : RoutineStep(o)
<1> USE DEF Kinds, Outcomes
<1>1. UNCHANGED <<firstTestCaseBegun, currentTestCase, currentFixture, sink, options, threadState, statistics>>
  BY DEF Setup, Before, Test, After, Teardown, emitterVars, execContextVars
<1>2. CASE Setup
  <2>1. PICK o \in Outcomes :
          /\ RunRoutine("setup", o)
          /\ \/ Crash(o)
             \/ /\ o = "fatal"
                /\ ReturnFromAction("FATAL")
             \/ /\ o \in {"ok", "failed", "aborted"}
                /\ completed' = (o = "ok")
                /\ hr' = IF ShortCircuitRunOnSetupFailure THEN ResultOf("setup", o) ELSE "S_OK"
                /\ stage' = AfterSetup(o)
                /\ UNCHANGED <<fixture, testCase, testCaseIndex, hrTestCase, shortCircuit>>
    BY <1>2 DEF Setup
  <2>2. stage = "setup"
    BY <1>2 DEF Setup
  <2>3. (Logged(o) \/ NotLogged(o)) /\ events' \in 0 .. MaxEvents
    BY <2>1, <2>2, RunFact
  <2>4. Moves(o)
    BY <2>1, <2>2 DEF Moves, Crash, ReturnFromAction, SequenceContinues, Succeeded, AfterSetup
  <2>5. completed' \in BOOLEAN
    BY <2>1 DEF Crash, ReturnFromAction, SequenceContinues, Succeeded, TestRunTypeOK
  <2> QED BY <1>1, <2>2, <2>3, <2>4, <2>5 DEF RoutineStep
<1>3. CASE Before
  <2>1. PICK o \in Outcomes :
          /\ RunRoutine("before", o)
          /\ \/ Crash(o)
             \/ /\ o # "crashed"
                /\ hr' = ResultOf("before", o)
                /\ stage' = IF o = "ok" THEN "test" ELSE "caseEnd"
                /\ UNCHANGED <<fixture, testCase, testCaseIndex, hrTestCase, completed, shortCircuit>>
    BY <1>3 DEF Before
  <2>2. stage = "before"
    BY <1>3 DEF Before
  <2>3. (Logged(o) \/ NotLogged(o)) /\ events' \in 0 .. MaxEvents
    BY <2>1, <2>2, RunFact
  <2>4. Moves(o)
    BY <2>1, <2>2 DEF Moves, Crash
  <2>5. completed' \in BOOLEAN
    BY <2>1 DEF Crash, TestRunTypeOK
  <2> QED BY <1>1, <2>2, <2>3, <2>4, <2>5 DEF RoutineStep
<1>4. CASE Test
  <2>1. PICK o \in Outcomes :
          /\ RunRoutine("test", o)
          /\ \/ Crash(o)
             \/ /\ o # "crashed"
                /\ hrTestCase' = ResultOf("test", o)
                /\ stage' = "after"
                /\ UNCHANGED <<fixture, testCase, testCaseIndex, hr, completed, shortCircuit>>
    BY <1>4 DEF Test
  <2>2. stage = "test"
    BY <1>4 DEF Test
  <2>3. (Logged(o) \/ NotLogged(o)) /\ events' \in 0 .. MaxEvents
    BY <2>1, <2>2, RunFact
  <2>4. Moves(o)
    BY <2>1, <2>2 DEF Moves, Crash
  <2>5. completed' \in BOOLEAN
    BY <2>1 DEF Crash, TestRunTypeOK
  <2> QED BY <1>1, <2>2, <2>3, <2>4, <2>5 DEF RoutineStep
<1>5. CASE After
  <2>1. PICK o \in Outcomes :
          /\ RunRoutine("after", o)
          /\ \/ Crash(o)
             \/ /\ o # "crashed"
                /\ hr' = IF Succeeded(hrTestCase) THEN ResultOf("after", o) ELSE hrTestCase
                /\ stage' = "caseEnd"
                /\ UNCHANGED <<fixture, testCase, testCaseIndex, hrTestCase, completed, shortCircuit>>
    BY <1>5 DEF After
  <2>2. stage = "after"
    BY <1>5 DEF After
  <2>3. (Logged(o) \/ NotLogged(o)) /\ events' \in 0 .. MaxEvents
    BY <2>1, <2>2, RunFact
  <2>4. Moves(o)
    BY <2>1, <2>2 DEF Moves, Crash
  <2>5. completed' \in BOOLEAN
    BY <2>1 DEF Crash, TestRunTypeOK
  <2> QED BY <1>1, <2>2, <2>3, <2>4, <2>5 DEF RoutineStep
<1>6. CASE Teardown
  <2>1. PICK o \in Outcomes :
          /\ RunRoutine("teardown", o)
          /\ \/ Crash(o)
             \/ /\ o # "crashed"
                /\ completed' = (completed /\ o = "ok")
                /\ hr' = IF o # "ok" /\ EscalateFixtureFailures THEN ResultOf("teardown", o) ELSE hr
                /\ stage' = "fixtureEnd"
                /\ UNCHANGED <<fixture, testCase, testCaseIndex, hrTestCase, shortCircuit>>
    BY <1>6 DEF Teardown
  <2>2. stage = "teardown"
    BY <1>6 DEF Teardown
  <2>3. (Logged(o) \/ NotLogged(o)) /\ events' \in 0 .. MaxEvents
    BY <2>1, <2>2, RunFact
  <2>4. Moves(o)
    BY <2>1, <2>2 DEF Moves, Crash
  <2>5. completed' \in BOOLEAN
    BY <2>1 DEF Crash, TestRunTypeOK
  <2> QED BY <1>1, <2>2, <2>3, <2>4, <2>5 DEF RoutineStep
<1> QED BY <1>2, <1>3, <1>4, <1>5, <1>6

-----------------------------------------------------------------------------
(***************************************************************************)
(* The steps between routines, in the same form.                           *)
(***************************************************************************)

CaseFailed == {"BEFORE_FAILED", "TEST_FAILED", "AFTER_FAILED"}

Opens ==
    /\ stage = "beforeFixture" /\ stage' = "setup" /\ UNCHANGED <<hr, fixture, testCase, shortCircuit>>
    /\ EmitBeforeFixtureStart(fixture) /\ ContextBeforeFixtureStart

OpenFails ==
    /\ stage = "beforeFixture" /\ StateAllocationMayFail
    /\ stage' = "done" /\ hr' = "FATAL" /\ UNCHANGED <<fixture, testCase, shortCircuit>>
    /\ EmitBeforeFixtureStart(fixture)

CaseOpens ==
    /\ stage = "loop" /\ ~ shortCircuit
    /\ testCase' \in Remaining /\ \A d \in Remaining : testCase' <= d
    /\ EmitBeforeTestCaseStart(testCase') /\ UNCHANGED <<fixture, threadState, statistics>>
    /\ \/ stage' = "before" /\ hr' = "S_OK" /\ shortCircuit' = shortCircuit
       \/ ContextMayFail /\ stage' = "teardown" /\ hr' = "FATAL" /\ shortCircuit' = TRUE

CaseCloses ==
    /\ stage = "caseEnd" /\ hr # "FATAL" /\ stage' = "loop"
    /\ shortCircuit' = ((hr \in CaseFailed /\ ShortCircuitFixtureOnFailure) \/ hr = "ABORTED")
    /\ hr' = IF hr \in CaseFailed /\ ~ (ShortCircuitFixtureOnFailure /\ EscalateFixtureFailures) THEN "S_OK" ELSE hr
    /\ UNCHANGED <<fixture, testCase>>
    /\ EmitAfterTestCaseFinish /\ ContextAfterTestCaseFinish

CaseFails ==
    /\ stage = "caseEnd" /\ hr = "FATAL" /\ stage' = "done"
    /\ UNCHANGED <<hr, fixture, testCase, shortCircuit>>
    /\ UNCHANGED <<firstTestCaseBegun, currentTestCase, currentFixture, sink, threadState, statistics>>

LoopCloses ==
    /\ stage = "loop" /\ (shortCircuit \/ Remaining = {}) /\ stage' = "teardown"
    /\ UNCHANGED <<hr, fixture, testCase, shortCircuit>>
    /\ UNCHANGED <<firstTestCaseBegun, currentTestCase, currentFixture, sink, threadState, statistics>>

Closes ==
    /\ stage = "fixtureEnd" /\ hr' = hr
    /\ \/ /\ hr = "S_OK" /\ fixture < FixtureCount
          /\ stage' = "beforeFixture" /\ fixture' = fixture + 1 /\ testCase' = 0 /\ shortCircuit' = FALSE
       \/ /\ hr # "S_OK" \/ ~ (fixture < FixtureCount)
          /\ stage' = "done" /\ UNCHANGED <<fixture, testCase, shortCircuit>>
    /\ EmitAfterFixtureFinish /\ ContextAfterFixtureFinish

Rests ==
    UNCHANGED <<stage, hr, fixture, testCase, shortCircuit, firstTestCaseBegun, currentTestCase, currentFixture, sink,
                threadState, statistics>>

QuietStep ==
    /\ UNCHANGED <<log, slot, events, testCaseIndex, hrTestCase, options>> /\ completed' \in BOOLEAN
    /\ \/ Opens \/ OpenFails \/ CaseOpens \/ CaseCloses \/ CaseFails \/ LoopCloses \/ Closes \/ Rests

\* Every step runs a routine or is one of those between routines.
LEMMA StepFact ==
  ASSUME TestRunTypeOK, LogType, [TestRunNext]_testRunVars
  PROVE  QuietStep \/ \E o \in Outcomes : RoutineStep(o)
<1>1. {RoutineFailed[k] : k \in {"before", "test", "after"}} = CaseFailed
  BY ResultFact DEF CaseFailed, RoutineFailed
<1>2. CASE BeforeFixtureStart
  <2>1. UNCHANGED <<log, slot, events, testCaseIndex, hrTestCase, options>> /\ completed' \in BOOLEAN
    BY <1>2 DEF BeforeFixtureStart, routineVars, ReturnFromAction, SequenceContinues, Succeeded, ContextBeforeFixtureStart,
       ContextBeforeFixtureStartFails, execContextVars, TestRunTypeOK
  <2>2. Opens \/ OpenFails
    BY <1>2 DEF BeforeFixtureStart, ReturnFromAction, SequenceContinues, Succeeded, Opens, OpenFails, ContextBeforeFixtureStartFails
  <2> QED BY <2>1, <2>2 DEF QuietStep
<1>3. CASE BeforeTestCaseStart
  <2>1. UNCHANGED <<log, slot, events, testCaseIndex, hrTestCase, options>> /\ completed' \in BOOLEAN
    BY <1>3 DEF BeforeTestCaseStart, routineVars, execContextVars, TestRunTypeOK
  <2>2. CaseOpens
    BY <1>3 DEF BeforeTestCaseStart, CaseOpens, execContextVars
  <2> QED BY <2>1, <2>2 DEF QuietStep
<1>4. CASE TestCaseEnds
  <2>1. UNCHANGED <<log, slot, events, testCaseIndex, hrTestCase, options>> /\ completed' \in BOOLEAN
    BY <1>4 DEF TestCaseEnds, routineVars, ContextAfterTestCaseFinish, TestRunTypeOK
  <2>2. CaseCloses
    BY <1>1, <1>4 DEF TestCaseEnds, CaseCloses
  <2> QED BY <2>1, <2>2 DEF QuietStep
<1>5. CASE TestCaseFailsFatally
  BY <1>5 DEF TestCaseFailsFatally, ReturnFromAction, SequenceContinues, Succeeded, routineVars, emitterVars, execContextVars,
     QuietStep, CaseFails, TestRunTypeOK
<1>6. CASE LoopEnds
  <2>1. UNCHANGED <<log, slot, events, testCaseIndex, hrTestCase, options>> /\ completed' \in BOOLEAN
    BY <1>6 DEF LoopEnds, routineVars, execContextVars, TestRunTypeOK
  <2>2. LoopCloses
    BY <1>6 DEF LoopEnds, emitterVars, execContextVars, LoopCloses
  <2> QED BY <2>1, <2>2 DEF QuietStep
<1>7. CASE AfterFixtureFinish
  <2>1. UNCHANGED <<log, slot, events, testCaseIndex, hrTestCase, options>> /\ completed' \in BOOLEAN
    BY <1>7 DEF AfterFixtureFinish, routineVars, ReturnFromAction, ContextAfterFixtureFinish, TestRunTypeOK
  <2>2. Closes
    BY <1>7 DEF AfterFixtureFinish, ReturnFromAction, SequenceContinues, Succeeded, Closes
  <2> QED BY <2>1, <2>2 DEF QuietStep
<1>8. CASE Finished \/ UNCHANGED testRunVars
  BY <1>8 DEF Finished, testRunVars, controlVars, routineVars, emitterVars, execContextVars, QuietStep, Rests, TestRunTypeOK
<1>9. CASE Setup \/ Before \/ Test \/ After \/ Teardown
  BY <1>9, RoutineFact
<1> QED BY <1>2, <1>3, <1>4, <1>5, <1>6, <1>7, <1>8, <1>9 DEF TestRunNext

\* The log after a routine.
LEMMA AppendFact ==
  ASSUME LogType, NEW e \in Entry, log' = Append(log, e)
  PROVE  /\ Len(log) \in Nat /\ Len(log') = Len(log) + 1 /\ log' \in Seq(Entry)
         /\ log'[Len(log) + 1] = e /\ \A i \in 1 .. Len(log) : log'[i] = log[i]
         /\ \A i \in 1 .. Len(log') : i \in 1 .. Len(log) \/ i = Len(log) + 1
<1>1. log \in Seq(Entry)
  BY DEF LogType
<1>2. /\ Len(log) \in Nat /\ Len(log') = Len(log) + 1 /\ log' \in Seq(Entry)
      /\ log'[Len(log) + 1] = e /\ \A i \in 1 .. Len(log) : log'[i] = log[i]
  BY <1>1
<1> QED BY <1>2

-----------------------------------------------------------------------------
(***************************************************************************)
(* Types, the control state and the past.                                  *)
(***************************************************************************)

\* The run begins with the first fixture and an empty log.
LEMMA RunInit == TestRunInit => RunInv
<1> SUFFICES ASSUME TestRunInit PROVE RunInv
  OBVIOUS
<1> USE TestRunAssumption DEF TestRunInit, EmitterInit, ExecContextInit
<1>1. log = <<>> /\ Len(log) = 0 /\ log \in Seq(Entry)
  OBVIOUS
<1>2. NoValue \in Value
  BY DEF NoValue, Value
<1>3. LogType
  BY <1>1, <1>2 DEF LogType, NoneCurrent
<1>4. testCaseIndex \in [Fixtures -> Nat]
  OBVIOUS
<1>5. fixture \in 1 .. FixtureCount /\ TestCaseCount[fixture] \in 0 .. MaxTestCases
  BY DEF Fixtures
<1>6. TestRunTypeOK
  <2>1. /\ stage = "beforeFixture" /\ hr = "S_OK" /\ hrTestCase = "S_OK" /\ completed \in BOOLEAN /\ shortCircuit \in BOOLEAN
        /\ options \subseteq ExecOptions
    OBVIOUS
  <2>2. testCase \in 0 .. TestCaseCount[fixture] /\ events \in 0 .. MaxEvents /\ currentFixture \in 0 .. FixtureCount
    BY <1>5 DEF NoneCurrent
  <2> HIDE DEF TestRunInit
  <2> QED BY <1>4, <1>5, <2>1, <2>2 DEF TestRunTypeOK, HResults
<1>7. ControlInv /\ PastInv
  BY <1>1 DEF ControlInv, PastInv, InCase
<1> QED BY <1>3, <1>6, <1>7 DEF RunInv

\* A routine runs.
LEMMA RunRoutineStep ==
  ASSUME RunInv, NEW o \in Outcomes, RoutineStep(o)
  PROVE  RunInv'
<1> USE TestRunAssumption DEF RunInv
<1>1. /\ stage \in Kinds /\ Moves(o) /\ events' \in 0 .. MaxEvents /\ completed' \in BOOLEAN
      /\ UNCHANGED <<fixture, testCase, testCaseIndex, shortCircuit, firstTestCaseBegun, currentTestCase, currentFixture,
                     sink, options, threadState, statistics>>
  BY DEF RoutineStep, Moves
<1>2. /\ hr' \in HResults /\ hrTestCase' \in HResults
      /\ stage' \in {"loop", "fixtureEnd", "test", "caseEnd", "after", "done", "crashed"}
  <2>1. hr \in HResults /\ hrTestCase \in HResults /\ "S_OK" \in HResults /\ "FATAL" \in HResults
    BY DEF TestRunTypeOK, HResults
  <2>2. \A k \in Kinds : ResultOf(k, o) \in HResults
    BY ResultFact
  <2>3. "setup" \in Kinds /\ "before" \in Kinds /\ "test" \in Kinds /\ "after" \in Kinds /\ "teardown" \in Kinds
    BY DEF Kinds
  <2> QED BY <1>1, <2>1, <2>2, <2>3 DEF Moves, Kinds
<1>3. TestRunTypeOK'
  BY <1>1, <1>2 DEF TestRunTypeOK
<1>4. LogType'
  <2>1. slot' \in Value
    BY <1>1, StorageFact DEF RoutineStep, Logged, NotLogged, LogType
  <2>2. log' \in Seq(Entry)
    <3>1. CASE Logged(o)
      BY <3>1, AppendFact DEF Logged, Wrote
    <3>2. CASE NotLogged(o)
      BY <3>2 DEF NotLogged, LogType
    <3> QED BY <3>1, <3>2 DEF RoutineStep
  <2> QED BY <1>1, <2>1, <2>2 DEF LogType
<1>5. ControlInv'
  <2>1. o \in {"ok", "failed", "aborted", "fatal", "crashed"}
    BY DEF Outcomes
  <2>2. /\ ResultOf("setup", "ok") = "S_OK"
        /\ ResultOf("before", o) \in {"S_OK", "ABORTED", "FATAL", "BEFORE_FAILED"}
        /\ ResultOf("before", "ok") = "S_OK"
        /\ ResultOf("test", o) \in {"S_OK", "ABORTED", "FATAL", "TEST_FAILED"}
        /\ ResultOf("after", o) \in {"S_OK", "ABORTED", "FATAL", "AFTER_FAILED"}
    BY <2>1, ResultFact DEF Kinds
  <2>3. CASE o = "crashed"
    BY <1>1, <2>3 DEF Moves, ControlInv, InCase
  <2>4. CASE o # "crashed" /\ stage = "setup"
    BY <1>1, <2>2, <2>4 DEF Moves, ControlInv, InCase
  <2>5. CASE o # "crashed" /\ stage = "before"
    BY <1>1, <2>2, <2>5 DEF Moves, ControlInv, InCase
  <2>6. CASE o # "crashed" /\ stage = "test"
    BY <1>1, <2>2, <2>6 DEF Moves, ControlInv, InCase
  <2>7. CASE o # "crashed" /\ stage = "after"
    BY <1>1, <2>2, <2>7 DEF Moves, ControlInv, InCase
  <2>8. CASE o # "crashed" /\ stage = "teardown"
    BY <1>1, <2>2, <2>8 DEF Moves, ControlInv, InCase
  <2> QED BY <1>1, <2>3, <2>4, <2>5, <2>6, <2>7, <2>8 DEF Kinds
<1>6. PastInv'
  <2>1. testCase \in Nat /\ fixture \in Nat
    BY DEF TestRunTypeOK, Fixtures
  <2>2. stage' # "beforeFixture"
    BY <1>2
  <2>3. CASE Logged(o)
    <3>1. PICK e \in Entry : Wrote(o, e)
      BY <2>3 DEF Logged
    <3>2. e.fixture = fixture /\ e.testCase <= testCase
      BY <2>1, <3>1 DEF Wrote
    <3>3. /\ Len(log) \in Nat /\ log'[Len(log) + 1] = e /\ \A i \in 1 .. Len(log) : log'[i] = log[i]
          /\ \A i \in 1 .. Len(log') : i \in 1 .. Len(log) \/ i = Len(log) + 1
      BY <3>1, AppendFact DEF Wrote
    <3> QED BY <1>1, <2>1, <2>2, <3>2, <3>3 DEF PastInv
  <2>4. CASE NotLogged(o)
    BY <1>1, <2>2, <2>4 DEF NotLogged, PastInv
  <2> QED BY <2>3, <2>4 DEF RoutineStep
<1> QED BY <1>3, <1>4, <1>5, <1>6

\* A step between routines.
LEMMA RunQuietStep ==
  ASSUME RunInv, QuietStep
  PROVE  RunInv'
<1> USE TestRunAssumption DEF RunInv
<1>1. /\ UNCHANGED <<log, slot, events, testCaseIndex, hrTestCase, options>> /\ completed' \in BOOLEAN
      /\ fixture \in 1 .. FixtureCount /\ testCase \in Nat /\ TestCaseCount[fixture] \in Nat
      /\ testCase <= TestCaseCount[fixture] /\ hr \in HResults /\ Len(log) \in Nat
  BY DEF QuietStep, TestRunTypeOK, Fixtures, LogType
<1>2. /\ stage' \in {"beforeFixture", "setup", "loop", "before", "teardown", "done", stage}
      /\ hr' \in HResults /\ shortCircuit' \in BOOLEAN
  BY <1>1 DEF QuietStep, Opens, OpenFails, CaseOpens, CaseCloses, CaseFails, LoopCloses, Closes, Rests, TestRunTypeOK, HResults
<1>3. fixture' \in 1 .. FixtureCount /\ testCase' \in 0 .. TestCaseCount[fixture']
  <2>1. CASE CaseOpens
    BY <1>1, <2>1 DEF CaseOpens, Remaining
  <2>2. CASE Closes
    BY <1>1, <2>2 DEF Closes, Fixtures
  <2>3. CASE Opens \/ OpenFails \/ CaseCloses \/ CaseFails \/ LoopCloses \/ Rests
    BY <1>1, <2>3 DEF Opens, OpenFails, CaseCloses, CaseFails, LoopCloses, Rests
  <2> QED BY <2>1, <2>2, <2>3 DEF QuietStep
<1>4. currentFixture' \in 0 .. FixtureCount /\ currentTestCase' \in Nat
  <2>1. currentFixture \in 0 .. FixtureCount /\ currentTestCase \in Nat
    BY DEF TestRunTypeOK, LogType
  <2>2. testCase' \in Nat
    BY <1>1, <1>3 DEF Fixtures
  <2> QED BY <1>1, <2>1, <2>2 DEF QuietStep, Opens, OpenFails, CaseOpens, CaseCloses, CaseFails, LoopCloses, Closes, Rests,
          EmitBeforeFixtureStart, EmitBeforeTestCaseStart, EmitAfterTestCaseFinish, EmitAfterFixtureFinish, NoneCurrent
<1>5. TestRunTypeOK' /\ LogType'
  BY <1>1, <1>2, <1>3, <1>4 DEF TestRunTypeOK, LogType
<1>6. ControlInv'
  <2>1. CASE Opens \/ OpenFails \/ CaseFails \/ LoopCloses \/ Rests
    BY <1>1, <2>1 DEF Opens, OpenFails, CaseFails, LoopCloses, Rests, ControlInv, InCase
  <2>2. CASE CaseOpens
    <3>1. testCase' >= 1
      BY <1>1, <2>2 DEF CaseOpens, Remaining
    <3> QED BY <1>1, <2>2, <3>1 DEF CaseOpens, ControlInv, InCase
  <2>3. CASE CaseCloses
    <3>1. hr # "FATAL" /\ hr \in {"S_OK", "ABORTED", "FATAL", "BEFORE_FAILED", "TEST_FAILED", "AFTER_FAILED"}
      BY <2>3 DEF CaseCloses, ControlInv
    <3>2. hr' # "FATAL" /\ (~ shortCircuit' => hr' = "S_OK") /\ stage' = "loop"
      BY <2>3, <3>1 DEF CaseCloses, CaseFailed
    <3> QED BY <3>2 DEF ControlInv, InCase
  <2>4. CASE Closes
    BY <1>1, <2>4 DEF Closes, ControlInv, InCase
  <2> QED BY <2>1, <2>2, <2>3, <2>4 DEF QuietStep
<1>7. PastInv'
  <2> SUFFICES ASSUME NEW i \in 1 .. Len(log)
               PROVE  /\ log[i].fixture <= fixture'
                      /\ log[i].fixture = fixture' => log[i].testCase <= testCase' /\ stage' # "beforeFixture"
    BY <1>1 DEF PastInv
  <2>1. /\ log[i].fixture \in Nat /\ log[i].testCase \in Nat /\ log[i].fixture <= fixture
        /\ log[i].fixture = fixture => log[i].testCase <= testCase /\ stage # "beforeFixture"
    <3>1. log[i] \in Entry
      BY DEF LogType
    <3> QED BY <3>1 DEF PastInv, Entry, Fixtures
  <2>2. CASE CaseOpens
    <3>1. testCase' \in Nat /\ testCase < testCase' /\ fixture' = fixture /\ stage' # "beforeFixture"
      BY <1>1, <2>2 DEF CaseOpens, Remaining
    <3> QED BY <1>1, <2>1, <3>1
  <2>3. CASE Closes
    <3>1. fixture' = fixture + 1 \/ (fixture' = fixture /\ testCase' = testCase /\ stage' = "done")
      BY <2>3 DEF Closes
    <3> QED BY <1>1, <2>1, <3>1
  <2>4. CASE Opens \/ OpenFails \/ CaseCloses \/ CaseFails \/ LoopCloses \/ Rests
    BY <1>1, <2>1, <2>4 DEF Opens, OpenFails, CaseCloses, CaseFails, LoopCloses, Rests
  <2> QED BY <2>2, <2>3, <2>4 DEF QuietStep
<1> QED BY <1>5, <1>6, <1>7

\* The invariant of the run, whatever fails.
THEOREM RunInvariance == TestRunSpec => []RunInv
<1>1. TestRunInit => RunInv
  BY RunInit
<1>2. RunInv /\ [TestRunNext]_testRunVars => RunInv'
  BY StepFact, RunRoutineStep, RunQuietStep DEF RunInv
<1> QED BY <1>1, <1>2, PTL DEF TestRunSpec

-----------------------------------------------------------------------------
(***************************************************************************)
(* Pairs of entries of the log.                                            *)
(***************************************************************************)

\* The pairs a routine adds are those of the entries before it with its own.
LEMMA PairFact ==
  ASSUME LogType, NEW e \in Entry, log' = Append(log, e), NEW p \in LaterPairs'
  PROVE  \/ p \in LaterPairs /\ log'[p[1]] = log[p[1]] /\ log'[p[2]] = log[p[2]]
         \/ p[1] \in 1 .. Len(log) /\ log'[p[1]] = log[p[1]] /\ log'[p[2]] = e
<1>1. /\ Len(log) \in Nat /\ Len(log') = Len(log) + 1
      /\ log'[Len(log) + 1] = e /\ \A i \in 1 .. Len(log) : log'[i] = log[i]
  BY AppendFact
<1>2. p \in (1 .. Len(log')) \X (1 .. Len(log')) /\ p[1] < p[2]
  BY DEF LaterPairs
<1>3. PICK i, j : p = <<i, j>> /\ i \in 1 .. Len(log') /\ j \in 1 .. Len(log') /\ i < j
  BY <1>2
<1>4. i \in 1 .. Len(log)
  BY <1>1, <1>3
<1>5. CASE j \in 1 .. Len(log)
  <2>1. p \in LaterPairs
    BY <1>3, <1>4, <1>5 DEF LaterPairs
  <2> QED BY <1>1, <1>3, <1>4, <1>5, <2>1
<1>6. CASE j = Len(log) + 1
  BY <1>1, <1>3, <1>4, <1>6
<1> QED BY <1>1, <1>3, <1>5, <1>6

\* A run that is stopping runs only after and teardown routines and stays with
\* its fixture.
LEMMA StoppingStep ==
  ASSUME RunInv, NEW F, Stopping(F), F = {"ABORTED"} \/ (F = Failures /\ "fsr" \in options),
         QuietStep \/ \E o \in Outcomes : RoutineStep(o)
  PROVE  Stopping(F)' /\ fixture' = fixture /\ (stage \in Kinds => stage \in {"after", "teardown"})
<1> USE DEF RunInv
<1>1. "S_OK" \notin F
  BY DEF Failures
<1>2. stage \in Kinds => stage \in {"after", "teardown"}
  BY DEF Stopping, Kinds
<1>3. ASSUME NEW o \in Outcomes, RoutineStep(o) PROVE Stopping(F)' /\ fixture' = fixture
  <2>1. stage \in {"after", "teardown"} /\ Moves(o) /\ fixture' = fixture
    BY <1>2, <1>3 DEF RoutineStep, Moves
  <2>2. o # "ok" /\ o # "crashed" => ResultOf("teardown", o) # "S_OK"
    BY ResultFact DEF Outcomes, Kinds
  <2>3. CASE o = "crashed"
    BY <2>1, <2>3 DEF Moves, Stopping
  <2>4. CASE o # "crashed" /\ stage = "after"
    <3>1. hrTestCase \in F /\ ~ Succeeded(hrTestCase)
      BY <1>1, <2>4 DEF Stopping, Succeeded
    <3> QED BY <2>1, <2>4, <3>1 DEF Moves, Stopping
  <2>5. CASE o # "crashed" /\ stage = "teardown"
    BY <2>1, <2>2, <2>5 DEF Moves, Stopping
  <2> QED BY <2>1, <2>3, <2>4, <2>5
<1>4. ASSUME QuietStep PROVE Stopping(F)' /\ fixture' = fixture
  <2>0. hrTestCase' = hrTestCase
    BY <1>4 DEF QuietStep
  <2>1. CASE CaseCloses
    <3>1. hr \in F /\ hr # "FATAL" /\ hr \in {"S_OK", "ABORTED", "FATAL", "BEFORE_FAILED", "TEST_FAILED", "AFTER_FAILED"}
      BY <2>1 DEF CaseCloses, Stopping, ControlInv
    <3>2. CASE hr = "ABORTED"
      BY <2>1, <3>2 DEF CaseCloses, CaseFailed, Stopping
    <3>3. CASE hr # "ABORTED"
      <4>1. "fsr" \in options /\ hr \in CaseFailed
        BY <1>1, <3>1, <3>3 DEF CaseFailed
      <4>2. ShortCircuitFixtureOnFailure /\ EscalateFixtureFailures
        BY <4>1 DEF ShortCircuitFixtureOnFailure, EscalateFixtureFailures
      <4> QED BY <2>1, <4>1, <4>2 DEF CaseCloses, CaseFailed, Stopping
    <3> QED BY <3>2, <3>3
  <2>2. CASE Opens \/ OpenFails \/ CaseOpens
    BY <2>2 DEF Opens, OpenFails, CaseOpens, Stopping
  <2>3. CASE CaseFails \/ LoopCloses \/ Closes
    BY <2>3 DEF CaseFails, LoopCloses, Closes, Stopping
  <2>4. CASE Rests
    BY <2>0, <2>4 DEF Rests, Stopping
  <2> QED BY <1>4, <2>1, <2>2, <2>3, <2>4 DEF QuietStep
<1> QED BY <1>2, <1>3, <1>4

\* An abort in a test case, and with -fsr any failure, stops the run.
LEMMA StoppingBegins ==
  ASSUME RunInv, NEW o \in Outcomes, RoutineStep(o)
  PROVE  /\ o = "aborted" /\ stage \in {"before", "test"} => Stopping({"ABORTED"})'
         /\ o = "failed" /\ "fsr" \in options => Stopping(Failures)'
<1>1. Moves(o) /\ stage \in Kinds
  BY DEF RoutineStep
<1>2. ASSUME o = "aborted", stage \in {"before", "test"} PROVE Stopping({"ABORTED"})'
  <2>1. ResultOf("before", o) = "ABORTED" /\ ResultOf("test", o) = "ABORTED"
    BY <1>2, ResultFact DEF Kinds
  <2> QED BY <1>1, <1>2, <2>1 DEF Moves, Stopping
<1>3. ASSUME o = "failed", "fsr" \in options PROVE Stopping(Failures)'
  <2>1. /\ ResultOf("setup", o) = "SETUP_FAILED" /\ ResultOf("before", o) = "BEFORE_FAILED"
        /\ ResultOf("test", o) = "TEST_FAILED" /\ ResultOf("after", o) = "AFTER_FAILED"
        /\ ResultOf("teardown", o) = "TEARDOWN_FAILED"
    BY <1>3, ResultFact DEF Kinds
  <2>2. \A k \in Kinds : ResultOf(k, o) \in HResults
    BY ResultFact
  <2>3. "BEFORE_FAILED" \in Failures /\ "TEST_FAILED" \in Failures /\ "AFTER_FAILED" \in Failures
    BY <2>1, <2>2 DEF Failures, Kinds
  <2>4. ShortCircuitRunOnSetupFailure /\ EscalateFixtureFailures
    BY <1>3 DEF ShortCircuitRunOnSetupFailure, EscalateFixtureFailures
  <2>5. hrTestCase \in HResults
    BY DEF RunInv, TestRunTypeOK
  <2>6. CASE stage = "after"
    <3>1. hr' \in Failures /\ stage' = "caseEnd"
      BY <1>1, <1>3, <2>1, <2>3, <2>5, <2>6 DEF Moves, Failures, Succeeded
    <3> QED BY <3>1 DEF Stopping
  <2>7. CASE stage \in {"setup", "before", "test", "teardown"}
    BY <1>1, <1>3, <2>1, <2>3, <2>4, <2>7 DEF Moves, Stopping
  <2> QED BY <1>1, <2>6, <2>7 DEF Kinds
<1> QED BY <1>2, <1>3

\* CfixsRunFixtureExecutionAction, CFIX_E_TESTRUN_ABORTED: after an abort in a
\* before or test routine only the routines that clean up the same fixture run.
THEOREM TestAbortStopsRunHolds == TestRunSpec => []TestAbortStopsRun
<1>1. TestRunInit => AbortInv /\ TestAbortStopsRun
  <2>1. TestRunInit => log = <<>> /\ Len(log) = 0
    BY DEF TestRunInit
  <2> QED BY <2>1 DEF AbortInv, TestAbortStopsRun, LaterPairs
<1>2. RunInv /\ AbortInv /\ TestAbortStopsRun /\ [TestRunNext]_testRunVars => AbortInv' /\ TestAbortStopsRun'
  <2> SUFFICES ASSUME RunInv, AbortInv, TestAbortStopsRun, [TestRunNext]_testRunVars PROVE AbortInv' /\ TestAbortStopsRun'
    OBVIOUS
  <2>1. QuietStep \/ \E o \in Outcomes : RoutineStep(o)
    BY StepFact DEF RunInv
  <2>2. ASSUME NEW i \in 1 .. Len(log), Aborts(log[i])
        PROVE  log[i].fixture = fixture' /\ Stopping({"ABORTED"})' /\ (stage \in Kinds => stage \in {"after", "teardown"})
    BY <2>1, <2>2, StoppingStep DEF AbortInv
  <2>3. CASE log' = log
    <3>1. AbortInv'
      BY <2>2, <2>3 DEF AbortInv
    <3>2. TestAbortStopsRun'
      BY <2>3 DEF TestAbortStopsRun, LaterPairs
    <3> QED BY <3>1, <3>2
  <2>4. ASSUME NEW o \in Outcomes, RoutineStep(o), Logged(o) PROVE AbortInv' /\ TestAbortStopsRun'
    <3>1. PICK e \in Entry : Wrote(o, e)
      BY <2>4 DEF Logged
    <3>2. stage \in Kinds /\ log' = Append(log, e) /\ e.kind = stage /\ e.fixture = fixture /\ e.outcome = o /\ fixture' = fixture
      BY <2>4, <3>1 DEF Wrote, RoutineStep, Moves
    <3>3. Aborts(e) => Stopping({"ABORTED"})'
      BY <2>4, <3>2, StoppingBegins DEF Aborts
    <3>4. AbortInv'
      <4> SUFFICES ASSUME NEW i \in 1 .. Len(log'), Aborts(log'[i]) PROVE log'[i].fixture = fixture' /\ Stopping({"ABORTED"})'
        BY DEF AbortInv
      <4>1. /\ \A k \in 1 .. Len(log) : log'[k] = log[k] /\ log'[Len(log) + 1] = e
            /\ i \in 1 .. Len(log) \/ i = Len(log) + 1
        BY <3>2, AppendFact DEF RunInv
      <4> QED BY <2>2, <3>2, <3>3, <4>1, AppendFact DEF RunInv
    <3>5. TestAbortStopsRun'
      <4> SUFFICES ASSUME NEW p \in LaterPairs', Aborts(log'[p[1]])
                   PROVE  log'[p[2]].fixture = log'[p[1]].fixture /\ log'[p[2]].kind \in {"after", "teardown"}
        BY DEF TestAbortStopsRun, Aborts
      <4>1. CASE p \in LaterPairs /\ log'[p[1]] = log[p[1]] /\ log'[p[2]] = log[p[2]]
        BY <4>1 DEF TestAbortStopsRun, Aborts
      <4>2. CASE p[1] \in 1 .. Len(log) /\ log'[p[1]] = log[p[1]] /\ log'[p[2]] = e
        BY <2>2, <3>2, <4>2
      <4> QED BY <3>2, <4>1, <4>2, PairFact DEF RunInv
    <3> QED BY <3>4, <3>5
  <2>5. QuietStep => log' = log
    BY DEF QuietStep
  <2>6. \A o \in Outcomes : RoutineStep(o) => Logged(o) \/ log' = log
    BY DEF RoutineStep, NotLogged
  <2> QED BY <2>1, <2>3, <2>4, <2>5, <2>6
<1> QED BY <1>1, <1>2, RunInvariance, PTL DEF TestRunSpec

\* A step leaves the log alone or appends the entry of the routine it runs.
LEMMA LogFact ==
  ASSUME RunInv, [TestRunNext]_testRunVars
  PROVE  \/ log' = log
         \/ \E o \in Outcomes, e \in Entry :
               /\ RoutineStep(o) /\ Wrote(o, e) /\ Logged(o)
               /\ stage \in Kinds /\ log' = Append(log, e) /\ e.kind = stage /\ e.fixture = fixture /\ e.outcome = o
               /\ UNCHANGED <<fixture, testCase, options>>
<1>1. QuietStep \/ \E o \in Outcomes : RoutineStep(o)
  BY StepFact DEF RunInv
<1>2. QuietStep => log' = log
  BY DEF QuietStep
<1>3. ASSUME NEW o \in Outcomes, RoutineStep(o), Logged(o)
      PROVE  \E e \in Entry : /\ RoutineStep(o) /\ Wrote(o, e) /\ Logged(o)
               /\ stage \in Kinds /\ log' = Append(log, e) /\ e.kind = stage /\ e.fixture = fixture /\ e.outcome = o
               /\ UNCHANGED <<fixture, testCase, options>>
  BY <1>3 DEF RoutineStep, Moves, Logged, Wrote
<1>4. \A o \in Outcomes : RoutineStep(o) => Logged(o) \/ log' = log
  BY DEF RoutineStep, NotLogged
<1> QED BY <1>1, <1>2, <1>3, <1>4

\* A fixture that is cut short starts no further test case.
LEMMA SkippingStep ==
  ASSUME RunInv, Skipping, ShortCircuitFixtureOnFailure, [TestRunNext]_testRunVars
  PROVE  /\ fixture' = fixture => Skipping'
         /\ fixture' # fixture => fixture' = fixture + 1
         /\ stage \in Kinds => stage \in {"after", "teardown"}
<1> USE DEF RunInv
<1>1. QuietStep \/ \E o \in Outcomes : RoutineStep(o)
  BY StepFact
<1>2. stage \in Kinds => stage \in {"after", "teardown"}
  BY DEF Skipping, Kinds, Ended
<1>3. ASSUME NEW o \in Outcomes, RoutineStep(o) PROVE Skipping' /\ fixture' = fixture
  <2>1. stage \in {"after", "teardown"} /\ Moves(o) /\ fixture' = fixture
    BY <1>2, <1>3 DEF RoutineStep, Moves
  <2>2. CASE stage = "after" /\ o # "crashed"
    <3>1. ~ Succeeded(hrTestCase)
      BY <2>2 DEF Skipping, Ended
    <3> QED BY <2>1, <2>2, <3>1 DEF Moves, Skipping
  <2>3. CASE stage = "teardown" \/ o = "crashed"
    BY <2>1, <2>3 DEF Moves, Skipping, Ended
  <2> QED BY <2>1, <2>2, <2>3
<1>4. ASSUME QuietStep PROVE (fixture' = fixture => Skipping') /\ (fixture' # fixture => fixture' = fixture + 1)
  <2>0. hrTestCase' = hrTestCase
    BY <1>4 DEF QuietStep
  <2>1. CASE CaseCloses
    <3>1. hr # "S_OK" /\ hr # "FATAL" /\ hr \in {"S_OK", "ABORTED", "FATAL", "BEFORE_FAILED", "TEST_FAILED", "AFTER_FAILED"}
      BY <2>1 DEF CaseCloses, Skipping, Succeeded, ControlInv, Ended
    <3> QED BY <2>1, <3>1 DEF CaseCloses, CaseFailed, Skipping
  <2>2. CASE Opens \/ OpenFails \/ CaseOpens
    BY <2>2 DEF Opens, OpenFails, CaseOpens, Skipping, Ended
  <2>3. CASE CaseFails \/ LoopCloses \/ Closes
    <3>1. fixture \in Nat
      BY TestRunAssumption DEF TestRunTypeOK, Fixtures
    <3>2. CASE CaseFails \/ LoopCloses
      BY <3>2 DEF CaseFails, LoopCloses, Skipping, Ended
    <3>3. CASE Closes
      BY <3>1, <3>3 DEF Closes, Skipping, Ended
    <3> QED BY <2>3, <3>2, <3>3
  <2>4. CASE Rests
    BY <2>0, <2>4 DEF Rests, Skipping, Succeeded, Ended
  <2> QED BY <1>4, <2>1, <2>2, <2>3, <2>4 DEF QuietStep
<1> QED BY <1>1, <1>2, <1>3, <1>4

\* A routine that fails ends its fixture or, in a test case, the test cases.
LEMMA SkippingBegins ==
  ASSUME RunInv, NEW o \in Outcomes, RoutineStep(o), o = "failed"
  PROVE  Skipping'
<1>1. Moves(o) /\ stage \in Kinds
  BY DEF RoutineStep
<1>2. ResultOf("before", o) = "BEFORE_FAILED" /\ ResultOf("test", o) = "TEST_FAILED" /\ ResultOf("after", o) = "AFTER_FAILED"
  BY ResultFact DEF Kinds
<1>3. CASE stage = "after"
  <2>1. stage' = "caseEnd" /\ ~ Succeeded(hr')
    BY <1>1, <1>2, <1>3 DEF Moves, Succeeded
  <2> QED BY <2>1 DEF Skipping, Succeeded
<1>4. CASE stage \in {"setup", "before", "test", "teardown"}
  BY <1>1, <1>2, <1>4 DEF Moves, Skipping, Succeeded, Ended
<1> QED BY <1>1, <1>3, <1>4 DEF Kinds

\* FixtureShortCircuit and EscalateFixtureFailures of CfixsRunFixtureExecutionAction:
\* with -fsf a failure ends the test cases of its fixture, with -fsr also the run.
THEOREM ShortCircuitsHolds == TestRunSpec => []ShortCircuits
<1>1. TestRunInit => EscalationInv /\ SkipInv /\ ShortCircuits
  <2>1. TestRunInit => log = <<>> /\ Len(log) = 0
    BY DEF TestRunInit
  <2> QED BY <2>1 DEF EscalationInv, SkipInv, ShortCircuits, LaterPairs
<1>2. RunInv /\ EscalationInv /\ SkipInv /\ ShortCircuits /\ [TestRunNext]_testRunVars => EscalationInv' /\ SkipInv' /\ ShortCircuits'
  <2> SUFFICES ASSUME RunInv, EscalationInv, SkipInv, ShortCircuits, [TestRunNext]_testRunVars
               PROVE  EscalationInv' /\ SkipInv' /\ ShortCircuits'
    OBVIOUS
  <2>1. QuietStep \/ \E o \in Outcomes : RoutineStep(o)
    BY StepFact DEF RunInv
  <2>2. options' = options
    BY <2>1 DEF QuietStep, RoutineStep
  <2>3. ASSUME NEW i \in 1 .. Len(log), log[i].outcome = "failed", "fsr" \in options
        PROVE  log[i].fixture = fixture' /\ Stopping(Failures)' /\ fixture' = fixture
    BY <2>1, <2>3, StoppingStep DEF EscalationInv
  <2>4. ASSUME NEW i \in 1 .. Len(log), log[i].outcome = "failed", ShortCircuitFixtureOnFailure
        PROVE  /\ log[i].fixture < fixture' \/ Skipping'
               /\ stage \in Kinds /\ log[i].fixture = fixture => stage \in {"after", "teardown"}
    <3>1. log[i].fixture \in Nat /\ fixture \in Nat /\ log[i].fixture <= fixture
      <4>1. log[i] \in Entry
        BY DEF RunInv, LogType
      <4> QED BY <4>1, TestRunAssumption DEF RunInv, TestRunTypeOK, PastInv, Entry, Fixtures
    <3>2. fixture' = fixture \/ fixture' = fixture + 1
      <4>1. QuietStep => fixture' = fixture \/ fixture' = fixture + 1
        BY DEF QuietStep, Opens, OpenFails, CaseOpens, CaseCloses, CaseFails, LoopCloses, Closes, Rests
      <4> QED BY <2>1, <4>1 DEF RoutineStep, Moves
    <3>3. log[i].fixture < fixture \/ Skipping
      BY <2>4 DEF SkipInv
    <3>4. CASE log[i].fixture < fixture
      BY <3>1, <3>2, <3>4
    <3>5. CASE Skipping
      BY <2>4, <3>1, <3>2, <3>5, SkippingStep
    <3> QED BY <3>3, <3>4, <3>5
  <2>5. CASE log' = log
    <3>1. EscalationInv'
      BY <2>2, <2>3, <2>5 DEF EscalationInv
    <3>2. SkipInv'
      BY <2>2, <2>4, <2>5 DEF SkipInv, ShortCircuitFixtureOnFailure
    <3>3. ShortCircuits'
      BY <2>2, <2>5 DEF ShortCircuits, LaterPairs
    <3> QED BY <3>1, <3>2, <3>3
  <2>6. ASSUME NEW o \in Outcomes, NEW e \in Entry, RoutineStep(o), log' = Append(log, e),
               stage \in Kinds, e.kind = stage, e.fixture = fixture, e.outcome = o, fixture' = fixture
        PROVE  EscalationInv' /\ SkipInv' /\ ShortCircuits'
    <3>1. /\ \A k \in 1 .. Len(log) : log'[k] = log[k] /\ log'[Len(log) + 1] = e
          /\ Len(log) \in Nat
          /\ \A k \in 1 .. Len(log') : k \in 1 .. Len(log) \/ k = Len(log) + 1
      BY <2>6, AppendFact DEF RunInv
    <3>2. EscalationInv'
      <4> SUFFICES ASSUME "fsr" \in options, NEW i \in 1 .. Len(log'), log'[i].outcome = "failed"
                   PROVE  log'[i].fixture = fixture' /\ Stopping(Failures)'
        BY <2>2 DEF EscalationInv
      <4>1. CASE i \in 1 .. Len(log)
        BY <2>3, <3>1, <4>1
      <4>2. CASE i = Len(log) + 1
        <5>1. log'[i] = e
          BY <2>6, <4>2, AppendFact DEF RunInv
        <5> QED BY <2>6, <5>1, StoppingBegins
      <4> QED BY <3>1, <4>1, <4>2
    <3>3. SkipInv'
      <4> SUFFICES ASSUME ShortCircuitFixtureOnFailure, NEW i \in 1 .. Len(log'), log'[i].outcome = "failed"
                   PROVE  log'[i].fixture < fixture' \/ Skipping'
        BY <2>2 DEF SkipInv, ShortCircuitFixtureOnFailure
      <4>1. CASE i \in 1 .. Len(log)
        BY <2>4, <3>1, <4>1
      <4>2. CASE i = Len(log) + 1
        <5>1. log'[i] = e
          BY <2>6, <4>2, AppendFact DEF RunInv
        <5> QED BY <2>6, <5>1, SkippingBegins
      <4> QED BY <3>1, <4>1, <4>2
    <3>4. ShortCircuits'
      <4> SUFFICES ASSUME NEW p \in LaterPairs', log'[p[1]].outcome = "failed"
                   PROVE  /\ {"fsf", "fsr"} \cap options # {} /\ log'[p[2]].fixture = log'[p[1]].fixture
                                => log'[p[2]].kind \in {"after", "teardown"}
                          /\ "fsr" \in options => log'[p[2]].fixture = log'[p[1]].fixture
        BY <2>2 DEF ShortCircuits
      <4>1. CASE p \in LaterPairs /\ log'[p[1]] = log[p[1]] /\ log'[p[2]] = log[p[2]]
        BY <4>1 DEF ShortCircuits
      <4>2. CASE p[1] \in 1 .. Len(log) /\ log'[p[1]] = log[p[1]] /\ log'[p[2]] = e
        <5>1. log[p[1]].outcome = "failed"
          BY <4>2
        <5>2. "fsr" \in options => log[p[1]].fixture = fixture
          BY <2>3, <4>2, <5>1
        <5>3. ShortCircuitFixtureOnFailure /\ log[p[1]].fixture = fixture => stage \in {"after", "teardown"}
          BY <2>4, <2>6, <4>2, <5>1
        <5> QED BY <2>6, <4>2, <5>2, <5>3 DEF ShortCircuitFixtureOnFailure
      <4> QED BY <2>6, <4>1, <4>2, PairFact DEF RunInv
    <3> QED BY <3>2, <3>3, <3>4
  <2> QED BY <2>5, <2>6, LogFact
<1> QED BY <1>1, <1>2, RunInvariance, PTL DEF TestRunSpec

-----------------------------------------------------------------------------
(***************************************************************************)
(* What routines see: the storage and the names of events.                 *)
(***************************************************************************)

\* A property of single entries holds of the whole log if it holds of the entry
\* a routine adds; this is the form of the next two theorems.
LEMMA EntriesFact ==
  ASSUME LogType, NEW e \in Entry, log' = Append(log, e), NEW i \in 1 .. Len(log')
  PROVE  (i \in 1 .. Len(log) /\ log'[i] = log[i]) \/ log'[i] = e
BY AppendFact

\* The slot holds a value of the test case under way while its routines load it.
LEMMA SlotStep ==
  ASSUME RunInv, SlotInv, "before" \in Provided, [TestRunNext]_testRunVars
  PROVE  SlotInv'
<1>1. QuietStep => SlotInv'
  BY DEF QuietStep, Opens, OpenFails, CaseOpens, CaseCloses, CaseFails, LoopCloses, Closes, Rests, SlotInv
<1>2. ASSUME NEW o \in Outcomes, RoutineStep(o) PROVE SlotInv'
  <2>1. stage \in Kinds /\ Moves(o) /\ UNCHANGED <<fixture, testCase>>
    BY <1>2 DEF RoutineStep, Moves
  <2>2. CASE stage' \notin {"test", "after"}
    BY <2>2 DEF SlotInv
  <2>3. CASE stage' \in {"test", "after"}
    <3>1. \/ stage = "before" /\ o = "ok" /\ stage' = "test"
          \/ stage = "test" /\ o # "crashed" /\ stage' = "after"
      BY <2>1, <2>3 DEF Moves, Kinds
    <3>2. slot' = StorageLeft(stage) \/ (stage = "test" /\ slot' = StorageSeen(stage))
      BY <1>2, <3>1 DEF RoutineStep, Logged, NotLogged
    <3>3. /\ StorageSeen(stage).fixture \in {0, fixture} /\ StorageSeen(stage).testCase \in {0, testCase}
          /\ StorageSeen(stage).kind # "setup"
      BY <3>1 DEF StorageSeen, RestoresStorage, NoValue, SlotInv
    <3>4. slot'.fixture \in {0, fixture} /\ slot'.testCase \in {0, testCase} /\ slot'.kind # "setup"
      BY <3>1, <3>2, <3>3 DEF StorageLeft
    <3> QED BY <2>1, <3>4 DEF SlotInv
  <2> QED BY <2>2, <2>3
<1> QED BY <1>1, <1>2, StepFact DEF RunInv

\* CfixsRunTestRoutine and CfixpInitializeFilament: the value a test or after
\* routine finds was stored in its own test case, provided a before routine,
\* which resets the slot, is there; other routines find none.
THEOREM StorageOfTestCaseHolds ==
  ASSUME "before" \in Provided
  PROVE  TestRunSpec => []StorageOfTestCase
<1>1. TestRunInit => SlotInv /\ StorageOfTestCase
  <2>1. TestRunInit => stage = "beforeFixture" /\ log = <<>> /\ Len(log) = 0
    BY DEF TestRunInit
  <2> QED BY <2>1 DEF SlotInv, StorageOfTestCase
<1>2. RunInv /\ SlotInv /\ StorageOfTestCase /\ [TestRunNext]_testRunVars => SlotInv' /\ StorageOfTestCase'
  <2> SUFFICES ASSUME RunInv, SlotInv, StorageOfTestCase, [TestRunNext]_testRunVars PROVE SlotInv' /\ StorageOfTestCase'
    OBVIOUS
  <2>1. SlotInv'
    BY SlotStep
  <2>2. CASE log' = log
    BY <2>1, <2>2 DEF StorageOfTestCase
  <2>3. ASSUME NEW o \in Outcomes, NEW e \in Entry, Wrote(o, e), stage \in Kinds PROVE StorageOfTestCase'
    <3>1. /\ log' = Append(log, e) /\ e.kind = stage /\ e.fixture = fixture /\ e.saw = StorageSeen(stage)
          /\ stage \in {"test", "after"} => e.testCase = testCase
      BY <2>3 DEF Wrote
    <3>2. /\ e.saw.fixture \in {0, e.fixture} /\ e.saw.testCase \in {0, e.testCase} /\ e.saw.kind # "setup"
          /\ e.kind \in {"setup", "before", "teardown"} => e.saw = NoValue
      <4>1. CASE stage \in {"test", "after"}
        BY <3>1, <4>1 DEF StorageSeen, RestoresStorage, SlotInv
      <4>2. CASE stage \in {"setup", "before", "teardown"}
        BY <3>1, <4>2 DEF StorageSeen, RestoresStorage, NoValue
      <4> QED BY <2>3, <4>1, <4>2 DEF Kinds
    <3> SUFFICES ASSUME NEW i \in 1 .. Len(log')
                 PROVE  /\ log'[i].saw.fixture \in {0, log'[i].fixture} /\ log'[i].saw.testCase \in {0, log'[i].testCase}
                        /\ log'[i].saw.kind # "setup"
                        /\ log'[i].kind \in {"setup", "before", "teardown"} => log'[i].saw = NoValue
      BY DEF StorageOfTestCase, NoValue
    <3>3. (i \in 1 .. Len(log) /\ log'[i] = log[i]) \/ log'[i] = e
      BY <3>1, EntriesFact DEF RunInv
    <3> QED BY <3>2, <3>3 DEF StorageOfTestCase
  <2> QED BY <2>1, <2>2, <2>3, LogFact
<1> QED BY <1>1, <1>2, RunInvariance, PTL DEF TestRunSpec

\* A selected test case is one of its fixture.
IndexInv == \A f \in Fixtures : testCaseIndex[f] <= TestCaseCount[f]

\* The proxy knows whether a test case is current and whether one was begun.
LEMMA NameStep ==
  ASSUME RunInv, IndexInv, NameInv, ~ ContextMayFail, \A f \in Fixtures : TestCaseCount[f] > 0, [TestRunNext]_testRunVars
  PROVE  IndexInv' /\ NameInv'
<1> USE DEF RunInv
<1>1. QuietStep \/ \E o \in Outcomes : RoutineStep(o)
  BY StepFact
<1>2. IndexInv'
  BY <1>1 DEF QuietStep, RoutineStep, Moves, IndexInv
<1>3. ASSUME QuietStep PROVE NameInv'
  <2> USE DEF NameInv, InCase
  <2>1. CASE Opens
    BY <2>1 DEF Opens, EmitBeforeFixtureStart
  <2>2. CASE OpenFails \/ CaseFails
    BY <2>2 DEF OpenFails, CaseFails
  <2>3. CASE CaseOpens
    BY <2>3 DEF CaseOpens, EmitBeforeTestCaseStart
  <2>4. CASE CaseCloses
    BY <2>4 DEF CaseCloses, EmitAfterTestCaseFinish
  <2>5. CASE LoopCloses
    <3>1. firstTestCaseBegun
      <4> SUFFICES ASSUME ~ firstTestCaseBegun PROVE FALSE
        OBVIOUS
      <4>1. stage = "loop" /\ testCase = 0 /\ Remaining = {}
        BY <2>5 DEF LoopCloses
      <4>2. fixture \in Fixtures
        BY DEF TestRunTypeOK, Fixtures
      <4>3. TestCaseCount[fixture] \in Nat /\ TestCaseCount[fixture] > 0
        BY <4>2, TestRunAssumption
      <4>4. testCaseIndex[fixture] \in Nat /\ testCaseIndex[fixture] <= TestCaseCount[fixture]
        BY <4>2 DEF TestRunTypeOK, IndexInv
      <4>5. CASE testCaseIndex[fixture] = 0
        <5>1. 1 \in Remaining
          BY <4>1, <4>3, <4>5 DEF Remaining
        <5> QED BY <4>1, <5>1
      <4>6. CASE testCaseIndex[fixture] # 0
        <5>1. testCaseIndex[fixture] \in Remaining
          BY <4>1, <4>3, <4>4, <4>6 DEF Remaining
        <5> QED BY <4>1, <5>1
      <4> QED BY <4>5, <4>6
    <3> QED BY <2>5, <3>1 DEF LoopCloses
  <2>6. CASE Closes
    BY <2>6 DEF Closes, EmitAfterFixtureFinish
  <2>7. CASE Rests
    BY <2>7 DEF Rests
  <2> QED BY <1>3, <2>1, <2>2, <2>3, <2>4, <2>5, <2>6, <2>7 DEF QuietStep
<1>4. ASSUME NEW o \in Outcomes, RoutineStep(o) PROVE NameInv'
  <2>1. stage \in Kinds /\ Moves(o) /\ UNCHANGED <<fixture, testCase, shortCircuit, firstTestCaseBegun, currentTestCase>>
    BY <1>4 DEF RoutineStep, Moves
  <2>2. CASE stage = "setup"
    BY <2>1, <2>2 DEF Moves, NameInv, InCase, ControlInv
  <2>3. CASE stage \in {"before", "test", "after", "teardown"}
    BY <2>1, <2>3 DEF Moves, NameInv, InCase
  <2> QED BY <2>1, <2>2, <2>3 DEF Kinds
<1> QED BY <1>1, <1>2, <1>3, <1>4

\* CfixsEventEmittingProxyReportEvent of eventemitter.c: the event sink is told
\* the routine an event belongs to, if no context refuses a test case and every
\* fixture has a test case.
THEOREM EventsAttributedHolds ==
  ASSUME ~ ContextMayFail, \A f \in Fixtures : TestCaseCount[f] > 0
  PROVE  TestRunSpec => []EventsAttributed
<1>1. TestRunInit => IndexInv /\ NameInv /\ EventsAttributed
  <2> SUFFICES ASSUME TestRunInit PROVE IndexInv /\ NameInv /\ EventsAttributed
    OBVIOUS
  <2>1. stage = "beforeFixture" /\ log = <<>> /\ Len(log) = 0 /\ currentTestCase = NoneCurrent
    BY DEF TestRunInit, EmitterInit
  <2>2. IndexInv
    BY DEF TestRunInit, IndexInv
  <2> QED BY <2>1, <2>2 DEF NameInv, EventsAttributed, InCase
<1>2. RunInv /\ IndexInv /\ NameInv /\ EventsAttributed /\ [TestRunNext]_testRunVars => IndexInv' /\ NameInv' /\ EventsAttributed'
  <2> SUFFICES ASSUME RunInv, IndexInv, NameInv, EventsAttributed, [TestRunNext]_testRunVars
               PROVE  IndexInv' /\ NameInv' /\ EventsAttributed'
    OBVIOUS
  <2>1. IndexInv' /\ NameInv'
    BY NameStep
  <2>2. CASE log' = log
    BY <2>1, <2>2 DEF EventsAttributed
  <2>3. ASSUME NEW o \in Outcomes, NEW e \in Entry, Wrote(o, e), stage \in Kinds PROVE EventsAttributed'
    <3>1. /\ log' = Append(log, e) /\ e.kind = stage /\ e.name = EventName
          /\ stage \notin {"setup", "teardown"} => e.testCase = testCase
      BY <2>3 DEF Wrote
    <3>2. testCase \in Nat /\ (stage \in InCase => testCase >= 1)
      BY TestRunAssumption DEF RunInv, TestRunTypeOK, ControlInv, Fixtures
    <3>3. /\ e.kind = "setup" => e.name = <<"[Setup]", 0>>
          /\ e.kind = "teardown" => e.name = <<"[Teardown]", 0>>
          /\ e.kind \notin {"setup", "teardown"} => e.name = <<"testCase", e.testCase>>
      <4>1. CASE stage \in {"before", "test", "after"}
        <5>1. currentTestCase = testCase /\ currentTestCase # NoneCurrent /\ e.testCase = testCase
          BY <3>1, <3>2, <4>1 DEF NameInv, InCase, NoneCurrent
        <5> QED BY <3>1, <4>1, <5>1 DEF EventName
      <4>2. CASE stage \in {"setup", "teardown"}
        BY <3>1, <4>2 DEF NameInv, EventName, NoneCurrent, InCase
      <4> QED BY <2>3, <4>1, <4>2 DEF Kinds
    <3> SUFFICES ASSUME NEW i \in 1 .. Len(log'), log'[i].event # "none"
                 PROVE  log'[i].name = CASE log'[i].kind = "setup" -> <<"[Setup]", 0>>
                           [] log'[i].kind = "teardown" -> <<"[Teardown]", 0>>
                           [] OTHER -> <<"testCase", log'[i].testCase>>
      BY DEF EventsAttributed
    <3>4. CASE i \in 1 .. Len(log) /\ log'[i] = log[i]
      BY <3>4 DEF EventsAttributed
    <3>5. CASE log'[i] = e
      BY <3>3, <3>5
    <3> QED BY <3>1, <3>4, <3>5, EntriesFact DEF RunInv
  <2> QED BY <2>1, <2>2, <2>3, LogFact
<1> QED BY <1>1, <1>2, RunInvariance, PTL DEF TestRunSpec

-----------------------------------------------------------------------------
(***************************************************************************)
(* Brackets: teardown after setup, after after test.                       *)
(***************************************************************************)

\* In a run without faults no HRESULT but those of failing routines is seen.
NoFatal == hr # "FATAL" /\ hrTestCase # "FATAL"

\* A fault would be needed.
LEMMA NoFatalStep ==
  ASSUME RunInv, NoFatal, FaultFree, [TestRunNext]_testRunVars
  PROVE  NoFatal' /\ ~ OpenFails /\ ~ CaseFails /\ \A o \in Outcomes : RoutineStep(o) => o # "fatal"
<1>1. \A o \in Outcomes : RoutineStep(o) => o # "fatal"
  BY DEF RoutineStep, Logged, NotLogged, FaultFree
<1>2. ~ OpenFails /\ ~ CaseFails
  BY DEF OpenFails, CaseFails, FaultFree, NoFatal
<1>3. QuietStep => NoFatal'
  BY <1>2 DEF QuietStep, Opens, CaseOpens, CaseCloses, LoopCloses, Closes, Rests, FaultFree, NoFatal
<1>4. ASSUME NEW o \in Outcomes, RoutineStep(o) PROVE NoFatal'
  <2>1. o \in {"ok", "failed", "aborted", "crashed"}
    BY <1>1, <1>4 DEF Outcomes
  <2>2. \A k \in Kinds : ResultOf(k, o) # "FATAL"
    BY <2>1, ResultFact DEF Kinds
  <2>3. "setup" \in Kinds /\ "before" \in Kinds /\ "test" \in Kinds /\ "after" \in Kinds /\ "teardown" \in Kinds
    BY DEF Kinds
  <2> QED BY <1>1, <1>4, <2>2, <2>3 DEF RoutineStep, Moves, NoFatal, Kinds
<1> QED BY <1>1, <1>2, <1>3, <1>4, StepFact DEF RunInv

\* No fault, no fatal error.
LEMMA NoFatalHolds ==
  ASSUME FaultFree
  PROVE  TestRunSpec => []NoFatal
<1>1. TestRunInit => NoFatal
  BY DEF TestRunInit, NoFatal
<1>2. RunInv /\ NoFatal /\ [TestRunNext]_testRunVars => NoFatal'
  BY NoFatalStep
<1> QED BY <1>1, <1>2, RunInvariance, PTL DEF TestRunSpec

\* The log only grows.
LEMMA RanGrows ==
  ASSUME RunInv, [TestRunNext]_testRunVars
  PROVE  /\ Len(log) \in Nat /\ Len(log') \in Nat /\ Len(log) <= Len(log')
         /\ \A i \in 1 .. Len(log) : i \in 1 .. Len(log') /\ log'[i] = log[i]
         /\ \A f, k : Ran(f, k) \subseteq Ran(f, k)'
<1>1. Len(log) \in Nat
  BY DEF RunInv, LogType
<1>2. Len(log') \in Nat /\ Len(log) <= Len(log') /\ \A i \in 1 .. Len(log) : log'[i] = log[i]
  <2>1. CASE log' = log
    BY <1>1, <2>1
  <2>2. ASSUME NEW e \in Entry, log' = Append(log, e)
        PROVE  Len(log') \in Nat /\ Len(log) <= Len(log') /\ \A i \in 1 .. Len(log) : log'[i] = log[i]
    BY <1>1, <2>2, AppendFact DEF RunInv
  <2> QED BY <2>1, <2>2, LogFact
<1>3. \A i \in 1 .. Len(log) : i \in 1 .. Len(log')
  BY <1>1, <1>2
<1> QED BY <1>1, <1>2, <1>3 DEF Ran

\* A setup that failed and a teardown leave only the end of the fixture.
LEMMA EndStep ==
  ASSUME RunInv, EndInv, [TestRunNext]_testRunVars
  PROVE  EndInv'
<1> USE DEF RunInv
<1>0. fixture \in Nat
  BY TestRunAssumption DEF TestRunTypeOK, Fixtures
<1>1. ASSUME NEW i \in 1 .. Len(log), Ends(log[i]) PROVE log[i].fixture < fixture' \/ stage' \in Ended
  <2>1. log[i].fixture \in Nat /\ log[i].fixture <= fixture
    <3>1. log[i] \in Entry
      BY DEF LogType
    <3> QED BY <3>1, TestRunAssumption DEF PastInv, Entry, Fixtures
  <2>2. log[i].fixture < fixture \/ stage \in Ended
    BY <1>1 DEF EndInv
  <2>3. QuietStep => \/ fixture' = fixture + 1 \/ (fixture' = fixture /\ (stage \in Ended => stage' \in Ended))
    BY DEF QuietStep, Opens, OpenFails, CaseOpens, CaseCloses, CaseFails, LoopCloses, Closes, Rests, Ended
  <2>4. \A o \in Outcomes : RoutineStep(o) => fixture' = fixture /\ stage \notin Ended
    BY DEF RoutineStep, Moves, Kinds, Ended
  <2> QED BY <1>0, <2>1, <2>2, <2>3, <2>4, StepFact
<1>2. CASE log' = log
  BY <1>1, <1>2 DEF EndInv
<1>3. ASSUME NEW o \in Outcomes, NEW e \in Entry, RoutineStep(o), log' = Append(log, e), e.kind = stage, e.outcome = o
      PROVE  EndInv'
  <2>1. Ends(e) => stage' \in Ended
    <3>1. o # "fatal" \/ stage # "setup" \/ stage' = "done"
      BY <1>3 DEF RoutineStep, Moves
    <3> QED BY <1>3, <3>1 DEF RoutineStep, Moves, Ends, Ended
  <2> SUFFICES ASSUME NEW i \in 1 .. Len(log'), Ends(log'[i]) PROVE log'[i].fixture < fixture' \/ stage' \in Ended
    BY DEF EndInv
  <2>2. (i \in 1 .. Len(log) /\ log'[i] = log[i]) \/ log'[i] = e
    BY <1>3, EntriesFact
  <2> QED BY <1>1, <2>1, <2>2
<1> QED BY <1>2, <1>3, LogFact

\* Nothing of a fixture follows its last routine.
EndsLast == \A p \in LaterPairs : Ends(log[p[1]]) => log[p[2]].fixture # log[p[1]].fixture

\* A routine that runs belongs to a fixture that has not ended.
LEMMA EndsLastStep ==
  ASSUME RunInv, EndInv, EndsLast, [TestRunNext]_testRunVars
  PROVE  EndsLast'
<1>1. CASE log' = log
  BY <1>1 DEF EndsLast, LaterPairs
<1>2. ASSUME NEW o \in Outcomes, NEW e \in Entry, log' = Append(log, e), e.fixture = fixture, stage \in Kinds
      PROVE  EndsLast'
  <2> SUFFICES ASSUME NEW p \in LaterPairs', Ends(log'[p[1]]) PROVE log'[p[2]].fixture # log'[p[1]].fixture
    BY DEF EndsLast
  <2>1. CASE p \in LaterPairs /\ log'[p[1]] = log[p[1]] /\ log'[p[2]] = log[p[2]]
    BY <2>1 DEF EndsLast
  <2>2. CASE p[1] \in 1 .. Len(log) /\ log'[p[1]] = log[p[1]] /\ log'[p[2]] = e
    <3>1. log[p[1]].fixture < fixture \/ stage \in Ended
      BY <2>2 DEF EndInv
    <3>2. stage \notin Ended
      BY <1>2 DEF Kinds, Ended
    <3>3. fixture \in Nat
      BY TestRunAssumption DEF RunInv, TestRunTypeOK, Fixtures
    <3>4. log[p[1]].fixture # fixture
      BY <3>1, <3>2, <3>3
    <3> QED BY <1>2, <2>2, <3>4
  <2> QED BY <1>2, <2>1, <2>2, PairFact DEF RunInv
<1> QED BY <1>1, <1>2, LogFact

\* A fixture whose setup succeeded comes to its end through the teardown routine.
LEMMA TornDownStep ==
  ASSUME RunInv, NoFatal, TornDownInv, FaultFree, "teardown" \in Provided, [TestRunNext]_testRunVars
  PROVE  TornDownInv'
<1> USE DEF RunInv
<1>0. fixture \in Nat
  BY TestRunAssumption DEF TestRunTypeOK, Fixtures
<1> SUFFICES ASSUME NEW f \in Fixtures, f < fixture' \/ (f = fixture' /\ stage' \in {"fixtureEnd", "done"}),
                    \A i \in Ran(f, "setup")' : log'[i].outcome = "ok"
             PROVE  Ran(f, "teardown")' # {}
  BY DEF TornDownInv
<1>1. f \in Nat
  BY TestRunAssumption DEF Fixtures
<1>2. /\ \A i \in Ran(f, "setup") : log[i].outcome = "ok"
      /\ Ran(f, "teardown") \subseteq Ran(f, "teardown")'
  BY RanGrows DEF Ran
<1>3. CASE f < fixture \/ (f = fixture /\ stage \in {"fixtureEnd", "done"})
  BY <1>2, <1>3 DEF TornDownInv
<1>4. CASE ~ (f < fixture \/ (f = fixture /\ stage \in {"fixtureEnd", "done"}))
  <2>1. ASSUME QuietStep PROVE FALSE
    <3>1. CASE Closes
      BY <1>0, <1>1, <1>4, <3>1 DEF Closes
    <3>2. CASE Opens \/ CaseOpens \/ CaseCloses \/ LoopCloses \/ Rests
      BY <1>0, <1>1, <1>4, <3>2 DEF Opens, CaseOpens, CaseCloses, LoopCloses, Rests
    <3> QED BY <2>1, <3>1, <3>2, NoFatalStep DEF QuietStep
  <2>2. ASSUME NEW o \in Outcomes, RoutineStep(o) PROVE Ran(f, "teardown")' # {}
    <3>1. o # "fatal" /\ stage \in Kinds /\ Moves(o) /\ fixture' = fixture
      BY <2>2, NoFatalStep DEF RoutineStep, Moves
    <3>2. f = fixture /\ stage' \in {"fixtureEnd", "done"}
      BY <1>4, <3>1
    <3>3. stage = "teardown" \/ (stage = "setup" /\ o # "ok")
      BY <3>1, <3>2 DEF Moves, Kinds
    <3>4. Logged(o)
      BY <2>2, <3>1, <3>3 DEF RoutineStep, NotLogged
    <3>5. PICK e \in Entry : Wrote(o, e)
      BY <3>4 DEF Logged
    <3>6. Len(log) + 1 \in 1 .. Len(log') /\ log'[Len(log) + 1] = e
      BY <3>5, AppendFact DEF Wrote
    <3>7. e.kind = stage /\ e.fixture = f /\ e.outcome = o
      BY <3>2, <3>5 DEF Wrote
    <3>8. \A k : stage = k => Len(log) + 1 \in Ran(f, k)'
      BY <3>6, <3>7 DEF Ran
    <3> QED BY <3>3, <3>6, <3>7, <3>8
  <2> QED BY <2>1, <2>2, StepFact
<1> QED BY <1>3, <1>4

\* After a test routine the after routine is next.
LEMMA FollowedStep ==
  ASSUME RunInv, NoFatal, FollowedInv, FaultFree, "after" \in Provided, [TestRunNext]_testRunVars
  PROVE  FollowedInv'
<1> USE DEF RunInv
<1>1. Len(log) \in Nat
  BY DEF LogType
<1>2. ASSUME QuietStep PROVE FollowedInv'
  <2>1. log' = log
    BY <1>2 DEF QuietStep
  <2>2. stage \in {"after", "crashed"} => UNCHANGED <<stage, testCase>>
    BY <1>2 DEF QuietStep, Opens, OpenFails, CaseOpens, CaseCloses, CaseFails, LoopCloses, Closes, Rests
  <2> QED BY <2>1, <2>2 DEF FollowedInv
<1>3. ASSUME NEW o \in Outcomes, RoutineStep(o) PROVE FollowedInv'
  <2>1. o # "fatal" /\ stage \in Kinds /\ Moves(o) /\ testCase' = testCase
    BY <1>3, NoFatalStep DEF RoutineStep, Moves
  <2>2. CASE Logged(o)
    <3>1. PICK e \in Entry : Wrote(o, e)
      BY <2>2 DEF Logged
    <3>2. log' = Append(log, e) /\ e.kind = stage /\ (stage = "test" => e.testCase = testCase)
      BY <3>1 DEF Wrote
    <3>3. log'[Len(log')] = e
      BY <3>2, AppendFact
    <3>4. stage = "test" => stage' \in {"after", "crashed"}
      BY <2>1 DEF Moves
    <3> QED BY <2>1, <3>2, <3>3, <3>4 DEF FollowedInv
  <2>3. CASE NotLogged(o)
    <3>1. log' = log /\ stage \notin {"after", "test"}
      BY <2>1, <2>3 DEF NotLogged
    <3>2. stage # "crashed"
      BY <2>1 DEF Kinds
    <3> QED BY <3>1, <3>2 DEF FollowedInv
  <2> QED BY <1>3, <2>2, <2>3 DEF RoutineStep
<1> QED BY <1>2, <1>3, StepFact

\* The third part of RoutinesBracketed.
Followed ==
    \A i \in 1 .. Len(log) - 1 : log[i].kind = "test" => log[i + 1].kind = "after" /\ log[i + 1].testCase = log[i].testCase

\* The entry a routine adds follows the last one.
LEMMA FollowedHolds ==
  ASSUME RunInv, FollowedInv, Followed, [TestRunNext]_testRunVars
  PROVE  Followed'
<1>1. CASE log' = log
  BY <1>1 DEF Followed
<1>2. ASSUME NEW o \in Outcomes, NEW e \in Entry, Wrote(o, e), stage \in Kinds PROVE Followed'
  <2> SUFFICES ASSUME NEW i \in 1 .. Len(log') - 1, log'[i].kind = "test"
               PROVE  log'[i + 1].kind = "after" /\ log'[i + 1].testCase = log'[i].testCase
    BY DEF Followed
  <2>1. log' = Append(log, e) /\ e.kind = stage /\ (stage = "after" => e.testCase = testCase)
    BY <1>2 DEF Wrote
  <2>2. /\ Len(log) \in Nat /\ Len(log') = Len(log) + 1
        /\ log'[Len(log) + 1] = e /\ \A k \in 1 .. Len(log) : log'[k] = log[k]
    BY <2>1, AppendFact DEF RunInv
  <2>3. CASE i = Len(log)
    <3>1. log # <<>> /\ log[Len(log)].kind = "test"
      BY <2>2, <2>3
    <3>2. stage = "after" /\ log[Len(log)].testCase = testCase
      BY <1>2, <3>1 DEF FollowedInv, Kinds
    <3> QED BY <2>1, <2>2, <2>3, <3>2
  <2>4. CASE i \in 1 .. Len(log) - 1
    <3>1. i \in 1 .. Len(log) /\ i + 1 \in 1 .. Len(log)
      BY <2>2, <2>4
    <3> QED BY <2>2, <2>4, <3>1 DEF Followed
  <2> QED BY <2>2, <2>3, <2>4
<1> QED BY <1>1, <1>2, LogFact

\* CfixsRunFixtureExecutionAction and CfixsRunTestCaseFixtureExecutionAction: in a
\* run without faults, a fixture whose setup succeeded is torn down exactly once
\* and last, an after routine follows every test routine, and nothing of a
\* fixture follows a setup that failed.
THEOREM RoutinesBracketedHolds ==
  ASSUME FaultFree, {"after", "teardown"} \subseteq Provided
  PROVE  TestRunSpec => []RoutinesBracketed
<1> DEFINE Inv == EndInv /\ EndsLast /\ TornDownInv /\ FollowedInv /\ Followed
<1>1. TestRunInit => Inv
  <2> SUFFICES ASSUME TestRunInit PROVE Inv
    OBVIOUS
  <2>1. log = <<>> /\ Len(log) = 0 /\ fixture = 1 /\ stage = "beforeFixture"
    BY DEF TestRunInit
  <2>2. TornDownInv
    BY <2>1, TestRunAssumption DEF TornDownInv, Fixtures
  <2> QED BY <2>1, <2>2 DEF EndInv, EndsLast, LaterPairs, FollowedInv, Followed
<1>2. RunInv /\ NoFatal /\ Inv /\ [TestRunNext]_testRunVars => Inv'
  BY EndStep, EndsLastStep, TornDownStep, FollowedStep, FollowedHolds
<1>3. RunInv /\ Inv => RoutinesBracketed
  <2> SUFFICES ASSUME RunInv, Inv PROVE RoutinesBracketed
    OBVIOUS
  <2>1. \A p \in LaterPairs : log[p[1]].kind = "setup" /\ log[p[1]].outcome # "ok" => log[p[2]].fixture # log[p[1]].fixture
    BY DEF EndsLast, Ends
  <2>2. ASSUME NEW f \in Over, \A i \in Ran(f, "setup") : log[i].outcome = "ok"
        PROVE  \E i \in Ran(f, "teardown") :
                   Ran(f, "teardown") = {i} /\ \A j \in i + 1 .. Len(log) : log[j].fixture # f
    <3>1. Ran(f, "teardown") # {}
      BY <2>2 DEF TornDownInv, Over
    <3>2. PICK i \in Ran(f, "teardown") : TRUE
      BY <3>1
    <3>3. Len(log) \in Nat
      BY DEF RunInv, LogType
    <3>4. ASSUME NEW j \in 1 .. Len(log), NEW k \in 1 .. Len(log), j < k, j \in Ran(f, "teardown")
          PROVE  log[k].fixture # f
      <4>1. <<j, k>> \in LaterPairs
        BY <3>4 DEF LaterPairs
      <4>2. Ends(log[j]) /\ log[j].fixture = f
        BY <3>4 DEF Ran, Ends
      <4> QED BY <4>1, <4>2 DEF EndsLast
    <3>5. i \in 1 .. Len(log)
      BY DEF Ran
    <3>6. \A j \in i + 1 .. Len(log) : log[j].fixture # f
      BY <3>3, <3>4, <3>5
    <3>7. \A j \in Ran(f, "teardown") : j = i
      <4> SUFFICES ASSUME NEW j \in Ran(f, "teardown"), j # i PROVE FALSE
        OBVIOUS
      <4>1. j \in 1 .. Len(log) /\ log[j].fixture = f /\ log[i].fixture = f
        BY DEF Ran
      <4>2. j < i \/ i < j
        BY <3>3, <3>5, <4>1
      <4> QED BY <3>4, <3>5, <4>1, <4>2
    <3> QED BY <3>6, <3>7
  <2> QED BY <2>1, <2>2 DEF RoutinesBracketed, Followed
<1> HIDE DEF Inv
<1> QED BY <1>1, <1>2, <1>3, NoFatalHolds, RunInvariance, PTL DEF TestRunSpec

-----------------------------------------------------------------------------
(***************************************************************************)
(* Nothing is skipped.                                                     *)
(***************************************************************************)

\* While nothing stops the run early, no routine aborts.
LEMMA CalmFact ==
  ASSUME RunInv, NoFatal, FaultFree, Calm', [TestRunNext]_testRunVars
  PROVE  /\ Calm
         /\ ~ ShortCircuitFixtureOnFailure /\ ~ ShortCircuitRunOnSetupFailure /\ ~ EscalateFixtureFailures
         /\ \A o \in Outcomes : RoutineStep(o) => o \in {"ok", "failed", "crashed"}
<1>1. options' = options
  BY StepFact DEF RunInv, QuietStep, RoutineStep
<1>2. Calm
  BY <1>1, RanGrows DEF Calm
<1>3. ~ ShortCircuitFixtureOnFailure /\ ~ ShortCircuitRunOnSetupFailure /\ ~ EscalateFixtureFailures
  BY <1>2 DEF Calm, ShortCircuitFixtureOnFailure, ShortCircuitRunOnSetupFailure, EscalateFixtureFailures
<1>4. ASSUME NEW o \in Outcomes, RoutineStep(o) PROVE o \in {"ok", "failed", "crashed"}
  <2>1. o # "fatal"
    BY <1>4, NoFatalStep
  <2>2. o # "aborted"
    <3>1. CASE NotLogged(o)
      BY <3>1 DEF NotLogged
    <3>2. CASE Logged(o)
      <4>1. PICK e \in Entry : Wrote(o, e)
        BY <3>2 DEF Logged
      <4>2. Len(log) + 1 \in 1 .. Len(log') /\ log'[Len(log) + 1] = e /\ e.outcome = o
        BY <4>1, AppendFact DEF Wrote, RunInv
      <4> QED BY <4>2 DEF Calm
    <3> QED BY <1>4, <3>1, <3>2 DEF RoutineStep
  <2> QED BY <2>1, <2>2 DEF Outcomes
<1> QED BY <1>2, <1>3, <1>4

\* The part of CalmInv about the control state.
CalmControl ==
    /\ stage # "crashed" => ~ shortCircuit
    /\ stage \in {"loop", "teardown", "fixtureEnd", "done"} => hr = "S_OK"
    /\ stage = "after" => hrTestCase \in {"S_OK", "TEST_FAILED"}
    /\ stage = "caseEnd" => hr \notin {"ABORTED", "FATAL"}
    /\ stage = "done" => fixture = FixtureCount

\* The part about the test cases of a fixture.
CalmBegun ==
    \A f \in Fixtures : (\A i \in Ran(f, "setup") : log[i].outcome = "ok") => \A c \in Due(f) : Begun(f, c)

CalmInv == Calm => CalmControl /\ CalmBegun

\* Failures that neither abort nor short-circuit leave no HRESULT behind.
LEMMA CalmControlStep ==
  ASSUME RunInv, NoFatal, CalmInv, FaultFree, Calm', [TestRunNext]_testRunVars
  PROVE  CalmControl'
<1> USE DEF RunInv
<1>1. /\ CalmControl
      /\ ~ ShortCircuitFixtureOnFailure /\ ~ ShortCircuitRunOnSetupFailure /\ ~ EscalateFixtureFailures
      /\ \A o \in Outcomes : RoutineStep(o) => o \in {"ok", "failed", "crashed"}
  BY CalmFact DEF CalmInv
<1>2. ASSUME QuietStep PROVE CalmControl'
  <2>0. hrTestCase' = hrTestCase /\ fixture \in Nat /\ FixtureCount \in Nat /\ fixture <= FixtureCount
    BY <1>2, TestRunAssumption DEF QuietStep, TestRunTypeOK
  <2>1. CASE CaseCloses
    <3>1. hr \in {"S_OK", "BEFORE_FAILED", "TEST_FAILED", "AFTER_FAILED"}
      BY <1>1, <2>1 DEF CaseCloses, CalmControl, ControlInv
    <3>2. ~ shortCircuit' /\ hr' = "S_OK" /\ stage' = "loop"
      BY <1>1, <2>1, <3>1 DEF CaseCloses, CaseFailed
    <3> QED BY <3>2 DEF CalmControl
  <2>2. CASE Opens
    BY <1>1, <2>2 DEF Opens, CalmControl
  <2>3. CASE CaseOpens
    BY <1>1, <2>3 DEF CaseOpens, CalmControl, FaultFree
  <2>4. CASE LoopCloses
    BY <1>1, <2>4 DEF LoopCloses, CalmControl
  <2>5. CASE Closes
    BY <1>1, <2>0, <2>5 DEF Closes, CalmControl
  <2>6. CASE Rests
    BY <1>1, <2>0, <2>6 DEF Rests, CalmControl
  <2> QED BY <1>2, <2>1, <2>2, <2>3, <2>4, <2>5, <2>6, NoFatalStep DEF QuietStep
<1>3. ASSUME NEW o \in Outcomes, RoutineStep(o) PROVE CalmControl'
  <2>1. o \in {"ok", "failed", "crashed"} /\ stage \in Kinds /\ Moves(o) /\ UNCHANGED <<fixture, shortCircuit>>
    BY <1>1, <1>3 DEF RoutineStep, Moves
  <2>2. /\ ResultOf("before", o) \in {"S_OK", "BEFORE_FAILED"} /\ ResultOf("test", o) \in {"S_OK", "TEST_FAILED"}
        /\ ResultOf("after", o) \in {"S_OK", "AFTER_FAILED"}
    BY <2>1, ResultFact DEF Kinds
  <2>3. CASE o = "crashed"
    BY <2>1, <2>3 DEF Moves, CalmControl
  <2>4. CASE o # "crashed" /\ stage \in {"setup", "teardown"}
    BY <1>1, <2>1, <2>4 DEF Moves, CalmControl
  <2>5. CASE o # "crashed" /\ stage \in {"before", "test"}
    BY <1>1, <2>1, <2>2, <2>5 DEF Moves, CalmControl
  <2>6. CASE o # "crashed" /\ stage = "after"
    BY <1>1, <2>1, <2>2, <2>6 DEF Moves, CalmControl
  <2> QED BY <2>1, <2>3, <2>4, <2>5, <2>6 DEF Kinds
<1> QED BY <1>2, <1>3, StepFact

\* A step between routines makes no further test case due.
LEMMA DueQuiet ==
  ASSUME RunInv, NoFatal, CalmControl, FaultFree, QuietStep, [TestRunNext]_testRunVars, NEW f \in Fixtures, NEW c \in Due(f)'
  PROVE  c \in Due(f)
<1> USE DEF RunInv
<1>1. /\ testCaseIndex' = testCaseIndex /\ fixture \in Nat /\ testCase \in Nat /\ TestCaseCount[f] \in Nat /\ f \in Nat
      /\ FixtureCount \in Nat
  BY TestRunAssumption DEF QuietStep, TestRunTypeOK, Fixtures
<1>2. c \in 1 .. TestCaseCount[f] /\ testCaseIndex[f] \in {0, c}
  BY <1>1 DEF Due
<1>3. CASE Closes
  BY <1>1, <1>2, <1>3 DEF Closes, Due
<1>4. CASE CaseOpens \/ LoopCloses
  <2>1. CASE f < fixture
    BY <1>2, <2>1 DEF Due
  <2>2. CASE ~ (f < fixture)
    <3>1. f = fixture /\ stage = "loop" /\ fixture' = fixture /\ stage' \in {"before", "teardown"}
      BY <1>4, <2>2 DEF CaseOpens, LoopCloses, Due
    <3>2. c <= testCase
      <4> SUFFICES ASSUME ~ (c <= testCase) PROVE FALSE
        OBVIOUS
      <4>1. c \in Remaining
        BY <1>1, <1>2, <3>1 DEF Remaining
      <4>2. CASE LoopCloses
        BY <4>1, <4>2 DEF LoopCloses, CalmControl
      <4>3. CASE CaseOpens
        <5>1. testCase' <= c /\ testCase' \in Nat /\ stage' = "before"
          BY <1>1, <4>1, <4>3 DEF CaseOpens, Remaining, FaultFree
        <5>2. c < testCase'
          BY <3>1, <5>1, <1>1 DEF Due
        <5> QED BY <1>2, <5>1, <5>2
      <4> QED BY <1>4, <4>2, <4>3
    <3> QED BY <1>2, <3>1, <3>2 DEF Due
  <2> QED BY <2>1, <2>2
<1>5. CASE Opens \/ CaseCloses \/ Rests
  BY <1>1, <1>2, <1>5 DEF Opens, CaseCloses, Rests, Due
<1> QED BY <1>3, <1>4, <1>5, NoFatalStep DEF QuietStep

\* A routine that makes its test case due has begun it.
LEMMA DueRoutine ==
  ASSUME RunInv, NoFatal, FaultFree, [TestRunNext]_testRunVars, NEW o \in Outcomes, RoutineStep(o), NEW f \in Fixtures, NEW c \in Due(f)',
         \A i \in Ran(f, "setup")' : log'[i].outcome = "ok"
  PROVE  c \in Due(f) \/ Begun(f, c)'
<1> USE DEF RunInv
<1>1. /\ UNCHANGED <<fixture, testCase, testCaseIndex>> /\ stage \in Kinds /\ Moves(o)
      /\ fixture \in Nat /\ testCase \in Nat /\ TestCaseCount[f] \in Nat /\ f \in Nat
      /\ o # "fatal"
  <2>1. UNCHANGED <<fixture, testCase, testCaseIndex>> /\ stage \in Kinds /\ Moves(o)
    BY DEF RoutineStep, Moves
  <2>2. fixture \in Nat /\ testCase \in Nat /\ TestCaseCount[f] \in Nat /\ f \in Nat
    BY TestRunAssumption DEF TestRunTypeOK, Fixtures
  <2>3. o # "fatal"
    BY NoFatalStep
  <2> QED BY <2>1, <2>2, <2>3
<1>2. c \in 1 .. TestCaseCount[f] /\ testCaseIndex[f] \in {0, c}
  BY <1>1 DEF Due
<1>3. CASE f < fixture
  BY <1>2, <1>3 DEF Due
<1>4. CASE ~ (f < fixture)
  <2>1. f = fixture
    BY <1>1, <1>4 DEF Due
  <2>2. stage' # "crashed" /\ o # "crashed"
    BY <1>1, <1>4 DEF Due, Moves
  <2>3. ASSUME Logged(o)
        PROVE  /\ stage = "setup" => o = "ok"
               /\ stage \in {"before", "test"} => Begun(f, testCase)'
    <3>1. PICK e \in Entry : Wrote(o, e)
      BY <2>3 DEF Logged
    <3>2. Len(log) + 1 \in 1 .. Len(log') /\ log'[Len(log) + 1] = e
      BY <3>1, AppendFact DEF Wrote
    <3>3. e.kind = stage /\ e.fixture = f /\ e.outcome = o /\ (stage \in {"before", "test"} => e.testCase = testCase)
      BY <2>1, <3>1 DEF Wrote
    <3>4. stage = "setup" => o = "ok"
      BY <3>2, <3>3 DEF Ran
    <3>5. stage \in {"before", "test"} => Begun(f, testCase)'
      BY <1>1, <3>2, <3>3 DEF Begun
    <3> QED BY <3>4, <3>5
  <2>4. Logged(o) \/ (o = "ok" /\ stage # "test")
    BY <1>1 DEF RoutineStep, NotLogged
  <2>5. CASE stage = "setup"
    <3>1. o = "ok" /\ stage' = "loop" /\ testCase = 0
      BY <1>1, <2>2, <2>3, <2>4, <2>5 DEF Moves, ControlInv
    <3> QED BY <1>1, <1>2, <2>1, <3>1 DEF Due
  <2>6. CASE stage \in {"before", "test"}
    <3>1. stage' \in {"test", "caseEnd", "after"} /\ (stage' # "test" => Logged(o))
      BY <1>1, <2>2, <2>4, <2>6 DEF Moves
    <3>2. c < testCase \/ (c = testCase /\ stage' # "test")
      BY <1>1, <1>2, <2>1, <3>1 DEF Due
    <3>3. CASE c < testCase
      BY <1>2, <2>1, <2>6, <3>3 DEF Due
    <3>4. CASE c = testCase /\ stage' # "test"
      <4>1. Begun(f, testCase)'
        BY <2>3, <2>6, <3>1, <3>4
      <4> QED BY <1>1, <3>4, <4>1 DEF Begun
    <3> QED BY <3>2, <3>3, <3>4
  <2>7. CASE stage \in {"after", "teardown"}
    BY <1>1, <1>2, <2>1, <2>2, <2>7 DEF Moves, Due
  <2> QED BY <1>1, <2>5, <2>6, <2>7 DEF Kinds
<1> QED BY <1>3, <1>4

\* What is due has been begun.
LEMMA CalmStep ==
  ASSUME RunInv, NoFatal, CalmInv, FaultFree, [TestRunNext]_testRunVars
  PROVE  CalmInv'
<1> SUFFICES ASSUME Calm' PROVE CalmControl' /\ CalmBegun'
  BY DEF CalmInv
<1>1. CalmControl'
  BY CalmControlStep
<1>2. CalmControl /\ CalmBegun
  BY CalmFact DEF CalmInv
<1>3. ASSUME NEW f \in Fixtures, \A i \in Ran(f, "setup")' : log'[i].outcome = "ok", NEW c \in Due(f)'
      PROVE  Begun(f, c)'
  <2>1. \A i \in Ran(f, "setup") : log[i].outcome = "ok"
    BY <1>3, RanGrows DEF Ran
  <2>2. c \in Due(f) => Begun(f, c)
    BY <1>2, <2>1 DEF CalmBegun
  <2>3. Begun(f, c) => Begun(f, c)'
    BY RanGrows DEF Begun
  <2>4. c \in Due(f) \/ Begun(f, c)'
    BY <1>2, <1>3, DueQuiet, DueRoutine, StepFact DEF RunInv
  <2> QED BY <2>2, <2>3, <2>4
<1> QED BY <1>1, <1>3 DEF CalmBegun

\* CfixsRunFixtureExecutionAction and CfixsRunSequenceAction: without a
\* short-circuit option, and unless a routine aborts, a run without faults begins
\* every selected test case of the fixtures whose setup succeeded.
THEOREM NothingSkippedHolds ==
  ASSUME FaultFree
  PROVE  TestRunSpec => []NothingSkipped
<1>1. TestRunInit => CalmInv
  <2> SUFFICES ASSUME TestRunInit PROVE CalmInv
    OBVIOUS
  <2>1. fixture = 1 /\ stage = "beforeFixture" /\ ~ shortCircuit
    BY DEF TestRunInit
  <2>2. CalmControl
    BY <2>1 DEF CalmControl
  <2>3. CalmBegun
    BY <2>1, TestRunAssumption DEF CalmBegun, Due, Fixtures
  <2> QED BY <2>2, <2>3 DEF CalmInv
<1>2. RunInv /\ NoFatal /\ CalmInv /\ [TestRunNext]_testRunVars => CalmInv'
  BY CalmStep
<1>3. RunInv /\ CalmInv => NothingSkipped
  <2> SUFFICES ASSUME RunInv, CalmInv, stage = "done", Calm
               PROVE  /\ fixture = FixtureCount
                      /\ \A f \in Fixtures :
                           (\A i \in Ran(f, "setup") : log[i].outcome = "ok") =>
                              \A c \in 1 .. TestCaseCount[f] :
                                 testCaseIndex[f] \in {0, c} =>
                                    \E i \in Ran(f, "before") \cup Ran(f, "test") : log[i].testCase = c
    BY DEF NothingSkipped, Calm
  <2>1. fixture = FixtureCount
    BY DEF CalmInv, CalmControl
  <2>2. ASSUME NEW f \in Fixtures, \A i \in Ran(f, "setup") : log[i].outcome = "ok",
               NEW c \in 1 .. TestCaseCount[f], testCaseIndex[f] \in {0, c}
        PROVE  \E i \in Ran(f, "before") \cup Ran(f, "test") : log[i].testCase = c
    <3>1. f < fixture \/ f = fixture
      BY <2>1, TestRunAssumption DEF Fixtures
    <3>2. c \in Due(f)
      BY <2>2, <3>1 DEF Due
    <3>3. Begun(f, c)
      BY <2>2, <3>2 DEF CalmInv, CalmBegun
    <3> QED BY <3>3 DEF Begun, Ran
  <2> QED BY <2>1, <2>2
<1> QED BY <1>1, <1>2, <1>3, NoFatalHolds, RunInvariance, PTL DEF TestRunSpec

-----------------------------------------------------------------------------
(***************************************************************************)
(* Statistics.                                                             *)
(***************************************************************************)

\* The state of the thread exists while a fixture runs, and the fixtures that are
\* over have been counted.
StateInv ==
    /\ statistics \in Statistics
    /\ threadState \in [referenceCount : 0 .. 1, failureCount : Nat, inconclusiveCount : Nat]
    /\ stage \in {"beforeFixture", "done"} => ~ HaveState
    /\ stage \notin {"beforeFixture", "done", "crashed"} => HaveState
    /\ stage \notin {"done", "crashed"} => statistics.fixtures = fixture - 1
    /\ stage = "done" => statistics.fixtures = fixture

\* The test cases that were begun are those counted and the one under way.
TallyInv ==
    /\ IsFiniteSet(BegunSet)
    /\ stage = "before" => <<fixture, testCase>> \notin BegunSet
    /\ stage \in {"after", "caseEnd"} => <<fixture, testCase>> \in BegunSet
    /\ stage \in InCase /\ <<fixture, testCase>> \in BegunSet => Cardinality(BegunSet) = statistics.testCases + 1
    /\ stage # "crashed" /\ ~ (stage \in InCase /\ <<fixture, testCase>> \in BegunSet)
          => Cardinality(BegunSet) = statistics.testCases

\* What the callbacks of the runner's context do to the statistics.
LEMMA ContextFact ==
  ASSUME StateInv, HaveState
  PROVE  /\ ContextAfterTestCaseFinish =>
               /\ statistics' \in Statistics /\ statistics'.testCases = statistics.testCases + 1
               /\ statistics'.fixtures = statistics.fixtures
               /\ threadState' \in [referenceCount : 0 .. 1, failureCount : Nat, inconclusiveCount : Nat] /\ HaveState'
         /\ ContextAfterFixtureFinish =>
               /\ statistics' \in Statistics /\ statistics'.testCases = statistics.testCases
               /\ statistics'.fixtures = statistics.fixtures + 1
               /\ threadState' \in [referenceCount : 0 .. 1, failureCount : Nat, inconclusiveCount : Nat] /\ ~ HaveState'
<1> USE DEF Statistics
<1>1. threadState.referenceCount = 1
  BY DEF StateInv, HaveState
<1>2. ASSUME ContextAfterTestCaseFinish
      PROVE  /\ statistics' \in Statistics /\ statistics'.testCases = statistics.testCases + 1
             /\ statistics'.fixtures = statistics.fixtures
             /\ threadState' \in [referenceCount : 0 .. 1, failureCount : Nat, inconclusiveCount : Nat] /\ HaveState'
  <2>1. PICK outcome \in {"failed", "inconclusive", "succeeded"} :
           /\ statistics' = [statistics EXCEPT ![outcome] = @ + 1, !.testCases = @ + 1]
           /\ threadState' = [threadState EXCEPT !.failureCount = 0, !.inconclusiveCount = 0]
    BY <1>2 DEF ContextAfterTestCaseFinish
  <2>2. statistics' \in Statistics /\ statistics'.testCases = statistics.testCases + 1 /\ statistics'.fixtures = statistics.fixtures
    <3>1. statistics \in Statistics
      BY DEF StateInv
    <3>2. statistics' = [fixtures |-> statistics.fixtures, testCases |-> statistics.testCases + 1,
                         succeeded |-> IF outcome = "succeeded" THEN statistics.succeeded + 1 ELSE statistics.succeeded,
                         failed |-> IF outcome = "failed" THEN statistics.failed + 1 ELSE statistics.failed,
                         inconclusive |-> IF outcome = "inconclusive" THEN statistics.inconclusive + 1
                                          ELSE statistics.inconclusive]
      <4>1. CASE outcome = "failed"
        BY <2>1, <3>1, <4>1
      <4>2. CASE outcome = "inconclusive"
        BY <2>1, <3>1, <4>2
      <4>3. CASE outcome = "succeeded"
        BY <2>1, <3>1, <4>3
      <4> QED BY <4>1, <4>2, <4>3
    <3> QED BY <3>1, <3>2
  <2>3. threadState' \in [referenceCount : 0 .. 1, failureCount : Nat, inconclusiveCount : Nat] /\ HaveState'
    BY <1>1, <2>1 DEF StateInv, HaveState
  <2> QED BY <2>2, <2>3
<1>3. ASSUME ContextAfterFixtureFinish
      PROVE  /\ statistics' \in Statistics /\ statistics'.testCases = statistics.testCases
             /\ statistics'.fixtures = statistics.fixtures + 1
             /\ threadState' \in [referenceCount : 0 .. 1, failureCount : Nat, inconclusiveCount : Nat] /\ ~ HaveState'
  <2>1. statistics' = [statistics EXCEPT !.fixtures = @ + 1] /\ threadState' = NoState
    BY <1>1, <1>3 DEF ContextAfterFixtureFinish
  <2>2. threadState' \in [referenceCount : 0 .. 1, failureCount : Nat, inconclusiveCount : Nat] /\ ~ HaveState'
    BY <2>1 DEF NoState, HaveState
  <2> QED BY <2>1, <2>2 DEF StateInv
<1> QED BY <1>2, <1>3

\* The thread state and the count of fixtures.
LEMMA StateStep ==
  ASSUME RunInv, NoFatal, StateInv, FaultFree, [TestRunNext]_testRunVars
  PROVE  StateInv'
<1> USE DEF RunInv
<1>0. fixture \in Nat
  BY TestRunAssumption DEF TestRunTypeOK, Fixtures
<1>1. ASSUME QuietStep PROVE StateInv'
  <2>1. CASE Opens
    <3>1. threadState' = [NoState EXCEPT !.referenceCount = 1] /\ statistics' = statistics
      BY <2>1 DEF Opens, ContextBeforeFixtureStart, StateInv
    <3>2. threadState' \in [referenceCount : 0 .. 1, failureCount : Nat, inconclusiveCount : Nat] /\ HaveState'
      BY <3>1 DEF NoState, HaveState
    <3> QED BY <2>1, <3>1, <3>2 DEF Opens, StateInv
  <2>2. CASE CaseOpens
    BY <2>2 DEF CaseOpens, StateInv, FaultFree, HaveState
  <2>3. CASE CaseCloses
    <3>1. HaveState /\ ContextAfterTestCaseFinish /\ fixture' = fixture /\ stage = "caseEnd" /\ stage' = "loop"
      BY <2>3 DEF CaseCloses, StateInv
    <3> QED BY <3>1, ContextFact DEF StateInv
  <2>4. CASE LoopCloses
    BY <2>4 DEF LoopCloses, StateInv, HaveState
  <2>5. CASE Closes
    <3>1. HaveState /\ ContextAfterFixtureFinish /\ stage = "fixtureEnd" /\ statistics.fixtures = fixture - 1
      BY <2>5 DEF Closes, StateInv
    <3>2. /\ statistics' \in Statistics /\ statistics'.fixtures = fixture
          /\ threadState' \in [referenceCount : 0 .. 1, failureCount : Nat, inconclusiveCount : Nat] /\ ~ HaveState'
      BY <1>0, <3>1, ContextFact
    <3>3. (stage' = "beforeFixture" /\ fixture' = fixture + 1) \/ (stage' = "done" /\ fixture' = fixture)
      BY <2>5 DEF Closes
    <3> QED BY <1>0, <3>2, <3>3 DEF StateInv
  <2>6. CASE Rests
    BY <2>6 DEF Rests, StateInv, HaveState
  <2> QED BY <1>1, <2>1, <2>2, <2>3, <2>4, <2>5, <2>6, NoFatalStep DEF QuietStep
<1>2. ASSUME NEW o \in Outcomes, RoutineStep(o) PROVE StateInv'
  <2>1. /\ UNCHANGED <<fixture, statistics, threadState>> /\ stage \in Kinds
    BY <1>2 DEF RoutineStep, Moves
  <2>2. stage' \in {"loop", "fixtureEnd", "test", "caseEnd", "after", "crashed"}
    BY <1>2, <2>1, NoFatalStep DEF RoutineStep, Moves, Kinds
  <2> QED BY <2>1, <2>2 DEF StateInv, HaveState, Kinds
<1> QED BY <1>1, <1>2, StepFact

\* The test cases begun after a routine.
LEMMA BegunFact ==
  ASSUME LogType, NEW e \in Entry, log' = Append(log, e)
  PROVE  BegunSet' = BegunSet \cup (IF e.kind \in {"before", "test"} THEN {<<e.fixture, e.testCase>>} ELSE {})
<1>1. /\ Len(log) \in Nat /\ Len(log') = Len(log) + 1
      /\ log'[Len(log) + 1] = e /\ \A i \in 1 .. Len(log) : log'[i] = log[i]
  BY AppendFact
<1>2. \A i \in 1 .. Len(log') : i \in 1 .. Len(log) \/ i = Len(log) + 1
  BY <1>1
<1>3. Len(log) + 1 \in 1 .. Len(log') /\ \A i \in 1 .. Len(log) : i \in 1 .. Len(log')
  BY <1>1
<1>4. ASSUME NEW x \in BegunSet'
      PROVE  x \in BegunSet \/ (e.kind \in {"before", "test"} /\ x = <<e.fixture, e.testCase>>)
  BY <1>1, <1>2, <1>4 DEF BegunSet
<1>5. ASSUME NEW x \in BegunSet PROVE x \in BegunSet'
  BY <1>1, <1>3, <1>5 DEF BegunSet
<1>6. e.kind \in {"before", "test"} => <<e.fixture, e.testCase>> \in BegunSet'
  BY <1>1, <1>3 DEF BegunSet
<1> QED BY <1>4, <1>5, <1>6

\* A routine begins its test case at most once.
LEMMA TallyRoutine ==
  ASSUME RunInv, NoFatal, StateInv, TallyInv, FaultFree, [TestRunNext]_testRunVars, NEW o \in Outcomes, RoutineStep(o)
  PROVE  TallyInv'
<1> USE DEF RunInv
<1>1. /\ UNCHANGED <<fixture, testCase, statistics>> /\ stage \in Kinds
      /\ o # "fatal" /\ statistics.testCases \in Nat
  <2>1. o # "fatal"
    BY NoFatalStep
  <2>2. statistics.testCases \in Nat
    BY DEF StateInv, Statistics
  <2> QED BY <2>1, <2>2 DEF RoutineStep, Moves
<1>2. /\ stage = "before" => stage' \in {"test", "caseEnd", "crashed"} /\ (stage' # "test" => o # "ok")
      /\ stage = "test" => stage' \in {"after", "crashed"}
      /\ stage = "after" => stage' \in {"caseEnd", "crashed"}
      /\ stage \in {"setup", "teardown"} => stage' \in {"loop", "fixtureEnd", "crashed"}
  BY <1>1 DEF RoutineStep, Moves
<1>3. PICK x : x = <<fixture, testCase>>
  OBVIOUS
<1>4. x = <<fixture, testCase>>'
  BY <1>1, <1>3
<1>5. \/ BegunSet' = BegunSet /\ stage \notin {"before", "test"}
      \/ BegunSet' = BegunSet /\ stage = "before" /\ o = "ok"
      \/ BegunSet' = BegunSet \cup {x} /\ stage \in {"before", "test"}
  <2>1. CASE NotLogged(o)
    <3>1. log' = log /\ stage # "test" /\ o = "ok"
      BY <1>1, <2>1 DEF NotLogged
    <3>2. BegunSet' = BegunSet
      BY <3>1 DEF BegunSet
    <3> QED BY <3>1, <3>2
  <2>2. CASE Logged(o)
    <3>1. PICK e \in Entry : Wrote(o, e)
      BY <2>2 DEF Logged
    <3>2. log' = Append(log, e) /\ e.kind = stage /\ (stage \in {"before", "test"} => <<e.fixture, e.testCase>> = x)
      BY <1>3, <3>1 DEF Wrote
    <3> QED BY <3>2, BegunFact
  <2> QED BY <2>1, <2>2 DEF RoutineStep
<1>6. IsFiniteSet(BegunSet)
  BY DEF TallyInv
<1>7. /\ IsFiniteSet(BegunSet \cup {x})
      /\ Cardinality(BegunSet \cup {x}) = IF x \in BegunSet THEN Cardinality(BegunSet) ELSE Cardinality(BegunSet) + 1
  BY <1>6, FS_AddElement
<1>8. CASE BegunSet' = BegunSet /\ stage \notin {"before", "test"}
  BY <1>1, <1>2, <1>3, <1>4, <1>8 DEF TallyInv, InCase, Kinds
<1>9. CASE BegunSet' = BegunSet /\ stage = "before" /\ o = "ok"
  BY <1>1, <1>2, <1>3, <1>4, <1>9 DEF TallyInv, InCase
<1>10. CASE BegunSet' = BegunSet \cup {x} /\ stage \in {"before", "test"}
  <2>1. x \in BegunSet' /\ IsFiniteSet(BegunSet') /\ Cardinality(BegunSet') = statistics.testCases + 1
    BY <1>1, <1>3, <1>7, <1>10 DEF TallyInv, InCase
  <2>2. stage' \in {"test", "caseEnd", "after", "crashed"}
    BY <1>2, <1>10
  <2> QED BY <1>1, <1>4, <2>1, <2>2 DEF TallyInv, InCase
<1> QED BY <1>5, <1>8, <1>9, <1>10

\* The context counts the test case that ends; the next one has not been begun.
LEMMA TallyQuiet ==
  ASSUME RunInv, NoFatal, StateInv, TallyInv, FaultFree, [TestRunNext]_testRunVars, QuietStep
  PROVE  TallyInv'
<1> USE DEF RunInv
<1>1. BegunSet' = BegunSet /\ statistics.testCases \in Nat
  BY DEF QuietStep, BegunSet, StateInv, Statistics
<1>2. CASE Opens
  BY <1>1, <1>2 DEF Opens, ContextBeforeFixtureStart, TallyInv, InCase
<1>3. CASE CaseOpens
  <2>1. <<fixture, testCase'>> \notin BegunSet
    <3> SUFFICES ASSUME NEW i \in 1 .. Len(log), log[i].fixture = fixture, log[i].testCase = testCase' PROVE FALSE
      BY DEF BegunSet
    <3>1. log[i].testCase <= testCase
      BY DEF PastInv
    <3>2. testCase' \in testCase + 1 .. TestCaseCount[fixture] /\ testCase \in Nat
      BY <1>3, TestRunAssumption DEF CaseOpens, Remaining, TestRunTypeOK
    <3>3. TestCaseCount[fixture] \in Nat
      BY TestRunAssumption DEF TestRunTypeOK, Fixtures
    <3> QED BY <3>1, <3>2, <3>3
  <2> QED BY <1>1, <1>3, <2>1 DEF CaseOpens, TallyInv, InCase, FaultFree
<1>4. CASE CaseCloses
  <2>1. HaveState /\ ContextAfterTestCaseFinish /\ stage = "caseEnd" /\ stage' = "loop"
    BY <1>4 DEF CaseCloses, StateInv
  <2>2. statistics'.testCases = statistics.testCases + 1
    BY <2>1, ContextFact
  <2> QED BY <1>1, <2>1, <2>2 DEF TallyInv, InCase
<1>5. CASE LoopCloses
  BY <1>1, <1>5 DEF LoopCloses, TallyInv, InCase
<1>6. CASE Closes
  <2>1. HaveState /\ ContextAfterFixtureFinish /\ stage = "fixtureEnd" /\ stage' \in {"beforeFixture", "done"}
    BY <1>6 DEF Closes, StateInv
  <2>2. statistics'.testCases = statistics.testCases
    BY <2>1, ContextFact
  <2> QED BY <1>1, <2>1, <2>2 DEF TallyInv, InCase
<1>7. CASE Rests
  BY <1>1, <1>7 DEF Rests, TallyInv
<1> QED BY <1>2, <1>3, <1>4, <1>5, <1>6, <1>7, NoFatalStep DEF QuietStep

\* CfixrunsExecCtxAfterTestCaseFinish and AfterFixtureFinish: in a run without
\* faults the statistics count each test case that was begun exactly once, every
\* fixture, and nothing else; the exit code says whether there was any test case.
THEOREM StatisticsCompleteHolds ==
  ASSUME FaultFree
  PROVE  TestRunSpec => []StatisticsComplete
<1>1. TestRunInit => StateInv /\ TallyInv
  <2> SUFFICES ASSUME TestRunInit PROVE StateInv /\ TallyInv
    OBVIOUS
  <2>1. /\ stage = "beforeFixture" /\ log = <<>> /\ Len(log) = 0 /\ fixture = 1 /\ threadState = NoState
        /\ statistics = [fixtures |-> 0, testCases |-> 0, succeeded |-> 0, failed |-> 0, inconclusive |-> 0]
    BY DEF TestRunInit, ExecContextInit
  <2>2. StateInv
    BY <2>1 DEF StateInv, Statistics, NoState, HaveState
  <2>3. BegunSet = {}
    BY <2>1 DEF BegunSet
  <2>4. IsFiniteSet(BegunSet) /\ Cardinality(BegunSet) = 0
    BY <2>3, FS_EmptySet
  <2> QED BY <2>1, <2>2, <2>3, <2>4 DEF TallyInv, InCase
<1>2. RunInv /\ NoFatal /\ StateInv /\ TallyInv /\ [TestRunNext]_testRunVars => StateInv' /\ TallyInv'
  <2> SUFFICES ASSUME RunInv, NoFatal, StateInv, TallyInv, [TestRunNext]_testRunVars PROVE StateInv' /\ TallyInv'
    OBVIOUS
  <2> QED BY StateStep, TallyRoutine, TallyQuiet, StepFact DEF RunInv
<1>3. StateInv /\ TallyInv => StatisticsComplete
  <2> SUFFICES ASSUME StateInv, TallyInv, stage = "done"
               PROVE  /\ statistics.testCases = Cardinality(BegunSet) /\ statistics.fixtures = fixture /\ ~ HaveState
                      /\ ExitCode = "NONE_EXECUTED" <=> BegunSet = {}
    BY DEF StatisticsComplete, BegunSet
  <2>1. statistics.testCases = Cardinality(BegunSet) /\ IsFiniteSet(BegunSet)
    BY DEF TallyInv, InCase
  <2>2. Cardinality(BegunSet) = 0 <=> BegunSet = {}
    BY <2>1, FS_EmptySet
  <2>3. ExitCode = "NONE_EXECUTED" <=> statistics.testCases = 0
    BY DEF ExitCode
  <2> QED BY <2>1, <2>2, <2>3 DEF StateInv
<1> QED BY <1>1, <1>2, <1>3, NoFatalHolds, RunInvariance, PTL DEF TestRunSpec

-----------------------------------------------------------------------------
(***************************************************************************)
(* Fatal errors.                                                           *)
(***************************************************************************)

\* The run ends with fixture f.
LastFixture(f) ==
    /\ fixture = f
    /\ \/ stage = "caseEnd" /\ hr = "FATAL"
       \/ stage \in {"teardown", "fixtureEnd"} /\ hr # "S_OK"
       \/ stage \in {"done", "crashed"}

\* Neither the teardown routine nor the sequence goes back on it.
LEMMA LastFixtureStep ==
  ASSUME RunInv, NEW f \in Fixtures, LastFixture(f), [TestRunNext]_testRunVars
  PROVE  LastFixture(f)'
<1>1. ASSUME QuietStep PROVE LastFixture(f)'
  BY <1>1 DEF QuietStep, Opens, OpenFails, CaseOpens, CaseCloses, CaseFails, LoopCloses, Closes, Rests, LastFixture
<1>2. ASSUME NEW o \in Outcomes, RoutineStep(o) PROVE LastFixture(f)'
  <2>1. stage = "teardown" /\ Moves(o) /\ fixture' = fixture
    BY <1>2 DEF RoutineStep, Moves, LastFixture, Kinds
  <2>2. o # "ok" /\ o # "crashed" => ResultOf("teardown", o) # "S_OK"
    BY ResultFact DEF Outcomes, Kinds
  <2> QED BY <2>1, <2>2 DEF Moves, LastFixture
<1> QED BY <1>1, <1>2, StepFact DEF RunInv

\* Once an error that is no failure of a routine is the HRESULT of
\* CfixsRunFixtureExecutionAction, CfixsRunSequenceAction starts no later fixture: the
\* teardown routine may replace the HRESULT, but not by success. An error that is
\* eaten without becoming the HRESULT (tsexecaction.c:411-426) is not meant.
THEOREM FatalEndsRunHolds == TestRunSpec => FatalEndsRun
<1>1. ASSUME NEW f \in Fixtures PROVE TestRunSpec => [](hr = "FATAL" /\ fixture = f => [](fixture = f))
  <2>1. RunInv /\ hr = "FATAL" /\ fixture = f => LastFixture(f)
    BY DEF RunInv, TestRunTypeOK, ControlInv, LastFixture
  <2>2. RunInv /\ LastFixture(f) /\ [TestRunNext]_testRunVars => LastFixture(f)'
    BY LastFixtureStep
  <2>3. LastFixture(f) => fixture = f
    BY DEF LastFixture
  <2> QED BY <2>1, <2>2, <2>3, RunInvariance, PTL DEF TestRunSpec
<1> QED BY <1>1 DEF FatalEndsRun

-----------------------------------------------------------------------------
(***************************************************************************)
(* The protocol of event sinks.                                            *)
(***************************************************************************)

SinkInv ==
    /\ sink \in [phase : {"between", "fixture", "testCase"}, fixture : Nat, testCase : Nat]
    /\ stage = "beforeFixture" => sink.phase = "between" /\ sink.fixture = fixture - 1
    /\ stage \in {"setup", "loop", "teardown", "fixtureEnd"} =>
          sink.phase = "fixture" /\ sink.fixture = fixture /\ sink.testCase = testCase
    /\ stage \in InCase => sink.phase = "testCase" /\ sink.fixture = fixture /\ sink.testCase = testCase

\* Every step tells the sink what the protocol allows, or nothing.
LEMMA SinkStep ==
  ASSUME RunInv, SinkInv, ~ ContextMayFail, [TestRunNext]_testRunVars
  PROVE  SinkInv' /\ (Protocol!Next \/ UNCHANGED sink)
<1> USE DEF RunInv
<1>0. /\ fixture \in 1 .. FixtureCount /\ FixtureCount \in Nat /\ testCase \in Nat /\ TestCaseCount[fixture] \in Nat
      /\ sink \in [phase : {"between", "fixture", "testCase"}, fixture : Nat, testCase : Nat]
  BY TestRunAssumption DEF TestRunTypeOK, Fixtures, SinkInv
<1>1. ASSUME QuietStep PROVE SinkInv' /\ (Protocol!Next \/ UNCHANGED sink)
  <2>1. CASE Opens \/ OpenFails
    <3>1. /\ sink' = [phase |-> "fixture", fixture |-> fixture, testCase |-> 0] /\ UNCHANGED <<fixture, testCase>>
          /\ stage = "beforeFixture" /\ stage' \in {"setup", "done"} /\ testCase = 0
      BY <2>1 DEF Opens, OpenFails, EmitBeforeFixtureStart, ControlInv
    <3>2. Protocol!BeginFixture
      BY <1>0, <3>1 DEF Protocol!BeginFixture, SinkInv
    <3>3. SinkInv'
      BY <1>0, <3>1 DEF SinkInv, InCase
    <3> QED BY <3>2, <3>3 DEF Protocol!Next
  <2>2. CASE CaseOpens
    <3>1. PICK c : c = testCase'
      OBVIOUS
    <3>2. /\ c \in testCase + 1 .. TestCaseCount[fixture] /\ sink' = [sink EXCEPT !.phase = "testCase", !.testCase = c]
          /\ stage = "loop" /\ stage' = "before" /\ fixture' = fixture
      BY <2>2, <3>1 DEF CaseOpens, Remaining, EmitBeforeTestCaseStart
    <3>3. sink.phase = "fixture" /\ sink.fixture = fixture /\ sink.testCase = testCase
      BY <3>2 DEF SinkInv
    <3>4. Protocol!BeginTestCase
      BY <3>2, <3>3 DEF Protocol!BeginTestCase
    <3>5. c \in Nat
      BY <1>0, <3>2
    <3>6. SinkInv'
      BY <1>0, <3>1, <3>2, <3>3, <3>5 DEF SinkInv, InCase
    <3> QED BY <3>4, <3>6 DEF Protocol!Next
  <2>3. CASE CaseCloses
    <3>1. sink' = [sink EXCEPT !.phase = "fixture"] /\ UNCHANGED <<fixture, testCase>> /\ stage = "caseEnd" /\ stage' = "loop"
      BY <2>3 DEF CaseCloses, EmitAfterTestCaseFinish
    <3>2. Protocol!EndTestCase /\ SinkInv'
      BY <1>0, <3>1 DEF SinkInv, InCase, Protocol!EndTestCase
    <3> QED BY <3>2 DEF Protocol!Next
  <2>4. CASE Closes
    <3>1. /\ sink' = [sink EXCEPT !.phase = "between"] /\ stage = "fixtureEnd"
          /\ (stage' = "beforeFixture" /\ fixture' = fixture + 1) \/ stage' = "done"
      BY <2>4 DEF Closes, EmitAfterFixtureFinish
    <3>2. Protocol!EndFixture /\ SinkInv'
      BY <1>0, <3>1 DEF SinkInv, InCase, Protocol!EndFixture
    <3> QED BY <3>2 DEF Protocol!Next
  <2>5. CASE CaseFails \/ LoopCloses \/ Rests
    BY <2>5 DEF CaseFails, LoopCloses, Rests, SinkInv, InCase
  <2> QED BY <1>1, <2>1, <2>2, <2>3, <2>4, <2>5 DEF QuietStep
<1>2. ASSUME NEW o \in Outcomes, RoutineStep(o) PROVE SinkInv' /\ UNCHANGED sink
  <2>1. stage \in Kinds /\ Moves(o) /\ UNCHANGED <<fixture, testCase, sink>>
    BY <1>2 DEF RoutineStep, Moves
  <2>2. CASE stage \in {"setup", "teardown"}
    BY <2>1, <2>2 DEF Moves, SinkInv, InCase
  <2>3. CASE stage \in {"before", "test", "after"}
    BY <2>1, <2>3 DEF Moves, SinkInv, InCase
  <2> QED BY <2>1, <2>2, <2>3 DEF Kinds
<1> QED BY <1>1, <1>2, StepFact

\* Event sinks are told fixtures and test cases in order, properly nested and each
\* once: the run implements the safety part of EventProtocol, unless a context
\* refuses a test case.  That what was begun is finished stays with TLC.
THEOREM SinkToldInOrder ==
  ASSUME ~ ContextMayFail
  PROVE  TestRunSpec => Protocol!Init /\ [][Protocol!Next]_sink
<1>1. TestRunInit => Protocol!Init /\ SinkInv
  BY DEF TestRunInit, EmitterInit, Protocol!Init, SinkInv, InCase
<1>2. RunInv /\ SinkInv /\ [TestRunNext]_testRunVars => SinkInv' /\ [Protocol!Next]_sink
  BY SinkStep
<1> QED BY <1>1, <1>2, RunInvariance, PTL DEF TestRunSpec

==============================================================================
