---------------------------- MODULE EventEmitter ----------------------------
(***************************************************************************)
(* The event emitting proxy (cfix/cfix/eventemitter.c): an execution       *)
(* context that tells an event sink of every callback before it passes it  *)
(* on, and that names the test case an event belongs to.  The operators    *)
(* are the callbacks; the module that drives a test run conjoins them with *)
(* the callbacks of the execution context the proxy forwards to.           *)
(***************************************************************************)
EXTENDS Integers

VARIABLES
    firstTestCaseBegun,  \* FirstTestCaseBegun
    currentTestCase,     \* CurrentTestCase
    currentFixture,      \* CurrentFixture
    sink                 \* what the event sink was told last of a fixture and
                         \* of a test case

\* The NULL pointer; fixtures and test cases are numbered from 1.
NoneCurrent == 0

emitterVars == <<firstTestCaseBegun, currentTestCase, currentFixture, sink>>

EmitterInit ==
    /\ firstTestCaseBegun = FALSE
    /\ currentTestCase = NoneCurrent
    /\ currentFixture = NoneCurrent
    /\ sink = [phase |-> "between", fixture |-> 0, testCase |-> 0]

EmitBeforeFixtureStart(f) ==
    /\ firstTestCaseBegun' = FALSE
    /\ currentFixture' = f
    /\ sink' = [phase |-> "fixture", fixture |-> f, testCase |-> 0]
    /\ UNCHANGED currentTestCase

EmitBeforeTestCaseStart(c) ==
    /\ firstTestCaseBegun' = TRUE
    /\ currentTestCase' = c
    /\ sink' = [sink EXCEPT !.phase = "testCase", !.testCase = c]
    /\ UNCHANGED currentFixture

\* Faulty variants: the test case stays current, or the sink is not told.
TestCaseStaysCurrent ==
    /\ sink' = [sink EXCEPT !.phase = "fixture"]
    /\ UNCHANGED <<firstTestCaseBegun, currentTestCase, currentFixture>>

EventLost ==
    /\ currentTestCase' = NoneCurrent
    /\ UNCHANGED <<firstTestCaseBegun, currentFixture, sink>>

EmitAfterTestCaseFinish ==
    /\ currentTestCase' = NoneCurrent
    /\ sink' = [sink EXCEPT !.phase = "fixture"]
    /\ UNCHANGED <<firstTestCaseBegun, currentFixture>>

EmitAfterFixtureFinish ==
    /\ currentFixture' = NoneCurrent
    /\ sink' = [sink EXCEPT !.phase = "between"]
    /\ UNCHANGED <<firstTestCaseBegun, currentTestCase>>

\* The test case name an event is reported under.
EventName ==
    IF currentTestCase # NoneCurrent THEN <<"testCase", currentTestCase>>
    ELSE IF firstTestCaseBegun THEN <<"[Teardown]", NoneCurrent>>
    ELSE <<"[Setup]", NoneCurrent>>

=============================================================================
