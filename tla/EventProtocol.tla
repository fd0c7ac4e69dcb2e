---------------------------- MODULE EventProtocol ---------------------------
(***************************************************************************)
(* What an event sink may rely on: fixtures are announced in order, one    *)
(* after the other; within a fixture, test cases are announced in the      *)
(* order of the fixture's map; what is announced is finished before the    *)
(* next of its kind is announced.                                          *)
(***************************************************************************)
EXTENDS Integers

CONSTANTS FixtureCount, TestCaseCount

VARIABLE sink

Init == sink = [phase |-> "between", fixture |-> 0, testCase |-> 0]

BeginFixture ==
    /\ sink.phase = "between"
    /\ sink.fixture < FixtureCount
    /\ sink' = [phase |-> "fixture", fixture |-> sink.fixture + 1, testCase |-> 0]

BeginTestCase ==
    /\ sink.phase = "fixture"
    /\ \E c \in sink.testCase + 1 .. TestCaseCount[sink.fixture] :
          sink' = [sink EXCEPT !.phase = "testCase", !.testCase = c]

EndTestCase ==
    /\ sink.phase = "testCase"
    /\ sink' = [sink EXCEPT !.phase = "fixture"]

EndFixture ==
    /\ sink.phase = "fixture"
    /\ sink' = [sink EXCEPT !.phase = "between"]

Next == BeginFixture \/ BeginTestCase \/ EndTestCase \/ EndFixture

\* What was announced is finished.
Spec == Init /\ [][Next]_sink /\ WF_sink(EndTestCase) /\ WF_sink(EndFixture)

=============================================================================
