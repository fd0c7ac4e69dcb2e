---------------------------- MODULE ExecContext -----------------------------
(***************************************************************************)
(* The execution context of the test runner (cfix/cfixrun/execctx.c) as    *)
(* the main thread sees it: the EXEC_THREAD_STATE it keeps in a TLS slot   *)
(* while a fixture runs, the statistics, and the disposition of events.    *)
(* The operators are the callbacks.                                        *)
(***************************************************************************)
EXTENDS Integers

CONSTANTS
    ExecOptions,             \* the execution options a command line may give
    StateAllocationMayFail   \* may malloc fail in BeforeFixtureStart?

ASSUME ExecContextAssumption ==
    /\ ExecOptions \subseteq {"f", "u", "b", "fsf", "fss", "fsr"}
    /\ StateAllocationMayFail \in BOOLEAN

VARIABLES
    options,      \* the execution options of the command line
    threadState,  \* the EXEC_THREAD_STATE of the main thread
    statistics    \* CFIXRUN_STATISTICS

NoState == [referenceCount |-> 0, failureCount |-> 0, inconclusiveCount |-> 0]

HaveState == threadState.referenceCount > 0

execContextVars == <<options, threadState, statistics>>

ExecContextInit ==
    /\ options \in SUBSET ExecOptions
    /\ threadState = NoState
    /\ statistics = [fixtures |-> 0, testCases |-> 0, succeeded |-> 0,
                     failed |-> 0, inconclusive |-> 0]

\* CfixrunsExecCtxQueryDefaultDisposition
Disposition(event) ==
    CASE event = "failedAssertion" ->
            IF "f" \in options THEN "abort"
            ELSE IF "b" \in options THEN "breakAlways"
            ELSE "break"
      [] event = "uncaughtException" ->
            IF "u" \in options THEN "break"
            ELSE IF "f" \in options THEN "abort"
            ELSE "continue"
      [] OTHER -> "continue"

\* CfixrunsExecCtxReportEvent leaves the counters of the state alone.
ReportEvent(event) == IF HaveState THEN Disposition(event) ELSE "abort"

\* CfixrunsGetCurrentExecutionState( TRUE )
ContextBeforeFixtureStart ==
    /\ threadState' = IF HaveState THEN threadState
                      ELSE [NoState EXCEPT !.referenceCount = 1]
    /\ UNCHANGED <<options, statistics>>

ContextBeforeFixtureStartFails ==
    /\ StateAllocationMayFail /\ ~ HaveState
    /\ UNCHANGED execContextVars

ContextAfterTestCaseFinish ==
    LET outcome == IF threadState.failureCount > 0 THEN "failed"
                   ELSE IF threadState.inconclusiveCount > 0 THEN "inconclusive"
                   ELSE "succeeded"
    IN  /\ IF HaveState
           THEN /\ statistics' = [statistics EXCEPT ![outcome] = @ + 1,
                                                    !.testCases = @ + 1]
                /\ threadState' = [threadState EXCEPT !.failureCount = 0,
                                                      !.inconclusiveCount = 0]
           ELSE UNCHANGED <<statistics, threadState>>
        /\ UNCHANGED options

\* Faulty variant: the reference to the state is not released.
StateLeaked ==
    /\ statistics' = [statistics EXCEPT !.fixtures = @ + 1]
    /\ UNCHANGED <<options, threadState>>

ContextAfterFixtureFinish ==
    /\ IF HaveState
       THEN /\ statistics' = [statistics EXCEPT !.fixtures = @ + 1]
            /\ threadState' = IF threadState.referenceCount = 1 THEN NoState
                              ELSE [threadState EXCEPT !.referenceCount = @ - 1]
       ELSE UNCHANGED <<statistics, threadState>>
    /\ UNCHANGED options

\* The exit code CfixrunsMainWorker derives from the statistics.
ExitCode ==
    IF statistics.testCases = 0 THEN "NONE_EXECUTED"
    ELSE IF statistics.failed = 0 THEN "ALL_SUCCEEDED"
    ELSE "SOME_FAILED"

=============================================================================
