----------------------------- MODULE KernelCalls -----------------------------
(***************************************************************************)
(* Running the fixtures of a kernel mode test module.  Each routine is one *)
(* call of the reflector (cfixkl/module.c, cfixkl/ioctl.c, cfixkr/main.c): *)
(* the routine and the threads it creates write events into the buffer of  *)
(* the response (cfixkr/rptstubs.c), which the client replays to its       *)
(* execution context when the call returns.  The value of CfixSetValue     *)
(* travels with each request and response, because the reflector keeps no  *)
(* state between calls.  Sizes are in units of a small event.              *)
(***************************************************************************)
EXTENDS KernelModule

CONSTANTS
    BufferLimit,   \* room for events in a response
    FullEvent,     \* size of an event with CFIXKRP_MAX_STACKFRAMES frames
    LongEvent,     \* size of an event with a long message
    MaxReports,    \* bound on the reports of one call
    Settings       \* dispositions, and whether a kernel debugger is there

ASSUME CallAssumption ==
    /\ BufferLimit \in Nat /\ FullEvent \in 1 .. BufferLimit /\ LongEvent \in Nat
    /\ MaxReports \in Nat
    /\ Settings \subseteq [assertion : {"break", "breakAlways", "abort", "continue"},
                            exception : {"break", "abort", "continue"},
                            debugger  : BOOLEAN]

VARIABLES
    setting,    \* the dispositions of this run
    phase,      \* which routine of the fixture is next, or runs
    at, tc,     \* the fixture and the test case
    tls,        \* the value behind the client's TLS slot, or NoSlot
    routine,    \* the routine that runs, or NoRoutine
    channel,    \* CFIXKRP_REPORT_CHANNEL
    thread,     \* the thread of the call and a child thread
    elevated,   \* the threads with an IRQL above PASSIVE_LEVEL
    ran, abort, \* RoutineRanToCompletion, AbortRun
    hr,         \* what the client made of the last call
    hrTest,     \* HrTestCase
    delivered,  \* the events passed to the execution context
    down,       \* the machine went down with an unhandled exception
    history     \* what the program does not know, see HistoryInit

callVars == <<setting, phase, at, tc, tls, routine, channel, thread, elevated,
              ran, abort, hr, hrTest, delivered, down, history>>
vars     == <<moduleVars, callVars>>

Main  == "main"
Child == "child"

NoSlot    == 2
NoRoutine == [none |-> TRUE]

Kinds    == {"assertion", "exception", "inconclusive", "log"}
Messages == {"short", "long", "oversized"}
Values   == {0, 1}

EmptyChannel(value) ==
    [value |-> value, used |-> 0, truncated |-> FALSE, events |-> <<>>]

\* History: the fate of every event of the call, how the thread of the call
\* left the routine, the last value written and by which test case, and whether
\* a test case of the fixture ended without its after routine.
HistoryInit ==
    [fates |-> <<>>, left |-> "stay", written |-> 0, writer |-> 0, skipped |-> FALSE]

CallInit ==
    /\ setting \in Settings
    /\ phase = "load"
    /\ at = 1 /\ tc = 1
    /\ tls = NoSlot
    /\ routine = NoRoutine
    /\ channel = EmptyChannel(0)
    /\ thread = [t \in {Main, Child} |-> "absent"]
    /\ elevated = {}
    /\ ran = FALSE /\ abort = FALSE
    /\ hr = "none" /\ hrTest = "ok"
    /\ delivered = <<>>
    /\ down = FALSE
    /\ history = HistoryInit

TypeOK ==
    /\ setting \in Settings
    /\ phase \in {"load", "setup", "before", "testcase", "after", "teardown", "end"}
    /\ at \in Nat /\ tc \in Nat
    /\ tls \in Values \cup {NoSlot}
    /\ channel.value \in Values /\ channel.used \in 0 .. BufferLimit
    /\ channel.truncated \in BOOLEAN /\ channel.events \in Seq(Kinds)
    /\ thread \in [{Main, Child} -> {"absent", "running", "ended"}]
    /\ elevated \subseteq {Main, Child}
    /\ ran \in BOOLEAN /\ abort \in BOOLEAN /\ down \in BOOLEAN
    /\ hr \in {"none", "ok", "failed", "aborted", "fatal"}
    /\ hrTest \in {"ok", "failed", "aborted", "fatal"}

-----------------------------------------------------------------------------
(***************************************************************************)
(* Reporting, on a thread of the filament.                                 *)
(***************************************************************************)

Running(t) == thread[t] = "running" /\ ~ down

MayReport(t) == Running(t) /\ Len(history.fates) < MaxReports

EventSize(m) == IF m = "long" THEN LongEvent ELSE 1

\* CfixkrsQueueEvent looks for room for a full stack trace, drops an event one
\* of whose strings is too long, and looks again once the size is known.
Fate(c, m) ==
    IF BufferLimit - c.used < FullEvent THEN "truncated"
    ELSE IF m = "oversized" THEN "dropped"
    ELSE IF BufferLimit - c.used < EventSize(m) THEN "truncated"
    ELSE "queued"

\* Faulty variant: the second check does not set the flag.
QueueUnnoticed(c, kind, m) ==
    CASE Fate(c, m) = "queued" ->
            [c EXCEPT !.used = @ + EventSize(m), !.events = Append(@, kind)]
      [] Fate(c, m) = "truncated" -> [c EXCEPT !.truncated = BufferLimit - c.used < FullEvent]
      [] OTHER -> c

Queue(c, kind, m) ==
    CASE Fate(c, m) = "queued" ->
            [c EXCEPT !.used = @ + EventSize(m), !.events = Append(@, kind)]
      [] Fate(c, m) = "truncated" -> [c EXCEPT !.truncated = TRUE]
      [] OTHER -> c

Entry(c, kind, m) == <<kind, Fate(c, m)>>

\* Queue an event, and log that a routine is left at elevated IRQL.
QueueEvent(t, kind, m, how) ==
    LET first == Queue(channel, kind, m)
    IN  /\ channel' = IF how # "stay" /\ t \in elevated
                      THEN Queue(first, "log", "short") ELSE first
        /\ history' = [history EXCEPT
             !.fates = Append(@, Entry(channel, kind, m)),
             !.left  = IF t = Main THEN how ELSE @]

\* Faulty variant: the filter of a child thread writes to the response.
AbortRunOfAny(t, aborts) == aborts

\* The child's filter is given a BOOLEAN that nobody reads.
AbortRunOf(t, aborts) == IF t = Main THEN aborts ELSE abort

\* The thread goes on, or leaves by an exception that CfixkrpExceptionFilter
\* accepts: the IRQL is forced back and the flags of the response are set.
Leave(t, how) ==
    /\ thread' = IF how = "stay" THEN thread ELSE [thread EXCEPT ![t] = "ended"]
    /\ elevated' = IF how = "stay" THEN elevated ELSE elevated \ {t}
    /\ ran' = IF how # "stay" /\ t = Main THEN FALSE ELSE ran
    /\ abort' = IF how = "stay" THEN abort ELSE AbortRunOf(t, how = "abortRun")

Stay == UNCHANGED <<thread, elevated, ran, abort>>

CallFrame == UNCHANGED <<moduleVars, setting, phase, at, tc, tls, routine, hr, hrTest,
                         delivered>>

\* CfixkrsReportLogStub
ReportLog(t, m) ==
    /\ MayReport(t)
    /\ QueueEvent(t, "log", m, "stay")
    /\ Stay /\ CallFrame /\ UNCHANGED down

\* What follows the report: continue, raise a status, or CfixBreak, which stops
\* in the debugger and goes on, or is an exception if there is none.
AfterAssertion ==
    CASE setting.assertion = "continue" -> "stay"
      [] setting.assertion = "abort" -> "abortRun"
      [] setting.assertion = "breakAlways" -> IF setting.debugger THEN "stay" ELSE "breakpoint"
      [] setting.assertion = "break" -> IF setting.debugger THEN "stay" ELSE "fail"

\* CfixkrsReportFailedAssertionStub, also reached from the format and equality
\* stubs.
ReportFailedAssertion(t, m) ==
    /\ MayReport(t) /\ AfterAssertion # "breakpoint"
    /\ QueueEvent(t, "assertion", m, AfterAssertion)
    /\ Leave(t, AfterAssertion)
    /\ CallFrame /\ UNCHANGED down

AfterException == IF setting.exception = "abort" THEN "abortRun" ELSE "fail"

\* CfixkrpReportUnhandledException for channel c and the fates of its events; a
\* disposition to break lets the search for a handler go on, and there is none.
Unhandled(t, c, fates) ==
    /\ channel' = Queue(c, "exception", "short")
    /\ history' = [history EXCEPT
         !.fates = Append(fates, Entry(c, "exception", "short")),
         !.left  = IF t = Main THEN AfterException ELSE @]
    /\ IF setting.exception = "break" THEN down' = TRUE /\ Stay
       ELSE Leave(t, AfterException) /\ UNCHANGED down
    /\ CallFrame

UnhandledException(t) ==
    /\ MayReport(t) /\ (t = Child => t \notin elevated)
    /\ Unhandled(t, channel, history.fates)

\* CfixBreak without a debugger: the breakpoint is an unhandled exception.
FailedAssertionBreaks(t, m) ==
    /\ MayReport(t) /\ AfterAssertion = "breakpoint"
    /\ (t = Child => t \notin elevated)
    /\ Unhandled(t, Queue(channel, "assertion", m),
                 Append(history.fates, Entry(channel, "assertion", m)))

\* CfixkrsReportInconclusivenessStub
ReportInconclusiveness(t, m) ==
    /\ MayReport(t)
    /\ QueueEvent(t, "inconclusive", m, "fail")
    /\ Leave(t, "fail")
    /\ CallFrame /\ UNCHANGED down

\* CfixkrsFailStub reports nothing.
Fail(t) ==
    /\ Running(t)
    /\ channel' = IF t \in elevated THEN Queue(channel, "log", "short") ELSE channel
    /\ history' = [history EXCEPT !.left = IF t = Main THEN "fail" ELSE @]
    /\ Leave(t, "fail")
    /\ CallFrame /\ UNCHANGED down

\* CfixkrsSetValueStub: one value per call, shared with its threads.
SetValue(t, v) ==
    /\ Running(t)
    /\ channel' = [channel EXCEPT !.value = v]
    /\ history' = [history EXCEPT !.written = v, !.writer = tc]
    /\ Stay /\ CallFrame /\ UNCHANGED down

\* KeRaiseIrql in a test routine (external).
RaiseIrql(t) ==
    /\ Running(t) /\ t \notin elevated
    /\ elevated' = elevated \cup {t}
    /\ UNCHANGED <<thread, ran, abort, channel, history, down>> /\ CallFrame

CreateSystemThread ==
    /\ Running(Main) /\ Main \notin elevated /\ thread[Child] = "absent"
    /\ thread' = [thread EXCEPT ![Child] = "running"]
    /\ UNCHANGED <<elevated, ran, abort, channel, history, down>> /\ CallFrame

\* The routine returns; CfixkrpCallRoutineDriverConnection restores the IRQL.
ReturnFromRoutine(t) ==
    /\ Running(t) /\ (t = Child => t \notin elevated)
    /\ thread' = [thread EXCEPT ![t] = "ended"]
    /\ elevated' = elevated \ {t}
    /\ ran' = IF t = Main THEN TRUE ELSE ran
    /\ abort' = IF t = Main THEN FALSE ELSE abort
    /\ history' = [history EXCEPT !.left = IF t = Main THEN "returned" ELSE @]
    /\ UNCHANGED <<channel, down>> /\ CallFrame

-----------------------------------------------------------------------------
(***************************************************************************)
(* The client: one call per routine.                                       *)
(***************************************************************************)

Idle == stage = "run" /\ phase # "load" /\ routine = NoRoutine /\ phase # "end"

\* The reflector looks the routine up by its keys and calls it with a channel
\* that holds the value of the request.
CallRoutine(key, value) ==
    /\ routine' = GetRoutine(Adapter, module[at].key, key)
    /\ channel' = EmptyChannel(value)
    /\ thread' = [t \in {Main, Child} |-> IF t = Main THEN "running" ELSE "absent"]
    /\ elevated' = {}
    /\ ran' = FALSE /\ abort' = FALSE
    /\ delivered' = <<>>
    /\ hr' = "none"
    /\ history' = [history EXCEPT !.fates = <<>>, !.left = "stay"]

\* The fixtures run one after the other.
NextFixture ==
    /\ at' = at + 1 /\ tc' = 1
    /\ phase' = IF at < Len(module) THEN "setup" ELSE "end"

NextTestCase ==
    /\ tc' = tc + 1
    /\ phase' = IF tc < Len(module[at].testCases) THEN "before" ELSE "teardown"
    /\ UNCHANGED at

Goto(p) == phase' = p /\ UNCHANGED <<at, tc>>

\* The result of the test case so far; that of the test routine prevails.
HrTestCase(h) ==
    CASE phase = "setup" -> "ok"
      [] phase \in {"before", "testcase"} -> h
      [] phase = "after" -> IF hrTest # "ok" THEN hrTest ELSE h
      [] phase = "teardown" -> hrTest

\* A test case is over with result h (CfixsRunFixtureExecutionAction): a failure
\* proceeds, an abortion ends the test cases, anything else ends the run.
TestCaseEnds(h) ==
    CASE h \in {"ok", "failed"} -> NextTestCase
      [] h = "aborted" -> Goto("teardown")
      [] h = "fatal" -> Goto("end")

Proceed(h) ==
    CASE phase = "setup" ->
            (CASE h = "ok" -> phase' = (IF module[at].testCases = <<>> THEN "teardown" ELSE "before")
                              /\ UNCHANGED <<at, tc>>
               [] h = "fatal" -> Goto("end")
               [] OTHER -> NextFixture)
      [] phase = "before" -> IF h = "ok" THEN Goto("testcase") ELSE TestCaseEnds(h)
      [] phase = "testcase" -> Goto("after")
      [] phase = "after" -> TestCaseEnds(HrTestCase(h))
      [] phase = "teardown" -> IF hrTest = "aborted" THEN Goto("end") ELSE NextFixture

\* The key of the routine the phase calls, if the fixture has one.
Tag ==
    CASE phase = "setup" -> module[at].setup
      [] phase = "before" -> module[at].before
      [] phase = "after" -> module[at].after
      [] phase = "teardown" -> module[at].teardown
      [] phase = "testcase" -> [present |-> TRUE, key |-> module[at].testCases[tc].key]

\* CfixklsRunSetupRoutine starts with a fresh value, CfixklsRunTeardownRoutine
\* frees it and passes a copy.
SlotAtStart(p) == CASE p = "setup" -> 0 [] p = "teardown" -> NoSlot [] OTHER -> tls

ValueAtStart == IF phase = "setup" THEN 0 ELSE tls

\* Faulty variant: the value is reset after the before routine.
SlotAfterReset(p, value) ==
    CASE p \in {"setup", "before", "after"} -> 0 [] p = "teardown" -> NoSlot [] OTHER -> value

\* The value is reset after the setup routine and after the after routine.
SlotAfter(p, value) ==
    CASE p \in {"setup", "after"} -> 0 [] p = "teardown" -> NoSlot [] OTHER -> value

\* Values written before the first test case or by a finished one are gone.
Forget(h, p) ==
    CASE p \in {"setup", "after"} -> [h EXCEPT !.written = 0, !.writer = 0]
      [] OTHER -> h

StartFixtures ==
    /\ stage = "run" /\ phase = "load"
    /\ phase' = IF module = <<>> THEN "end" ELSE "setup"
    /\ UNCHANGED <<moduleVars, setting, at, tc, tls, routine, channel, thread, elevated,
                   ran, abort, hr, hrTest, delivered, down, history>>

\* The setup routine asserts that the slot is free, in checked builds only: the
\* value of a fixture whose setup routine failed is still in it, and is leaked.
RunRoutine ==
    /\ Idle /\ Tag.present
    /\ CallRoutine(Tag.key, ValueAtStart)
    /\ tls' = SlotAtStart(phase)
    /\ UNCHANGED <<moduleVars, setting, phase, at, tc, hrTest, down>>

SkipsAfter(h) ==
    IF phase = "setup" THEN FALSE
    ELSE history.skipped \/ (phase = "before" /\ h # "ok") \/ (phase = "after" /\ ~ Tag.present)

ClientFrame == UNCHANGED <<moduleVars, setting, thread, elevated, channel, ran, abort, down>>

\* A fixture need not have the routine.
RunAbsentRoutine ==
    /\ Idle /\ ~ Tag.present
    /\ tls' = SlotAtStart(phase)
    /\ hr' = "ok"
    /\ hrTest' = HrTestCase("ok")
    /\ history' = [history EXCEPT !.skipped = SkipsAfter("ok"),
                                  !.fates = <<>>, !.left = "stay",
                                  !.written = IF phase = "setup" THEN 0 ELSE @,
                                  !.writer  = IF phase = "setup" THEN 0 ELSE @]
    /\ Proceed("ok")
    /\ ClientFrame /\ UNCHANGED <<routine, delivered>>

\* No memory for the value of the fixture.
SlotFails ==
    /\ Faults /\ Idle /\ phase = "setup"
    /\ hr' = "fatal"
    /\ Goto("end")
    /\ history' = [history EXCEPT !.fates = <<>>, !.left = "stay"]
    /\ ClientFrame /\ UNCHANGED <<tls, routine, hrTest, delivered>>

\* No memory for the response, or the request fails: the routine does not run.
CallFails ==
    /\ Faults /\ Idle /\ Tag.present
    /\ hr' = "fatal"
    /\ hrTest' = HrTestCase("fatal")
    /\ tls' = SlotAfter(phase, tls)
    /\ history' = [Forget(history, phase) EXCEPT !.skipped = SkipsAfter("fatal"),
                                                 !.fates = <<>>, !.left = "stay"]
    /\ Proceed("fatal")
    /\ ClientFrame /\ UNCHANGED <<routine, delivered>>

Result ==
    CASE abort -> "aborted"
      [] ~ abort /\ ~ ran -> "failed"
      [] OTHER -> "ok"

\* CfixklpCallRoutine passes the events on until one cannot be translated, and
\* adds a note if the reflector truncated them.
Deliver(n) ==
    SubSeq(channel.events, 1, n) \o (IF channel.truncated THEN <<"note">> ELSE <<>>)

\* The routine was left and its threads have been joined: the response is
\* complete, and the client evaluates it.
CallReturns(n) ==
    /\ routine # NoRoutine /\ ~ down
    /\ thread[Main] = "ended" /\ thread[Child] # "running"
    /\ n = Len(channel.events) \/ Faults
    /\ delivered' = Deliver(n)
    /\ tls' = SlotAfter(phase, channel.value)
    /\ hr' = Result
    /\ hrTest' = HrTestCase(Result)
    /\ history' = [Forget(history, phase) EXCEPT !.skipped = SkipsAfter(Result)]
    /\ routine' = NoRoutine
    /\ Proceed(Result)
    /\ ClientFrame

Terminated ==
    /\ stage \in {"failed", "exhausted"} \/ phase = "end" \/ down
    /\ UNCHANGED vars

Step(t) ==
    \/ \E m \in Messages : ReportLog(t, m) \/ ReportFailedAssertion(t, m)
                           \/ FailedAssertionBreaks(t, m) \/ ReportInconclusiveness(t, m)
    \/ \E v \in Values : SetValue(t, v)
    \/ Fail(t) \/ UnhandledException(t) \/ RaiseIrql(t) \/ ReturnFromRoutine(t)

Client ==
    \/ StartFixtures \/ RunRoutine \/ RunAbsentRoutine \/ SlotFails \/ CallFails
    \/ \E n \in 0 .. Len(channel.events) : CallReturns(n)

Init == ModuleInit /\ CallInit

Next ==
    \/ ModuleNext /\ UNCHANGED callVars
    \/ \E t \in {Main, Child} : Step(t)
    \/ CreateSystemThread
    \/ Client
    \/ Terminated

Spec == Init /\ [][Next]_vars

-----------------------------------------------------------------------------
(***************************************************************************)
(* Properties.                                                             *)
(***************************************************************************)

\* The fixtures a runner sees are the ones the image defines: every name is read
\* back from the strings area as it was written, every key leads back to the
\* routine it was made for, although the sizes, offsets and keys are computed in
\* three places (drvtestadp.c, ioctl.c, module.c).  A module that cannot be
\* represented does not load, and nothing else is refused, unless more drivers
\* are connected than there were when the list of them was made room for; where
\* the client runs out of memory nothing is promised (stage "exhausted").
ModuleFaithful ==
    /\ stage = "run" =>
          /\ base = Driver /\ ~ Refused /\ response.size = size
          /\ Len(module) = Len(Candidates)
          /\ \A i \in DOMAIN module :
                /\ module[i].name = Defined(i).name[1]
                /\ Len(module[i].testCases) = Len(DefinedCases(i))
                /\ \A j \in DOMAIN module[i].testCases :
                      /\ module[i].testCases[j].name = DefinedCases(i)[j].name
                      /\ GetRoutine(Adapter, module[i].key, module[i].testCases[j].key).entry
                            = DefinedCases(i)[j]
    /\ stage = "failed" => Refused \/ Cardinality(registered) > capacity

\* The keys of a request lead the reflector to the routine whose turn it is: the
\* right fixture, the right kind of routine, the right test case; and a fixture
\* has its setup, teardown, before and after routines called if it defines them.
RoutineOfPhase ==
    /\ routine # NoRoutine =>
          /\ routine # Failed
          /\ routine.fixture = Defined(at).name[1]
          /\ routine.entry.type = phase
          /\ phase = "testcase" => routine.entry = DefinedCases(at)[tc]
    /\ Idle => (Tag.present <=> \E j \in DOMAIN Defined(at).definition :
                                    Defined(at).definition[j].type = phase)

Finished == routine = NoRoutine /\ hr # "none"

FailingKinds == {"assertion", "exception", "inconclusive"}

\* Not all events of the response were passed on.
Cut == Cardinality({k \in DOMAIN delivered : delivered[k] # "note"}) < Len(channel.events)

\* A failure that a routine or one of its threads reported does not vanish: the
\* call failed, or the execution context is told of an event of that kind or of
\* dropped events, unless the event was too large to be represented or the client
\* ran out of memory while it translated the events.
FailureVisible ==
    Finished /\ hr = "ok" =>
        \A i \in DOMAIN history.fates :
            LET kind == history.fates[i][1] fate == history.fates[i][2]
            IN  kind \in FailingKinds =>
                    \/ \E k \in DOMAIN delivered : delivered[k] \in {kind, "note"}
                    \/ fate = "dropped"
                    \/ Cut

\* The flags of the response describe how the thread of the call left the
\* routine, whatever its child threads did before or after that: it ran to
\* completion exactly if it returned, and the run is aborted exactly if a
\* disposition of this thread said so.  What the dispositions of child threads
\* say goes to a dummy (CfixkrsThreadStart): see AbortRunSet.
ResponseConsistent ==
    Finished /\ history.left # "stay" =>
        /\ ran => ~ abort
        /\ (hr = "ok") <=> (history.left = "returned")
        /\ (hr = "aborted") <=> (history.left = "abortRun")

\* "If a failed assertion has occured and the disposition has indicated the
\* testrun to be aborted, this flag is set to TRUE" (AbortRun in cfixkrio.h),
\* whichever thread of the call the assertion failed in.
AbortRunSet ==
    (/\ Finished /\ setting.assertion = "abort"
     /\ \E i \in DOMAIN history.fates : history.fates[i][1] = "assertion")
        => abort

\* The value of CfixSetValue survives from call to call although the reflector
\* keeps none: the next routine finds what the last one, or a thread of it that
\* outlived it, has written.  As long as every test case ended with an after
\* routine, it never finds a value of another test case.
StorageCarried ==
    Finished /\ phase \in {"before", "testcase", "after", "teardown"} =>
        /\ tls = history.written
        /\ tls # 0 /\ ~ history.skipped => history.writer = tc
=============================================================================
