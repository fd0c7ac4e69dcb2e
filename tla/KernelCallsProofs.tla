-------------------------- MODULE KernelCallsProofs --------------------------
(***************************************************************************)
(* Proofs about the modules and calls of KernelCalls, for any images, any  *)
(* room for events and any dispositions, with and without faults of the    *)
(* client: first what a call reports, then how the module is loaded and    *)
(* what the keys of a call lead to.                                        *)
(***************************************************************************)
EXTENDS KernelCalls, FiniteSetTheorems, SequenceTheorems, WellFoundedInduction, TLAPS

-----------------------------------------------------------------------------
(***************************************************************************)
(* The invariants.                                                         *)
(***************************************************************************)

Calls   == {"setup", "before", "testcase", "after", "teardown"}
Results == {"ok", "failed", "aborted", "fatal"}
Fates   == {"queued", "truncated", "dropped"}

Channel == [value : Values, used : Nat, truncated : BOOLEAN, events : Seq(Kinds)]

History == [fates : Seq(Kinds \X Fates), left : {"stay", "fail", "abortRun", "returned"},
            written : Values, writer : Nat, skipped : BOOLEAN]

RecordInv ==
    /\ channel \in Channel
    /\ history \in History

\* Threads run while a call is under way, and it has no result yet.
CallInv ==
    /\ \A t \in {Main, Child} : thread[t] = "running" => routine # NoRoutine
    /\ routine # NoRoutine => hr = "none" /\ phase \in Calls

\* The flags of the response and the way the thread of the call left.
Consistent ==
    \/ history.left = "returned" /\ ran /\ ~ abort
    \/ history.left = "fail" /\ ~ ran /\ ~ abort
    \/ history.left = "abortRun" /\ ~ ran /\ abort

LeftInv ==
    /\ routine # NoRoutine /\ thread[Main] = "ended" => Consistent
    /\ routine = NoRoutine /\ hr # "none" /\ history.left # "stay" => Consistent /\ hr = Result

\* The value is that of the channel during a call and that of the slot between calls.
Carried(value) == value = history.written /\ (value # 0 /\ ~ history.skipped => history.writer = tc)

StorageInv ==
    /\ routine # NoRoutine /\ phase # "setup" => Carried(channel.value)
    /\ routine = NoRoutine /\ phase \in Calls \ {"setup"} => Carried(tls)

\* An event that is not lost is in the buffer, or the buffer says that some are.
Recorded(c, entry) ==
    /\ entry[2] = "queued" => \E k \in DOMAIN c.events : c.events[k] = entry[1]
    /\ entry[2] = "truncated" => c.truncated

FateInv == \A i \in DOMAIN history.fates : Recorded(channel, history.fates[i])

VisibleInv ==
    routine = NoRoutine =>
        \A i \in DOMAIN history.fates :
            \/ \E k \in DOMAIN delivered : delivered[k] \in {history.fates[i][1], "note"}
            \/ history.fates[i][2] = "dropped"
            \/ Cut

ResponseInv == TypeOK /\ RecordInv /\ CallInv /\ LeftInv /\ StorageInv /\ FateInv /\ VisibleInv

-----------------------------------------------------------------------------
(***************************************************************************)
(* Queueing events.                                                        *)
(***************************************************************************)

\* CfixkrsQueueEvent keeps within the buffer, leaves the value and what is queued
\* alone, and queues the event, drops it, or sets the flag.
LEMMA QueueFact ==
  ASSUME NEW c \in Channel, c.used <= BufferLimit, NEW kind \in Kinds, NEW m \in Messages
  PROVE  /\ Queue(c, kind, m) \in Channel /\ Queue(c, kind, m).used <= BufferLimit
         /\ Queue(c, kind, m).value = c.value
         /\ Entry(c, kind, m) \in Kinds \X Fates /\ Recorded(Queue(c, kind, m), Entry(c, kind, m))
         /\ \A entry : Recorded(c, entry) => Recorded(Queue(c, kind, m), entry)
<1>1. EventSize(m) \in Nat /\ BufferLimit \in Nat /\ FullEvent \in Nat
  BY CallAssumption DEF EventSize
<1>2. PICK fate : fate = Fate(c, m)
  OBVIOUS
<1>3. PICK q : q = Queue(c, kind, m)
  OBVIOUS
<1>4. /\ c.used \in Nat /\ c.events \in Seq(Kinds) /\ c.value \in Values /\ c.truncated \in BOOLEAN
      /\ Entry(c, kind, m) = <<kind, fate>>
  BY <1>2 DEF Channel, Entry
<1>5. CASE fate = "queued"
  <2>1. BufferLimit - c.used >= EventSize(m)
    BY <1>1, <1>2, <1>4, <1>5 DEF Fate
  <2>2. q = [c EXCEPT !.used = @ + EventSize(m), !.events = Append(@, kind)]
    BY <1>2, <1>3, <1>5 DEF Queue
  <2>3. /\ q.used = c.used + EventSize(m) /\ q.events = Append(c.events, kind) /\ q.value = c.value
        /\ q.truncated = c.truncated /\ q = [value |-> q.value, used |-> q.used, truncated |-> q.truncated, events |-> q.events]
    BY <2>2 DEF Channel
  <2>4. q.used \in Nat /\ q.used <= BufferLimit
    BY <1>1, <1>4, <2>1, <2>3
  <2>5. /\ q.events \in Seq(Kinds) /\ Len(c.events) + 1 \in DOMAIN q.events /\ q.events[Len(c.events) + 1] = kind
        /\ \A k \in DOMAIN c.events : k \in DOMAIN q.events /\ q.events[k] = c.events[k]
    BY <1>4, <2>3
  <2>6. q \in Channel
    BY <1>4, <2>3, <2>4, <2>5 DEF Channel
  <2>7. Recorded(q, <<kind, fate>>)
    BY <1>5, <2>5 DEF Recorded
  <2>8. \A entry : Recorded(c, entry) => Recorded(q, entry)
    BY <2>3, <2>5 DEF Recorded
  <2> QED BY <1>3, <1>4, <1>5, <2>3, <2>4, <2>6, <2>7, <2>8 DEF Fates
<1>6. CASE fate = "truncated"
  <2>1. q = [c EXCEPT !.truncated = TRUE]
    BY <1>2, <1>3, <1>6 DEF Queue
  <2>2. q \in Channel /\ q.used = c.used /\ q.value = c.value /\ q.events = c.events /\ q.truncated = TRUE
    BY <2>1 DEF Channel
  <2>3. Recorded(q, <<kind, fate>>)
    BY <1>6, <2>2 DEF Recorded
  <2>4. \A entry : Recorded(c, entry) => Recorded(q, entry)
    BY <2>2 DEF Recorded
  <2> QED BY <1>3, <1>4, <1>6, <2>2, <2>3, <2>4 DEF Fates
<1>7. CASE fate = "dropped"
  <2>1. q = c
    BY <1>2, <1>3, <1>7 DEF Queue
  <2>2. Recorded(q, <<kind, fate>>)
    BY <1>7 DEF Recorded
  <2> QED BY <1>3, <1>4, <1>7, <2>1, <2>2 DEF Fates
<1>8. fate \in {"queued", "truncated", "dropped"}
  BY <1>2 DEF Fate
<1> QED BY <1>5, <1>6, <1>7, <1>8

\* The fates after one more event.
LEMMA FatesFact ==
  ASSUME NEW fates \in Seq(Kinds \X Fates), NEW e \in Kinds \X Fates, NEW c, NEW d,
         \A i \in DOMAIN fates : Recorded(c, fates[i]),
         Recorded(d, e), \A entry : Recorded(c, entry) => Recorded(d, entry)
  PROVE  Append(fates, e) \in Seq(Kinds \X Fates) /\ \A i \in DOMAIN Append(fates, e) : Recorded(d, Append(fates, e)[i])
<1>1. PICK f : f = Append(fates, e)
  OBVIOUS
<1>2. /\ f \in Seq(Kinds \X Fates)
      /\ \A i \in DOMAIN f : (i \in DOMAIN fates /\ f[i] = fates[i]) \/ f[i] = e
  BY <1>1
<1> QED BY <1>1, <1>2

-----------------------------------------------------------------------------
(***************************************************************************)
(* Steps of the threads of a call, in one form.                            *)
(***************************************************************************)

ThreadStep(t) ==
    /\ thread[t] = "running" /\ ~ down /\ CallFrame
    /\ channel' \in Channel /\ channel'.used <= BufferLimit
    /\ history' \in History /\ history'.skipped = history.skipped
    /\ elevated' \subseteq {Main, Child} /\ down' \in BOOLEAN /\ ran' \in BOOLEAN /\ abort' \in BOOLEAN
    /\ \/ channel'.value = channel.value /\ history'.written = history.written /\ history'.writer = history.writer
       \/ channel'.value = history'.written /\ history'.writer = tc
    /\ FateInv'
    /\ \/ thread' = thread
       \/ thread' = [thread EXCEPT ![t] = "ended"]
    /\ t = Child => UNCHANGED <<ran, abort>> /\ history'.left = history.left
    /\ t = Main => thread' = thread \/ Consistent'

\* What is needed of the invariant for the steps of threads.
DataInv == TypeOK /\ RecordInv /\ FateInv

\* An event is reported, and the IRQL possibly.
LEMMA QueueEventFact ==
  ASSUME DataInv, NEW t \in {Main, Child}, NEW kind \in Kinds, NEW m \in Messages,
         NEW how \in {"stay", "fail", "abortRun"}, QueueEvent(t, kind, m, how)
  PROVE  /\ channel' \in Channel /\ channel'.used <= BufferLimit /\ channel'.value = channel.value
         /\ history' \in History /\ history'.skipped = history.skipped
         /\ history'.written = history.written /\ history'.writer = history.writer
         /\ history'.left = IF t = Main THEN how ELSE history.left
         /\ FateInv'
<1>1. PICK first : first = Queue(channel, kind, m)
  OBVIOUS
<1>2. channel \in Channel /\ channel.used <= BufferLimit /\ "log" \in Kinds /\ "short" \in Messages
  BY DEF DataInv, TypeOK, RecordInv, Kinds, Messages
<1>3. /\ first \in Channel /\ first.used <= BufferLimit /\ first.value = channel.value
      /\ Entry(channel, kind, m) \in Kinds \X Fates /\ Recorded(first, Entry(channel, kind, m))
      /\ \A entry : Recorded(channel, entry) => Recorded(first, entry)
  BY <1>1, <1>2, QueueFact
<1>4. channel' = first \/ channel' = Queue(first, "log", "short")
  BY <1>1 DEF QueueEvent
<1>5. /\ channel' \in Channel /\ channel'.used <= BufferLimit /\ channel'.value = channel.value
      /\ Recorded(channel', Entry(channel, kind, m)) /\ \A entry : Recorded(channel, entry) => Recorded(channel', entry)
  <2>1. /\ Queue(first, "log", "short") \in Channel /\ Queue(first, "log", "short").used <= BufferLimit
        /\ Queue(first, "log", "short").value = first.value
        /\ \A entry : Recorded(first, entry) => Recorded(Queue(first, "log", "short"), entry)
    BY <1>2, <1>3, QueueFact
  <2> QED BY <1>3, <1>4, <2>1
<1>6. history' = [history EXCEPT !.fates = Append(@, Entry(channel, kind, m)), !.left = IF t = Main THEN how ELSE @]
  BY DEF QueueEvent
<1>7. history \in History /\ history.fates \in Seq(Kinds \X Fates) /\ \A i \in DOMAIN history.fates : Recorded(channel, history.fates[i])
  BY DEF DataInv, RecordInv, History, FateInv
<1>8. /\ history'.fates = Append(history.fates, Entry(channel, kind, m))
      /\ history'.left = IF t = Main THEN how ELSE history.left
      /\ history'.skipped = history.skipped /\ history'.written = history.written /\ history'.writer = history.writer
      /\ history' = [fates |-> history'.fates, left |-> history'.left, written |-> history'.written,
                     writer |-> history'.writer, skipped |-> history'.skipped]
  BY <1>6, <1>7 DEF History
<1>9. history'.fates \in Seq(Kinds \X Fates) /\ \A i \in DOMAIN history'.fates : Recorded(channel', history'.fates[i])
  BY <1>3, <1>5, <1>7, <1>8, FatesFact
<1>10. history' \in History
  BY <1>7, <1>8, <1>9 DEF History
<1> QED BY <1>5, <1>8, <1>9, <1>10 DEF FateInv

\* CfixkrpExceptionFilter: the thread of the call sets the flags, others do not.
LEMMA LeaveFact ==
  ASSUME TypeOK, NEW t \in {Main, Child}, NEW how \in {"stay", "fail", "abortRun"}, Leave(t, how)
  PROVE  /\ elevated' \subseteq {Main, Child} /\ ran' \in BOOLEAN /\ abort' \in BOOLEAN
         /\ how = "stay" => UNCHANGED <<thread, ran, abort>>
         /\ how # "stay" => thread' = [thread EXCEPT ![t] = "ended"]
         /\ t = Child => UNCHANGED <<ran, abort>>
         /\ t = Main /\ how # "stay" => ~ ran' /\ (abort' <=> how = "abortRun")
BY DEF Leave, AbortRunOf, TypeOK, Main, Child

\* A report after which the thread goes on or leaves as the disposition says.
LEMMA ReportFact ==
  ASSUME DataInv, NEW t \in {Main, Child}, NEW kind \in Kinds, NEW m \in Messages,
         NEW how \in {"stay", "fail", "abortRun"}, Running(t), CallFrame, down' = down,
         QueueEvent(t, kind, m, how), Leave(t, how)
  PROVE  ThreadStep(t)
<1>1. /\ elevated' \subseteq {Main, Child} /\ ran' \in BOOLEAN /\ abort' \in BOOLEAN /\ down' \in BOOLEAN
      /\ how = "stay" => UNCHANGED <<thread, ran, abort>>
      /\ how # "stay" => thread' = [thread EXCEPT ![t] = "ended"]
      /\ t = Child => UNCHANGED <<ran, abort>>
      /\ t = Main /\ how # "stay" => ~ ran' /\ (abort' <=> how = "abortRun")
  BY LeaveFact DEF DataInv, TypeOK
<1>2. /\ channel' \in Channel /\ channel'.used <= BufferLimit /\ channel'.value = channel.value
      /\ history' \in History /\ history'.skipped = history.skipped
      /\ history'.written = history.written /\ history'.writer = history.writer
      /\ history'.left = IF t = Main THEN how ELSE history.left
      /\ FateInv'
  BY QueueEventFact
<1>3. Main # Child
  BY DEF Main, Child
<1>4. t = Main => thread' = thread \/ Consistent'
  <2>1. CASE t = Main /\ how # "stay"
    BY <1>1, <1>2, <2>1 DEF Consistent
  <2>2. CASE how = "stay"
    BY <1>1, <2>2
  <2> QED BY <2>1, <2>2
<1>5. thread[t] = "running" /\ ~ down
  BY DEF Running
<1>6. thread' = thread \/ thread' = [thread EXCEPT ![t] = "ended"]
  BY <1>1
<1> QED BY <1>1, <1>2, <1>3, <1>4, <1>5, <1>6 DEF ThreadStep

\* CfixkrpReportUnhandledException, perhaps after a breakpoint: the thread leaves,
\* or the machine goes down.
LEMMA UnhandledFact ==
  ASSUME DataInv, NEW t \in {Main, Child}, Running(t),
         NEW c \in Channel, c.used <= BufferLimit, c.value = channel.value,
         NEW fates \in Seq(Kinds \X Fates), \A i \in DOMAIN fates : Recorded(c, fates[i]),
         Unhandled(t, c, fates)
  PROVE  ThreadStep(t)
<1>1. "exception" \in Kinds /\ "short" \in Messages /\ AfterException \in {"stay", "fail", "abortRun"} /\ AfterException # "stay"
  BY DEF Kinds, Messages, AfterException
<1>2. /\ channel' \in Channel /\ channel'.used <= BufferLimit /\ channel'.value = channel.value
      /\ Entry(c, "exception", "short") \in Kinds \X Fates /\ Recorded(channel', Entry(c, "exception", "short"))
      /\ \A entry : Recorded(c, entry) => Recorded(channel', entry)
  BY <1>1, QueueFact DEF Unhandled
<1>3. history \in History
  BY DEF DataInv, RecordInv
<1>4. history' = [history EXCEPT !.fates = Append(fates, Entry(c, "exception", "short")),
                                 !.left  = IF t = Main THEN AfterException ELSE @]
  BY DEF Unhandled
<1>5. /\ history'.fates = Append(fates, Entry(c, "exception", "short"))
      /\ history'.left = IF t = Main THEN AfterException ELSE history.left
      /\ history'.skipped = history.skipped /\ history'.written = history.written /\ history'.writer = history.writer
      /\ history' = [fates |-> history'.fates, left |-> history'.left, written |-> history'.written,
                     writer |-> history'.writer, skipped |-> history'.skipped]
  BY <1>3, <1>4 DEF History
<1>6. history'.fates \in Seq(Kinds \X Fates) /\ \A i \in DOMAIN history'.fates : Recorded(channel', history'.fates[i])
  BY <1>2, <1>5, FatesFact
<1>7. history' \in History
  BY <1>1, <1>3, <1>5, <1>6 DEF History
<1>8. FateInv'
  BY <1>6 DEF FateInv
<1>9. Main # Child /\ thread[t] = "running" /\ ~ down /\ CallFrame
  BY DEF Main, Child, Running, Unhandled
<1>10. CASE setting.exception = "break"
  <2>1. down' = TRUE /\ UNCHANGED <<thread, elevated, ran, abort>>
    BY <1>10 DEF Unhandled, Stay
  <2>2. elevated' \subseteq {Main, Child} /\ down' \in BOOLEAN /\ ran' \in BOOLEAN /\ abort' \in BOOLEAN
    BY <2>1 DEF DataInv, TypeOK
  <2> QED BY <1>2, <1>5, <1>7, <1>8, <1>9, <2>1, <2>2 DEF ThreadStep
<1>11. CASE setting.exception # "break"
  <2>1. Leave(t, AfterException) /\ down' = down
    BY <1>11 DEF Unhandled
  <2>2. /\ elevated' \subseteq {Main, Child} /\ ran' \in BOOLEAN /\ abort' \in BOOLEAN /\ down' \in BOOLEAN
        /\ thread' = [thread EXCEPT ![t] = "ended"]
        /\ t = Child => UNCHANGED <<ran, abort>>
        /\ t = Main => ~ ran' /\ (abort' <=> AfterException = "abortRun")
    BY <1>1, <2>1, LeaveFact DEF DataInv, TypeOK
  <2>3. t = Main => Consistent'
    BY <1>1, <1>5, <2>2 DEF Consistent
  <2> QED BY <1>2, <1>5, <1>7, <1>8, <1>9, <2>2, <2>3 DEF ThreadStep
<1> QED BY <1>10, <1>11

\* Every step of a thread has this form.
LEMMA ThreadFact ==
  ASSUME DataInv, NEW t \in {Main, Child}, Step(t)
  PROVE  ThreadStep(t)
<1>1. /\ channel \in Channel /\ channel.used <= BufferLimit /\ history \in History
      /\ elevated \subseteq {Main, Child} /\ ran \in BOOLEAN /\ abort \in BOOLEAN /\ down \in BOOLEAN
      /\ thread \in [{Main, Child} -> {"absent", "running", "ended"}] /\ tc \in Nat
  BY DEF DataInv, RecordInv, TypeOK
<1>2. "log" \in Kinds /\ "assertion" \in Kinds /\ "inconclusive" \in Kinds /\ "short" \in Messages /\ Main # Child
  BY DEF Kinds, Messages, Main, Child
<1>3. history.fates \in Seq(Kinds \X Fates) /\ \A i \in DOMAIN history.fates : Recorded(channel, history.fates[i])
  BY DEF DataInv, RecordInv, History, FateInv
<1>4. AfterAssertion \in {"stay", "abortRun", "breakpoint", "fail"}
  <2>1. setting.assertion \in {"break", "breakAlways", "abort", "continue"}
    BY CallAssumption DEF DataInv, TypeOK
  <2> QED BY <2>1 DEF AfterAssertion
<1>5. ASSUME NEW m \in Messages, ReportLog(t, m) PROVE ThreadStep(t)
  <2>1. Leave(t, "stay")
    BY <1>1, <1>5 DEF ReportLog, Stay, Leave
  <2>2. Running(t) /\ CallFrame /\ down' = down /\ QueueEvent(t, "log", m, "stay")
    BY <1>5 DEF ReportLog, MayReport
  <2> QED BY <1>2, <2>1, <2>2, ReportFact
<1>6. ASSUME NEW m \in Messages, ReportFailedAssertion(t, m) PROVE ThreadStep(t)
  <2>1. /\ Running(t) /\ CallFrame /\ down' = down /\ QueueEvent(t, "assertion", m, AfterAssertion)
        /\ Leave(t, AfterAssertion) /\ AfterAssertion # "breakpoint"
    BY <1>6 DEF ReportFailedAssertion, MayReport
  <2>2. AfterAssertion \in {"stay", "fail", "abortRun"}
    BY <1>4, <2>1
  <2> QED BY <1>2, <2>1, <2>2, ReportFact
<1>7. ASSUME NEW m \in Messages, ReportInconclusiveness(t, m) PROVE ThreadStep(t)
  <2>1. /\ Running(t) /\ CallFrame /\ down' = down /\ QueueEvent(t, "inconclusive", m, "fail") /\ Leave(t, "fail")
    BY <1>7 DEF ReportInconclusiveness, MayReport
  <2> QED BY <1>2, <2>1, ReportFact
<1>8. ASSUME NEW m \in Messages, FailedAssertionBreaks(t, m) PROVE ThreadStep(t)
  <2>1. PICK c : c = Queue(channel, "assertion", m)
    OBVIOUS
  <2>2. PICK fates : fates = Append(history.fates, Entry(channel, "assertion", m))
    OBVIOUS
  <2>3. Running(t) /\ Unhandled(t, c, fates)
    BY <1>8, <2>1, <2>2 DEF FailedAssertionBreaks, MayReport
  <2>4. /\ c \in Channel /\ c.used <= BufferLimit /\ c.value = channel.value
        /\ Entry(channel, "assertion", m) \in Kinds \X Fates /\ Recorded(c, Entry(channel, "assertion", m))
        /\ \A entry : Recorded(channel, entry) => Recorded(c, entry)
    BY <1>1, <1>2, <2>1, QueueFact
  <2>5. fates \in Seq(Kinds \X Fates) /\ \A i \in DOMAIN fates : Recorded(c, fates[i])
    BY <1>3, <2>2, <2>4, FatesFact
  <2> QED BY <2>3, <2>4, <2>5, UnhandledFact
<1>9. CASE UnhandledException(t)
  <2>1. Running(t) /\ Unhandled(t, channel, history.fates)
    BY <1>9 DEF UnhandledException, MayReport
  <2> QED BY <1>1, <1>3, <2>1, UnhandledFact
<1>10. CASE Fail(t)
  <2>1. /\ thread[t] = "running" /\ ~ down /\ CallFrame /\ down' = down /\ Leave(t, "fail")
        /\ history' = [history EXCEPT !.left = IF t = Main THEN "fail" ELSE @]
        /\ channel' = channel \/ channel' = Queue(channel, "log", "short")
    BY <1>10 DEF Fail, Running
  <2>2. /\ channel' \in Channel /\ channel'.used <= BufferLimit /\ channel'.value = channel.value
        /\ \A entry : Recorded(channel, entry) => Recorded(channel', entry)
    <3>1. PICK q : q = Queue(channel, "log", "short")
      OBVIOUS
    <3>2. /\ q \in Channel /\ q.used <= BufferLimit /\ q.value = channel.value
          /\ \A entry : Recorded(channel, entry) => Recorded(q, entry)
      BY <1>1, <1>2, <3>1, QueueFact
    <3>3. channel' = channel \/ channel' = q
      BY <2>1, <3>1
    <3> QED BY <1>1, <3>2, <3>3
  <2>3. /\ history' \in History /\ history'.fates = history.fates /\ history'.skipped = history.skipped
        /\ history'.written = history.written /\ history'.writer = history.writer
        /\ history'.left = IF t = Main THEN "fail" ELSE history.left
    BY <1>1, <2>1 DEF History
  <2>4. FateInv'
    BY <1>3, <2>2, <2>3 DEF FateInv
  <2>5. /\ elevated' \subseteq {Main, Child} /\ ran' \in BOOLEAN /\ abort' \in BOOLEAN
        /\ thread' = [thread EXCEPT ![t] = "ended"]
    BY <2>1, LeaveFact DEF DataInv
  <2>6. t = Main => Consistent'
    BY <2>1, <2>3, LeaveFact DEF DataInv, Consistent
  <2>7. t = Child => UNCHANGED <<ran, abort>> /\ history'.left = history.left
    BY <1>2, <2>1, <2>3, LeaveFact DEF DataInv
  <2> QED BY <1>1, <2>1, <2>2, <2>3, <2>4, <2>5, <2>6, <2>7 DEF ThreadStep
<1>11. ASSUME NEW v \in Values, SetValue(t, v) PROVE ThreadStep(t)
  <2>1. /\ thread[t] = "running" /\ ~ down /\ CallFrame /\ UNCHANGED <<thread, elevated, ran, abort, down>>
        /\ channel' = [channel EXCEPT !.value = v] /\ history' = [history EXCEPT !.written = v, !.writer = tc]
    BY <1>11 DEF SetValue, Running, Stay
  <2>2. /\ channel' \in Channel /\ channel'.used = channel.used /\ channel'.value = v
        /\ channel'.events = channel.events /\ channel'.truncated = channel.truncated
    BY <1>1, <2>1 DEF Channel
  <2>3. /\ history' \in History /\ history'.fates = history.fates /\ history'.skipped = history.skipped
        /\ history'.written = v /\ history'.writer = tc /\ history'.left = history.left
    BY <1>1, <2>1 DEF History
  <2>4. FateInv'
    BY <1>3, <2>2, <2>3 DEF FateInv, Recorded
  <2> QED BY <1>1, <2>1, <2>2, <2>3, <2>4 DEF ThreadStep
<1>12. CASE RaiseIrql(t)
  <2>1. /\ thread[t] = "running" /\ ~ down /\ CallFrame /\ UNCHANGED <<thread, ran, abort, channel, history, down>>
        /\ elevated' \subseteq {Main, Child}
    BY <1>1, <1>12 DEF RaiseIrql, Running
  <2>2. FateInv'
    BY <1>3, <2>1 DEF FateInv
  <2> QED BY <1>1, <2>1, <2>2 DEF ThreadStep
<1>13. CASE ReturnFromRoutine(t)
  <2>1. /\ thread[t] = "running" /\ ~ down /\ CallFrame /\ UNCHANGED <<channel, down>>
        /\ thread' = [thread EXCEPT ![t] = "ended"] /\ elevated' \subseteq {Main, Child}
        /\ ran' = (IF t = Main THEN TRUE ELSE ran) /\ abort' = (IF t = Main THEN FALSE ELSE abort)
        /\ history' = [history EXCEPT !.left = IF t = Main THEN "returned" ELSE @]
    BY <1>1, <1>13 DEF ReturnFromRoutine, Running
  <2>2. /\ history' \in History /\ history'.fates = history.fates /\ history'.skipped = history.skipped
        /\ history'.written = history.written /\ history'.writer = history.writer
        /\ history'.left = IF t = Main THEN "returned" ELSE history.left
    BY <1>1, <2>1 DEF History
  <2>3. FateInv'
    BY <1>3, <2>1, <2>2 DEF FateInv
  <2>4. t = Main => Consistent'
    BY <2>1, <2>2 DEF Consistent
  <2>5. t = Child => UNCHANGED <<ran, abort>> /\ history'.left = history.left
    BY <1>2, <2>1, <2>2
  <2>6. ran' \in BOOLEAN /\ abort' \in BOOLEAN
    BY <1>1, <2>1
  <2> QED BY <1>1, <2>1, <2>2, <2>3, <2>4, <2>5, <2>6 DEF ThreadStep
<1> QED BY <1>5, <1>6, <1>7, <1>8, <1>9, <1>10, <1>11, <1>12, <1>13 DEF Step

\* The steps of threads preserve the invariant; a call is under way.
LEMMA ThreadPreserves ==
  ASSUME ResponseInv, NEW t \in {Main, Child}, ThreadStep(t)
  PROVE  ResponseInv'
<1> USE DEF ResponseInv
<1>1. /\ thread[t] = "running" /\ UNCHANGED <<setting, phase, at, tc, tls, routine, hr, hrTest, delivered>>
      /\ routine # NoRoutine /\ routine' # NoRoutine /\ thread \in [{Main, Child} -> {"absent", "running", "ended"}]
      /\ Main # Child
  BY DEF ThreadStep, CallFrame, CallInv, TypeOK, Main, Child
<1>2. thread' \in [{Main, Child} -> {"absent", "running", "ended"}] /\ (t = Child => thread'[Main] = thread[Main])
  BY <1>1 DEF ThreadStep
<1>3. RecordInv' /\ FateInv'
  BY DEF ThreadStep, RecordInv
<1>4. TypeOK'
  <2>1. /\ channel'.value \in Values /\ channel'.used \in Nat /\ channel'.truncated \in BOOLEAN
        /\ channel'.events \in Seq(Kinds) /\ channel'.used <= BufferLimit
    BY <1>3 DEF ThreadStep, Channel
  <2>2. channel'.used \in 0 .. BufferLimit
    BY <2>1, CallAssumption
  <2> QED BY <1>1, <1>2, <2>1, <2>2 DEF ThreadStep, TypeOK
<1>5. CallInv' /\ VisibleInv'
  BY <1>1 DEF CallInv, VisibleInv
<1>6. LeftInv'
  <2>1. CASE t = Child
    BY <1>1, <1>2, <2>1 DEF LeftInv, ThreadStep, Consistent
  <2>2. CASE t = Main
    BY <1>1, <2>2 DEF LeftInv, ThreadStep
  <2> QED BY <2>1, <2>2
<1>7. StorageInv'
  BY <1>1 DEF StorageInv, ThreadStep, Carried
<1> QED BY <1>3, <1>4, <1>5, <1>6, <1>7

\* A thread is created by the thread of the call.
LEMMA CreatePreserves ==
  ASSUME ResponseInv, CreateSystemThread
  PROVE  ResponseInv'
<1> USE DEF ResponseInv
<1>1. /\ UNCHANGED <<setting, phase, at, tc, tls, routine, hr, hrTest, delivered, elevated, ran, abort, channel, history, down>>
      /\ routine # NoRoutine /\ routine' # NoRoutine
      /\ thread' \in [{Main, Child} -> {"absent", "running", "ended"}] /\ thread'[Main] = thread[Main]
  BY DEF CreateSystemThread, CallFrame, CallInv, TypeOK, Running, Main, Child
<1>2. TypeOK' /\ RecordInv' /\ FateInv' /\ CallInv' /\ VisibleInv'
  BY <1>1 DEF TypeOK, RecordInv, FateInv, CallInv, VisibleInv
<1>3. LeftInv' /\ StorageInv'
  BY <1>1 DEF LeftInv, Consistent, StorageInv, Carried
<1> QED BY <1>2, <1>3

-----------------------------------------------------------------------------
(***************************************************************************)
(* Steps of the client.                                                    *)
(***************************************************************************)

\* Which routine follows which.
LEMMA ProceedFact ==
  ASSUME phase \in Calls, hrTest \in Results, NEW h \in Results, Proceed(h), at \in Nat, tc \in Nat
  PROVE  /\ at' \in Nat /\ tc' \in Nat /\ phase' \in Calls \cup {"end"} /\ HrTestCase(h) \in Results
         /\ phase = "setup" => phase' \in {"before", "teardown", "setup", "end"}
         /\ phase = "before" /\ h = "ok" => phase' = "testcase" /\ tc' = tc
         /\ phase = "before" /\ h # "ok" => phase' \in {"before", "teardown", "end"}
         /\ phase = "testcase" => phase' = "after" /\ tc' = tc
         /\ phase = "after" => phase' \in {"before", "teardown", "end"}
         /\ phase = "teardown" => phase' \in {"setup", "end"}
<1>1. HrTestCase(h) \in Results
  BY DEF HrTestCase, Calls, Results
<1>2. CASE phase = "setup"
  <2>1. CASE h = "ok"
    BY <1>1, <1>2, <2>1 DEF Proceed, Calls
  <2>2. CASE h = "fatal"
    BY <1>1, <1>2, <2>2 DEF Proceed, Goto, Calls
  <2>3. CASE h \notin {"ok", "fatal"}
    BY <1>1, <1>2, <2>3 DEF Proceed, NextFixture, Calls
  <2> QED BY <2>1, <2>2, <2>3
<1>3. ASSUME NEW r \in Results, TestCaseEnds(r)
      PROVE  at' \in Nat /\ tc' \in Nat /\ phase' \in {"before", "teardown", "end"}
  <2>1. CASE r \in {"ok", "failed"}
    <3>1. NextTestCase
      BY <1>3, <2>1 DEF TestCaseEnds
    <3> QED BY <3>1 DEF NextTestCase
  <2>2. CASE r = "aborted"
    <3>1. Goto("teardown")
      BY <1>3, <2>2 DEF TestCaseEnds
    <3> QED BY <3>1 DEF Goto
  <2>3. CASE r = "fatal"
    <3>1. Goto("end")
      BY <1>3, <2>3 DEF TestCaseEnds
    <3> QED BY <3>1 DEF Goto
  <2> QED BY <2>1, <2>2, <2>3 DEF Results
<1>4. CASE phase = "before"
  <2>1. CASE h = "ok"
    BY <1>1, <1>4, <2>1 DEF Proceed, Goto, Calls
  <2>2. CASE h # "ok"
    <3>1. TestCaseEnds(h)
      BY <1>4, <2>2 DEF Proceed
    <3> QED BY <1>1, <1>3, <1>4, <2>2, <3>1 DEF Calls
  <2> QED BY <2>1, <2>2
<1>5. CASE phase = "testcase"
  BY <1>1, <1>5 DEF Proceed, Goto, Calls
<1>6. CASE phase = "after"
  <2>1. TestCaseEnds(HrTestCase(h))
    BY <1>6 DEF Proceed
  <2> QED BY <1>1, <1>3, <1>6, <2>1 DEF Calls
<1>7. CASE phase = "teardown"
  BY <1>1, <1>7 DEF Proceed, NextFixture, Goto, Calls
<1> QED BY <1>2, <1>4, <1>5, <1>6, <1>7 DEF Calls

\* The value at the next call: reset, or handed on to a routine of the same test
\* case, or noted as one that was not reset.
LEMMA CarriedFact ==
  ASSUME phase \in Calls, hrTest \in Results, NEW h \in Results, Proceed(h), at \in Nat, tc \in Nat,
         NEW v, phase # "setup" => Carried(v),
         \/ tls' = 0 /\ history'.written = 0
         \/ /\ phase # "setup" /\ tls' = v /\ history'.written = history.written /\ history'.writer = history.writer
            /\ history'.skipped = (history.skipped \/ (phase = "before" /\ h # "ok") \/ phase = "after")
         \/ phase = "teardown"
  PROVE  phase' \in Calls \ {"setup"} => Carried(tls)'
<1>1. CASE tls' = 0 /\ history'.written = 0
  BY <1>1 DEF Carried
<1>2. CASE phase = "teardown"
  <2>1. phase' \in {"setup", "end"}
    BY <1>2, ProceedFact
  <2> QED BY <2>1 DEF Calls
<1>3. CASE /\ phase # "setup" /\ tls' = v /\ history'.written = history.written /\ history'.writer = history.writer
           /\ history'.skipped = (history.skipped \/ (phase = "before" /\ h # "ok") \/ phase = "after")
  <2>1. CASE phase = "testcase" \/ (phase = "before" /\ h = "ok")
    <3>1. tc' = tc
      BY <2>1, ProceedFact
    <3> QED BY <1>3, <2>1, <3>1 DEF Carried
  <2>2. CASE (phase = "before" /\ h # "ok") \/ phase = "after"
    BY <1>3, <2>2 DEF Carried
  <2> QED BY <1>2, <1>3, <2>1, <2>2 DEF Calls
<1> QED BY <1>1, <1>2, <1>3

\* The reflector never answers with the value that means no routine.
LEMMA RoutineIsSome == \A a, f, k : GetRoutine(a, f, k) # NoRoutine
<1>1. DOMAIN NoRoutine = {"none"}
  BY DEF NoRoutine
<1>2. DOMAIN Failed = {"failed"}
  BY DEF Failed
<1>3. \A x, y : "fixture" \in DOMAIN [fixture |-> x, entry |-> y]
  OBVIOUS
<1>4. \A x, y : [fixture |-> x, entry |-> y] # NoRoutine
  BY <1>1, <1>3
<1>5. Failed # NoRoutine
  BY <1>1, <1>2
<1> QED BY <1>4, <1>5 DEF GetRoutine

\* A call begins without events.
LEMMA NoFates == <<>> \in Seq(Kinds \X Fates)
OBVIOUS

\* A routine is called with the value of the slot.
LEMMA RunPreserves ==
  ASSUME ResponseInv, RunRoutine
  PROVE  ResponseInv'
<1> USE DEF ResponseInv
<1>1. /\ UNCHANGED <<setting, phase, at, tc, hrTest, down>> /\ routine = NoRoutine /\ phase \in Calls
      /\ tls' = SlotAtStart(phase) /\ CallRoutine(Tag.key, ValueAtStart)
  BY DEF RunRoutine, Idle, TypeOK, Calls
<1>2. routine' # NoRoutine
  BY <1>1, RoutineIsSome DEF CallRoutine
<1>3. phase # "setup" => Carried(tls) /\ ValueAtStart = tls
  BY <1>1 DEF StorageInv, ValueAtStart
<1>4. history \in History /\ history.written \in Values /\ 0 \in Values
  BY DEF RecordInv, History, Values
<1>5. ValueAtStart \in Values /\ tls' \in Values \cup {NoSlot}
  BY <1>1, <1>3, <1>4 DEF ValueAtStart, Carried, SlotAtStart, Calls, TypeOK
<1>6. /\ channel' = [value |-> ValueAtStart, used |-> 0, truncated |-> FALSE, events |-> <<>>]
      /\ <<>> \in Seq(Kinds) /\ ran' = FALSE /\ abort' = FALSE /\ hr' = "none" /\ elevated' = {}
      /\ thread' = [t \in {Main, Child} |-> IF t = Main THEN "running" ELSE "absent"]
      /\ history' = [history EXCEPT !.fates = <<>>, !.left = "stay"]
  BY <1>1 DEF CallRoutine, EmptyChannel
<1>7. /\ history' \in History /\ history'.fates = <<>> /\ history'.written = history.written
      /\ history'.writer = history.writer /\ history'.skipped = history.skipped
  BY <1>4, <1>6, NoFates DEF History
<1>8. channel' \in Channel /\ channel'.value = ValueAtStart
  BY <1>5, <1>6 DEF Channel
<1>9. TypeOK'
  <2>1. channel'.used = 0 /\ channel'.truncated \in BOOLEAN /\ channel'.events \in Seq(Kinds) /\ 0 \in 0 .. BufferLimit
    BY <1>6, CallAssumption
  <2>2. thread' \in [{Main, Child} -> {"absent", "running", "ended"}]
    BY <1>6
  <2> QED BY <1>1, <1>5, <1>6, <1>8, <2>1, <2>2 DEF TypeOK
<1>10. RecordInv' /\ FateInv'
  BY <1>7, <1>8 DEF RecordInv, FateInv
<1>11. CallInv' /\ VisibleInv'
  BY <1>1, <1>2, <1>6 DEF CallInv, VisibleInv
<1>12. LeftInv'
  BY <1>2, <1>6 DEF LeftInv
<1>13. StorageInv'
  BY <1>1, <1>2, <1>3, <1>7, <1>8 DEF StorageInv, Carried
<1> QED BY <1>9, <1>10, <1>11, <1>12, <1>13

\* Steps of the client without a call.
LEMMA ClearedPreserves ==
  ASSUME ResponseInv, routine = NoRoutine,
         UNCHANGED <<setting, thread, elevated, channel, ran, abort, down, routine, delivered>>,
         hr' \in Results, hrTest' \in Results, at' \in Nat, tc' \in Nat, phase' \in Calls \cup {"end"},
         tls' \in Values \cup {NoSlot}, history' \in History, history'.fates = <<>>, history'.left = "stay",
         phase' \in Calls \ {"setup"} => Carried(tls)'
  PROVE  ResponseInv'
<1> USE DEF ResponseInv
<1>1. TypeOK'
  BY DEF TypeOK, Results, Calls
<1>2. RecordInv' /\ FateInv' /\ CallInv' /\ VisibleInv' /\ LeftInv'
  BY DEF RecordInv, FateInv, CallInv, VisibleInv, LeftInv
<1>3. StorageInv'
  BY DEF StorageInv
<1> QED BY <1>1, <1>2, <1>3

\* What a step of the client knows.
LEMMA IdleFact ==
  ASSUME ResponseInv, Idle
  PROVE  /\ phase \in Calls /\ routine = NoRoutine /\ hrTest \in Results /\ at \in Nat /\ tc \in Nat
         /\ phase # "setup" => Carried(tls)
         /\ history \in History /\ tls \in Values \cup {NoSlot} /\ 0 \in Values
BY DEF ResponseInv, Idle, TypeOK, Calls, Results, StorageInv, RecordInv, Values

\* A routine the fixture does not have, no memory, a call that fails.
LEMMA NoCallPreserves ==
  ASSUME ResponseInv, RunAbsentRoutine \/ SlotFails \/ CallFails
  PROVE  ResponseInv'
<1>1. Idle
  BY DEF RunAbsentRoutine, SlotFails, CallFails
<1>2. /\ phase \in Calls /\ routine = NoRoutine /\ hrTest \in Results /\ at \in Nat /\ tc \in Nat
      /\ phase # "setup" => Carried(tls)
      /\ history \in History /\ tls \in Values \cup {NoSlot} /\ 0 \in Values
  BY <1>1, IdleFact
<1>3. UNCHANGED <<setting, thread, elevated, channel, ran, abort, down, routine, delivered>>
  BY DEF RunAbsentRoutine, SlotFails, CallFails, ClientFrame
<1>4. "ok" \in Results /\ "fatal" \in Results
  BY DEF Results
<1>5. CASE RunAbsentRoutine
  <2>1. /\ tls' = SlotAtStart(phase) /\ hr' = "ok" /\ hrTest' = HrTestCase("ok") /\ Proceed("ok") /\ ~ Tag.present
        /\ history' = [history EXCEPT !.skipped = SkipsAfter("ok"), !.fates = <<>>, !.left = "stay",
                                      !.written = IF phase = "setup" THEN 0 ELSE @,
                                      !.writer  = IF phase = "setup" THEN 0 ELSE @]
    BY <1>5 DEF RunAbsentRoutine
  <2>2. /\ history'.skipped = SkipsAfter("ok") /\ history'.fates = <<>> /\ history'.left = "stay"
        /\ history'.written = (IF phase = "setup" THEN 0 ELSE history.written)
        /\ history'.writer = (IF phase = "setup" THEN 0 ELSE history.writer)
        /\ history' = [fates |-> history'.fates, left |-> history'.left, written |-> history'.written,
                       writer |-> history'.writer, skipped |-> history'.skipped]
    BY <1>2, <2>1 DEF History
  <2>3. SkipsAfter("ok") = IF phase = "setup" THEN FALSE ELSE history.skipped \/ phase = "after"
    BY <2>1 DEF SkipsAfter
  <2>4. SkipsAfter("ok") \in BOOLEAN
    BY <1>2, <2>3 DEF History
  <2>5. history' \in History
    <3>1. history.written \in Values /\ history.writer \in Nat
      BY <1>2 DEF History
    <3>2. history'.written \in Values /\ history'.writer \in Nat
      BY <1>2, <2>2, <3>1
    <3>3. history'.fates \in Seq(Kinds \X Fates) /\ history'.skipped \in BOOLEAN
      BY <2>2, <2>4, NoFates
    <3> QED BY <2>2, <3>2, <3>3 DEF History
  <2>6. tls' \in Values \cup {NoSlot}
    BY <1>2, <2>1 DEF SlotAtStart
  <2>7. phase' \in Calls \ {"setup"} => Carried(tls)'
    <3>1. CASE phase = "setup"
      BY <1>2, <1>4, <2>1, <2>2, <3>1, CarriedFact DEF SlotAtStart
    <3>2. CASE phase = "teardown"
      BY <1>2, <1>4, <2>1, <3>2, CarriedFact
    <3>3. CASE phase \in {"before", "testcase", "after"}
      <4>1. tls' = tls
        BY <2>1, <3>3 DEF SlotAtStart
      <4>2. /\ history'.written = history.written /\ history'.writer = history.writer
            /\ history'.skipped = (history.skipped \/ (phase = "before" /\ "ok" # "ok") \/ phase = "after")
        BY <2>2, <2>3, <3>3
      <4> QED BY <1>2, <1>4, <2>1, <3>3, <4>1, <4>2, CarriedFact
    <3> QED BY <1>2, <3>1, <3>2, <3>3 DEF Calls
  <2>8. hrTest' \in Results /\ at' \in Nat /\ tc' \in Nat /\ phase' \in Calls \cup {"end"}
    BY <1>2, <1>4, <2>1, ProceedFact
  <2> QED BY <1>2, <1>3, <1>4, <2>1, <2>2, <2>5, <2>6, <2>7, <2>8, ClearedPreserves
<1>6. CASE SlotFails
  <2>1. /\ hr' = "fatal" /\ phase' = "end" /\ UNCHANGED <<at, tc, tls, hrTest>>
        /\ history' = [history EXCEPT !.fates = <<>>, !.left = "stay"]
    BY <1>6 DEF SlotFails, Goto
  <2>2. history' \in History /\ history'.fates = <<>> /\ history'.left = "stay"
    BY <1>2, <2>1, NoFates DEF History
  <2> QED BY <1>2, <1>3, <1>4, <2>1, <2>2, ClearedPreserves DEF Calls
<1>7. CASE CallFails
  <2>1. /\ tls' = SlotAfter(phase, tls) /\ hr' = "fatal" /\ hrTest' = HrTestCase("fatal") /\ Proceed("fatal") /\ Tag.present
        /\ history' = [Forget(history, phase) EXCEPT !.skipped = SkipsAfter("fatal"), !.fates = <<>>, !.left = "stay"]
    BY <1>7 DEF CallFails
  <2>2. PICK past : past = Forget(history, phase)
    OBVIOUS
  <2>3. /\ past \in History /\ past.skipped = history.skipped
        /\ phase \in {"setup", "after"} => past.written = 0
        /\ phase \notin {"setup", "after"} => past = history
    BY <1>2, <2>2 DEF Forget, History
  <2>4. SkipsAfter("fatal") = IF phase = "setup" THEN FALSE ELSE history.skipped \/ phase = "before"
    BY <2>1 DEF SkipsAfter
  <2>5. SkipsAfter("fatal") \in BOOLEAN
    BY <1>2, <2>4 DEF History
  <2>6. /\ history' \in History /\ history'.fates = <<>> /\ history'.left = "stay"
        /\ history'.written = past.written /\ history'.writer = past.writer /\ history'.skipped = SkipsAfter("fatal")
    BY <2>1, <2>2, <2>3, <2>5, NoFates DEF History
  <2>7. tls' \in Values \cup {NoSlot}
    BY <1>2, <2>1 DEF SlotAfter
  <2>8. phase' \in Calls \ {"setup"} => Carried(tls)'
    <3>1. CASE phase \in {"setup", "after"}
      <4>1. tls' = 0 /\ history'.written = 0
        BY <2>1, <2>3, <2>6, <3>1 DEF SlotAfter
      <4> QED BY <1>2, <1>4, <2>1, <4>1, CarriedFact
    <3>2. CASE phase = "teardown"
      BY <1>2, <1>4, <2>1, <3>2, CarriedFact
    <3>3. CASE phase \in {"before", "testcase"}
      <4>1. tls' = tls
        BY <2>1, <3>3 DEF SlotAfter
      <4>2. /\ history'.written = history.written /\ history'.writer = history.writer
            /\ history'.skipped = (history.skipped \/ (phase = "before" /\ "fatal" # "ok") \/ phase = "after")
        BY <2>3, <2>4, <2>6, <3>3
      <4> QED BY <1>2, <1>4, <2>1, <3>3, <4>1, <4>2, CarriedFact
    <3> QED BY <1>2, <3>1, <3>2, <3>3 DEF Calls
  <2>9. hrTest' \in Results /\ at' \in Nat /\ tc' \in Nat /\ phase' \in Calls \cup {"end"}
    BY <1>2, <1>4, <2>1, ProceedFact
  <2> QED BY <1>2, <1>3, <1>4, <2>1, <2>6, <2>7, <2>8, <2>9, ClearedPreserves
<1> QED BY <1>5, <1>6, <1>7

\* The events the execution context is given.
LEMMA DeliverFact ==
  ASSUME channel \in Channel, NEW n \in 0 .. Len(channel.events)
  PROVE  /\ \A k \in 1 .. n : k \in DOMAIN Deliver(n) /\ Deliver(n)[k] = channel.events[k]
         /\ channel.truncated => \E k \in DOMAIN Deliver(n) : Deliver(n)[k] = "note"
         /\ \A k \in DOMAIN Deliver(n) : k \in 1 .. n \/ Deliver(n)[k] = "note"
<1>1. PICK s : s = SubSeq(channel.events, 1, n)
  OBVIOUS
<1>2. channel.events \in Seq(Kinds) /\ Len(channel.events) \in Nat /\ n \in Nat /\ n <= Len(channel.events)
  BY DEF Channel
<1>3. s \in Seq(Kinds) /\ Len(s) = n /\ \A k \in 1 .. n : s[k] = channel.events[k]
  BY <1>1, <1>2
<1>4. CASE channel.truncated
  <2>1. Deliver(n) = s \o <<"note">>
    BY <1>1, <1>4 DEF Deliver
  <2>2. s \in Seq(Kinds \cup {"note"}) /\ <<"note">> \in Seq(Kinds \cup {"note"})
    BY <1>3
  <2>3. /\ DOMAIN Deliver(n) = 1 .. n + 1 /\ \A k \in 1 .. n : Deliver(n)[k] = s[k]
        /\ Deliver(n)[n + 1] = "note"
    BY <1>2, <1>3, <2>1, <2>2
  <2> QED BY <1>2, <1>3, <2>3
<1>5. CASE ~ channel.truncated
  <2>1. Deliver(n) = s \o <<>>
    BY <1>1, <1>5 DEF Deliver
  <2>2. DOMAIN Deliver(n) = 1 .. n /\ \A k \in 1 .. n : Deliver(n)[k] = s[k]
    BY <1>2, <1>3, <2>1
  <2> QED BY <1>3, <1>5, <2>2
<1> QED BY <1>4, <1>5

\* CfixklpCallRoutine: what was queued is passed on or the response was cut.
LEMMA VisibleFact ==
  ASSUME RecordInv, FateInv, NEW n \in 0 .. Len(channel.events), delivered' = Deliver(n), channel' = channel,
         history'.fates = history.fates
  PROVE  VisibleInv'
<1>1. /\ channel \in Channel /\ Len(channel.events) \in Nat /\ n \in Nat /\ DOMAIN channel.events = 1 .. Len(channel.events)
      /\ history.fates \in Seq(Kinds \X Fates)
  BY DEF RecordInv, Channel, History
<1>2. /\ \A k \in 1 .. n : k \in DOMAIN delivered' /\ delivered'[k] = channel.events[k]
      /\ channel.truncated => \E k \in DOMAIN delivered' : delivered'[k] = "note"
      /\ \A k \in DOMAIN delivered' : k \in 1 .. n \/ delivered'[k] = "note"
  BY <1>1, DeliverFact
<1>3. CASE n < Len(channel.events)
  <2>1. PICK S : S = {k \in DOMAIN delivered' : delivered'[k] # "note"}
    OBVIOUS
  <2>2. S \subseteq 1 .. n
    BY <1>2, <2>1
  <2>3. IsFiniteSet(1 .. n) /\ Cardinality(1 .. n) = n
    <3>1. n \in Nat /\ 1 \in Int /\ n \in Int
      BY <1>1
    <3>2. IsFiniteSet(1 .. n) /\ Cardinality(1 .. n) = IF 1 > n THEN 0 ELSE n - 1 + 1
      BY ONLY <3>1, FS_Interval
    <3> QED BY ONLY <3>1, <3>2
  <2>4. Cardinality(S) <= n /\ Cardinality(S) \in Nat
    BY <2>2, <2>3, FS_Subset, FS_CardinalityType
  <2>5. Cut'
    BY <1>1, <1>3, <2>1, <2>4 DEF Cut
  <2> QED BY <2>5 DEF VisibleInv
<1>4. CASE n = Len(channel.events)
  <2> SUFFICES ASSUME NEW i \in DOMAIN history.fates
               PROVE  \/ \E k \in DOMAIN delivered' : delivered'[k] \in {history.fates[i][1], "note"}
                      \/ history.fates[i][2] = "dropped"
    BY DEF VisibleInv
  <2>1. PICK entry : entry = history.fates[i]
    OBVIOUS
  <2>2. entry[2] \in Fates
    BY <1>1, <2>1
  <2>3. Recorded(channel, entry)
    BY <2>1 DEF FateInv
  <2>4. CASE entry[2] = "queued"
    <3>1. PICK k \in DOMAIN channel.events : channel.events[k] = entry[1]
      BY <2>3, <2>4 DEF Recorded
    <3> QED BY <1>1, <1>2, <1>4, <2>1, <3>1
  <2>5. CASE entry[2] = "truncated"
    BY <1>2, <2>3, <2>5 DEF Recorded
  <2> QED BY <2>1, <2>2, <2>4, <2>5 DEF Fates
<1> QED BY <1>1, <1>3, <1>4

\* The client evaluates the response.
LEMMA ReturnsPreserves ==
  ASSUME ResponseInv, NEW n \in 0 .. Len(channel.events), CallReturns(n)
  PROVE  ResponseInv'
<1> USE DEF ResponseInv
<1>1. /\ routine # NoRoutine /\ routine' = NoRoutine /\ thread[Main] = "ended" /\ thread[Child] # "running"
      /\ UNCHANGED <<setting, thread, elevated, channel, ran, abort, down>>
      /\ delivered' = Deliver(n) /\ tls' = SlotAfter(phase, channel.value)
      /\ hr' = Result /\ hrTest' = HrTestCase(Result) /\ Proceed(Result)
      /\ history' = [Forget(history, phase) EXCEPT !.skipped = SkipsAfter(Result)]
  BY DEF CallReturns, ClientFrame
<1>2. /\ phase \in Calls /\ hrTest \in Results /\ at \in Nat /\ tc \in Nat /\ history \in History
      /\ channel.value \in Values /\ 0 \in Values /\ (phase # "setup" => Carried(channel.value))
  BY <1>1 DEF CallInv, TypeOK, Results, RecordInv, Values, StorageInv
<1>3. Result \in Results /\ Result # "none"
  BY DEF Result, Results
<1>4. hrTest' \in Results /\ at' \in Nat /\ tc' \in Nat /\ phase' \in Calls \cup {"end"}
  BY <1>1, <1>2, <1>3, ProceedFact
<1>5. PICK past : past = Forget(history, phase)
  OBVIOUS
<1>6. /\ past \in History /\ past.fates = history.fates /\ past.left = history.left
      /\ phase \in {"setup", "after"} => past.written = 0
      /\ phase \notin {"setup", "after"} => past = history
  BY <1>2, <1>5 DEF Forget, History
<1>7. PICK skips : skips = SkipsAfter(Result)
  OBVIOUS
<1>8. /\ skips \in BOOLEAN
      /\ phase \in {"before", "testcase"} => skips = (history.skipped \/ (phase = "before" /\ Result # "ok"))
  <2>1. history.skipped \in BOOLEAN
    BY <1>2 DEF History
  <2> QED BY <1>7, <2>1 DEF SkipsAfter
<1>9. /\ history' \in History /\ history'.fates = history.fates /\ history'.left = history.left
      /\ history'.written = past.written /\ history'.writer = past.writer /\ history'.skipped = skips
  BY <1>1, <1>5, <1>6, <1>7, <1>8 DEF History
<1>10. tls' \in Values \cup {NoSlot}
  BY <1>1, <1>2 DEF SlotAfter, Calls
<1>11. phase' \in Calls \ {"setup"} => Carried(tls)'
  <2>1. CASE phase \in {"setup", "after"}
    <3>1. tls' = 0 /\ history'.written = 0
      BY <1>1, <1>6, <1>9, <2>1 DEF SlotAfter
    <3> QED BY <1>1, <1>2, <1>3, <3>1, CarriedFact
  <2>2. CASE phase = "teardown"
    BY <1>1, <1>2, <1>3, <2>2, CarriedFact
  <2>3. CASE phase \in {"before", "testcase"}
    <3>1. tls' = channel.value
      BY <1>1, <2>3 DEF SlotAfter
    <3>2. /\ history'.written = history.written /\ history'.writer = history.writer
          /\ history'.skipped = (history.skipped \/ (phase = "before" /\ Result # "ok") \/ phase = "after")
      BY <1>6, <1>8, <1>9, <2>3
    <3> QED BY <1>1, <1>2, <1>3, <2>3, <3>1, <3>2, CarriedFact
  <2> QED BY <1>2, <2>1, <2>2, <2>3 DEF Calls
<1>12. TypeOK'
  <2>1. hr' \in {"none", "ok", "failed", "aborted", "fatal"}
    BY <1>1, <1>3 DEF Results
  <2> QED BY <1>1, <1>4, <1>10, <2>1 DEF TypeOK, Calls, Results
<1>13. RecordInv' /\ FateInv'
  BY <1>1, <1>9 DEF RecordInv, FateInv
<1>14. CallInv' /\ StorageInv'
  BY <1>1, <1>11 DEF CallInv, StorageInv
<1>15. LeftInv'
  <2>1. Consistent'
    BY <1>1, <1>9 DEF LeftInv, Consistent
  <2>2. hr' = Result'
    BY <1>1 DEF Result
  <2> QED BY <1>1, <2>1, <2>2 DEF LeftInv
<1>16. VisibleInv'
  BY <1>1, <1>9, VisibleFact
<1> QED BY <1>12, <1>13, <1>14, <1>15, <1>16

-----------------------------------------------------------------------------
(***************************************************************************)
(* The theorems.                                                           *)
(***************************************************************************)

\* Nothing has been called.
LEMMA ResponseInit == Init => ResponseInv
<1> SUFFICES ASSUME Init PROVE ResponseInv
  OBVIOUS
<1>1. /\ setting \in Settings /\ phase = "load" /\ at = 1 /\ tc = 1 /\ tls = NoSlot /\ routine = NoRoutine
      /\ channel = [value |-> 0, used |-> 0, truncated |-> FALSE, events |-> <<>>]
      /\ thread = [t \in {Main, Child} |-> "absent"] /\ elevated = {} /\ ran = FALSE /\ abort = FALSE
      /\ hr = "none" /\ hrTest = "ok" /\ delivered = <<>> /\ down = FALSE
      /\ history = [fates |-> <<>>, left |-> "stay", written |-> 0, writer |-> 0, skipped |-> FALSE]
  BY DEF Init, CallInit, EmptyChannel, HistoryInit
<1>2. <<>> \in Seq(Kinds) /\ 0 \in Values /\ 0 \in 0 .. BufferLimit
  BY CallAssumption DEF Values
<1>3. channel \in Channel
  BY <1>1, <1>2 DEF Channel
<1>4. history \in History
  BY <1>1, <1>2, NoFates DEF History
<1>5. TypeOK
  <2>1. channel.value = 0 /\ channel.used = 0 /\ channel.truncated = FALSE /\ channel.events = <<>>
    BY <1>1
  <2>2. thread \in [{Main, Child} -> {"absent", "running", "ended"}]
    BY <1>1
  <2> QED BY <1>1, <1>2, <2>1, <2>2 DEF TypeOK
<1>6. RecordInv /\ FateInv /\ VisibleInv
  BY <1>1, <1>3, <1>4 DEF RecordInv, FateInv, VisibleInv
<1>7. CallInv /\ LeftInv /\ StorageInv
  BY <1>1 DEF CallInv, LeftInv, StorageInv, Calls
<1> QED BY <1>5, <1>6, <1>7 DEF ResponseInv

\* Steps that leave the calls alone: loading the module, and stuttering.
LEMMA ModulePreserves ==
  ASSUME ResponseInv, UNCHANGED callVars
  PROVE  ResponseInv'
<1> USE DEF ResponseInv, callVars
<1>1. TypeOK' /\ RecordInv' /\ CallInv'
  BY DEF TypeOK, RecordInv, CallInv
<1>2. LeftInv' /\ StorageInv'
  BY DEF LeftInv, Consistent, Result, StorageInv, Carried
<1>3. FateInv' /\ VisibleInv'
  BY DEF FateInv, Recorded, VisibleInv, Cut
<1> QED BY <1>1, <1>2, <1>3

\* The first fixture begins.
LEMMA StartPreserves ==
  ASSUME ResponseInv, StartFixtures
  PROVE  ResponseInv'
<1> USE DEF ResponseInv
<1>1. /\ phase = "load" /\ phase' \in {"setup", "end"}
      /\ UNCHANGED <<setting, at, tc, tls, routine, channel, thread, elevated, ran, abort, hr, hrTest, delivered, down, history>>
  BY DEF StartFixtures
<1>2. routine = NoRoutine
  BY <1>1 DEF CallInv, Calls
<1>3. TypeOK' /\ RecordInv' /\ CallInv'
  BY <1>1, <1>2 DEF TypeOK, RecordInv, CallInv
<1>4. LeftInv' /\ StorageInv'
  BY <1>1, <1>2 DEF LeftInv, Consistent, Result, StorageInv, Calls
<1>5. FateInv' /\ VisibleInv'
  BY <1>1 DEF FateInv, Recorded, VisibleInv, Cut
<1> QED BY <1>3, <1>4, <1>5

\* The invariant of calls, types included.
THEOREM ResponseInvariance == Spec => []ResponseInv
<1>1. Init => ResponseInv
  BY ResponseInit
<1>2. ResponseInv /\ [Next]_vars => ResponseInv'
  <2> SUFFICES ASSUME ResponseInv, [Next]_vars PROVE ResponseInv'
    OBVIOUS
  <2>1. CASE UNCHANGED callVars
    BY <2>1, ModulePreserves
  <2>2. ASSUME NEW t \in {Main, Child}, Step(t) PROVE ResponseInv'
    BY <2>2, ThreadFact, ThreadPreserves DEF DataInv, ResponseInv
  <2>3. CASE CreateSystemThread
    BY <2>3, CreatePreserves
  <2>4. CASE Client
    BY <2>4, StartPreserves, RunPreserves, NoCallPreserves, ReturnsPreserves DEF Client
  <2>5. Terminated \/ UNCHANGED vars => UNCHANGED callVars
    BY DEF Terminated, vars
  <2> QED BY <2>1, <2>2, <2>3, <2>4, <2>5 DEF Next
<1> QED BY <1>1, <1>2, PTL DEF Spec

\* CfixkrpExceptionFilter and CfixklpCallRoutine: RoutineRanToCompletion and AbortRun
\* describe how the thread of the call left the routine, and so does the HRESULT,
\* whatever the other threads of the call did and when.
THEOREM ResponseConsistentHolds == Spec => []ResponseConsistent
<1>1. ResponseInv => ResponseConsistent
  BY DEF ResponseInv, LeftInv, Consistent, Result, ResponseConsistent, Finished
<1> QED BY <1>1, ResponseInvariance, PTL

\* CfixkrsSetValueStub and CfixklsRunBeforeOrAfterRoutine: a value travels from call
\* to call, and never to another test case if every test case ended with an after
\* routine.
THEOREM StorageCarriedHolds == Spec => []StorageCarried
<1>1. ResponseInv => StorageCarried
  BY DEF ResponseInv, StorageInv, Carried, StorageCarried, Finished, Calls
<1> QED BY <1>1, ResponseInvariance, PTL

\* CfixkrsQueueEvent and CfixklpCallRoutine: an event that was reported is told to the
\* execution context, or that events are missing, however full the buffer was,
\* unless it could not be represented or the client ran out of memory.
THEOREM FailureVisibleHolds == Spec => []FailureVisible
<1>1. ResponseInv => FailureVisible
  BY DEF ResponseInv, VisibleInv, FailureVisible, Finished
<1> QED BY <1>1, ResponseInvariance, PTL

-----------------------------------------------------------------------------
(***************************************************************************)
(* Totals and selections.  What a recursive function computes is proved    *)
(* from the least natural number for which it would not.                   *)
(***************************************************************************)

\* A set of natural numbers has a least element.
LEMMA LeastNumber ==
  ASSUME NEW T, T \subseteq Nat, T # {}
  PROVE  \E x \in T : \A y \in T : x <= y
<1>1. IsWellFoundedOn(OpToRel(<, Nat), Nat)
  BY NatLessThanWellFounded
<1>2. PICK x \in T : \A y \in T : ~ (<<y, x>> \in OpToRel(<, Nat))
  BY <1>1, WFMin
<1>3. \A y \in T : ~ (y < x)
  BY <1>2 DEF OpToRel
<1> QED BY <1>3

\* A function on 1 .. n is a sequence.
LEMMA SequenceFact ==
  ASSUME NEW n \in Nat, NEW f, f = [k \in 1 .. n |-> f[k]]
  PROVE  f \in Seq(Range(f)) /\ Len(f) = n /\ DOMAIN f = 1 .. n
<1>1. DOMAIN f = 1 .. n /\ \A k \in 1 .. n : f[k] \in Range(f)
  BY DEF Range
<1>2. f \in [1 .. n -> Range(f)]
  BY <1>1
<1> QED BY <1>1, <1>2

\* The equation of the function in TotalUpTo.
Sums(f, m, g) == g = [k \in 0 .. m |-> IF k = 0 THEN 0 ELSE g[k - 1] + f[k]]

\* It has a solution.
LEMMA SumsExist ==
  ASSUME NEW f, NEW n \in Nat
  PROVE  \E g : Sums(f, n, g)
<1> DEFINE T == {m \in Nat : ~ \E g : Sums(f, m, g)}
<1> SUFFICES ASSUME T # {} PROVE FALSE
  OBVIOUS
<1>1. PICK m \in T : \A y \in T : m <= y
  BY LeastNumber
<1>2. m # 0
  <2> DEFINE g == [k \in 0 .. 0 |-> 0]
  <2>1. Sums(f, 0, g)
    BY DEF Sums
  <2> QED BY <2>1, <1>1
<1>3. m - 1 \in Nat /\ m - 1 \notin T
  BY <1>1, <1>2
<1>4. PICK g : Sums(f, m - 1, g)
  BY <1>3
<1> DEFINE h == [k \in 0 .. m |-> IF k < m THEN g[k] ELSE g[m - 1] + f[m]]
<1>5. \A k \in 0 .. m - 1 : g[k] = IF k = 0 THEN 0 ELSE g[k - 1] + f[k]
  BY <1>3, <1>4 DEF Sums
<1>6. \A k \in 0 .. m : h[k] = IF k = 0 THEN 0 ELSE h[k - 1] + f[k]
  <2> SUFFICES ASSUME NEW k \in 0 .. m
               PROVE  h[k] = IF k = 0 THEN 0 ELSE h[k - 1] + f[k]
    OBVIOUS
  <2>1. CASE k = 0
    BY <1>1, <1>2, <1>5, <2>1
  <2>2. CASE k # 0
    <3>1. h[k - 1] = g[k - 1]
      BY <1>1, <2>2
    <3> QED BY <1>1, <1>2, <1>5, <2>2, <3>1
  <2> QED BY <2>1, <2>2
<1>7. Sums(f, m, h)
  BY <1>6 DEF Sums
<1> QED BY <1>1, <1>7

\* Solutions agree where both are defined.
LEMMA SumsAgree ==
  ASSUME NEW f, NEW m \in Nat, NEW n \in Nat, m <= n, NEW g, Sums(f, m, g), NEW h, Sums(f, n, h)
  PROVE  g[m] = h[m]
<1> DEFINE T == {k \in 0 .. m : g[k] # h[k]}
<1> SUFFICES ASSUME T # {} PROVE FALSE
  OBVIOUS
<1>0. T \subseteq Nat
  OBVIOUS
<1>1. PICK k \in T : \A y \in T : k <= y
  BY <1>0, LeastNumber
<1>2. \A j \in 0 .. m : g[j] = IF j = 0 THEN 0 ELSE g[j - 1] + f[j]
  BY DEF Sums
<1>3. \A j \in 0 .. n : h[j] = IF j = 0 THEN 0 ELSE h[j - 1] + f[j]
  BY DEF Sums
<1>4. k # 0
  BY <1>1, <1>2, <1>3
<1>5. k - 1 \in 0 .. m /\ k - 1 \notin T
  BY <1>1, <1>4
<1>6. g[k - 1] = h[k - 1] /\ k \in 0 .. m /\ k \in 0 .. n
  BY <1>1, <1>5
<1>7. g[k] = g[k - 1] + f[k]
  BY <1>2, <1>4, <1>6
<1>8. h[k] = h[k - 1] + f[k]
  BY <1>3, <1>4, <1>6
<1> QED BY <1>1, <1>6, <1>7, <1>8

\* A total is that of one summand less, and the last one.
LEMMA TotalStep ==
  ASSUME NEW f, NEW n \in Nat
  PROVE  /\ TotalUpTo(f, 0) = 0
         /\ n # 0 => TotalUpTo(f, n) = TotalUpTo(f, n - 1) + f[n]
<1>1. \A m \in Nat : \E g : Sums(f, m, g) /\ TotalUpTo(f, m) = g[m]
  <2> SUFFICES ASSUME NEW m \in Nat PROVE \E g : Sums(f, m, g) /\ TotalUpTo(f, m) = g[m]
    OBVIOUS
  <2> DEFINE g == CHOOSE h : Sums(f, m, h)
  <2>1. Sums(f, m, g)
    BY SumsExist
  <2>2. TotalUpTo(f, m) = g[m]
    BY DEF TotalUpTo, Sums
  <2> HIDE DEF g
  <2> QED BY <2>1, <2>2
<1>2. TotalUpTo(f, 0) = 0
  <2>1. PICK g : Sums(f, 0, g) /\ TotalUpTo(f, 0) = g[0]
    BY <1>1
  <2>2. \A k \in 0 .. 0 : g[k] = IF k = 0 THEN 0 ELSE g[k - 1] + f[k]
    BY <2>1 DEF Sums
  <2> QED BY <2>1, <2>2
<1>3. ASSUME n # 0 PROVE TotalUpTo(f, n) = TotalUpTo(f, n - 1) + f[n]
  <2>0. n - 1 \in Nat /\ n - 1 <= n /\ n \in 0 .. n
    BY <1>3
  <2>1. PICK h : Sums(f, n, h) /\ TotalUpTo(f, n) = h[n]
    BY <1>1
  <2>2. PICK g : Sums(f, n - 1, g) /\ TotalUpTo(f, n - 1) = g[n - 1]
    BY <1>1, <2>0
  <2>3. g[n - 1] = h[n - 1]
    BY <2>0, <2>1, <2>2, SumsAgree
  <2>4. \A k \in 0 .. n : h[k] = IF k = 0 THEN 0 ELSE h[k - 1] + f[k]
    BY <2>1 DEF Sums
  <2>5. h[n] = h[n - 1] + f[n]
    BY <1>3, <2>0, <2>4
  <2> QED BY <2>1, <2>2, <2>3, <2>5
<1> QED BY <1>2, <1>3

\* Totals of natural numbers grow with every summand.
LEMMA TotalFact ==
  ASSUME NEW f, NEW n \in Nat, \A k \in 1 .. n : f[k] \in Nat
  PROVE  /\ \A m \in 0 .. n : TotalUpTo(f, m) \in Nat
         /\ \A m \in 0 .. n : m # n => TotalUpTo(f, m) + f[m + 1] <= TotalUpTo(f, n)
         /\ \A m \in 0 .. n : TotalUpTo(f, m) <= TotalUpTo(f, n)
<1>1. TotalUpTo(f, 0) = 0 /\ \A k \in 1 .. n : TotalUpTo(f, k) = TotalUpTo(f, k - 1) + f[k]
  BY TotalStep
<1>2. \A m \in 0 .. n : TotalUpTo(f, m) \in Nat
  <2> DEFINE T == {m \in 0 .. n : TotalUpTo(f, m) \notin Nat}
  <2> SUFFICES ASSUME T # {} PROVE FALSE
    OBVIOUS
  <2>0. T \subseteq Nat
    OBVIOUS
  <2>1. PICK m \in T : \A y \in T : m <= y
    BY <2>0, LeastNumber
  <2>2. m # 0
    BY <1>1, <2>1
  <2>3. m \in 1 .. n /\ m - 1 \in 0 .. n /\ m - 1 \notin T
    BY <2>1, <2>2
  <2> QED BY <1>1, <2>1, <2>3
<1>3. ASSUME NEW m \in 0 .. n PROVE TotalUpTo(f, m) <= TotalUpTo(f, n)
  <2> DEFINE T == {k \in m .. n : ~ (TotalUpTo(f, m) <= TotalUpTo(f, k))}
  <2> SUFFICES ASSUME T # {} PROVE FALSE
    OBVIOUS
  <2>0. T \subseteq Nat
    OBVIOUS
  <2>1. PICK k \in T : \A y \in T : k <= y
    BY <2>0, LeastNumber
  <2>2. k # m
    BY <1>2, <2>1
  <2>3. k \in 1 .. n /\ k - 1 \in 0 .. n /\ k - 1 \in m .. n /\ k - 1 \notin T
    BY <2>1, <2>2
  <2>4. TotalUpTo(f, k) = TotalUpTo(f, k - 1) + f[k] /\ f[k] \in Nat
    BY <1>1, <2>3
  <2>5. TotalUpTo(f, m) <= TotalUpTo(f, k - 1) /\ TotalUpTo(f, k - 1) \in Nat /\ TotalUpTo(f, m) \in Nat
    BY <1>2, <2>3
  <2>6. TotalUpTo(f, m) <= TotalUpTo(f, k)
    BY <2>4, <2>5
  <2> QED BY <2>1, <2>6
<1>4. ASSUME NEW m \in 0 .. n, m # n PROVE TotalUpTo(f, m) + f[m + 1] <= TotalUpTo(f, n)
  <2>1. m + 1 \in 1 .. n /\ m + 1 \in 0 .. n /\ (m + 1) - 1 = m
    BY <1>4
  <2>2. TotalUpTo(f, m + 1) = TotalUpTo(f, m) + f[m + 1]
    BY <1>1, <2>1
  <2> QED BY <1>3, <2>1, <2>2
<1> QED BY <1>2, <1>3, <1>4

\* The equation of the function in Ascending.
Picks(S, m, u) ==
    u = [k \in 0 .. m |-> IF k = 0 THEN <<>>
                          ELSE IF k \in S THEN Append(u[k - 1], k) ELSE u[k - 1]]

\* It has a solution.
LEMMA PicksExist ==
  ASSUME NEW S, NEW n \in Nat
  PROVE  \E u : Picks(S, n, u)
<1> DEFINE T == {m \in Nat : ~ \E u : Picks(S, m, u)}
<1> SUFFICES ASSUME T # {} PROVE FALSE
  OBVIOUS
<1>1. PICK m \in T : \A y \in T : m <= y
  BY LeastNumber
<1>2. m # 0
  <2> DEFINE u == [k \in 0 .. 0 |-> <<>>]
  <2>1. Picks(S, 0, u)
    BY DEF Picks
  <2> QED BY <2>1, <1>1
<1>3. m - 1 \in Nat /\ m - 1 \notin T
  BY <1>1, <1>2
<1>4. PICK u : Picks(S, m - 1, u)
  BY <1>3
<1> DEFINE v == [k \in 0 .. m |-> IF k < m THEN u[k]
                                  ELSE IF m \in S THEN Append(u[m - 1], m) ELSE u[m - 1]]
<1>5. \A k \in 0 .. m - 1 : u[k] = IF k = 0 THEN <<>>
                                    ELSE IF k \in S THEN Append(u[k - 1], k) ELSE u[k - 1]
  BY <1>3, <1>4 DEF Picks
<1>6. \A k \in 0 .. m : v[k] = IF k = 0 THEN <<>>
                                ELSE IF k \in S THEN Append(v[k - 1], k) ELSE v[k - 1]
  <2> SUFFICES ASSUME NEW k \in 0 .. m
               PROVE  v[k] = IF k = 0 THEN <<>>
                             ELSE IF k \in S THEN Append(v[k - 1], k) ELSE v[k - 1]
    OBVIOUS
  <2>1. CASE k = 0
    BY <1>1, <1>2, <1>5, <2>1
  <2>2. CASE k # 0
    <3>1. v[k - 1] = u[k - 1]
      BY <1>1, <2>2
    <3> QED BY <1>1, <1>2, <1>5, <2>2, <3>1
  <2> QED BY <2>1, <2>2
<1>7. Picks(S, m, v)
  BY <1>6 DEF Picks
<1> QED BY <1>1, <1>7

\* The members of S up to k, in ascending order.
IsAscending(S, k, s) ==
    /\ s \in Seq(Nat) /\ Range(s) = S \cap (1 .. k)
    /\ \A i, j \in DOMAIN s : i < j => s[i] < s[j]

\* Ascending is that sequence.
LEMMA AscendingFact ==
  ASSUME NEW S, NEW n \in Nat
  PROVE  IsAscending(S, n, Ascending(S, n))
<1> DEFINE u == CHOOSE v : Picks(S, n, v)
<1>1. Picks(S, n, u)
  BY PicksExist
<1>2. Ascending(S, n) = u[n]
  BY DEF Ascending, Picks
<1>3. \A k \in 0 .. n : u[k] = IF k = 0 THEN <<>>
                                ELSE IF k \in S THEN Append(u[k - 1], k) ELSE u[k - 1]
  BY <1>1 DEF Picks
<1> HIDE DEF u
<1>4. IsAscending(S, 0, u[0])
  <2>1. u[0] = <<>>
    BY <1>3
  <2> QED BY <2>1 DEF IsAscending, Range
<1>5. ASSUME NEW k \in 1 .. n, IsAscending(S, k - 1, u[k - 1])
      PROVE  IsAscending(S, k, u[k])
  <2>0. k \in 0 .. n /\ k # 0 /\ k \in Nat /\ 1 .. k = (1 .. k - 1) \cup {k}
    OBVIOUS
  <2>1. CASE k \notin S
    <3>1. u[k] = u[k - 1]
      BY <1>3, <2>0, <2>1
    <3>2. S \cap (1 .. k) = S \cap (1 .. k - 1)
      BY <2>0, <2>1
    <3> QED BY <1>5, <3>1, <3>2 DEF IsAscending
  <2>2. CASE k \in S
    <3> DEFINE s == u[k - 1]
               a == Append(s, k)
    <3>1. u[k] = a
      BY <1>3, <2>0, <2>2
    <3>2. s \in Seq(Nat) /\ Range(s) = S \cap (1 .. k - 1) /\ \A i, j \in DOMAIN s : i < j => s[i] < s[j]
      BY <1>5 DEF IsAscending
    <3> HIDE DEF s
    <3>3. /\ a \in Seq(Nat) /\ Len(a) = Len(s) + 1 /\ a[Len(s) + 1] = k
          /\ \A i \in 1 .. Len(s) : a[i] = s[i]
      BY <2>0, <3>2, AppendProperties
    <3>4. DOMAIN s = 1 .. Len(s) /\ DOMAIN a = 1 .. Len(s) + 1 /\ Len(s) \in Nat
      BY <3>2, <3>3
    <3> HIDE DEF a
    <3>5. \A x : x \in Range(a) <=> x \in Range(s) \/ x = k
      BY <3>3, <3>4 DEF Range
    <3>6. Range(a) = S \cap (1 .. k)
      BY <2>0, <2>2, <3>2, <3>5
    <3>7. \A i \in 1 .. Len(s) : s[i] < k
      <4>1. \A i \in 1 .. Len(s) : s[i] \in Range(s)
        BY <3>4 DEF Range
      <4> QED BY <3>2, <4>1
    <3>8. \A i, j \in DOMAIN a : i < j => a[i] < a[j]
      <4> SUFFICES ASSUME NEW i \in DOMAIN a, NEW j \in DOMAIN a, i < j PROVE a[i] < a[j]
        OBVIOUS
      <4>1. i \in 1 .. Len(s) /\ a[i] = s[i]
        BY <3>3, <3>4
      <4>2. CASE j = Len(s) + 1
        BY <3>3, <3>7, <4>1, <4>2
      <4>3. CASE j \in 1 .. Len(s)
        BY <3>2, <3>3, <3>4, <4>1, <4>3
      <4> QED BY <3>4, <4>2, <4>3
    <3> QED BY <3>1, <3>3, <3>6, <3>8 DEF IsAscending
  <2> QED BY <2>1, <2>2
<1>6. IsAscending(S, n, u[n])
  <2> DEFINE T == {k \in 0 .. n : ~ IsAscending(S, k, u[k])}
  <2> SUFFICES ASSUME T # {} PROVE FALSE
    OBVIOUS
  <2>0. T \subseteq Nat
    OBVIOUS
  <2>1. PICK k \in T : \A y \in T : k <= y
    BY <2>0, LeastNumber
  <2>2. k # 0 /\ k \in 1 .. n /\ k - 1 \in 0 .. n /\ k - 1 \notin T
    BY <1>4, <2>1
  <2>3. IsAscending(S, k - 1, u[k - 1])
    BY <2>2
  <2> QED BY <1>5, <2>1, <2>2, <2>3
<1> QED BY <1>2, <1>6

\* The places from which Pick takes its elements.
Places(s, S) == Ascending(S, Len(s))

\* Pick is a sequence of the elements at those places, which are those of S.
LEMMA PickFact ==
  ASSUME NEW s, Len(s) \in Nat, NEW S, S \subseteq 1 .. Len(s)
  PROVE  /\ Places(s, S) \in Seq(S)
         /\ Pick(s, S) \in Seq(Range(Pick(s, S)))
         /\ DOMAIN Pick(s, S) = 1 .. Len(Places(s, S)) /\ Len(Pick(s, S)) = Len(Places(s, S))
         /\ \A k \in DOMAIN Pick(s, S) : Places(s, S)[k] \in S /\ Pick(s, S)[k] = s[Places(s, S)[k]]
         /\ Pick(s, S) = <<>> <=> S = {}
<1> DEFINE p == Places(s, S)
           q == Pick(s, S)
<1>1. p \in Seq(Nat) /\ Range(p) = S \cap (1 .. Len(s))
  BY AscendingFact DEF IsAscending, Places
<1>2. q = [k \in DOMAIN p |-> s[p[k]]]
  BY DEF Pick, Places
<1>3. Range(p) = S
  BY <1>1
<1> HIDE DEF p, q
<1>4. DOMAIN p = 1 .. Len(p) /\ Len(p) \in Nat /\ \A k \in 1 .. Len(p) : p[k] \in S
  BY <1>1, <1>3 DEF Range
<1>5. p \in Seq(S)
  <2>1. p \in [1 .. Len(p) -> S]
    BY <1>1, <1>4
  <2> QED BY <1>4, <2>1
<1>6. q = [k \in 1 .. Len(p) |-> q[k]]
  BY <1>2, <1>4
<1>7. q \in Seq(Range(q)) /\ Len(q) = Len(p) /\ DOMAIN q = 1 .. Len(p)
  BY <1>4, <1>6, SequenceFact
<1>8. \A k \in DOMAIN q : p[k] \in S /\ q[k] = s[p[k]]
  BY <1>2, <1>4, <1>7
<1>9. q = <<>> <=> S = {}
  <2>1. q = <<>> <=> Len(p) = 0
    BY <1>4, <1>7
  <2>2. ASSUME Len(p) = 0 PROVE S = {}
    <3>1. DOMAIN p = {}
      BY <1>4, <2>2
    <3> QED BY <1>3, <3>1 DEF Range
  <2>3. ASSUME S = {} PROVE Len(p) = 0
    <3>1. 1 \notin 1 .. Len(p)
      BY <1>4, <2>3
    <3> QED BY <1>4, <3>1
  <2> QED BY <2>1, <2>2, <2>3
<1> QED BY <1>5, <1>7, <1>8, <1>9 DEF p, q

\* Picks from sequences of the same length take elements from the same places.
LEMMA SamePlaces ==
  ASSUME NEW s, NEW t, Len(s) \in Nat, Len(t) = Len(s), NEW S, S \subseteq 1 .. Len(s)
  PROVE  /\ DOMAIN Pick(t, S) = 1 .. Len(Places(s, S)) /\ Len(Pick(t, S)) = Len(Places(s, S))
         /\ \A k \in DOMAIN Pick(t, S) : Places(s, S)[k] \in S /\ Pick(t, S)[k] = t[Places(s, S)[k]]
         /\ Pick(t, S) = <<>> <=> S = {}
         /\ Pick(t, S) \in Seq(Range(Pick(t, S)))
<1>1. Places(t, S) = Places(s, S)
  BY DEF Places
<1>2. /\ DOMAIN Pick(t, S) = 1 .. Len(Places(t, S)) /\ Len(Pick(t, S)) = Len(Places(t, S))
      /\ \A k \in DOMAIN Pick(t, S) : Places(t, S)[k] \in S /\ Pick(t, S)[k] = t[Places(t, S)[k]]
      /\ Pick(t, S) = <<>> <=> S = {}
      /\ Pick(t, S) \in Seq(Range(Pick(t, S)))
  BY PickFact
<1> QED BY <1>1, <1>2

-----------------------------------------------------------------------------
(***************************************************************************)
(* The adapter and the layout of the response.                             *)
(***************************************************************************)

\* Fixtures and routines have names.
IsFixture(x) ==
    /\ x.length \in Nat \ {0} /\ x.entries \in Seq(Range(x.entries))
    /\ \A j \in DOMAIN x.entries : x.entries[j].length \in Nat \ {0}

IsAdapter(a) == a \in Seq(Range(a)) /\ \A i \in DOMAIN a : IsFixture(a[i])

\* CfixkrsInitializeAdapter makes a fixture of every export considered.
LEMMA AdapterFact ==
  ASSUME image \in Images
  PROVE  /\ IsAdapter(Adapter) /\ DOMAIN Adapter = DOMAIN Candidates /\ Len(Adapter) = Len(Candidates)
         /\ \A i \in DOMAIN Adapter : /\ Adapter[i].name = Defined(i).name[1]
                                      /\ Adapter[i].entries = Defined(i).definition
                                      /\ Candidates[i].mangled \in Nat
                                      /\ Candidates[i].mangled >= Adapter[i].length
<1> DEFINE S == {i \in DOMAIN image : IsFixtureExport(image[i])}
           c == Candidates
<1>1. image \in Seq(Range(image)) /\ \A i \in DOMAIN image :
          /\ image[i].length \in Nat \ {0}
          /\ image[i].mangled \in Nat /\ image[i].mangled >= image[i].length
          /\ image[i].definition \in Seq(Range(image[i].definition))
          /\ \A j \in DOMAIN image[i].definition : image[i].definition[j].length \in Nat \ {0}
  BY ModuleAssumption DEF IsImage
<1>2. Len(image) \in Nat /\ DOMAIN image = 1 .. Len(image) /\ S \subseteq 1 .. Len(image)
  BY <1>1
<1>3. c = Pick(image, S)
  BY DEF Candidates
<1> HIDE DEF S, c
<1>4. /\ c \in Seq(Range(c)) /\ Len(Places(image, S)) \in Nat
      /\ DOMAIN c = 1 .. Len(Places(image, S)) /\ Len(c) = Len(Places(image, S))
      /\ \A k \in DOMAIN c : Places(image, S)[k] \in S /\ c[k] = image[Places(image, S)[k]]
  <2> DEFINE q == Pick(image, S)
             places == Places(image, S)
  <2>1. /\ places \in Seq(S) /\ q \in Seq(Range(q))
        /\ DOMAIN q = 1 .. Len(places) /\ Len(q) = Len(places)
        /\ \A k \in DOMAIN q : places[k] \in S /\ q[k] = image[places[k]]
    BY <1>2, PickFact
  <2>2. Len(places) \in Nat
    BY <2>1
  <2>3. q = c
    BY <1>3
  <2> HIDE DEF q, places
  <2>4. /\ c \in Seq(Range(c)) /\ DOMAIN c = 1 .. Len(places) /\ Len(c) = Len(places)
        /\ \A k \in DOMAIN c : places[k] \in S /\ c[k] = image[places[k]]
    BY <2>1, <2>3
  <2> QED BY <2>2, <2>4 DEF places
<1>5. Adapter = [i \in DOMAIN c |-> InitializeFixture(c[i])]
  BY DEF Adapter, c
<1>6. ASSUME NEW i \in DOMAIN c
      PROVE  /\ IsFixture(Adapter[i]) /\ Adapter[i].name = c[i].name[1]
             /\ Adapter[i].entries = c[i].definition
             /\ c[i].mangled \in Nat /\ c[i].mangled >= Adapter[i].length
  <2>1. PICK j \in DOMAIN image : c[i] = image[j]
    BY <1>2, <1>4
  <2>2. Adapter[i] = InitializeFixture(image[j])
    BY <1>5, <2>1
  <2>3. /\ Adapter[i].name = image[j].name[1] /\ Adapter[i].length = image[j].length
        /\ Adapter[i].entries = image[j].definition
    BY <2>2 DEF InitializeFixture, UnmangleName
  <2>4. IsFixture(Adapter[i])
    BY <1>1, <2>3 DEF IsFixture
  <2>5. c[i].mangled \in Nat /\ c[i].mangled >= Adapter[i].length
    BY <1>1, <2>1, <2>3
  <2> QED BY <2>1, <2>3, <2>4, <2>5
<1>7. Adapter = [i \in 1 .. Len(Places(image, S)) |-> Adapter[i]]
  BY <1>4, <1>5
<1>8. /\ Adapter \in Seq(Range(Adapter)) /\ Len(Adapter) = Len(Places(image, S))
      /\ DOMAIN Adapter = 1 .. Len(Places(image, S))
  BY <1>4, <1>7, SequenceFact
<1>9. \A i \in DOMAIN Adapter : IsFixture(Adapter[i])
  BY <1>4, <1>6, <1>8
<1>10. \A i \in DOMAIN Adapter :
          /\ Adapter[i].name = Defined(i).name[1] /\ Adapter[i].entries = Defined(i).definition
          /\ c[i].mangled \in Nat /\ c[i].mangled >= Adapter[i].length
  BY <1>4, <1>6, <1>8 DEF Defined, c
<1> QED BY <1>4, <1>8, <1>9, <1>10 DEF IsAdapter, c

\* An export whose name would not fit into a fixture is refused when the driver
\* is loaded.
LEMMA ShortNames ==
  ASSUME image \in Images, WalkExportDirectory
  PROVE  \A i \in DOMAIN Adapter : Adapter[i].length <= MaxFixtureName
<1> TAKE i \in DOMAIN Adapter
<1>1. i \in DOMAIN Candidates /\ IsAdapter(Adapter) /\ Candidates[i].mangled \in Nat /\ Candidates[i].mangled >= Adapter[i].length
  BY AdapterFact
<1>2. Candidates[i].mangled <= MaxFixtureName
  BY <1>1 DEF WalkExportDirectory
<1>3. Adapter[i].length \in Nat /\ MaxFixtureName \in Nat
  BY <1>1, ModuleAssumption DEF IsAdapter, IsFixture
<1> HIDE DEF Adapter, Candidates
<1> QED BY <1>1, <1>2, <1>3

\* The lengths of the names of a fixture.
LEMMA LengthsFact ==
  ASSUME NEW x, IsFixture(x)
  PROVE  /\ Len(x.entries) \in Nat /\ DOMAIN x.entries = 1 .. Len(x.entries)
         /\ DOMAIN NamesOf(x) = 1 .. 1 + Len(x.entries)
         /\ Len(LengthsOf(x)) = 1 + Len(x.entries)
         /\ \A n \in 1 .. 1 + Len(x.entries) : LengthsOf(x)[n] \in Nat \ {0}
<1>1. Len(x.entries) \in Nat /\ DOMAIN x.entries = 1 .. Len(x.entries)
  BY DEF IsFixture
<1>2. DOMAIN NamesOf(x) = 1 .. 1 + Len(x.entries)
  BY DEF NamesOf
<1>3. LengthsOf(x) = [n \in 1 .. 1 + Len(x.entries) |-> LengthsOf(x)[n]]
  BY DEF LengthsOf
<1>4. Len(LengthsOf(x)) = 1 + Len(x.entries)
  BY <1>1, <1>3, SequenceFact
<1>5. ASSUME NEW n \in 1 .. 1 + Len(x.entries) PROVE LengthsOf(x)[n] \in Nat \ {0}
  <2>1. LengthsOf(x)[n] = IF n = 1 THEN x.length ELSE x.entries[n - 1].length
    BY DEF LengthsOf
  <2>2. n # 1 => n - 1 \in DOMAIN x.entries
    BY <1>1
  <2> QED BY <2>1, <2>2 DEF IsFixture
<1> QED BY <1>1, <1>2, <1>4, <1>5

\* Within a fixture a later name starts after an earlier one, and all of them
\* within the strings of the fixture.
LEMMA WithinFixture ==
  ASSUME NEW x, IsFixture(x), NEW n \in DOMAIN NamesOf(x)
  PROVE  /\ TotalUpTo(LengthsOf(x), n - 1) \in Nat /\ Total(LengthsOf(x)) \in Nat
         /\ TotalUpTo(LengthsOf(x), n - 1) < Total(LengthsOf(x))
         /\ \A m \in DOMAIN NamesOf(x) : m < n => TotalUpTo(LengthsOf(x), m - 1) < TotalUpTo(LengthsOf(x), n - 1)
<1> DEFINE f == LengthsOf(x)
           e == 1 + Len(x.entries)
<1>1. /\ e \in Nat /\ DOMAIN NamesOf(x) = 1 .. e /\ Len(f) = e /\ \A k \in 1 .. e : f[k] \in Nat \ {0}
  BY LengthsFact
<1>2. Total(f) = TotalUpTo(f, e)
  BY <1>1 DEF Total
<1> HIDE DEF f, e
<1>3. n \in 1 .. e /\ n - 1 \in 0 .. e /\ n - 1 # e /\ n \in 1 .. e /\ n - 1 \in Nat /\ (n - 1) + 1 = n
  BY <1>1
<1>4. /\ \A m \in 0 .. e : TotalUpTo(f, m) \in Nat
      /\ \A m \in 0 .. e : m # e => TotalUpTo(f, m) + f[m + 1] <= TotalUpTo(f, e)
  BY <1>1, TotalFact
<1>5. TotalUpTo(f, n - 1) \in Nat /\ Total(f) \in Nat
  BY <1>1, <1>2, <1>3, <1>4
<1>6. TotalUpTo(f, n - 1) < Total(f)
  <2>1. TotalUpTo(f, n - 1) + f[n] <= Total(f)
    BY <1>2, <1>3, <1>4
  <2>2. f[n] \in Nat \ {0}
    BY <1>1, <1>3
  <2> QED BY <1>5, <2>1, <2>2
<1>7. ASSUME NEW m \in DOMAIN NamesOf(x), m < n
      PROVE  TotalUpTo(f, m - 1) < TotalUpTo(f, n - 1)
  <2>1. m \in 1 .. e /\ m - 1 \in 0 .. n - 1 /\ m - 1 # n - 1 /\ (m - 1) + 1 = m /\ m - 1 \in 0 .. e
    BY <1>1, <1>3, <1>7
  <2>2. \A k \in 1 .. n - 1 : f[k] \in Nat
    BY <1>1, <1>3
  <2>3. TotalUpTo(f, m - 1) + f[m] <= TotalUpTo(f, n - 1)
    BY <1>3, <2>1, <2>2, TotalFact
  <2>4. f[m] \in Nat \ {0} /\ TotalUpTo(f, m - 1) \in Nat
    BY <1>1, <1>4, <2>1
  <2> QED BY <1>5, <2>3, <2>4
<1> QED BY <1>5, <1>6, <1>7 DEF f

\* The names are laid out one after the other: a later one has a larger offset.
LEMMA OffsetsAscend ==
  ASSUME NEW a, IsAdapter(a), NEW i \in DOMAIN a, NEW j \in DOMAIN a,
         NEW n \in DOMAIN NamesOf(a[i]), NEW m \in DOMAIN NamesOf(a[j]), StructSize(a) \in Nat,
         i < j \/ (i = j /\ n < m)
  PROVE  NameOffset(a, i, n) < NameOffset(a, j, m)
<1> DEFINE g == StringSizes(a)
           f(k) == LengthsOf(a[k])
<1>0. IsFixture(a[i]) /\ IsFixture(a[j]) /\ DOMAIN a = 1 .. Len(a) /\ Len(a) \in Nat
  BY DEF IsAdapter
<1>1. /\ TotalUpTo(f(i), n - 1) \in Nat /\ Total(f(i)) \in Nat /\ TotalUpTo(f(i), n - 1) < Total(f(i))
  BY <1>0, WithinFixture
<1>2. /\ TotalUpTo(f(j), m - 1) \in Nat
      /\ \A l \in DOMAIN NamesOf(a[j]) : l < m => TotalUpTo(f(j), l - 1) < TotalUpTo(f(j), m - 1)
  BY <1>0, WithinFixture
<1>3. \A k \in 1 .. Len(a) : g[k] = Total(f(k)) /\ g[k] \in Nat
  <2> SUFFICES ASSUME NEW k \in 1 .. Len(a) PROVE g[k] = Total(f(k)) /\ Total(f(k)) \in Nat
    OBVIOUS
  <2>1. g[k] = Total(f(k))
    BY <1>0 DEF StringSizes
  <2>2. IsFixture(a[k])
    BY <1>0 DEF IsAdapter
  <2>3. 1 \in DOMAIN NamesOf(a[k])
    BY <2>2, LengthsFact
  <2>4. Total(f(k)) \in Nat
    BY <2>2, <2>3, WithinFixture
  <2> QED BY <2>1, <2>4
<1>4. /\ NameOffset(a, i, n) = StructSize(a) + TotalUpTo(g, i - 1) + TotalUpTo(f(i), n - 1)
      /\ NameOffset(a, j, m) = StructSize(a) + TotalUpTo(g, j - 1) + TotalUpTo(f(j), m - 1)
  BY DEF NameOffset
<1> HIDE DEF g, f
<1>5. \A k \in 0 .. Len(a) : TotalUpTo(g, k) \in Nat
  BY <1>0, <1>3, TotalFact
<1>6. i - 1 \in 0 .. Len(a) /\ j - 1 \in 0 .. Len(a) /\ i \in 1 .. Len(a) /\ j - 1 \in Nat
  BY <1>0
<1>7. CASE i = j /\ n < m
  <2>1. TotalUpTo(f(i), n - 1) < TotalUpTo(f(j), m - 1)
    BY <1>2, <1>7
  <2> QED BY <1>1, <1>2, <1>4, <1>5, <1>6, <1>7, <2>1
<1>8. CASE i < j
  <2>1. i - 1 \in 0 .. j - 1 /\ i - 1 # j - 1 /\ (i - 1) + 1 = i
    BY <1>0, <1>6, <1>8
  <2>2. \A k \in 1 .. j - 1 : g[k] \in Nat
    BY <1>0, <1>3
  <2>3. TotalUpTo(g, i - 1) + g[i] <= TotalUpTo(g, j - 1)
    BY <1>6, <2>1, <2>2, TotalFact
  <2>4. g[i] = Total(f(i))
    BY <1>3, <1>6
  <2>5. TotalUpTo(g, i - 1) \in Nat /\ TotalUpTo(g, j - 1) \in Nat
    BY <1>5, <1>6
  <2> QED BY <1>1, <1>2, <1>4, <2>3, <2>4, <2>5
<1> QED BY <1>7, <1>8

\* The size of the response.
LEMMA SizeFact ==
  ASSUME NEW a, IsAdapter(a)
  PROVE  /\ StructSize(a) \in Nat /\ BufferSize(a) \in Nat
         /\ BufferSize(a) > 2 \/ BufferSize(a) = 1
<1> DEFINE s == FixtureSizes(a)
           g == StringSizes(a)
<1>0. DOMAIN a = 1 .. Len(a) /\ Len(a) \in Nat
  BY DEF IsAdapter
<1>1. ASSUME NEW k \in 1 .. Len(a) PROVE s[k] \in Nat /\ s[k] >= 3 /\ g[k] \in Nat
  <2>1. IsFixture(a[k])
    BY <1>0 DEF IsAdapter
  <2>2. Len(a[k].entries) \in Nat /\ 1 \in DOMAIN NamesOf(a[k])
    BY <2>1, LengthsFact
  <2>3. Total(LengthsOf(a[k])) \in Nat
    BY <2>1, <2>2, WithinFixture
  <2>4. g[k] = Total(LengthsOf(a[k])) /\ s[k] = 3 + 4 * Len(a[k].entries)
    BY <1>0 DEF StringSizes, FixtureSizes, FixtureHeader, EntrySize
  <2> QED BY <2>2, <2>3, <2>4
<1>2. s = [k \in 1 .. Len(a) |-> s[k]] /\ g = [k \in 1 .. Len(a) |-> g[k]]
  BY <1>0 DEF StringSizes, FixtureSizes
<1>3. /\ StructSize(a) = 1 + Len(a) + Total(s) /\ BufferSize(a) = StructSize(a) + Total(g)
  BY DEF StructSize, BufferSize, StringsSize, ModuleHeader
<1> HIDE DEF s, g
<1>4. Len(s) = Len(a) /\ Len(g) = Len(a)
  BY <1>0, <1>2, SequenceFact
<1>5. Total(s) = TotalUpTo(s, Len(a)) /\ Total(g) = TotalUpTo(g, Len(a))
  BY <1>4 DEF Total
<1>6. TotalUpTo(s, Len(a)) \in Nat /\ TotalUpTo(g, Len(a)) \in Nat
  <2>1. \A k \in 1 .. Len(a) : s[k] \in Nat
    BY <1>1
  <2>2. \A k \in 1 .. Len(a) : g[k] \in Nat
    BY <1>1
  <2>3. \A m \in 0 .. Len(a) : TotalUpTo(s, m) \in Nat
    BY <1>0, <2>1, TotalFact
  <2>4. \A m \in 0 .. Len(a) : TotalUpTo(g, m) \in Nat
    BY <1>0, <2>2, TotalFact
  <2> QED BY <1>0, <2>3, <2>4
<1>7. CASE Len(a) = 0
  <2>1. TotalUpTo(s, 0) = 0 /\ TotalUpTo(g, 0) = 0
    BY TotalStep
  <2> QED BY <1>3, <1>5, <1>7, <2>1
<1>8. CASE Len(a) # 0
  <2>0. TotalUpTo(s, 0) + s[0 + 1] <= TotalUpTo(s, Len(a)) /\ TotalUpTo(s, 0) = 0 /\ s[1] >= 3 /\ s[1] \in Nat
    <3>1. \A k \in 1 .. Len(a) : s[k] \in Nat
      BY <1>1
    <3>2. 0 \in 0 .. Len(a) /\ 0 # Len(a) /\ 1 \in 1 .. Len(a)
      BY <1>0, <1>8
    <3>3. TotalUpTo(s, 0) + s[0 + 1] <= TotalUpTo(s, Len(a))
      BY <1>0, <3>1, <3>2, TotalFact
    <3> QED BY <1>1, <3>2, <3>3, TotalStep
  <2>1. BufferSize(a) > 2
    BY <1>0, <1>3, <1>5, <1>6, <2>0
  <2> QED BY <1>3, <1>5, <1>6, <2>1, <1>0
<1> QED BY <1>7, <1>8

\* A name is read back as it was written.
LEMMA NameRead ==
  ASSUME NEW a, IsAdapter(a), NEW i \in DOMAIN a, NEW n \in DOMAIN NamesOf(a[i]),
         NEW r, r.strings = StringAt(a)
  PROVE  NameAt(r, NameOffset(a, i, n)) = NamesOf(a[i])[n]
<1> DEFINE offset == NameOffset(a, i, n)
           name == NamesOf(a[i])[n]
<1>1. <<offset, name>> \in r.strings
  <2> DEFINE N(k) == {<<NameOffset(a, k, m), NamesOf(a[k])[m]>> : m \in DOMAIN NamesOf(a[k])}
  <2>1. <<offset, name>> \in N(i)
    OBVIOUS
  <2>2. r.strings = UNION {N(k) : k \in DOMAIN a}
    BY DEF StringAt
  <2> HIDE DEF N, offset, name
  <2> QED BY <2>1, <2>2
<1>2. ASSUME NEW s \in r.strings, s[1] = offset PROVE s[2] = name
  <2> DEFINE N(k) == {<<NameOffset(a, k, m), NamesOf(a[k])[m]>> : m \in DOMAIN NamesOf(a[k])}
  <2>0. PICK j \in DOMAIN a : s \in N(j)
    <3>1. r.strings = UNION {N(k) : k \in DOMAIN a}
      BY DEF StringAt
    <3> HIDE DEF N
    <3> QED BY <3>1
  <2>1. PICK m \in DOMAIN NamesOf(a[j]) : s = <<NameOffset(a, j, m), NamesOf(a[j])[m]>>
    BY <2>0
  <2>2. StructSize(a) \in Nat
    BY SizeFact
  <2>3. i \in Nat /\ j \in Nat /\ n \in Nat /\ m \in Nat
    <3>1. IsFixture(a[i]) /\ IsFixture(a[j]) /\ i \in Nat /\ j \in Nat
      BY DEF IsAdapter
    <3>2. DOMAIN NamesOf(a[i]) \subseteq Nat
      BY <3>1, LengthsFact
    <3>3. DOMAIN NamesOf(a[j]) \subseteq Nat
      BY <3>1, LengthsFact
    <3> QED BY <3>1, <3>2, <3>3
  <2>4. NameOffset(a, j, m) = NameOffset(a, i, n)
    BY <1>2, <2>1
  <2>5. ~ (NameOffset(a, i, n) < NameOffset(a, i, n))
    <3>1. ASSUME NEW z, z < z PROVE z \notin Int
      BY <3>1
    <3>2. NameOffset(a, i, n) \in Int
      <4>1. /\ IsFixture(a[i]) /\ DOMAIN a = 1 .. Len(a) /\ Len(a) \in Nat
        BY DEF IsAdapter
      <4>2. TotalUpTo(LengthsOf(a[i]), n - 1) \in Nat
        BY <4>1, WithinFixture
      <4>3. TotalUpTo(StringSizes(a), i - 1) \in Nat
        <5>1. \A k \in 1 .. Len(a) : StringSizes(a)[k] \in Nat
          <6> SUFFICES ASSUME NEW k \in 1 .. Len(a) PROVE StringSizes(a)[k] \in Nat
            OBVIOUS
          <6>1. IsFixture(a[k]) /\ StringSizes(a)[k] = Total(LengthsOf(a[k]))
            BY <4>1 DEF IsAdapter, StringSizes
          <6>2. 1 \in DOMAIN NamesOf(a[k])
            BY <6>1, LengthsFact
          <6> QED BY <6>1, <6>2, WithinFixture
        <5>2. i - 1 \in 0 .. Len(a)
          BY <4>1
        <5> QED BY <4>1, <5>1, <5>2, TotalFact
      <4> QED BY <2>2, <4>2, <4>3 DEF NameOffset
    <3> QED BY <3>2
  <2>6. i = j /\ n = m
    <3>1. ~ (i < j \/ (i = j /\ n < m))
      BY <2>2, <2>4, <2>5, OffsetsAscend
    <3>2. ~ (j < i \/ (j = i /\ m < n))
      BY <2>1, <2>2, <2>4, <2>5, OffsetsAscend
    <3> QED BY <2>3, <3>1, <3>2
  <2> QED BY <2>1, <2>6
<1>3. PICK s : s = CHOOSE t \in r.strings : t[1] = offset
  OBVIOUS
<1> HIDE DEF offset, name
<1>4. \E t \in r.strings : t[1] = offset
  BY <1>1
<1>5. s \in r.strings /\ s[1] = offset
  BY <1>3, <1>4
<1>6. NameAt(r, offset) = s[2]
  BY <1>3 DEF NameAt
<1> QED BY <1>2, <1>5, <1>6 DEF offset, name

\* The entries of fixture i in the response.
IsFilled(a, i, e) == e = [j \in DOMAIN a[i].entries |-> FillEntry(a, i, j)]

\* What CfixkrpQueryModuleTestAdapter answers.
LEMMA QueryFact ==
  ASSUME NEW a, NEW maximum, NEW r, r = QueryTestAdapter(a, maximum)
  PROVE  /\ r.status \in {"error", "overflow", "ok"}
         /\ r.status = "error" <=> ~ NamesFit(a)
         /\ r.status = "overflow" <=> NamesFit(a) /\ BufferSize(a) > maximum
         /\ r.status # "error" => r.size = BufferSize(a)
         /\ r.status = "ok" =>
               /\ r.strings = StringAt(a) /\ DOMAIN r.fixtures = DOMAIN a
               /\ \A i \in DOMAIN a :
                     /\ r.fixtures[i].key = i - 1 /\ r.fixtures[i].nameLength = a[i].length
                     /\ r.fixtures[i].nameOffset = NameOffset(a, i, 1)
                     /\ IsFilled(a, i, r.fixtures[i].entries)
<1>1. CASE ~ NamesFit(a)
  BY <1>1 DEF QueryTestAdapter
<1>2. CASE NamesFit(a) /\ BufferSize(a) > maximum
  BY <1>2 DEF QueryTestAdapter
<1>3. CASE NamesFit(a) /\ ~ (BufferSize(a) > maximum)
  <2> DEFINE f == [i \in DOMAIN a |->
                          [key |-> i - 1, nameLength |-> a[i].length,
                           nameOffset |-> NameOffset(a, i, 1),
                           entries |-> [j \in DOMAIN a[i].entries |-> FillEntry(a, i, j)]]]
  <2>1. r = [status |-> "ok", size |-> BufferSize(a), fixtures |-> f, strings |-> StringAt(a)]
    BY <1>3 DEF QueryTestAdapter
  <2>2. /\ DOMAIN f = DOMAIN a
        /\ \A i \in DOMAIN a : /\ f[i].key = i - 1 /\ f[i].nameLength = a[i].length
                               /\ f[i].nameOffset = NameOffset(a, i, 1)
                               /\ f[i].entries = [j \in DOMAIN a[i].entries |-> FillEntry(a, i, j)]
    OBVIOUS
  <2> HIDE DEF f
  <2>3. r.status = "ok" /\ r.size = BufferSize(a) /\ r.fixtures = f /\ r.strings = StringAt(a)
    BY <2>1
  <2> QED BY <1>3, <2>2, <2>3 DEF IsFilled
<1> QED BY <1>1, <1>2, <1>3

\* The entries of a fixture in the response and in the definition have the same
\* types, hence a selection by type takes them from the same places.
LEMMA EntriesFact ==
  ASSUME NEW a, IsAdapter(a), NEW i \in DOMAIN a, NEW type, NEW e, IsFilled(a, i, e),
         NEW q, q = OfType(e, type), NEW t, t = OfType(a[i].entries, type)
  PROVE  /\ DOMAIN q = DOMAIN t /\ Len(q) = Len(t) /\ Len(q) \in Nat /\ DOMAIN q = 1 .. Len(q)
         /\ \A k \in DOMAIN q : \E j \in DOMAIN a[i].entries :
               q[k] = FillEntry(a, i, j) /\ t[k] = a[i].entries[j] /\ a[i].entries[j].type = type
         /\ q = <<>> <=> ~ \E j \in DOMAIN a[i].entries : a[i].entries[j].type = type
         /\ q \in Seq(Range(q))
<1> DEFINE d == a[i].entries
           S == {j \in DOMAIN d : d[j].type = type}
           p == Places(d, S)
<1>1. d \in Seq(Range(d)) /\ Len(d) \in Nat /\ DOMAIN d = 1 .. Len(d)
  BY DEF IsAdapter, IsFixture
<1>2. DOMAIN e = DOMAIN d /\ \A j \in DOMAIN d : e[j] = FillEntry(a, i, j) /\ e[j].type = d[j].type
  BY DEF IsFilled, FillEntry
<1>3. Len(e) = Len(d)
  <2>1. e = [j \in 1 .. Len(d) |-> e[j]]
    BY <1>1, <1>2 DEF IsFilled
  <2> QED BY <1>1, <2>1, SequenceFact
<1>4. t = Pick(d, S)
  BY DEF OfType
<1>5. q = Pick(e, S)
  <2>1. {j \in DOMAIN e : e[j].type = type} = S
    BY <1>2
  <2> QED BY <2>1 DEF OfType
<1>6. S \subseteq 1 .. Len(d) /\ \A j \in S : j \in DOMAIN d /\ d[j].type = type
  BY <1>1
<1> HIDE DEF S, d
<1>7. /\ p \in Seq(S) /\ DOMAIN Pick(d, S) = 1 .. Len(p) /\ Len(Pick(d, S)) = Len(p)
      /\ \A k \in DOMAIN Pick(d, S) : p[k] \in S /\ Pick(d, S)[k] = d[p[k]]
  BY <1>1, <1>6, PickFact
<1> HIDE DEF p
<1>10. /\ DOMAIN Pick(e, S) = 1 .. Len(p) /\ Len(Pick(e, S)) = Len(p)
       /\ \A k \in DOMAIN Pick(e, S) : p[k] \in S /\ Pick(e, S)[k] = e[p[k]]
       /\ Pick(e, S) = <<>> <=> S = {}
       /\ Pick(e, S) \in Seq(Range(Pick(e, S)))
  BY <1>1, <1>3, <1>6, SamePlaces DEF p
<1>11. Len(p) \in Nat
  BY <1>7
<1>12. DOMAIN q = 1 .. Len(p) /\ Len(q) = Len(p) /\ DOMAIN t = 1 .. Len(p) /\ Len(t) = Len(p)
  BY <1>4, <1>5, <1>7, <1>10
<1>13. ASSUME NEW k \in DOMAIN q
       PROVE  \E j \in DOMAIN d : q[k] = FillEntry(a, i, j) /\ t[k] = d[j] /\ d[j].type = type
  <2>1. p[k] \in S /\ q[k] = e[p[k]] /\ t[k] = d[p[k]]
    BY <1>4, <1>5, <1>7, <1>10, <1>12
  <2> QED BY <1>2, <1>6, <2>1
<1>14. q \in Seq(Range(q)) /\ (q = <<>> <=> S = {})
  BY <1>5, <1>10
<1>15. S = {} <=> ~ \E j \in DOMAIN d : d[j].type = type
  BY DEF S
<1> QED BY <1>11, <1>12, <1>13, <1>14, <1>15 DEF d

-----------------------------------------------------------------------------
(***************************************************************************)
(* The fixtures of the client.                                             *)
(***************************************************************************)

\* A set with two elements has more than one.
LEMMA MoreThanOne ==
  ASSUME NEW S, IsFiniteSet(S)
  PROVE  Cardinality(S) > 1 <=> \E j, k \in S : j # k
<1>1. CASE S = {}
  <2>1. Cardinality(S) = 0
    BY <1>1, FS_EmptySet
  <2> QED BY <1>1, <2>1
<1>2. CASE S # {}
  <2>1. PICK x : x \in S
    BY <1>2
  <2>2. IsFiniteSet(S \ {x}) /\ Cardinality(S \ {x}) = Cardinality(S) - 1
    BY <2>1, FS_RemoveElement
  <2>3. Cardinality(S \ {x}) = 0 <=> S \ {x} = {}
    BY <2>2, FS_EmptySet
  <2>4. Cardinality(S) \in Nat /\ Cardinality(S \ {x}) \in Nat
    BY <2>2, FS_CardinalityType
  <2>5. Cardinality(S) > 1 <=> S \ {x} # {}
    BY <2>2, <2>3, <2>4
  <2> QED BY <2>1, <2>5
<1> QED BY <1>1, <1>2

\* A routine twice, or an unknown entry.
Unusable(d) ==
    \/ \E j \in DOMAIN d : d[j].type \notin EntryTypes
    \/ \E j, k \in DOMAIN d : j # k /\ d[j].type = d[k].type /\ d[j].type # "testcase"

\* CfixklsCreateFixture refuses a fixture for its definition.
LEMMA InvalidFact ==
  ASSUME NEW a, IsAdapter(a), NEW i \in DOMAIN a, NEW io, IsFilled(a, i, io.entries)
  PROVE  InvalidFixture(io) <=> Unusable(a[i].entries)
<1> DEFINE d == a[i].entries
           e == io.entries
           S(t) == {j \in DOMAIN e : e[j].type = t}
<1>1. DOMAIN d = 1 .. Len(d) /\ Len(d) \in Nat
  BY DEF IsAdapter, IsFixture
<1>2. DOMAIN e = DOMAIN d /\ \A j \in DOMAIN d : e[j].type = d[j].type
  BY DEF IsFilled, FillEntry
<1>3. InvalidFixture(io) <=> \/ \E t \in EntryTypes \ {"testcase"} : Cardinality(S(t)) > 1
                             \/ \E j \in DOMAIN e : e[j].type \notin EntryTypes
  BY DEF InvalidFixture
<1> HIDE DEF d, e
<1>4. ASSUME NEW t PROVE Cardinality(S(t)) > 1 <=> \E j, k \in S(t) : j # k
  <2>1. IsFiniteSet(1 .. Len(d))
    BY <1>1, FS_Interval
  <2>2. S(t) \subseteq 1 .. Len(d)
    BY <1>1, <1>2
  <2>3. IsFiniteSet(S(t))
    BY <2>1, <2>2, FS_Subset
  <2> HIDE DEF S
  <2> QED BY <2>3, MoreThanOne
<1>5. \A t : \A j : j \in S(t) <=> j \in DOMAIN d /\ d[j].type = t
  BY <1>2
<1> HIDE DEF S
<1>6. ASSUME NEW t \in EntryTypes \ {"testcase"}, Cardinality(S(t)) > 1 PROVE Unusable(d)
  <2>1. PICK j \in S(t), k \in S(t) : j # k
    BY <1>4, <1>6
  <2>2. j \in DOMAIN d /\ k \in DOMAIN d /\ d[j].type = t /\ d[k].type = t /\ t # "testcase"
    BY <1>5, <1>6
  <2> QED BY <2>1, <2>2 DEF Unusable
<1>7. ASSUME NEW j \in DOMAIN d, NEW k \in DOMAIN d, j # k, d[j].type = d[k].type, d[j].type # "testcase",
             d[j].type \in EntryTypes
      PROVE  \E t \in EntryTypes \ {"testcase"} : Cardinality(S(t)) > 1
  <2>1. PICK t : t = d[j].type
    OBVIOUS
  <2>2. j \in S(t) /\ k \in S(t)
    BY <1>5, <1>7, <2>1
  <2>3. Cardinality(S(t)) > 1
    BY <1>4, <1>7, <2>2
  <2> QED BY <1>7, <2>1, <2>3
<1>8. InvalidFixture(io) => Unusable(d)
  BY <1>2, <1>3, <1>6 DEF Unusable
<1>9. Unusable(d) => InvalidFixture(io)
  BY <1>2, <1>3, <1>7 DEF Unusable
<1> QED BY <1>8, <1>9 DEF d

\* The key of a routine is the place of its entry.
KeyOf(d, type, key, entry) == \E j \in DOMAIN d : key = j - 1 /\ d[j] = entry /\ d[j].type = type

TagOf(d, type, tag) ==
    /\ tag.present <=> \E j \in DOMAIN d : d[j].type = type
    /\ tag.present => \E j \in DOMAIN d : KeyOf(d, type, tag.key, d[j])

CasesOf(d, cases) ==
    LET defined == OfType(d, "testcase")
    IN  /\ cases \in Seq(Range(cases)) /\ Len(cases) = Len(defined)
        /\ \A k \in DOMAIN cases : /\ cases[k].name = defined[k].name
                                   /\ KeyOf(d, "testcase", cases[k].key, defined[k])

FixtureOf(a, i, x) ==
    /\ x.name = a[i].name /\ x.key = i - 1
    /\ TagOf(a[i].entries, "setup", x.setup) /\ TagOf(a[i].entries, "teardown", x.teardown)
    /\ TagOf(a[i].entries, "before", x.before) /\ TagOf(a[i].entries, "after", x.after)
    /\ CasesOf(a[i].entries, x.testCases)

\* The routine of a type, if the fixture defines one.
LEMMA TagFact ==
  ASSUME NEW a, IsAdapter(a), NEW i \in DOMAIN a, NEW e, IsFilled(a, i, e), NEW type
  PROVE  TagOf(a[i].entries, type, RoutineTag(e, type))
<1> DEFINE d == a[i].entries
           q == OfType(e, type)
           t == OfType(d, type)
           tag == RoutineTag(e, type)
<1>1. tag = IF q = <<>> THEN Absent ELSE [present |-> TRUE, key |-> q[1].key]
  BY DEF RoutineTag
<1> HIDE DEF q, t, tag
<1>2. /\ Len(q) \in Nat /\ DOMAIN q = 1 .. Len(q)
      /\ \A k \in DOMAIN q : \E j \in DOMAIN d : q[k] = FillEntry(a, i, j) /\ t[k] = d[j] /\ d[j].type = type
      /\ q = <<>> <=> ~ \E j \in DOMAIN d : d[j].type = type
      /\ q \in Seq(Range(q))
  BY EntriesFact DEF q, t
<1>3. CASE q = <<>>
  <2>1. tag.present = FALSE
    BY <1>1, <1>3 DEF Absent
  <2> QED BY <1>2, <1>3, <2>1 DEF TagOf, tag
<1>4. CASE q # <<>>
  <2>1. tag.present = TRUE /\ tag.key = q[1].key
    BY <1>1, <1>4
  <2>2. PICK j0 \in DOMAIN d : d[j0].type = type
    BY <1>2, <1>4
  <2>3. 1 \in DOMAIN q
    BY <1>2, <1>4
  <2>4. PICK j \in DOMAIN d : q[1] = FillEntry(a, i, j) /\ d[j].type = type
    BY <1>2, <2>3
  <2>5. q[1].key = j - 1
    BY <2>4 DEF FillEntry
  <2>6. KeyOf(d, type, tag.key, d[j])
    BY <2>1, <2>4, <2>5 DEF KeyOf
  <2> QED BY <2>1, <2>2, <2>6 DEF TagOf, tag
<1> QED BY <1>3, <1>4

\* The test cases, in the order of the definition.
LEMMA CasesFact ==
  ASSUME NEW a, IsAdapter(a), NEW i \in DOMAIN a, NEW e, IsFilled(a, i, e),
         NEW r, r.strings = StringAt(a), NEW cases,
         cases = [k \in DOMAIN OfType(e, "testcase") |->
                    [key  |-> OfType(e, "testcase")[k].key,
                     name |-> NameAt(r, OfType(e, "testcase")[k].nameOffset)]]
  PROVE  CasesOf(a[i].entries, cases)
<1> DEFINE d == a[i].entries
           q == OfType(e, "testcase")
           t == OfType(d, "testcase")
<1>1. /\ DOMAIN cases = DOMAIN q
      /\ \A k \in DOMAIN q : cases[k].key = q[k].key /\ cases[k].name = NameAt(r, q[k].nameOffset)
      /\ cases = [k \in DOMAIN q |-> cases[k]]
  OBVIOUS
<1> HIDE DEF q, t
<1>2. /\ DOMAIN q = DOMAIN t /\ Len(q) = Len(t) /\ Len(q) \in Nat /\ DOMAIN q = 1 .. Len(q)
      /\ \A k \in DOMAIN q : \E j \in DOMAIN d : q[k] = FillEntry(a, i, j) /\ t[k] = d[j] /\ d[j].type = "testcase"
  BY EntriesFact DEF q, t
<1>3. cases \in Seq(Range(cases)) /\ Len(cases) = Len(t)
  <2>1. cases = [k \in 1 .. Len(q) |-> cases[k]]
    BY <1>1, <1>2
  <2>2. cases \in Seq(Range(cases)) /\ Len(cases) = Len(q)
    BY <1>2, <2>1, SequenceFact
  <2> QED BY <1>2, <2>2
<1>4. ASSUME NEW k \in DOMAIN cases
      PROVE  cases[k].name = t[k].name /\ KeyOf(d, "testcase", cases[k].key, t[k])
  <2>1. PICK j \in DOMAIN d : q[k] = FillEntry(a, i, j) /\ t[k] = d[j] /\ d[j].type = "testcase"
    BY <1>1, <1>2
  <2>2. q[k].key = j - 1 /\ q[k].nameOffset = NameOffset(a, i, j + 1)
    BY <2>1 DEF FillEntry
  <2>3. IsFixture(a[i])
    BY DEF IsAdapter
  <2>4. Len(d) \in Nat /\ DOMAIN d = 1 .. Len(d) /\ DOMAIN NamesOf(a[i]) = 1 .. 1 + Len(d)
    BY <2>3, LengthsFact
  <2>5. j + 1 \in 1 .. 1 + Len(d) /\ j + 1 # 1 /\ (j + 1) - 1 = j
    BY <2>4
  <2>6. NamesOf(a[i])[j + 1] = d[j].name
    BY <2>5 DEF NamesOf
  <2>7. NameAt(r, NameOffset(a, i, j + 1)) = NamesOf(a[i])[j + 1]
    BY <2>4, <2>5, NameRead
  <2>8. cases[k].name = t[k].name
    BY <1>1, <2>1, <2>2, <2>6, <2>7
  <2>9. KeyOf(d, "testcase", cases[k].key, t[k])
    BY <1>1, <2>1, <2>2 DEF KeyOf
  <2> QED BY <2>8, <2>9
<1> QED BY <1>3, <1>4 DEF CasesOf, t

\* CfixklsCreateFixture: a fixture is refused, or it is the one of the adapter.
LEMMA CreateFact ==
  ASSUME NEW a, IsAdapter(a), NEW maximum, NEW r, r = QueryTestAdapter(a, maximum), r.status = "ok",
         NEW i \in DOMAIN a, a[i].length <= MaxFixtureName,
         NEW x, x = CreateFixture(r, r.fixtures[i])
  PROVE  /\ x = Failed <=> Unusable(a[i].entries)
         /\ x # Failed => FixtureOf(a, i, x)
<1> DEFINE io == r.fixtures[i]
           e == io.entries
           cases == [k \in DOMAIN OfType(e, "testcase") |->
                       [key  |-> OfType(e, "testcase")[k].key,
                        name |-> NameAt(r, OfType(e, "testcase")[k].nameOffset)]]
<1>1. /\ r.strings = StringAt(a) /\ io.key = i - 1 /\ io.nameOffset = NameOffset(a, i, 1)
      /\ io.nameLength = a[i].length /\ IsFilled(a, i, e)
  BY QueryFact
<1>0. ~ (io.nameLength > MaxFixtureName)
  <2>1. a[i].length \in Nat /\ MaxFixtureName \in Nat
    BY ModuleAssumption DEF IsAdapter, IsFixture
  <2>2. io.nameLength = a[i].length
    BY <1>1
  <2> HIDE DEF io
  <2> QED BY <2>1, <2>2
<1>2. x = IF io.nameLength > MaxFixtureName \/ InvalidFixture(io) THEN Failed
          ELSE [name |-> NameAt(r, io.nameOffset), key |-> io.key,
                setup |-> RoutineTag(e, "setup"), teardown |-> RoutineTag(e, "teardown"),
                before |-> RoutineTag(e, "before"), after |-> RoutineTag(e, "after"),
                testCases |-> cases]
  BY DEF CreateFixture
<1>3. CasesOf(a[i].entries, cases)
  BY <1>1, CasesFact
<1> HIDE DEF io, e, cases
<1>4. InvalidFixture(io) <=> Unusable(a[i].entries)
  BY <1>1, InvalidFact DEF e
<1>5. NameAt(r, io.nameOffset) = a[i].name
  <2>1. IsFixture(a[i])
    BY DEF IsAdapter
  <2>2. Len(a[i].entries) \in Nat /\ DOMAIN NamesOf(a[i]) = 1 .. 1 + Len(a[i].entries)
    BY <2>1, LengthsFact
  <2>3. 1 \in 1 .. 1 + Len(a[i].entries)
    BY <2>2
  <2>4. NamesOf(a[i])[1] = a[i].name
    BY <2>3 DEF NamesOf
  <2>5. NameAt(r, NameOffset(a, i, 1)) = NamesOf(a[i])[1]
    BY <1>1, <2>2, <2>3, NameRead
  <2> QED BY <1>1, <2>4, <2>5
<1>6. CASE InvalidFixture(io)
  BY <1>2, <1>4, <1>6
<1>7. CASE ~ InvalidFixture(io)
  <2>1. x = [name |-> a[i].name, key |-> i - 1,
             setup |-> RoutineTag(e, "setup"), teardown |-> RoutineTag(e, "teardown"),
             before |-> RoutineTag(e, "before"), after |-> RoutineTag(e, "after"),
             testCases |-> cases]
    BY <1>0, <1>1, <1>2, <1>5, <1>7
  <2>2. x # Failed
    BY <2>1 DEF Failed
  <2>3. /\ x.name = a[i].name /\ x.key = i - 1 /\ x.setup = RoutineTag(e, "setup")
        /\ x.teardown = RoutineTag(e, "teardown") /\ x.before = RoutineTag(e, "before")
        /\ x.after = RoutineTag(e, "after") /\ x.testCases = cases
    BY <2>1
  <2>4. TagOf(a[i].entries, "setup", x.setup)
    BY <1>1, <2>3, TagFact
  <2>5. TagOf(a[i].entries, "teardown", x.teardown)
    BY <1>1, <2>3, TagFact
  <2>6. TagOf(a[i].entries, "before", x.before)
    BY <1>1, <2>3, TagFact
  <2>7. TagOf(a[i].entries, "after", x.after)
    BY <1>1, <2>3, TagFact
  <2>8. FixtureOf(a, i, x)
    BY <1>3, <2>3, <2>4, <2>5, <2>6, <2>7 DEF FixtureOf
  <2> QED BY <1>4, <1>7, <2>2, <2>8
<1> QED BY <1>6, <1>7

\* CfixkrpGetRoutineTestAdapter finds the routine by its keys.
LEMMA RoutineFact ==
  ASSUME NEW a, IsAdapter(a), NEW i \in DOMAIN a, NEW type, NEW key, NEW entry,
         KeyOf(a[i].entries, type, key, entry)
  PROVE  /\ GetRoutine(a, i - 1, key) = [fixture |-> a[i].name, entry |-> entry] /\ entry.type = type
<1>1. PICK j \in DOMAIN a[i].entries : key = j - 1 /\ a[i].entries[j] = entry /\ a[i].entries[j].type = type
  BY DEF KeyOf
<1>2. /\ DOMAIN a = 1 .. Len(a) /\ Len(a) \in Nat
      /\ DOMAIN a[i].entries = 1 .. Len(a[i].entries) /\ Len(a[i].entries) \in Nat
  BY DEF IsAdapter, IsFixture
<1>3. ~ (i - 1 >= Len(a)) /\ (i - 1) + 1 = i /\ ~ (j - 1 >= Len(a[i].entries)) /\ (j - 1) + 1 = j
  BY <1>2
<1> QED BY <1>1, <1>3 DEF GetRoutine

-----------------------------------------------------------------------------
(***************************************************************************)
(* Loading the module.                                                     *)
(***************************************************************************)

\* What each stage has established.
ListInv ==
    /\ image \in Images
    /\ Driver \in registered /\ registered \subseteq Others \cup {Driver}
    /\ stage \in Stages /\ capacity \in Nat
    /\ stage = "search" => \E i \in DOMAIN listed : listed[i] = Driver
    /\ stage \in {"size", "query", "create", "run"} => base = Driver

QueryInv ==
    /\ \A i \in DOMAIN Adapter : Adapter[i].length <= MaxFixtureName
    /\ stage \in {"query", "create", "run"} => NamesFit(Adapter) /\ size = BufferSize(Adapter)
    /\ stage \in {"create", "run"} => response = QueryTestAdapter(Adapter, size) /\ response.status = "ok"

FixturesInv ==
    stage = "run" =>
        /\ module \in Seq(Range(module)) /\ Len(module) = Len(Adapter) /\ DOMAIN module = DOMAIN Adapter
        /\ \A i \in DOMAIN Adapter : FixtureOf(Adapter, i, module[i]) /\ ~ Unusable(Adapter[i].entries)

RefusalInv == stage = "failed" => Refused \/ Cardinality(registered) > capacity

LoadInv == ListInv /\ QueryInv /\ FixturesInv /\ RefusalInv

\* The client refuses what cannot be represented.
LEMMA RefusedFact ==
  ASSUME image \in Images
  PROVE  Refused <=> ~ NamesFit(Adapter) \/ \E i \in DOMAIN Adapter : Unusable(Adapter[i].entries)
<1> DEFINE a == Adapter
<1>1. /\ IsAdapter(a) /\ DOMAIN a = DOMAIN Candidates
      /\ \A i \in DOMAIN a : a[i].entries = Defined(i).definition
  BY AdapterFact
<1> HIDE DEF a
<1>2. Refused <=> \E i \in DOMAIN a : \/ \E j \in DOMAIN a[i].entries : a[i].entries[j].length >= MaxNameLength
                                      \/ Unusable(a[i].entries)
  BY <1>1 DEF Refused, Unusable
<1>3. ASSUME NEW i \in DOMAIN a, NEW j \in DOMAIN a[i].entries
      PROVE  a[i].entries[j].length >= MaxNameLength <=> ~ (a[i].entries[j].length < MaxNameLength)
  <2>1. a[i].entries[j].length \in Nat /\ MaxNameLength \in Nat
    BY <1>1, ModuleAssumption DEF IsAdapter, IsFixture
  <2> QED BY <2>1
<1>4. NamesFit(a) <=> \A i \in DOMAIN a : \A j \in DOMAIN a[i].entries : a[i].entries[j].length < MaxNameLength
  BY DEF NamesFit
<1> QED BY <1>2, <1>3, <1>4 DEF a

\* CfixkrpGetDriverConnections lists every driver that is registered.
LEMMA ListedFact ==
  ASSUME NEW S, S \subseteq Others \cup {Driver}, Driver \in S, NEW s \in SetToSeqs(S)
  PROVE  \E i \in DOMAIN s : s[i] = Driver
<1> DEFINE D == 1 .. Cardinality(S)
<1>1. IsFiniteSet(S)
  <2>1. IsFiniteSet(Others \cup {Driver})
    BY ModuleAssumption, FS_AddElement
  <2> QED BY <2>1, FS_Subset
<1>2. Cardinality(S) \in Nat
  BY <1>1, FS_CardinalityType
<1>3. IsFiniteSet(D) /\ Cardinality(D) = Cardinality(S)
  BY <1>2, FS_Interval
<1>4. s \in [D -> S] /\ \A i, j \in D : i # j => s[i] # s[j]
  BY DEF SetToSeqs
<1> HIDE DEF D
<1>5. SUFFICES ASSUME \A i \in D : s[i] # Driver PROVE FALSE
  BY <1>4
<1>6. s \in [D -> S \ {Driver}]
  BY <1>4, <1>5
<1>7. IsFiniteSet(S \ {Driver}) /\ Cardinality(S \ {Driver}) = Cardinality(S) - 1
  BY <1>1, FS_RemoveElement
<1>8. Cardinality(S \ {Driver}) < Cardinality(D)
  BY <1>2, <1>3, <1>7
<1>9. \E x, y \in D : x # y /\ s[x] = s[y]
  BY <1>3, <1>6, <1>7, <1>8, FS_PigeonHole
<1> QED BY <1>4, <1>9

\* An image does not change while it is loaded.
LEMMA SameImage ==
  ASSUME image' = image
  PROVE  Adapter' = Adapter /\ (Refused' <=> Refused)
<1>1. Candidates' = Candidates
  BY DEF Candidates
<1>2. Adapter' = Adapter
  BY <1>1 DEF Adapter
<1>3. Refused' <=> Refused
  BY <1>1 DEF Refused, Defined
<1> QED BY <1>2, <1>3

\* Steps that only move to another stage, or not even that.
LEMMA QuietPreserves ==
  ASSUME LoadInv, UNCHANGED <<image, size, response, module>>,
         stage' = stage \/ stage' \in {"list", "relist", "search", "size", "failed", "exhausted"}
  PROVE  QueryInv' /\ FixturesInv' /\ (stage' # "failed" => RefusalInv')
<1>1. Adapter' = Adapter /\ (Refused' <=> Refused)
  BY SameImage
<1>2. QueryInv' /\ FixturesInv'
  BY <1>1 DEF LoadInv, QueryInv, FixturesInv
<1>3. stage' # "failed" => RefusalInv'
  BY DEF RefusalInv
<1> QED BY <1>2, <1>3

\* The drivers that are connected can be counted.
LEMMA RegisteredFact ==
  ASSUME ListInv
  PROVE  Cardinality(registered) \in Nat
<1>1. IsFiniteSet(Others \cup {Driver})
  BY ModuleAssumption, FS_AddElement
<1>2. IsFiniteSet(registered)
  BY <1>1, FS_Subset DEF ListInv
<1> QED BY <1>2, FS_CardinalityType

\* The driver of the module is found.
LEMMA SearchPreserves ==
  ASSUME LoadInv,
         \/ \E d \in Others : OtherDriver(d)
         \/ ListModules \/ ListModulesAgain \/ FindBaseAddressDriver \/ OutOfMemory
  PROVE  LoadInv'
<1>1. ASSUME NEW d \in Others, OtherDriver(d) PROVE LoadInv'
  <2>1. /\ UNCHANGED <<image, stage, capacity, listed, base, size, response, module>>
        /\ stage # "failed"
    BY <1>1 DEF OtherDriver
  <2>2. Driver \in registered' /\ registered' \subseteq Others \cup {Driver}
    BY <1>1, ModuleAssumption DEF OtherDriver, LoadInv, ListInv
  <2>3. ListInv'
    BY <2>1, <2>2 DEF LoadInv, ListInv
  <2> QED BY <2>1, <2>3, QuietPreserves DEF LoadInv
<1>2. CASE ListModules
  <2>1. /\ UNCHANGED <<image, registered, changes, base, size, response, module>>
        /\ stage' \in {"search", "relist"}
        /\ stage' = "search" => listed' \in SetToSeqs(registered)
        /\ capacity' \in {capacity, Cardinality(registered)}
    BY <1>2 DEF ListModules, GetDriverConnections
  <2>2. capacity' \in Nat
    BY <2>1, RegisteredFact DEF LoadInv, ListInv
  <2>3. stage' = "search" => \E i \in DOMAIN listed' : listed'[i] = Driver
    BY <2>1, ListedFact DEF LoadInv, ListInv
  <2>4. ListInv'
    BY <2>1, <2>2, <2>3 DEF LoadInv, ListInv, Stages
  <2> QED BY <2>1, <2>4, QuietPreserves DEF LoadInv
<1>3. CASE ListModulesAgain
  <2>1. /\ UNCHANGED <<image, registered, changes, capacity, base, size, response, module>>
        /\ stage' \in {"search", "failed"}
        /\ stage' = "search" => listed' \in SetToSeqs(registered)
        /\ stage' = "failed" => ~ (Cardinality(registered) <= capacity)
    BY <1>3 DEF ListModulesAgain, GetDriverConnections
  <2>2. stage' = "search" => \E i \in DOMAIN listed' : listed'[i] = Driver
    BY <2>1, ListedFact DEF LoadInv, ListInv
  <2>3. ListInv'
    BY <2>1, <2>2 DEF LoadInv, ListInv, Stages
  <2>4. stage' = "failed" => RefusalInv'
    <3>1. Cardinality(registered) \in Nat /\ capacity \in Nat
      BY RegisteredFact DEF LoadInv, ListInv
    <3> QED BY <2>1, <3>1 DEF RefusalInv
  <2> QED BY <2>1, <2>3, <2>4, QuietPreserves DEF LoadInv
<1>4. CASE FindBaseAddressDriver
  <2>1. PICK i \in DOMAIN listed : listed[i] = Driver /\ Driver \in registered
    BY <1>4 DEF FindBaseAddressDriver, LoadInv, ListInv
  <2>2. {k \in DOMAIN listed : listed[k] = Driver /\ listed[k] \in registered} # {}
    BY <2>1
  <2>3. /\ UNCHANGED <<image, registered, changes, capacity, listed, size, response, module>>
        /\ base' = Driver /\ stage' = "size"
    BY <1>4, <2>2 DEF FindBaseAddressDriver
  <2>4. ListInv'
    BY <2>3 DEF LoadInv, ListInv, Stages
  <2> QED BY <2>3, <2>4, QuietPreserves DEF LoadInv
<1>5. CASE OutOfMemory
  <2>1. /\ UNCHANGED <<image, registered, changes, capacity, listed, base, size, response, module>>
        /\ stage' = "exhausted"
    BY <1>5 DEF OutOfMemory
  <2>2. ListInv'
    BY <2>1 DEF LoadInv, ListInv, Stages
  <2> QED BY <2>1, <2>2, QuietPreserves DEF LoadInv
<1> QED BY <1>1, <1>2, <1>3, <1>4, <1>5

\* The first query yields the size of the second one, or refuses the module.
LEMMA SizePreserves ==
  ASSUME LoadInv, QuerySizeForQueryModuleRequest
  PROVE  LoadInv'
<1> DEFINE r == QueryTestAdapter(Adapter, ModuleHeader + 1)
<1>1. /\ stage = "size" /\ UNCHANGED <<image, registered, changes, capacity, listed, base, response, module>>
      /\ size' = CASE r.status = "ok" -> ModuleHeader [] r.status = "overflow" -> r.size [] OTHER -> 0
      /\ stage' = IF r.status = "error" THEN "failed" ELSE "query"
  BY DEF QuerySizeForQueryModuleRequest
<1>2. image \in Images /\ base = Driver
  BY <1>1 DEF LoadInv, ListInv
<1>3. IsAdapter(Adapter)
  BY <1>2, AdapterFact
<1>4. /\ r.status \in {"error", "overflow", "ok"}
      /\ r.status = "error" <=> ~ NamesFit(Adapter)
      /\ r.status = "overflow" <=> NamesFit(Adapter) /\ BufferSize(Adapter) > ModuleHeader + 1
      /\ r.status # "error" => r.size = BufferSize(Adapter)
  BY QueryFact
<1>5. BufferSize(Adapter) \in Nat /\ (BufferSize(Adapter) > 2 \/ BufferSize(Adapter) = 1)
  BY <1>3, SizeFact
<1>6. Adapter' = Adapter /\ (Refused' <=> Refused)
  BY <1>1, SameImage
<1> HIDE DEF r
<1>7. r.status # "error" => size' = BufferSize(Adapter) /\ NamesFit(Adapter)
  BY <1>1, <1>4, <1>5 DEF ModuleHeader
<1>8. ListInv'
  BY <1>1 DEF LoadInv, ListInv, Stages
<1>9. QueryInv' /\ FixturesInv'
  BY <1>1, <1>6, <1>7 DEF LoadInv, QueryInv, FixturesInv
<1>10. stage' = "failed" => Refused
  BY <1>1, <1>2, <1>4, RefusedFact
<1> QED BY <1>6, <1>8, <1>9, <1>10 DEF LoadInv, RefusalInv

\* The second query succeeds: its size is that of the response.
LEMMA QueryPreserves ==
  ASSUME LoadInv, QueryModule
  PROVE  LoadInv'
<1>1. /\ stage = "query" /\ UNCHANGED <<image, registered, changes, capacity, listed, base, size, module>>
      /\ response' = QueryTestAdapter(Adapter, size)
      /\ stage' = IF response'.status = "ok" THEN "create" ELSE "failed"
  BY DEF QueryModule
<1>2. image \in Images /\ base = Driver /\ NamesFit(Adapter) /\ size = BufferSize(Adapter)
  BY <1>1 DEF LoadInv, ListInv, QueryInv
<1>3. BufferSize(Adapter) \in Nat
  BY <1>2, AdapterFact, SizeFact
<1>4. /\ response'.status \in {"error", "overflow", "ok"}
      /\ response'.status = "error" <=> ~ NamesFit(Adapter)
      /\ response'.status = "overflow" <=> NamesFit(Adapter) /\ BufferSize(Adapter) > size
  BY <1>1, QueryFact
<1>5. response'.status = "ok" /\ stage' = "create"
  BY <1>1, <1>2, <1>3, <1>4
<1>6. Adapter' = Adapter
  BY <1>1, SameImage
<1>7. ListInv'
  BY <1>1, <1>5 DEF LoadInv, ListInv, Stages
<1>8. QueryInv' /\ FixturesInv' /\ RefusalInv'
  BY <1>1, <1>2, <1>5, <1>6 DEF LoadInv, QueryInv, FixturesInv, RefusalInv
<1> QED BY <1>7, <1>8 DEF LoadInv

\* The fixtures are created, or one of them is refused.
LEMMA FixturesPreserve ==
  ASSUME LoadInv, InitializeModule
  PROVE  LoadInv'
<1> DEFINE a == Adapter
<1>1. /\ stage = "create" /\ UNCHANGED <<image, registered, changes, capacity, listed, base, size, response>>
      /\ module' = [i \in DOMAIN response.fixtures |-> CreateFixture(response, response.fixtures[i])]
      /\ stage' = IF \E i \in DOMAIN module' : module'[i] = Failed THEN "failed" ELSE "run"
  BY DEF InitializeModule
<1>2. /\ image \in Images /\ base = Driver /\ NamesFit(a) /\ size = BufferSize(a)
      /\ response = QueryTestAdapter(a, size) /\ response.status = "ok"
  BY <1>1 DEF LoadInv, ListInv, QueryInv
<1>3. IsAdapter(a)
  BY <1>2, AdapterFact
<1>4. a' = a /\ (Refused' <=> Refused)
  BY <1>1, SameImage
<1>5. Refused <=> ~ NamesFit(a) \/ \E i \in DOMAIN a : Unusable(a[i].entries)
  BY <1>2, RefusedFact
<1> HIDE DEF a
<1>6. DOMAIN response.fixtures = DOMAIN a
  BY <1>2, QueryFact
<1>7. DOMAIN a = 1 .. Len(a) /\ Len(a) \in Nat
  BY <1>3 DEF IsAdapter
<1>8. module' \in Seq(Range(module')) /\ DOMAIN module' = DOMAIN a /\ Len(module') = Len(a)
  <2>1. module' = [i \in 1 .. Len(a) |-> module'[i]]
    BY <1>1, <1>6, <1>7
  <2>2. module' \in Seq(Range(module')) /\ Len(module') = Len(a) /\ DOMAIN module' = 1 .. Len(a)
    BY <1>7, <2>1, SequenceFact
  <2> QED BY <1>7, <2>2
<1>9. ASSUME NEW i \in DOMAIN a
      PROVE  /\ module'[i] = Failed <=> Unusable(a[i].entries)
             /\ module'[i] # Failed => FixtureOf(a, i, module'[i])
  <2>1. module'[i] = CreateFixture(response, response.fixtures[i])
    BY <1>1, <1>6
  <2>2. a[i].length <= MaxFixtureName
    BY DEF LoadInv, QueryInv, a
  <2> QED BY <1>2, <1>3, <2>1, <2>2, CreateFact
<1>10. ListInv'
  BY <1>1 DEF LoadInv, ListInv, Stages
<1>11. QueryInv'
  BY <1>1, <1>2, <1>4 DEF LoadInv, QueryInv, a
<1>12. FixturesInv'
  <2> SUFFICES ASSUME stage' = "run" PROVE \A i \in DOMAIN a : FixtureOf(a, i, module'[i]) /\ ~ Unusable(a[i].entries)
    BY <1>4, <1>8 DEF FixturesInv, a
  <2>1. \A i \in DOMAIN a : module'[i] # Failed
    BY <1>1, <1>8
  <2> QED BY <1>9, <2>1
<1>13. RefusalInv'
  BY <1>1, <1>4, <1>5, <1>8, <1>9 DEF RefusalInv
<1> QED BY <1>10, <1>11, <1>12, <1>13 DEF LoadInv

\* The invariant of loading.
THEOREM LoadInvariance == Spec => []LoadInv
<1>1. Init => LoadInv
  <2> SUFFICES ASSUME Init PROVE LoadInv
    OBVIOUS
  <2>1. image \in Images /\ stage = "list" /\ capacity \in Nat
    BY DEF Init, ModuleInit
  <2>3. \A i \in DOMAIN Adapter : Adapter[i].length <= MaxFixtureName
    BY <2>1, ShortNames DEF Init, ModuleInit
  <2>2. Driver \in registered /\ registered \subseteq Others \cup {Driver}
    BY DEF Init, ModuleInit
  <2> QED BY <2>1, <2>2, <2>3 DEF LoadInv, ListInv, QueryInv, FixturesInv, RefusalInv, Stages
<1>2. LoadInv /\ [Next]_vars => LoadInv'
  <2> SUFFICES ASSUME LoadInv, [Next]_vars PROVE LoadInv'
    OBVIOUS
  <2>1. CASE ModuleNext
    BY <2>1, SearchPreserves, SizePreserves, QueryPreserves, FixturesPreserve DEF ModuleNext
  <2>2. CASE UNCHANGED moduleVars
    <3>1. Adapter' = Adapter /\ (Refused' <=> Refused)
      BY <2>2, SameImage DEF moduleVars
    <3>2. ListInv'
      BY <2>2 DEF LoadInv, ListInv, moduleVars
    <3>3. QueryInv' /\ FixturesInv' /\ RefusalInv'
      BY <2>2, <3>1 DEF LoadInv, QueryInv, FixturesInv, RefusalInv, moduleVars
    <3> QED BY <3>2, <3>3 DEF LoadInv
  <2>3. ASSUME NEW t \in {Main, Child}, Step(t) PROVE UNCHANGED moduleVars
    BY <2>3 DEF Step, ReportLog, ReportFailedAssertion, FailedAssertionBreaks, ReportInconclusiveness, SetValue,
                Fail, UnhandledException, Unhandled, RaiseIrql, ReturnFromRoutine, CallFrame
  <2>4. CreateSystemThread \/ Client \/ Terminated \/ UNCHANGED vars => UNCHANGED moduleVars
    BY DEF CreateSystemThread, CallFrame, Client, StartFixtures, RunRoutine, RunAbsentRoutine, SlotFails, CallFails,
           CallReturns, ClientFrame, Terminated, vars
  <2> QED BY <2>1, <2>2, <2>3, <2>4 DEF Next
<1> QED BY <1>1, <1>2, PTL DEF Spec

\* CfixklsInitializeModule: the fixtures of the client are those of the image, with
\* its names and keys, and only an image that cannot be represented is refused, or
\* one that is looked for when more drivers are connected than the list has room
\* for.
THEOREM ModuleFaithfulHolds == Spec => []ModuleFaithful
<1>1. LoadInv => ModuleFaithful
  <2> SUFFICES ASSUME LoadInv PROVE ModuleFaithful
    OBVIOUS
  <2> DEFINE a == Adapter
  <2>1. CASE stage # "run"
    BY <2>1 DEF ModuleFaithful, LoadInv, RefusalInv
  <2>2. CASE stage = "run"
    <3>1. /\ image \in Images /\ base = Driver /\ NamesFit(a) /\ size = BufferSize(a)
          /\ response = QueryTestAdapter(a, size) /\ response.status = "ok"
          /\ DOMAIN module = DOMAIN a /\ Len(module) = Len(a)
          /\ \A i \in DOMAIN a : FixtureOf(a, i, module[i]) /\ ~ Unusable(a[i].entries)
      BY <2>2 DEF LoadInv, ListInv, QueryInv, FixturesInv
    <3>2. /\ IsAdapter(a) /\ Len(a) = Len(Candidates)
          /\ \A i \in DOMAIN a : a[i].name = Defined(i).name[1] /\ a[i].entries = Defined(i).definition
      BY <3>1, AdapterFact
    <3>3. ~ Refused
      BY <3>1, RefusedFact
    <3>4. response.size = size
      BY <3>1, QueryFact
    <3> HIDE DEF a
    <3>5. ASSUME NEW i \in DOMAIN a
          PROVE  /\ module[i].name = Defined(i).name[1]
                 /\ Len(module[i].testCases) = Len(DefinedCases(i))
                 /\ \A j \in DOMAIN module[i].testCases :
                       /\ module[i].testCases[j].name = DefinedCases(i)[j].name
                       /\ GetRoutine(a, module[i].key, module[i].testCases[j].key).entry = DefinedCases(i)[j]
      <4> DEFINE x == module[i]
                 d == a[i].entries
                 t == DefinedCases(i)
      <4>1. t = OfType(d, "testcase")
        BY <3>2 DEF DefinedCases
      <4>2. x.name = a[i].name /\ x.key = i - 1 /\ CasesOf(d, x.testCases)
        BY <3>1 DEF FixtureOf
      <4> HIDE DEF t
      <4>3. /\ Len(x.testCases) = Len(t)
            /\ \A j \in DOMAIN x.testCases : /\ x.testCases[j].name = t[j].name
                                             /\ KeyOf(d, "testcase", x.testCases[j].key, t[j])
        BY <4>1, <4>2 DEF CasesOf
      <4>4. ASSUME NEW j \in DOMAIN x.testCases
            PROVE  GetRoutine(a, x.key, x.testCases[j].key).entry = t[j]
        <5>1. KeyOf(d, "testcase", x.testCases[j].key, t[j])
          BY <4>3
        <5>2. GetRoutine(a, i - 1, x.testCases[j].key) = [fixture |-> a[i].name, entry |-> t[j]]
          BY <3>2, <5>1, RoutineFact
        <5> QED BY <4>2, <5>2
      <4> QED BY <3>2, <4>2, <4>3, <4>4 DEF t
    <3> QED BY <2>2, <3>1, <3>2, <3>3, <3>4, <3>5 DEF ModuleFaithful, a
  <2> QED BY <2>1, <2>2
<1> QED BY <1>1, LoadInvariance, PTL

-----------------------------------------------------------------------------
(***************************************************************************)
(* The routine whose turn it is.                                           *)
(***************************************************************************)

TurnInv ==
    /\ phase # "load" => stage = "run"
    /\ phase = "load" => at = 1
    /\ phase \in {"load", "setup"} => tc = 1
    /\ phase \in Calls => at \in DOMAIN module
    /\ phase \in {"before", "testcase", "after"} => tc \in DOMAIN module[at].testCases

\* The routine that runs is the one the keys of the request lead to.
RequestInv ==
    routine # NoRoutine => Tag.present /\ routine = GetRoutine(Adapter, module[at].key, Tag.key)

\* The fixtures and their test cases are sequences.
LEMMA ModuleFact ==
  ASSUME LoadInv, stage = "run"
  PROVE  /\ module \in Seq(Range(module))
         /\ \A i \in DOMAIN module : module[i].testCases \in Seq(Range(module[i].testCases))
  BY DEF LoadInv, FixturesInv, FixtureOf, CasesOf

\* CfixsRunFixtureExecutionAction stays within the fixtures and their test cases.
LEMMA TurnFact ==
  ASSUME LoadInv, TurnInv, phase \in Calls, hrTest \in Results, NEW h \in Results, Proceed(h), tc \in Nat,
         UNCHANGED <<stage, module>>
  PROVE  TurnInv'
<1> DEFINE cases == module[at].testCases
<1>1. stage = "run" /\ at \in DOMAIN module /\ phase # "load"
  BY DEF TurnInv, Calls
<1>2. /\ module \in Seq(Range(module)) /\ cases \in Seq(Range(cases))
      /\ at \in Nat /\ DOMAIN module = 1 .. Len(module) /\ Len(module) \in Nat
      /\ DOMAIN cases = 1 .. Len(cases) /\ Len(cases) \in Nat
  BY <1>1, ModuleFact
<1>3. phase \in {"before", "testcase", "after"} => tc \in DOMAIN cases
  BY DEF TurnInv
<1>4. UNCHANGED module /\ stage' = "run"
  BY <1>1
<1>5. ASSUME NextFixture PROVE TurnInv'
  <2>1. at' = at + 1 /\ tc' = 1 /\ phase' = IF at < Len(module) THEN "setup" ELSE "end"
    BY <1>5 DEF NextFixture
  <2>2. at < Len(module) => at' \in DOMAIN module
    BY <1>2, <2>1
  <2> QED BY <1>4, <2>1, <2>2 DEF TurnInv, Calls
<1>6. ASSUME NextTestCase, tc \in DOMAIN cases PROVE TurnInv'
  <2>1. tc' = tc + 1 /\ at' = at /\ phase' = IF tc < Len(cases) THEN "before" ELSE "teardown"
    BY <1>6 DEF NextTestCase
  <2>2. tc < Len(cases) => tc' \in DOMAIN cases
    BY <1>2, <1>6, <2>1
  <2> QED BY <1>1, <1>4, <2>1, <2>2 DEF TurnInv, Calls
<1>7. ASSUME NEW p \in {"testcase", "after", "teardown", "end"}, Goto(p),
             p \in {"testcase", "after"} => tc \in DOMAIN cases
      PROVE  TurnInv'
  BY <1>1, <1>4, <1>7 DEF Goto, TurnInv, Calls
<1>8. ASSUME NEW r \in Results, TestCaseEnds(r), tc \in DOMAIN cases PROVE TurnInv'
  <2>1. CASE r \in {"ok", "failed"}
    <3>1. NextTestCase
      BY <1>8, <2>1 DEF TestCaseEnds
    <3> QED BY <1>6, <1>8, <3>1
  <2>2. CASE r = "aborted"
    <3>1. Goto("teardown")
      BY <1>8, <2>2 DEF TestCaseEnds
    <3> QED BY <1>7, <3>1
  <2>3. CASE r = "fatal"
    <3>1. Goto("end")
      BY <1>8, <2>3 DEF TestCaseEnds
    <3> QED BY <1>7, <3>1
  <2> QED BY <2>1, <2>2, <2>3 DEF Results
<1>9. CASE phase = "setup"
  <2>1. CASE h = "ok"
    <3>1. phase' = (IF cases = <<>> THEN "teardown" ELSE "before") /\ UNCHANGED <<at, tc>>
      BY <1>9, <2>1 DEF Proceed
    <3>2. cases # <<>> => 1 \in DOMAIN cases
      BY <1>2
    <3>3. tc = 1
      BY <1>9 DEF TurnInv
    <3> QED BY <1>1, <1>4, <3>1, <3>2, <3>3 DEF TurnInv, Calls
  <2>2. CASE h = "fatal"
    <3>1. Goto("end")
      BY <1>9, <2>2 DEF Proceed
    <3> QED BY <1>7, <3>1
  <2>3. CASE h \notin {"ok", "fatal"}
    <3>1. NextFixture
      BY <1>9, <2>3 DEF Proceed
    <3> QED BY <1>5, <3>1
  <2> QED BY <2>1, <2>2, <2>3
<1>10. CASE phase = "before"
  <2>1. CASE h = "ok"
    <3>1. Goto("testcase")
      BY <1>10, <2>1 DEF Proceed
    <3> QED BY <1>3, <1>7, <1>10, <3>1
  <2>2. CASE h # "ok"
    <3>1. TestCaseEnds(h)
      BY <1>10, <2>2 DEF Proceed
    <3> QED BY <1>3, <1>8, <1>10, <3>1
  <2> QED BY <2>1, <2>2
<1>11. CASE phase = "testcase"
  <2>1. Goto("after")
    BY <1>11 DEF Proceed
  <2> QED BY <1>3, <1>7, <1>11, <2>1
<1>12. CASE phase = "after"
  <2>1. TestCaseEnds(HrTestCase(h))
    BY <1>12 DEF Proceed
  <2>2. HrTestCase(h) \in Results
    BY <1>12 DEF HrTestCase
  <2> QED BY <1>3, <1>8, <1>12, <2>1, <2>2
<1>13. CASE phase = "teardown"
  <2>1. IF hrTest = "aborted" THEN Goto("end") ELSE NextFixture
    BY <1>13 DEF Proceed
  <2> QED BY <1>5, <1>7, <2>1
<1> QED BY <1>9, <1>10, <1>11, <1>12, <1>13 DEF Calls

\* Steps within a call.
LEMMA SameTurn ==
  ASSUME TurnInv, UNCHANGED <<moduleVars, phase, at, tc>>
  PROVE  TurnInv' /\ Tag' = Tag /\ Adapter' = Adapter
<1>1. UNCHANGED <<image, stage, module>>
  BY DEF moduleVars
<1>2. Adapter' = Adapter
  BY <1>1, SameImage
<1>3. Tag' = Tag
  BY <1>1 DEF Tag
<1>4. TurnInv'
  BY <1>1 DEF TurnInv
<1> QED BY <1>2, <1>3, <1>4

\* The invariant of the routines called.
THEOREM TurnInvariance == Spec => [](TurnInv /\ RequestInv)
<1>1. Init => TurnInv /\ RequestInv
  BY DEF Init, CallInit, TurnInv, RequestInv, Calls
<1>2. LoadInv /\ ResponseInv /\ TurnInv /\ RequestInv /\ [Next]_vars => (TurnInv /\ RequestInv)'
  <2> SUFFICES ASSUME LoadInv, ResponseInv, TurnInv, RequestInv, [Next]_vars
               PROVE  TurnInv' /\ RequestInv'
    OBVIOUS
  <2>1. ASSUME UNCHANGED <<moduleVars, phase, at, tc, routine>> PROVE TurnInv' /\ RequestInv'
    <3>1. TurnInv' /\ Tag' = Tag /\ Adapter' = Adapter
      BY <2>1, SameTurn
    <3>2. module' = module
      BY <2>1 DEF moduleVars
    <3> QED BY <2>1, <3>1, <3>2 DEF RequestInv
  <2>2. ASSUME routine' = NoRoutine, phase \in Calls, NEW h \in Results, Proceed(h), UNCHANGED moduleVars
        PROVE  TurnInv' /\ RequestInv'
    <3>1. hrTest \in Results /\ tc \in Nat
      BY DEF ResponseInv, TypeOK, Results
    <3>2. UNCHANGED <<stage, module>>
      BY <2>2 DEF moduleVars
    <3>3. TurnInv'
      BY <2>2, <3>1, <3>2, TurnFact
    <3> QED BY <2>2, <3>3 DEF RequestInv
  <2>3. CASE ModuleNext /\ UNCHANGED callVars
    <3>1. stage # "run"
      BY <2>3 DEF ModuleNext, OutOfMemory, OtherDriver, ListModules, ListModulesAgain, FindBaseAddressDriver,
                  QuerySizeForQueryModuleRequest, QueryModule, InitializeModule
    <3>2. phase = "load" /\ UNCHANGED <<phase, at, tc, routine>>
      BY <2>3, <3>1 DEF TurnInv, callVars
    <3>3. routine' = NoRoutine
      BY <3>2 DEF ResponseInv, CallInv, Calls
    <3> QED BY <3>2, <3>3 DEF TurnInv, RequestInv, Calls
  <2>4. ASSUME NEW t \in {Main, Child}, Step(t) PROVE TurnInv' /\ RequestInv'
    <3>1. UNCHANGED <<moduleVars, phase, at, tc, routine>>
      BY <2>4 DEF Step, ReportLog, ReportFailedAssertion, FailedAssertionBreaks, ReportInconclusiveness, SetValue,
                  Fail, UnhandledException, Unhandled, RaiseIrql, ReturnFromRoutine, CallFrame
    <3> QED BY <2>1, <3>1
  <2>5. CASE CreateSystemThread \/ Terminated \/ UNCHANGED vars
    <3>1. UNCHANGED <<moduleVars, phase, at, tc, routine>>
      BY <2>5 DEF CreateSystemThread, CallFrame, Terminated, vars, callVars
    <3> QED BY <2>1, <3>1
  <2>6. CASE StartFixtures
    <3>1. /\ stage = "run" /\ phase = "load" /\ UNCHANGED <<moduleVars, at, tc, routine>>
          /\ phase' = IF module = <<>> THEN "end" ELSE "setup"
      BY <2>6 DEF StartFixtures
    <3>2. stage' = stage /\ module' = module
      BY <3>1 DEF moduleVars
    <3>3. routine' = NoRoutine
      BY <3>1 DEF ResponseInv, CallInv, Calls
    <3>4. module \in Seq(Range(module))
      BY <3>1, ModuleFact
    <3>5. module # <<>> => 1 \in DOMAIN module
      BY <3>4
    <3> QED BY <3>1, <3>2, <3>3, <3>5 DEF TurnInv, RequestInv, Calls
  <2>7. CASE RunRoutine
    <3>1. /\ Tag.present /\ routine' = GetRoutine(Adapter, module[at].key, Tag.key)
          /\ UNCHANGED <<moduleVars, phase, at, tc>>
      BY <2>7 DEF RunRoutine, CallRoutine
    <3>2. TurnInv' /\ Tag' = Tag /\ Adapter' = Adapter
      BY <3>1, SameTurn
    <3>3. module' = module
      BY <3>1 DEF moduleVars
    <3> QED BY <3>1, <3>2, <3>3 DEF RequestInv
  <2>8. CASE RunAbsentRoutine \/ CallFails
    <3>1. Idle
      BY <2>8 DEF RunAbsentRoutine, CallFails
    <3>2. phase \in Calls /\ routine = NoRoutine
      BY <3>1, IdleFact
    <3>3. \E h \in Results : Proceed(h)
      BY <2>8 DEF RunAbsentRoutine, CallFails, Results
    <3>4. routine' = routine /\ UNCHANGED moduleVars
      BY <2>8 DEF RunAbsentRoutine, CallFails, ClientFrame
    <3> QED BY <2>2, <3>2, <3>3, <3>4
  <2>9. CASE SlotFails
    <3>1. /\ Idle /\ phase' = "end" /\ routine' = routine /\ UNCHANGED <<moduleVars, at, tc>>
      BY <2>9 DEF SlotFails, Goto, ClientFrame
    <3>2. routine = NoRoutine /\ stage' = "run"
      BY <3>1 DEF Idle, moduleVars
    <3> QED BY <3>1, <3>2 DEF TurnInv, RequestInv, Calls
  <2>10. ASSUME NEW n \in 0 .. Len(channel.events), CallReturns(n) PROVE TurnInv' /\ RequestInv'
    <3>1. routine # NoRoutine /\ routine' = NoRoutine /\ Proceed(Result) /\ UNCHANGED moduleVars
      BY <2>10 DEF CallReturns, ClientFrame
    <3>2. phase \in Calls
      BY <3>1 DEF ResponseInv, CallInv
    <3>3. Result \in Results
      BY DEF Result, Results
    <3> QED BY <2>2, <3>1, <3>2, <3>3
  <2> QED BY <2>3, <2>4, <2>5, <2>6, <2>7, <2>8, <2>9, <2>10 DEF Next, Client
<1> QED BY <1>1, <1>2, LoadInvariance, ResponseInvariance, PTL DEF Spec

\* The key of the phase belongs to a routine of that kind, and to the test case.
LEMMA TurnKey ==
  ASSUME LoadInv, TurnInv, phase \in Calls
  PROVE  /\ at \in DOMAIN Adapter /\ module[at].key = at - 1
         /\ TagOf(Adapter[at].entries, phase, Tag)
         /\ phase = "testcase" => KeyOf(Adapter[at].entries, phase, Tag.key, DefinedCases(at)[tc])
<1> DEFINE a == Adapter
           d == a[at].entries
           x == module[at]
           t == DefinedCases(at)
<1>1. stage = "run" /\ at \in DOMAIN module /\ (phase = "testcase" => tc \in DOMAIN x.testCases)
  BY DEF TurnInv, Calls
<1>2. at \in DOMAIN a /\ FixtureOf(a, at, x) /\ image \in Images
  BY <1>1 DEF LoadInv, ListInv, FixturesInv
<1>3. d = Defined(at).definition
  BY <1>2, AdapterFact
<1>4. t = OfType(d, "testcase")
  BY <1>3 DEF DefinedCases
<1>5. /\ x.key = at - 1 /\ TagOf(d, "setup", x.setup) /\ TagOf(d, "teardown", x.teardown)
      /\ TagOf(d, "before", x.before) /\ TagOf(d, "after", x.after) /\ CasesOf(d, x.testCases)
  BY <1>2 DEF FixtureOf
<1> HIDE DEF a, d, x, t
<1>6. CASE phase # "testcase"
  <2>1. TagOf(d, phase, Tag)
    BY <1>5, <1>6 DEF Calls, Tag, x
  <2> QED BY <1>2, <1>5, <1>6, <2>1 DEF a, d, x
<1>7. CASE phase = "testcase"
  <2>1. Tag = [present |-> TRUE, key |-> x.testCases[tc].key]
    BY <1>7 DEF Tag, x
  <2>2. Tag.present = TRUE /\ Tag.key = x.testCases[tc].key
    BY <2>1
  <2>3. KeyOf(d, "testcase", Tag.key, t[tc])
    BY <1>1, <1>4, <1>5, <1>7, <2>2 DEF CasesOf
  <2>4. TagOf(d, "testcase", Tag)
    BY <2>2, <2>3 DEF TagOf, KeyOf
  <2> QED BY <1>2, <1>5, <1>7, <2>3, <2>4 DEF a, d, x, t
<1> QED BY <1>6, <1>7

\* CfixklpCallRoutine and CfixkrpGetRoutineTestAdapter: the keys the client kept lead
\* the reflector to the routine whose turn it is, and the client calls every
\* routine the fixture defines.
THEOREM RoutineOfPhaseHolds == Spec => []RoutineOfPhase
<1>1. LoadInv /\ ResponseInv /\ TurnInv /\ RequestInv => RoutineOfPhase
  <2> SUFFICES ASSUME LoadInv, ResponseInv, TurnInv, RequestInv PROVE RoutineOfPhase
    OBVIOUS
  <2> DEFINE a == Adapter
             d == a[at].entries
  <2>0. ASSUME phase \in Calls
        PROVE  /\ at \in DOMAIN a /\ module[at].key = at - 1 /\ TagOf(d, phase, Tag) /\ IsAdapter(a)
               /\ phase = "testcase" => KeyOf(d, phase, Tag.key, DefinedCases(at)[tc])
               /\ a[at].name = Defined(at).name[1] /\ d = Defined(at).definition
    <3>1. image \in Images
      BY DEF LoadInv, ListInv
    <3>2. at \in DOMAIN a
      BY <2>0, TurnKey
    <3>3. IsAdapter(a) /\ a[at].name = Defined(at).name[1] /\ d = Defined(at).definition
      BY <3>1, <3>2, AdapterFact
    <3> QED BY <2>0, <3>3, TurnKey
  <2> HIDE DEF a, d
  <2>1. ASSUME routine # NoRoutine
        PROVE  /\ routine # Failed /\ routine.fixture = Defined(at).name[1] /\ routine.entry.type = phase
               /\ phase = "testcase" => routine.entry = DefinedCases(at)[tc]
    <3>1. phase \in Calls
      BY <2>1 DEF ResponseInv, CallInv
    <3>2. /\ at \in DOMAIN a /\ TagOf(d, phase, Tag) /\ IsAdapter(a) /\ a[at].name = Defined(at).name[1]
          /\ phase = "testcase" => KeyOf(d, phase, Tag.key, DefinedCases(at)[tc])
      BY <2>0, <3>1
    <3>3. Tag.present /\ routine = GetRoutine(a, at - 1, Tag.key)
      BY <2>0, <2>1, <3>1 DEF RequestInv, a
    <3>4. PICK entry : /\ KeyOf(d, phase, Tag.key, entry)
                       /\ phase = "testcase" => entry = DefinedCases(at)[tc]
      BY <3>2, <3>3 DEF TagOf
    <3>5. GetRoutine(a, at - 1, Tag.key) = [fixture |-> a[at].name, entry |-> entry] /\ entry.type = phase
      BY <3>2, <3>4, RoutineFact DEF d
    <3>6. routine = [fixture |-> a[at].name, entry |-> entry]
      BY <3>3, <3>5
    <3>7. routine # Failed /\ routine.fixture = a[at].name /\ routine.entry = entry
      BY <3>6 DEF Failed
    <3> QED BY <3>2, <3>4, <3>5, <3>7
  <2>2. ASSUME Idle
        PROVE  Tag.present <=> \E j \in DOMAIN Defined(at).definition : Defined(at).definition[j].type = phase
    <3>1. phase \in Calls
      BY <2>2, IdleFact
    <3>2. TagOf(d, phase, Tag) /\ d = Defined(at).definition
      BY <2>0, <3>1
    <3> QED BY <3>2 DEF TagOf
  <2> QED BY <2>1, <2>2 DEF RoutineOfPhase
<1> QED BY <1>1, LoadInvariance, ResponseInvariance, TurnInvariance, PTL
==============================================================================
