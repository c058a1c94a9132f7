----------------------- MODULE DeliveryReportsProofs -----------------------
(***************************************************************************)
(* The counters of delivery reports, for every number of messages, with    *)
(* and without delivery reports.                                           *)
(***************************************************************************)
EXTENDS DeliveryReports, TLAPS

\* Every message that Produce took is in the library's queue or answered for.
Accounted == produced = queued + acked + refused

\* The library's thread holds a report exactly while it sends it, which it does only
\* when delivery reports are asked for.  (A panic leaves the report where it was.)
ReportHeld ==
    /\ report # "none" <=> poller \in {"send", "panic"}
    /\ ~LogDeliveryReports => poller \in {"poll", "done"} /\ logger = "done"

\* deliveryChan is open during the range loop and, if it exists, closed after it.  The
\* thread is ended by Close, and a send can only panic once the channel is closed.
ChanState ==
    /\ chanClosed <=> LogDeliveryReports /\ pc # "range"
    /\ pc # "range" => inputClosed
    /\ poller = "done" <=> pc = "done"
    /\ poller = "panic" => chanClosed

\* The counters never run ahead of the reports, except for the failures that are counted
\* on the closed channel.
CountersBehind ==
    /\ successes <= acked
    /\ ~LogDeliveryReports => successes = 0 /\ failures = 0

IInv ==
    TypeOK /\ Accounted /\ ReportHeld /\ ChanState /\ CountersBehind /\ CountersMatchReports

-----------------------------------------------------------------------------
LEMMA IInvInit == Init => IInv
<1> SUFFICES ASSUME Init PROVE IInv
  OBVIOUS
<1> USE ReportsAssumption DEF Init
<1>1. TypeOK
  <2>1. {ctxDone, inputClosed, chanClosed} \subseteq BOOLEAN
    OBVIOUS
  <2>2. logger \in {"select", "done"}
    OBVIOUS
  <2> QED
    BY <2>1, <2>2 DEF TypeOK
<1>2. Accounted
  BY DEF Accounted
<1>3. ReportHeld
  BY DEF ReportHeld
<1>4. ChanState
  BY DEF ChanState
<1>5. CountersBehind /\ CountersMatchReports
  BY DEF CountersBehind, CountersMatchReports
<1> QED
  BY <1>1, <1>2, <1>3, <1>4, <1>5 DEF IInv

LEMMA IInvStep == IInv /\ [Next]_vars => IInv'
<1> SUFFICES ASSUME IInv, [Next]_vars PROVE IInv'
  OBVIOUS
<1> USE ReportsAssumption
    DEF IInv, TypeOK, Accounted, ReportHeld, ChanState, CountersBehind, CountersMatchReports
<1>1. CASE Cancel
  BY <1>1 DEF Cancel
<1>2. CASE CloseInput
  BY <1>2 DEF CloseInput
<1>3. CASE Produce
  BY <1>3 DEF Produce
<1>4. CASE CloseDeliveryChan
  BY <1>4 DEF CloseDeliveryChan
<1>5. CASE FlushReturns
  BY <1>5 DEF FlushReturns
<1>6. CASE CloseProducer
  BY <1>6 DEF CloseProducer
<1>7. CASE Poll
  BY <1>7 DEF Poll
<1>8. CASE SendPanics
  BY <1>8 DEF SendPanics
<1>9. CASE LoggerStops
  BY <1>9 DEF LoggerStops
<1>10. CASE LoggerRecv
  BY <1>10 DEF LoggerRecv, CountReport
<1>11. CASE LoggerSpins
  BY <1>11 DEF LoggerSpins
<1>12. CASE UNCHANGED vars
  BY <1>12 DEF vars
<1> QED
  BY <1>1, <1>2, <1>3, <1>4, <1>5, <1>6, <1>7, <1>8, <1>9, <1>10, <1>11, <1>12
     DEF Next, Start, Over

-----------------------------------------------------------------------------
\* Every variable keeps its type.  In particular the counters are bounded by the messages
\* produced: no report is counted twice, and no message is answered for twice.
THEOREM TypeCorrect == Spec => []TypeOK
  BY IInvInit, IInvStep, PTL DEF Spec, IInv

\* Until Producer.Start closes deliveryChan, the metrics of produced messages say what the
\* broker reported, up to the one report that the library is handing over.
THEOREM CountersMatchReportsTheorem == Spec => []CountersMatchReports
  BY IInvInit, IInvStep, PTL DEF Spec, IInv

\* The send on the closed deliveryChan that can end the process in Flush needs delivery
\* reports, and never happens while messages are still being produced.
THEOREM PanicOnlyInFlush ==
  Spec => [](poller = "panic" => LogDeliveryReports /\ inputClosed /\ pc # "range")
<1>1. IInv => (poller = "panic" => LogDeliveryReports /\ inputClosed /\ pc # "range")
  BY DEF IInv, ReportHeld, ChanState
<1> QED
  BY <1>1, IInvInit, IInvStep, PTL DEF Spec

\* Without delivery reports the flush at shutdown does not panic.
THEOREM FlushSafeWithoutReports == ~LogDeliveryReports => (Spec => []FlushDoesNotPanic)
<1> SUFFICES ASSUME ~LogDeliveryReports PROVE Spec => []FlushDoesNotPanic
  OBVIOUS
<1>1. IInv => FlushDoesNotPanic
  BY DEF IInv, ReportHeld, FlushDoesNotPanic
<1> QED
  BY <1>1, IInvInit, IInvStep, PTL DEF Spec
=============================================================================
