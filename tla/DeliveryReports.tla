--------------------------- MODULE DeliveryReports ---------------------------
(***************************************************************************)
(* The producer with its delivery reports: Producer.Start, the goroutine   *)
(* deliveryReportsLogger and, as far as those two see it, the Kafka client *)
(* library.  For every message that the broker acknowledged or refused, a  *)
(* thread of the library sends a report to the unbuffered deliveryChan; it *)
(* waits there until the report is taken or the producer is closed.        *)
(***************************************************************************)
EXTENDS Naturals

CONSTANTS
    MaxMsgs,            \* bound: messages produced in a behaviour
    MaxSpin,            \* bound: receives from the closed channel that are counted
    LogDeliveryReports  \* KafkaProducerLogDeliveryReports

ASSUME ReportsAssumption ==
    MaxMsgs \in Nat /\ MaxSpin \in Nat /\ LogDeliveryReports \in BOOLEAN

VARIABLES
    ctxDone,
    inputClosed,        \* msgChan is closed
    produced,           \* messages accepted by Produce
    queued,             \* of these, not yet answered for by the broker
    pc,                 \* Producer.Start
    chanClosed,         \* deliveryChan is closed
    poller, report,     \* the library's thread, and the report it holds
    logger,             \* deliveryReportsLogger
    acked, refused,     \* reports made by the broker
    successes, failures \* SuccessfullyProducedMsg, UnsuccessfullyProducedMsg

vars == <<ctxDone, inputClosed, produced, queued, pc, chanClosed, poller, report,
          logger, acked, refused, successes, failures>>

Init ==
    /\ ctxDone = FALSE /\ inputClosed = FALSE
    /\ produced = 0 /\ queued = 0
    /\ pc = "range" /\ chanClosed = FALSE
    /\ poller = "poll" /\ report = "none"
    /\ logger = IF LogDeliveryReports THEN "select" ELSE "done"
    /\ acked = 0 /\ refused = 0 /\ successes = 0 /\ failures = 0

\* The context is cancelled, or merge closes the channel.  Either may come first.
Cancel ==
    /\ ~ctxDone /\ ctxDone' = TRUE
    /\ UNCHANGED <<inputClosed, produced, queued, pc, chanClosed, poller, report, logger,
                   acked, refused, successes, failures>>

CloseInput ==
    /\ ~inputClosed /\ inputClosed' = TRUE
    /\ UNCHANGED <<ctxDone, produced, queued, pc, chanClosed, poller, report, logger,
                   acked, refused, successes, failures>>

-----------------------------------------------------------------------------
(* Producer.Start                                                          *)

\* Mutant of Produce: the return after the retry is missing, so that a message is
\* put on the queue twice.
ProduceTwice ==
    /\ pc = "range" /\ ~inputClosed /\ produced < MaxMsgs
    /\ produced' = produced + 1
    /\ queued' = queued + 2
    /\ UNCHANGED <<ctxDone, inputClosed, pc, chanClosed, poller, report, logger,
                   acked, refused, successes, failures>>

\* A message of the range loop is put on the library's queue.
Produce ==
    /\ pc = "range" /\ ~inputClosed /\ produced < MaxMsgs
    /\ produced' = produced + 1
    /\ queued' = queued + 1
    /\ UNCHANGED <<ctxDone, inputClosed, pc, chanClosed, poller, report, logger,
                   acked, refused, successes, failures>>

\* The range loop ends.  Deferred calls run last in, first out: deliveryChan is
\* closed before Flush.
CloseDeliveryChan ==
    /\ pc = "range" /\ inputClosed
    /\ chanClosed' = LogDeliveryReports
    /\ pc' = "flush"
    /\ UNCHANGED <<ctxDone, inputClosed, produced, queued, poller, report, logger,
                   acked, refused, successes, failures>>

\* Mutant of FlushReturns: Flush is called without a timeout.
FlushWaits ==
    /\ pc = "flush" /\ queued = 0
    /\ pc' = "close"
    /\ UNCHANGED <<ctxDone, inputClosed, produced, queued, chanClosed, poller, report,
                   logger, acked, refused, successes, failures>>

\* Flush returns once the queue is empty, or after flushInterval.
FlushReturns ==
    /\ pc = "flush"
    /\ pc' = "close"
    /\ UNCHANGED <<ctxDone, inputClosed, produced, queued, chanClosed, poller, report,
                   logger, acked, refused, successes, failures>>

\* Close ends the library's thread, even one that is waiting to send.
CloseProducer ==
    /\ pc = "close" /\ poller # "panic"
    /\ pc' = "done"
    /\ poller' = "done" /\ report' = "none"
    /\ UNCHANGED <<ctxDone, inputClosed, produced, queued, chanClosed, logger,
                   acked, refused, successes, failures>>

Start == Produce \/ CloseDeliveryChan \/ FlushReturns \/ CloseProducer

-----------------------------------------------------------------------------
(* The Kafka client library.                                               *)

\* The broker has answered for a message.  Without go.delivery.reports the answer
\* is not passed on.
Poll ==
    /\ poller = "poll" /\ 0 < queued
    /\ queued' = queued - 1
    /\ \E r \in {"acked", "refused"} :
         /\ acked' = IF r = "acked" THEN acked + 1 ELSE acked
         /\ refused' = IF r = "refused" THEN refused + 1 ELSE refused
         /\ IF LogDeliveryReports
            THEN poller' = "send" /\ report' = r
            ELSE UNCHANGED <<poller, report>>
    /\ UNCHANGED <<ctxDone, inputClosed, produced, pc, chanClosed, logger,
                   successes, failures>>

\* A send on a closed channel, whether it was waiting or not.
SendPanics ==
    /\ poller = "send" /\ chanClosed
    /\ poller' = "panic"
    /\ UNCHANGED <<ctxDone, inputClosed, produced, queued, pc, chanClosed, report, logger,
                   acked, refused, successes, failures>>

-----------------------------------------------------------------------------
(* deliveryReportsLogger                                                   *)

\* Mutant of LoggerStops: the closed channel is always served first.
LoggerServesFirst ==
    /\ logger = "select" /\ ctxDone /\ ~chanClosed
    /\ logger' = "done"
    /\ UNCHANGED <<ctxDone, inputClosed, produced, queued, pc, chanClosed, poller, report,
                   acked, refused, successes, failures>>

\* case <-ctx.Done()
LoggerStops ==
    /\ logger = "select" /\ ctxDone
    /\ logger' = "done"
    /\ UNCHANGED <<ctxDone, inputClosed, produced, queued, pc, chanClosed, poller, report,
                   acked, refused, successes, failures>>

\* Mutant of CountReport: the continue after a failed delivery is missing.
CountBoth ==
    /\ successes' = successes + 1
    /\ failures' = IF report = "refused" THEN failures + 1 ELSE failures

\* case *kafka.Message
CountReport ==
    /\ successes' = IF report = "acked" THEN successes + 1 ELSE successes
    /\ failures' = IF report = "refused" THEN failures + 1 ELSE failures

\* case e := <-deliveryChan, where a report is handed over ...
LoggerRecv ==
    /\ logger = "select" /\ poller = "send" /\ ~chanClosed
    /\ CountReport
    /\ poller' = "poll" /\ report' = "none"
    /\ UNCHANGED <<ctxDone, inputClosed, produced, queued, pc, chanClosed, logger,
                   acked, refused>>

\* ... or the channel is closed: the nil event takes the default branch.  At the bound the
\* counter stays as it is.
LoggerSpins ==
    /\ logger = "select" /\ chanClosed
    /\ failures' = IF failures < MaxMsgs + MaxSpin THEN failures + 1 ELSE failures
    /\ UNCHANGED <<ctxDone, inputClosed, produced, queued, pc, chanClosed, poller, report,
                   logger, acked, refused, successes>>

\* The process is gone after a panic, and this part of it is over when both
\* goroutines have returned.
Over ==
    /\ poller = "panic" \/ (pc = "done" /\ logger = "done")
    /\ UNCHANGED vars

Next ==
    \/ /\ poller # "panic"
       /\ \/ Cancel \/ CloseInput
          \/ Start
          \/ Poll \/ SendPanics
          \/ LoggerStops \/ LoggerRecv \/ LoggerSpins
    \/ Over

Spec == Init /\ [][Next]_vars

\* The goroutines run; the broker need not answer.  A closed input is a shutdown, in
\* which the context is cancelled too.
FairSpec ==
    /\ Spec
    /\ WF_vars(poller # "panic" /\ Start) /\ WF_vars(poller # "panic" /\ LoggerStops)
    /\ WF_vars(poller # "panic" /\ LoggerRecv) /\ WF_vars(SendPanics)
    /\ WF_vars(poller # "panic" /\ inputClosed /\ Cancel)

-----------------------------------------------------------------------------
TypeOK ==
    /\ {ctxDone, inputClosed, chanClosed} \subseteq BOOLEAN
    /\ pc \in {"range", "flush", "close", "done"}
    /\ poller \in {"poll", "send", "panic", "done"}
    /\ report \in {"none", "acked", "refused"}
    /\ logger \in {"select", "done"}
    /\ produced \in 0 .. MaxMsgs /\ queued \in 0 .. MaxMsgs
    /\ acked \in 0 .. MaxMsgs /\ refused \in 0 .. MaxMsgs
    /\ successes \in 0 .. MaxMsgs /\ failures \in 0 .. MaxMsgs + MaxSpin

\* Until the channel is closed the two counters say what the reports said, except for
\* the one report that may be on its way.
CountersMatchReports ==
    LogDeliveryReports /\ ~chanClosed =>
        /\ successes = acked - (IF report = "acked" THEN 1 ELSE 0)
        /\ failures = refused - (IF report = "refused" THEN 1 ELSE 0)

\* Once its input is closed the producer ends: a logger that has already stopped,
\* and a broker that does not answer, cannot hold it up.  (It may end by the panic.)
ProducerEnds == inputClosed ~> pc = "done" \/ poller = "panic"

\* The logger is never left spinning on the closed deliveryChan, counting a failure for each
\* nil event: it ends, because every shutdown that closes the channel cancels the context too.
SpinningEnds == chanClosed ~> logger = "done" \/ poller = "panic"

\* README.md and main.go describe KafkaFlushInterval as the "Timeout length when
\* flushing Kafka messages at shutdown": reports that arrive during this flush must
\* not bring the process down.
FlushDoesNotPanic == poller # "panic"
=============================================================================
