------------------------------ MODULE Pipeline ------------------------------
(***************************************************************************)
(* The goroutines that main.go starts and the channels between them:       *)
(*                                                                         *)
(*   consumer -> consumerChan -> indexer 1..N -> errorChan[i]              *)
(*      -> forwarder i (merge) -> mergedErrorChan -> producer              *)
(*                                                                         *)
(* together with the context that cancels them.  A message is the set of   *)
(* SPIs it carries, so a message with no payload is {}, and the length of  *)
(* a buffer is the number of SPIs in it.  Elapsed time is left out: a      *)
(* flush for "time_limit" may happen whenever a message is buffered (the   *)
(* module Bulker models the clock).  One step is what a goroutine does     *)
(* between two operations another goroutine or a server can observe.       *)
(***************************************************************************)
EXTENDS GoChannel, FiniteSets

CONSTANTS
    Messages,               \* the messages of the topic
    Indexers,               \* ElasticIndexerInstances goroutines
    ConsumerChanCap,        \* ConsumerChannelBufferSize
    ErrorChanCap,           \* ErrorChannelBufferSize
    ProducerChanCap,        \* ProducerChannelBufferSize
    MsgLimit,               \* BulkerMaxMessages
    BytesLimit,             \* BulkerMaxBytes, counted in SPIs
    Faults                  \* the failures the environment may produce

\* Every failure that the code has a path for.
AllFaults == {"consumer_start", "kafka", "write", "es_status", "bulk_call",
              "producer_start", "produce"}

\* Where the program drops SPIs.
Losses == {"write", "bulk_call", "no_producer", "indexer_exit", "produce"}

Spis == UNION Messages

ASSUME MessagesAssumption ==
    \A m, n \in Messages : m # n => m \cap n = {}

ASSUME LimitsAssumption ==
    /\ Indexers # {}
    /\ ConsumerChanCap \in Nat \ {0}
    /\ ErrorChanCap \in Nat \ {0}
    /\ ProducerChanCap \in Nat \ {0}
    /\ MsgLimit \in Nat \ {0}
    /\ BytesLimit \in Nat
    /\ Faults \subseteq AllFaults

VARIABLES
    ctxDone,                \* the pool's context is cancelled
    topic,                  \* messages not polled yet
    cPc, cMsg,              \* consumer: program counter, msgBuf
    consumerChan,
    iPc, iMsg, iNext,       \* indexers: program counter, msg, where flush returns to
    buffer, bulkedMsgCount, \* each indexer's bulker
    failed,                 \* what parseESErrors returned, not yet sent on
    errorChan,
    fPc, fMsg,              \* the forwarders of merge
    mPc,                    \* the goroutine of merge that closes its output, if there is one
    mergedErrorChan,
    pPc, pMsg,              \* producer
    indexed, republished, lost

consumerVars == <<topic, cPc, cMsg>>
indexerVars  == <<iPc, iMsg, iNext, buffer, bulkedMsgCount, failed>>
mergeVars    == <<fPc, fMsg, mPc>>
producerVars == <<pPc, pMsg>>
fates        == <<indexed, republished, lost>>
vars == <<ctxDone, consumerVars, consumerChan, indexerVars, errorChan,
          mergeVars, mergedErrorChan, producerVars, fates>>

ConsumerTypeOK ==
    /\ topic \subseteq Messages
    /\ cPc \in {"start", "loop", "poll", "copy", "send", "failed", "done", "dead"}
    /\ cMsg \in SUBSET Spis
    /\ consumerChan \in Channel(SUBSET Spis)

IndexerTypeOK ==
    /\ iPc \in [Indexers -> {"select", "bytes", "write", "flush", "report",
                             "return", "abort", "failed", "done", "dead"}]
    /\ iMsg \in [Indexers -> SUBSET Spis]
    /\ iNext \in [Indexers -> {"select", "bytes", "write", "return"}]
    /\ buffer \in [Indexers -> SUBSET Spis]
    /\ bulkedMsgCount \in [Indexers -> 0 .. MsgLimit]
    /\ failed \in [Indexers -> SUBSET Spis]
    /\ errorChan \in [Indexers -> Channel(SUBSET Spis)]

MergeTypeOK ==
    /\ fPc \in [Indexers -> {"recv", "send", "done"}]
    /\ fMsg \in [Indexers -> SUBSET Spis]
    /\ mPc \in {"none", "wait", "done"}
    /\ mergedErrorChan \in Channel(SUBSET Spis)

ProducerTypeOK ==
    /\ pPc \in {"start", "recv", "produce", "cooldown", "failed", "done", "dead"}
    /\ pMsg \in SUBSET Spis

FatesTypeOK ==
    /\ indexed \in SUBSET Spis
    /\ republished \in SUBSET Spis
    /\ lost \in [Losses -> SUBSET Spis]

TypeOK ==
    /\ ctxDone \in BOOLEAN
    /\ ConsumerTypeOK /\ IndexerTypeOK /\ MergeTypeOK /\ ProducerTypeOK /\ FatesTypeOK

\* Whether a producer topic is configured.  Without one main.go makes no error channel,
\* does not call merge and starts no producer goroutine.
HasProducer == mPc # "none"

Init ==
    /\ ctxDone = FALSE
    /\ topic = Messages
    /\ cPc = "start" /\ cMsg = {}
    /\ consumerChan = NewChan
    /\ iPc = [i \in Indexers |-> "select"]
    /\ iMsg = [i \in Indexers |-> {}]
    /\ iNext = [i \in Indexers |-> "select"]
    /\ buffer = [i \in Indexers |-> {}]
    /\ bulkedMsgCount = [i \in Indexers |-> 0]
    /\ failed = [i \in Indexers |-> {}]
    /\ errorChan = [i \in Indexers |-> NewChan]
    /\ mPc \in {"none", "wait"}
    /\ fPc = [i \in Indexers |-> IF HasProducer THEN "recv" ELSE "done"]
    /\ fMsg = [i \in Indexers |-> {}]
    /\ mergedErrorChan = NewChan
    /\ pPc = IF HasProducer THEN "start" ELSE "done"
    /\ pMsg = {}
    /\ indexed = {} /\ republished = {}
    /\ lost = [r \in Losses |-> {}]

Lose(reason, spis) == lost' = [lost EXCEPT ![reason] = @ \cup spis]

-----------------------------------------------------------------------------
(* The pool and its context.                                               *)

\* SIGINT, SIGTERM, or an error of the two goroutines of the pool that are not
\* modelled here (the HTTP server and the SIGHUP handler).
Cancel ==
    /\ ~ctxDone
    /\ ctxDone' = TRUE
    /\ UNCHANGED <<consumerVars, consumerChan, indexerVars, errorChan, mergeVars,
                   mergedErrorChan, producerVars, fates>>

\* WithCancelOnError: once a goroutine has returned an error, and so after its
\* deferred calls, the pool cancels the context of all of them.
CancelOnError ==
    /\ ctxDone' = TRUE
    /\ \/ /\ cPc = "failed" /\ cPc' = "dead"
          /\ UNCHANGED <<topic, cMsg, indexerVars, producerVars>>
       \/ /\ pPc = "failed" /\ pPc' = "dead"
          /\ UNCHANGED <<consumerVars, indexerVars, pMsg>>
       \/ /\ \E i \in Indexers : iPc[i] = "failed" /\ iPc' = [iPc EXCEPT ![i] = "dead"]
          /\ UNCHANGED <<consumerVars, iMsg, iNext, buffer, bulkedMsgCount, failed,
                         producerVars>>
    /\ UNCHANGED <<consumerChan, errorChan, mergeVars, mergedErrorChan, fates>>

-----------------------------------------------------------------------------
(* kafka/consumer.go: Consumer.Start                                       *)

\* Every return runs the deferred close(msgChan).
ConsumerReturn(pc) ==
    /\ cPc' = pc
    /\ consumerChan' = Closed(consumerChan)

\* NewConsumer and Subscribe.
ConsumerStart ==
    /\ cPc = "start"
    /\ \/ cPc' = "loop" /\ UNCHANGED consumerChan
       \/ "consumer_start" \in Faults /\ ConsumerReturn("failed")
    /\ UNCHANGED <<topic, cMsg, lost>>

\* select { case <-ctx.Done(): ... default: }
ConsumerCheckCtx ==
    /\ cPc = "loop"
    /\ \/ ctxDone /\ ConsumerReturn("done")
       \/ ~ctxDone /\ cPc' = "poll" /\ UNCHANGED consumerChan
    /\ UNCHANGED <<topic, cMsg, lost>>

\* Poll blocks for up to pollTimeout: nothing, a message or an error.
ConsumerPoll ==
    /\ cPc = "poll"
    /\ \/ cPc' = "loop" /\ UNCHANGED <<topic, cMsg, consumerChan>>
       \/ /\ \E m \in topic : topic' = topic \ {m} /\ cMsg' = m
          /\ cPc' = "copy" /\ UNCHANGED consumerChan
       \/ "kafka" \in Faults /\ ConsumerReturn("failed") /\ UNCHANGED <<topic, cMsg>>
    /\ UNCHANGED lost

\* The value is copied to a buffer of the pool, or dropped if that falls short.
ConsumerCopy ==
    /\ cPc = "copy"
    /\ \/ cPc' = "send" /\ UNCHANGED <<cMsg, lost>>
       \/ /\ "write" \in Faults
          /\ Lose("write", cMsg) /\ cMsg' = {} /\ cPc' = "loop"
    /\ UNCHANGED <<topic, consumerChan>>

\* msgChan <- msgBuf, outside of any select.
ConsumerSend ==
    /\ cPc = "send"
    /\ CanSend(consumerChan, ConsumerChanCap)
    /\ consumerChan' = Sent(consumerChan, cMsg)
    /\ cMsg' = {} /\ cPc' = "loop"
    /\ UNCHANGED <<topic, lost>>

Consumer ==
    /\ \/ ConsumerStart
       \/ ConsumerCheckCtx
       \/ ConsumerPoll
       \/ ConsumerCopy
       \/ ConsumerSend
    /\ UNCHANGED <<ctxDone, indexerVars, errorChan, mergeVars, mergedErrorChan,
                   producerVars, indexed, republished>>

-----------------------------------------------------------------------------
(* es/indexer.go: Indexer.Start, with es/bulker.go                         *)

Goto(i, pc) == iPc' = [iPc EXCEPT ![i] = pc]

\* bulker.flush, which continues at pc.
CallFlush(i, pc) ==
    /\ Goto(i, "flush")
    /\ iNext' = [iNext EXCEPT ![i] = pc]

\* Mutant of TimeLimitFlush: a tick does not call bulk.
TickDoesNotFlush(i, pc) == pc # "select" /\ 0 < bulkedMsgCount[i] /\ CallFlush(i, pc)

\* bulk: timeLimit < time.Since(lastFlush) && 0 < bulkedMsgCount
TimeLimitFlush(i, pc) == 0 < bulkedMsgCount[i] /\ CallFlush(i, pc)

\* Mutant of ConsumerChanEnded: the indexers watch the context themselves.
ContextCancelled == ctxDone

\* msg, ok := <-consumerChan returns with ok = false.
ConsumerChanEnded == Drained(consumerChan)

\* Mutant of FinalFlush: Start returns at once.
NoFinalFlush(i) == Goto(i, "return") /\ UNCHANGED iNext

\* Mutant of FinalFlush: the process moves on without the deferred calls of Start.
FinalFlushNoDefer(i) == CallFlush(i, "done")

\* finalFlush, then return nil
FinalFlush(i) == CallFlush(i, "return")

\* case msg, ok := <-consumerChan, with the first condition of bulk(msg)
IndexerRecv(i) ==
    /\ iPc[i] = "select"
    /\ \/ /\ CanRecv(consumerChan)
          /\ iMsg' = [iMsg EXCEPT ![i] = Received(consumerChan)]
          /\ consumerChan' = Rest(consumerChan)
          /\ TimeLimitFlush(i, "bytes") \/ (Goto(i, "bytes") /\ UNCHANGED iNext)
       \/ /\ ConsumerChanEnded
          /\ FinalFlush(i)
          /\ UNCHANGED <<iMsg, consumerChan>>
    /\ UNCHANGED <<buffer, bulkedMsgCount, failed, errorChan, indexed, lost>>

\* CheckESStatus returns an error: no metrics, or too many dead connections and no
\* node to discover others from.  Otherwise it changes nothing that is modelled here.
ESStatusError == "es_status" \in Faults

\* case <-ticker.C, with bulk(nil).  A tick that finds Elasticsearch reachable and
\* nothing to flush leaves the state as it was, so it is not a step.
IndexerTick(i) ==
    /\ iPc[i] = "select"
    /\ \/ ESStatusError /\ Goto(i, "abort") /\ UNCHANGED iNext
       \/ TimeLimitFlush(i, "select")
    /\ UNCHANGED <<iMsg, consumerChan, buffer, bulkedMsgCount, failed, errorChan,
                   indexed, lost>>

\* bulk: bytesLimit < buffer.Len() + msg.Len()
BulkBytes(i) ==
    /\ iPc[i] = "bytes"
    /\ IF BytesLimit < Cardinality(buffer[i]) + Cardinality(iMsg[i])
       THEN CallFlush(i, "write")
       ELSE Goto(i, "write") /\ UNCHANGED iNext
    /\ UNCHANGED <<iMsg, consumerChan, buffer, bulkedMsgCount, failed, errorChan,
                   indexed, lost>>

\* bulk: the message is appended to the buffer and its own buffer given back.
BulkWrite(i) ==
    /\ iPc[i] = "write"
    /\ \/ /\ buffer' = [buffer EXCEPT ![i] = @ \cup iMsg[i]]
          /\ iMsg' = [iMsg EXCEPT ![i] = {}]
          /\ bulkedMsgCount' = [bulkedMsgCount EXCEPT ![i] = @ + 1]
          /\ IF bulkedMsgCount[i] + 1 = MsgLimit
             THEN CallFlush(i, "select")
             ELSE Goto(i, "select") /\ UNCHANGED iNext
       \/ /\ "write" \in Faults /\ Goto(i, "abort")
          /\ UNCHANGED <<buffer, iMsg, bulkedMsgCount, iNext>>
    /\ UNCHANGED <<consumerChan, failed, errorChan, indexed, lost>>

\* Mutant of NewBuffer: flush goes on using the buffer it has sent.
SameBuffer(i) == UNCHANGED buffer

\* bulkPool.Put(in) in sendToES, and b.buffer = b.bufferPool.Get() in flush.
NewBuffer(i) == buffer' = [buffer EXCEPT ![i] = {}]

\* Bulk returns an error, or the response is an HTTP error or cannot be decoded, so
\* that sendToES returns nil.  Elasticsearch may have indexed some SPIs all the
\* same; the others are gone, for all the program does is to log and count.
BulkCallError(i) ==
    /\ "bulk_call" \in Faults
    /\ \E done \in SUBSET buffer[i] :
         indexed' = indexed \cup done /\ Lose("bulk_call", buffer[i] \ done)
    /\ UNCHANGED failed

\* The response has an item for each SPI; parseESErrors returns those in error.
BulkResponse(i) ==
    /\ \E bad \in SUBSET buffer[i] :
         /\ indexed' = indexed \cup (buffer[i] \ bad)
         /\ failed' = [failed EXCEPT ![i] = bad]
    /\ UNCHANGED lost

\* sendToES, which makes no request for a buffer below minimumBufferSize.
SendToES(i) ==
    /\ iPc[i] = "flush"
    /\ Goto(i, "report")
    /\ NewBuffer(i)
    /\ IF buffer[i] = {}
       THEN UNCHANGED <<indexed, failed, lost>>
       ELSE BulkResponse(i) \/ BulkCallError(i)
    /\ UNCHANGED <<iMsg, iNext, bulkedMsgCount, consumerChan, errorChan>>

\* The early returns of sendErrors.
NothingToSend(i) == failed[i] = {} \/ ~HasProducer

\* b.bulkedMsgCount = 0
ResetCount(i) == bulkedMsgCount' = [bulkedMsgCount EXCEPT ![i] = 0]

\* sendErrors, then the rest of flush.
SendErrors(i) ==
    /\ iPc[i] = "report"
    /\ \/ /\ NothingToSend(i)
          /\ Lose("no_producer", failed[i])
          /\ UNCHANGED errorChan
       \/ /\ failed[i] # {} /\ HasProducer
          /\ CanSend(errorChan[i], ErrorChanCap)
          /\ errorChan' = [errorChan EXCEPT ![i] = Sent(@, failed[i])]
          /\ UNCHANGED lost
    /\ failed' = [failed EXCEPT ![i] = {}]
    /\ ResetCount(i)
    /\ Goto(i, iNext[i])
    /\ UNCHANGED <<iMsg, iNext, buffer, consumerChan, indexed>>

\* Mutant of CloseErrorChan: a close before "return nil" instead of a deferred one.
CloseIfNoError(i) ==
    errorChan' = IF HasProducer /\ iPc[i] = "return"
                 THEN [errorChan EXCEPT ![i] = Closed(@)] ELSE errorChan

\* if errorChan != nil { defer close(errorChan) }
CloseErrorChan(i) ==
    errorChan' = IF HasProducer THEN [errorChan EXCEPT ![i] = Closed(@)] ELSE errorChan

\* Start returns, with an error after "abort", and whatever it still held is
\* gone.  Its deferred close(errorChan) runs first.
IndexerReturn(i) ==
    /\ iPc[i] \in {"return", "abort"}
    /\ Goto(i, IF iPc[i] = "return" THEN "done" ELSE "failed")
    /\ CloseErrorChan(i)
    /\ Lose("indexer_exit", buffer[i] \cup iMsg[i])
    /\ NewBuffer(i)
    /\ iMsg' = [iMsg EXCEPT ![i] = {}]
    /\ UNCHANGED <<iNext, bulkedMsgCount, failed, consumerChan, indexed>>

Indexer(i) ==
    /\ \/ IndexerRecv(i)
       \/ IndexerTick(i)
       \/ BulkBytes(i)
       \/ BulkWrite(i)
       \/ SendToES(i)
       \/ SendErrors(i)
       \/ IndexerReturn(i)
    /\ UNCHANGED <<ctxDone, consumerVars, mergeVars, mergedErrorChan, producerVars,
                   republished>>

-----------------------------------------------------------------------------
(* main.go: merge                                                          *)

\* output: for n := range c
ForwarderRecv(i) ==
    /\ fPc[i] = "recv"
    /\ \/ /\ CanRecv(errorChan[i])
          /\ fMsg' = [fMsg EXCEPT ![i] = Received(errorChan[i])]
          /\ errorChan' = [errorChan EXCEPT ![i] = Rest(@)]
          /\ fPc' = [fPc EXCEPT ![i] = "send"]
       \/ /\ Drained(errorChan[i])
          /\ fPc' = [fPc EXCEPT ![i] = "done"]
          /\ UNCHANGED <<fMsg, errorChan>>
    /\ UNCHANGED mergedErrorChan

\* output: out <- n
ForwarderSend(i) ==
    /\ fPc[i] = "send"
    /\ CanSend(mergedErrorChan, ProducerChanCap)
    /\ mergedErrorChan' = Sent(mergedErrorChan, fMsg[i])
    /\ fMsg' = [fMsg EXCEPT ![i] = {}]
    /\ fPc' = [fPc EXCEPT ![i] = "recv"]
    /\ UNCHANGED errorChan

Forwarder(i) ==
    /\ ForwarderRecv(i) \/ ForwarderSend(i)
    /\ UNCHANGED <<ctxDone, consumerVars, consumerChan, indexerVars, mPc, producerVars,
                   fates>>

\* Mutant of ForwardersDone: the group is waited for before all have been added.
SomeForwarderDone == \E i \in Indexers : fPc[i] = "done"

\* wg.WaitAndRecover() returns.
ForwardersDone == \A i \in Indexers : fPc[i] = "done"

\* close(out), once all forwarders are done.
MergeClose ==
    /\ mPc = "wait"
    /\ ForwardersDone
    /\ mPc' = "done"
    /\ mergedErrorChan' = Closed(mergedErrorChan)
    /\ UNCHANGED <<ctxDone, consumerVars, consumerChan, indexerVars, errorChan, fPc, fMsg,
                   producerVars, fates>>

-----------------------------------------------------------------------------
(* kafka/producer.go: Producer.Start                                       *)

\* NewProducer.
ProducerStart ==
    /\ pPc = "start"
    /\ \/ pPc' = "recv"
       \/ "producer_start" \in Faults /\ pPc' = "failed"
    /\ UNCHANGED <<pMsg, mergedErrorChan, republished, lost>>

\* for msg := range msgChan
ProducerRecv ==
    /\ pPc = "recv"
    /\ \/ /\ CanRecv(mergedErrorChan)
          /\ pMsg' = Received(mergedErrorChan)
          /\ mergedErrorChan' = Rest(mergedErrorChan)
          /\ pPc' = "produce"
       \/ /\ Drained(mergedErrorChan)
          /\ pPc' = "done"
          /\ UNCHANGED <<pMsg, mergedErrorChan>>
    /\ UNCHANGED <<republished, lost>>

\* Mutant of Enqueue: the retry is not left after it has succeeded.
EnqueueAgain ==
    /\ republished' = republished \cup pMsg
    /\ UNCHANGED <<pPc, pMsg, lost>>

\* Produce returns nil.
Enqueue ==
    /\ republished' = republished \cup pMsg
    /\ pMsg' = {} /\ pPc' = "recv" /\ UNCHANGED lost

\* Produce puts the message on librdkafka's queue.  A full queue is retried once
\* after the cooldown; after any other error the message is dropped.
Produce ==
    /\ pPc \in {"produce", "cooldown"}
    /\ \/ Enqueue
       \/ /\ "produce" \in Faults /\ pPc = "produce"
          /\ pPc' = "cooldown" /\ UNCHANGED <<pMsg, republished, lost>>
       \/ /\ "produce" \in Faults
          /\ Lose("produce", pMsg)
          /\ pMsg' = {} /\ pPc' = "recv" /\ UNCHANGED republished
    /\ UNCHANGED mergedErrorChan

Producer ==
    /\ ProducerStart \/ ProducerRecv \/ Produce
    /\ UNCHANGED <<ctxDone, consumerVars, consumerChan, indexerVars, errorChan, mergeVars,
                   indexed>>

-----------------------------------------------------------------------------
\* ctxPool.Wait() returns.
Stopped ==
    /\ cPc \in {"done", "dead"}
    /\ \A i \in Indexers : iPc[i] \in {"done", "dead"}
    /\ mPc \in {"none", "done"}
    /\ pPc \in {"done", "dead"}

\* main returns; nothing happens any more.
Exited == Stopped /\ UNCHANGED vars

Next ==
    \/ Cancel
    \/ CancelOnError
    \/ Consumer
    \/ \E i \in Indexers : Indexer(i) \/ Forwarder(i)
    \/ MergeClose
    \/ Producer
    \/ Exited

Spec == Init /\ [][Next]_vars

\* The Go scheduler lets every goroutine that can run do so in the end; Poll
\* returns after its timeout and Elasticsearch answers or refuses every request.
\* No failure is forced to happen: the indexer's steps that must be taken are those
\* that do not abort it.
IndexerProgress(i) == Indexer(i) /\ iPc'[i] # "abort"

FairSpec ==
    /\ Spec
    /\ WF_vars(CancelOnError)
    /\ WF_vars(Consumer)
    /\ \A i \in Indexers : WF_vars(IndexerProgress(i)) /\ WF_vars(Forwarder(i))
    /\ WF_vars(MergeClose)
    /\ WF_vars(Producer)

-----------------------------------------------------------------------------
(* Properties.                                                             *)

\* The places of the function f, called name, that hold the SPI s.
At(name, f, s) == {<<name, x>> : x \in {y \in DOMAIN f : s \in f[y]}}

Queued(i) == {i} \X DOMAIN errorChan[i].buf

Holders(s) ==
    At("topic", [m \in topic |-> m], s)
      \cup At("consumer", <<cMsg>>, s)
      \cup At("consumerChan", consumerChan.buf, s)
      \cup At("msg", iMsg, s)
      \cup At("buffer", buffer, s)
      \cup At("failed", failed, s)
      \cup At("errorChan", [q \in UNION {Queued(i) : i \in Indexers}
                               |-> errorChan[q[1]].buf[q[2]]], s)
      \cup At("forwarder", fMsg, s)
      \cup At("mergedErrorChan", mergedErrorChan.buf, s)
      \cup At("producer", <<pMsg>>, s)
      \cup At("fate", <<indexed, republished>>, s)
      \cup At("lost", lost, s)

\* Conservation: at any moment, however the goroutines interleave and whatever
\* fails, each SPI of the topic is in exactly one place.  No flush sends an SPI
\* twice, no hand-over between goroutines duplicates one, none disappears without
\* being accounted for.
Conservation == \A s \in Spis : Cardinality(Holders(s)) = 1

\* No goroutine panics on a channel: nobody is about to send on a closed channel
\* or to close one again.  For mergedErrorChan this is what merge's WaitGroup is for.
NoPanic ==
    /\ cPc \in {"start", "loop", "poll", "copy", "send"} => ~consumerChan.closed
    /\ \A i \in Indexers :
         iPc[i] \notin {"failed", "done", "dead"} => ~errorChan[i].closed
    /\ \A i \in Indexers : fPc[i] # "done" => ~mergedErrorChan.closed
    /\ mPc = "wait" => ~mergedErrorChan.closed

\* SPIs that were consumed and have not met their fate.
InFlight ==
    cMsg \cup InChan(consumerChan)
      \cup (UNION {iMsg[i] \cup buffer[i] \cup failed[i] \cup InChan(errorChan[i])
                     \cup fMsg[i] : i \in Indexers})
      \cup InChan(mergedErrorChan) \cup pMsg

\* Draining: when the pool's Wait returns, nothing is left in any channel, buffer
\* or hand, provided at least one indexer ran until consumerChan was closed and the
\* producer did not fail to start.  (If every indexer has aborted, consumerChan may
\* still hold messages.)
Drains ==
    Stopped /\ pPc = "done" /\ (\E i \in Indexers : iPc[i] = "done") => InFlight = {}

\* Abandoning: SPIs are left behind only by an indexer that returns an error, in the
\* step in which it does, and only those it holds itself.  An indexer that returns nil
\* has flushed all it received, whatever became of the other indexers.
OnlyAbortAbandons ==
    [][\A s \in lost'["indexer_exit"] \ lost["indexer_exit"] :
         \E i \in Indexers : /\ iPc[i] # "failed" /\ iPc'[i] = "failed"
                             /\ s \in buffer[i] \cup iMsg[i]]_vars

\* The pipeline implements the abstract promise.
D == INSTANCE Delivery WITH
       waiting <- topic, inflight <- InFlight, lost <- UNION {lost[r] : r \in Losses}

\* Delivery: each step of the pipeline consumes one whole message, settles SPIs that
\* are in flight in one way each, or leaves the promise's state alone.  In
\* particular a settled SPI never comes back into a buffer or a channel.
ImplementsDelivery == D!Spec

\* Somebody's channel will never be read again: every indexer has aborted, which leaves
\* the consumer without a reader, or the producer never started, which leaves the
\* forwarders without one.
NoReader == (\A i \in Indexers : iPc[i] = "dead") \/ pPc = "dead"

\* Shutdown: once the context is cancelled, every goroutine of the pool returns, so
\* main does too.  Whatever fails, only a missing reader can keep it from doing so.
ShutdownOnlyBlockedWithoutReader == ctxDone ~> Stopped \/ NoReader

\* An SPI that has been consumed does not stay in the pipeline for ever, even if no
\* further message arrives to fill its batch, unless a reader is missing.
EverySpiSettles == \A s \in Spis : s \in InFlight ~> s \notin InFlight \/ NoReader

\* kafka/consumer.go says of a cancelled context: "it pauses consumption and closes
\* the channel to signal to the downstream receivers to shutdown as well".
CancelClosesConsumerChan == ctxDone ~> consumerChan.closed

\* README.md says that SPIs which failed to be indexed are republished, and in main.go
\* a configured producer is what enables it.  Read as a promise: with a producer whose
\* queue accepts everything, no SPI that was in a bulk request is dropped.
FailedSpisAreRepublished == HasProducer => lost["bulk_call"] = {}
=============================================================================
