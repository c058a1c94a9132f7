------------------------------- MODULE Buffers -------------------------------
(***************************************************************************)
(* The pooled buffers: who holds which buffer, what is in it, and what     *)
(* parseESErrors copies out of a bulk request.  Buffers are pointers that  *)
(* travel between goroutines; after Put the pool may hand the same buffer  *)
(* to another goroutine at once.  Only references count here: when a batch *)
(* is flushed, and the order within a channel, are left open (see Bulker   *)
(* and Pipeline), and merge is part of the channel it fills.  What leaves  *)
(* the program is taken to be copied: the client is done with a request    *)
(* body when Bulk returns, and Produce copies the value.                   *)
(***************************************************************************)
EXTENDS Naturals, SequencesExt

CONSTANTS
    Buffer,         \* addresses of byte buffers
    Indexers,
    Actions,        \* the bulk actions of the topic
    OneLine,        \* those without a source line ("delete")
    Topic,          \* the messages: sequences of actions
    ChanCap,        \* ConsumerChannelBufferSize, ErrorChannelBufferSize
    HasProducer,
    TraceLevel      \* whether the log level is trace

ASSUME BuffersAssumption ==
    /\ Topic \subseteq Seq(Actions)
    /\ ChanCap \in Nat \ {0}
    /\ HasProducer \in BOOLEAN /\ TraceLevel \in BOOLEAN

\* An element of Actions stands for one place of the topic, whatever its text.
ASSUME TopicAssumption ==
    /\ \A m \in Topic : IsInjective(m)
    /\ \A m, n \in Topic : m # n => ToSet(m) \cap ToSet(n) = {}

\* A line of a bulk request: the part-th line of an action.  Each ends in a line feed, except
\* perhaps the last one of a request.
Line == Actions \X {1, 2}

\* What SplitAfter returns after the last line feed.
EmptyLine == <<>>

\* The sequences that f maps the elements of s to, one after the other.
FlatMap(s, f) == FlattenSeq([k \in DOMAIN s |-> f[s[k]]])

\* The lines of a sequence of actions.
LinesOf == [a \in Actions |-> IF a \in OneLine THEN << <<a, 1>> >> ELSE << <<a, 1>>, <<a, 2>> >>]
Payload(acts) == FlatMap(acts, LinesOf)

\* The actions of some lines: to Elasticsearch each first line begins one.
Begun == [l \in Line |-> IF l[2] = 1 THEN <<l[1]>> ELSE <<>>]
ActionsOf(lines) == FlatMap(lines, Begun)

\* Where a buffer can be: in a pool, in a channel, or with a goroutine in one of its variables.
MsgPool == <<"msgPool", 0>>
BulkPool == <<"bulkPool", 0>>
Polled == <<"polled", 0>>               \* with the consumer, not sent yet
ConsumerChan == <<"consumerChan", 0>>
Msg(i) == <<"msg", i>>                  \* read from the channel by indexer i
Batch(i) == <<"buffer", i>>             \* bulker.buffer
Out(i) == <<"out", i>>                  \* of parseESErrors
ErrorChan == <<"errorChan", 0>>         \* and mergedErrorChan
ProdMsg == <<"prodMsg", 0>>             \* the producer's

Places ==
    {MsgPool, BulkPool, Polled, ConsumerChan, ErrorChan, ProdMsg}
      \cup {Msg(i) : i \in Indexers} \cup {Batch(i) : i \in Indexers}
      \cup {Out(i) : i \in Indexers}

VARIABLES
    ref,            \* the buffers at each place
    content,        \* the lines in each buffer
    topic,          \* messages not polled yet
    cPc,            \* consumer
    msgBuf,         \* the consumer's variable: the buffer, even after it was sent, as long as
                    \* the consumer is going to read it, and the message it was written with
    iPc,            \* indexers
    cause           \* for the buffer of an error message: the request and what failed

vars == <<ref, content, topic, cPc, msgBuf, iPc, cause>>

NoMsgBuf == [buf |-> {}, msg |-> <<>>]
NoCause == [request |-> <<>>, failed |-> {}]

-----------------------------------------------------------------------------
(* bytebufferpool                                                          *)

\* Everything but the pools, whose buffers the garbage collector may reclaim.
Hands == Places \ {MsgPool, BulkPool}

\* Get returns a buffer of the pool, as it is, or a new one, at an address that no
\* variable refers to, which is empty.
Get(pool, b) == b \in ref[pool] \/ (b \notin msgBuf.buf /\ \A p \in Hands : b \notin ref[p])

TextOf(pool, b) == IF b \in ref[pool] THEN content[b] ELSE <<>>

\* References after b was assigned to place p, from a pool or from a channel.
GetTo(r, b, p) == [r EXCEPT ![MsgPool] = @ \ {b}, ![BulkPool] = @ \ {b}, ![p] = {b}]
RecvTo(r, ch, b, p) == [r EXCEPT ![ch] = @ \ {b}, ![p] = {b}]

\* References after the buffer of place p was given to a pool or to a channel.
GiveTo(r, p, q) == [r EXCEPT ![q] = @ \cup r[p], ![p] = {}]

\* Mutant of Reset: buffers are pooled as they are.
NoReset(bs) == content

\* Put resets a buffer before it is in the pool.
Reset(bs) == [b \in Buffer |-> IF b \in bs THEN <<>> ELSE content[b]]

\* What a buffer is the error message for is of no interest once it is Put.
Forget(bs) == [b \in Buffer |-> IF b \in bs THEN NoCause ELSE cause[b]]

\* Mutant of CanSend: room for one more.
CanSendOneMore(ch) == Cardinality(ref[ch]) <= ChanCap

\* A send does not block.
CanSend(ch) == Cardinality(ref[ch]) < ChanCap

\* The text of the buffer that place p refers to.
TextAt(p) == content[CHOOSE b \in ref[p] : TRUE]

\* newBulker takes the first buffer of each batch from the pool.
Init ==
    /\ \E f \in [Indexers -> Buffer] :
         /\ \A i, j \in Indexers : i # j => f[i] # f[j]
         /\ ref = [p \in Places |-> IF p[1] = "buffer" THEN {f[p[2]]} ELSE {}]
    /\ content = [b \in Buffer |-> <<>>]
    /\ topic = Topic
    /\ cPc = "poll" /\ msgBuf = NoMsgBuf
    /\ iPc = [i \in Indexers |-> "select"]
    /\ cause = [b \in Buffer |-> NoCause]

-----------------------------------------------------------------------------
(* kafka/consumer.go: the Kafka message of Consumer.Start                  *)

\* A message is polled, and a buffer taken for it and written.  If the length
\* written is not the message's, the buffer goes back and the message is dropped.
ConsumerCopy ==
    /\ cPc = "poll"
    /\ \E m \in topic, b \in Buffer :
         /\ Get(MsgPool, b)
         /\ topic' = topic \ {m}
         /\ \/ /\ ref' = GetTo(ref, b, Polled)
               /\ content' = [content EXCEPT ![b] = TextOf(MsgPool, b) \o Payload(m)]
               /\ msgBuf' = [buf |-> {b}, msg |-> m]
               /\ cPc' = "send"
            \/ /\ ref' = GiveTo(GetTo(ref, b, Polled), Polled, MsgPool)
               /\ content' = Reset({b})
               /\ UNCHANGED <<cPc, msgBuf>>
    /\ UNCHANGED <<iPc, cause>>

\* Mutant of ConsumerSend: the buffer is Put once it is sent.
SendAndPut ==
    /\ cPc = "send" /\ CanSend(ConsumerChan)
    /\ ref' = [GiveTo(ref, Polled, ConsumerChan) EXCEPT ![MsgPool] = @ \cup ref[Polled]]
    /\ content' = Reset(ref[Polled])
    /\ cPc' = "trace"
    /\ UNCHANGED <<msgBuf, topic, iPc, cause>>

\* msgChan <- msgBuf.  The buffer is the indexers' now, but at trace level msgBuf is read once
\* more.
ConsumerSend ==
    /\ cPc = "send" /\ CanSend(ConsumerChan)
    /\ ref' = GiveTo(ref, Polled, ConsumerChan)
    /\ IF TraceLevel THEN cPc' = "trace" /\ UNCHANGED msgBuf
                     ELSE cPc' = "poll" /\ msgBuf' = NoMsgBuf
    /\ UNCHANGED <<content, topic, iPc, cause>>

\* c.logger.Trace().Msg(msgBuf.String()) has read the buffer, whoever has it by now.
ConsumerTrace ==
    /\ cPc = "trace"
    /\ cPc' = "poll" /\ msgBuf' = NoMsgBuf
    /\ UNCHANGED <<ref, content, topic, iPc, cause>>

-----------------------------------------------------------------------------
(* es/indexer.go with es/bulker.go                                         *)

Goto(i, pc) == iPc' = [iPc EXCEPT ![i] = pc]

\* case msg, ok := <-consumerChan
IndexerRecv(i) ==
    /\ iPc[i] = "select"
    /\ \E b \in ref[ConsumerChan] : ref' = RecvTo(ref, ConsumerChan, b, Msg(i))
    /\ Goto(i, "write")
    /\ UNCHANGED <<content, topic, cPc, msgBuf, cause>>

\* bulk: msg.WriteTo(b.buffer), then b.msgPool.Put(msg)
BulkWrite(i) ==
    /\ iPc[i] = "write"
    /\ content' = [b \in Buffer |->
                     IF b \in ref[Msg(i)] THEN <<>>
                     ELSE IF b \in ref[Batch(i)] THEN content[b] \o TextAt(Msg(i))
                     ELSE content[b]]
    /\ ref' = GiveTo(ref, Msg(i), MsgPool)
    /\ Goto(i, "select")
    /\ UNCHANGED <<topic, cPc, msgBuf, cause>>

\* Start returns an error, that of CheckESStatus when the ticker ticks, or that of WriteTo in bulk:
\* the message and the batch are left to the garbage collector.
IndexerFails(i) ==
    /\ iPc[i] \in {"select", "write"}
    /\ ref' = [ref EXCEPT ![Msg(i)] = {}, ![Batch(i)] = {}]
    /\ Goto(i, "failed")
    /\ UNCHANGED <<content, topic, cPc, msgBuf, cause>>

\* flush calls sendToES, before or after a message is written.
SendToES(i) ==
    /\ iPc[i] \in {"select", "write"}
    /\ Goto(i, "bulk")
    /\ UNCHANGED <<ref, content, topic, cPc, msgBuf, cause>>

\* sendToES returns nil: the buffer was below minimumBufferSize, Bulk failed, the
\* response could not be decoded (handleResponseError has read all of an error
\* response), or it has no errors.  The deferred Put gives the buffer back.
\* b.buffer still points to it, but is assigned before it is used again.
NoErrorsFound(i) ==
    /\ iPc[i] = "bulk"
    /\ ref' = GiveTo(ref, Batch(i), BulkPool)
    /\ content' = Reset(ref[Batch(i)])
    /\ Goto(i, "report")
    /\ UNCHANGED <<topic, cPc, msgBuf, cause>>

\* bytes.SplitAfter(bulkBytes, []byte{'\n'}), where the last line need not end in a line feed.
SplitAfter(lines, ended) == IF ended THEN Append(lines, EmptyLine) ELSE lines

\* The items of the response, one for each action of the request, whose Error is set.
FailedItems(lines, failed) ==
    {k \in DOMAIN ActionsOf(lines) : ActionsOf(lines)[k] \in failed}

\* Mutant of ItemLines: without the second of the two writes.
FirstLineOnly(lines, k, ended) == << SplitAfter(lines, ended)[2 * k - 1] >>

\* bulkLines[index*2] and bulkLines[index*2+1]; items count from 1 here.
ItemLines(lines, k, ended) == << SplitAfter(lines, ended)[2 * k - 1], SplitAfter(lines, ended)[2 * k] >>

\* Mutant of OutOfRange: the items of the response are counted from one.
OutOfRangeFromOne(lines, failed, ended) ==
    \E k \in FailedItems(lines, failed) : Len(SplitAfter(lines, ended)) < 2 * k + 2

\* bulkLines is indexed out of range.
OutOfRange(lines, failed, ended) ==
    \E k \in FailedItems(lines, failed) : Len(SplitAfter(lines, ended)) < 2 * k

\* What parseESErrors writes to out.
ErrorLines(lines, failed, ended) ==
    FlattenSeq([k \in DOMAIN ActionsOf(lines) |->
                  IF k \in FailedItems(lines, failed) THEN ItemLines(lines, k, ended) ELSE <<>>])

\* parseESErrors, when the response says that it has errors, with the deferred Put of
\* the request's buffer, which a panic runs too.  The pool of goroutines recovers the
\* panic until Wait, so that the others go on.
ParseESErrors(i) ==
    /\ iPc[i] = "bulk" /\ TextAt(Batch(i)) # <<>>
    /\ \E failed \in SUBSET ToSet(ActionsOf(TextAt(Batch(i)))), ended \in BOOLEAN :
         \/ /\ OutOfRange(TextAt(Batch(i)), failed, ended)
            /\ ref' = GiveTo(ref, Batch(i), BulkPool) /\ content' = Reset(ref[Batch(i)])
            /\ Goto(i, "panic")
            /\ UNCHANGED cause
         \/ /\ ~OutOfRange(TextAt(Batch(i)), failed, ended)
            /\ \E b \in Buffer :
                 /\ Get(MsgPool, b)
                 /\ ref' = GiveTo(GetTo(ref, b, Out(i)), Batch(i), BulkPool)
                 /\ content' = [Reset(ref[Batch(i)]) EXCEPT ![b] =
                       TextOf(MsgPool, b) \o ErrorLines(TextAt(Batch(i)), failed, ended)]
                 /\ cause' = [cause EXCEPT ![b] = [request |-> TextAt(Batch(i)),
                                                   failed |-> failed]]
            /\ Goto(i, "report")
    /\ UNCHANGED <<topic, cPc, msgBuf>>

\* Mutant of PutOut: the return after the Put of an empty buffer is missing.
PutAndSend(i, r) == [r EXCEPT ![MsgPool] = @ \cup r[Out(i)],
                              ![ErrorChan] = @ \cup r[Out(i)], ![Out(i)] = {}]

\* sendErrors Puts what it does not send.
PutOut(i, r) == GiveTo(r, Out(i), MsgPool)

\* sendErrors, and then the end of flush: b.buffer = b.bufferPool.Get()
SendErrors(i) ==
    /\ iPc[i] = "report"
    /\ \E b \in Buffer :
         /\ Get(BulkPool, b)
         /\ \/ /\ ref[Out(i)] = {}
               /\ ref' = GetTo(ref, b, Batch(i))
               /\ content' = [content EXCEPT ![b] = TextOf(BulkPool, b)]
               /\ UNCHANGED cause
            \/ /\ ref[Out(i)] # {} /\ (~HasProducer \/ TextAt(Out(i)) = <<>>)
               /\ ref' = GetTo(PutOut(i, ref), b, Batch(i))
               /\ content' = [Reset(ref[Out(i)]) EXCEPT ![b] = TextOf(BulkPool, b)]
               /\ cause' = Forget(ref[Out(i)])
            \/ /\ ref[Out(i)] # {} /\ HasProducer /\ TextAt(Out(i)) # <<>>
               /\ CanSend(ErrorChan)
               /\ ref' = GetTo(GiveTo(ref, Out(i), ErrorChan), b, Batch(i))
               /\ content' = [content EXCEPT ![b] = TextOf(BulkPool, b)]
               /\ UNCHANGED cause
    /\ Goto(i, IF ref[Msg(i)] = {} THEN "select" ELSE "write")
    /\ UNCHANGED <<topic, cPc, msgBuf>>

Indexer(i) ==
    \/ IndexerRecv(i)
    \/ BulkWrite(i) \/ IndexerFails(i)
    \/ SendToES(i) \/ NoErrorsFound(i) \/ ParseESErrors(i)
    \/ SendErrors(i)

-----------------------------------------------------------------------------
(* kafka/producer.go                                                       *)

\* for msg := range msgChan
ProducerRecv ==
    /\ ref[ProdMsg] = {}
    /\ \E b \in ref[ErrorChan] : ref' = RecvTo(ref, ErrorChan, b, ProdMsg)
    /\ UNCHANGED <<content, topic, cPc, msgBuf, iPc, cause>>

\* Produce, with its retry, and the deferred Put.
Produce ==
    /\ ref[ProdMsg] # {}
    /\ ref' = GiveTo(ref, ProdMsg, MsgPool)
    /\ content' = Reset(ref[ProdMsg]) /\ cause' = Forget(ref[ProdMsg])
    /\ UNCHANGED <<topic, cPc, msgBuf, iPc>>

-----------------------------------------------------------------------------
Next ==
    \/ ConsumerCopy \/ ConsumerSend \/ ConsumerTrace
    \/ \E i \in Indexers : Indexer(i)
    \/ ProducerRecv \/ Produce

Spec == Init /\ [][Next]_vars

-----------------------------------------------------------------------------
TypeOK ==
    /\ ref \in [Places -> SUBSET Buffer]
    /\ \A p \in Hands \ {ConsumerChan, ErrorChan} : Cardinality(ref[p]) <= 1
    /\ Cardinality(ref[ConsumerChan]) <= ChanCap /\ Cardinality(ref[ErrorChan]) <= ChanCap
    /\ content \in [Buffer -> Seq(Line \cup {EmptyLine})]
    /\ topic \subseteq Topic
    /\ cPc \in {"poll", "send", "trace"}
    /\ msgBuf \in [buf : SUBSET Buffer, msg : Topic \cup {<<>>}]
    /\ iPc \in [Indexers -> {"select", "write", "bulk", "report", "panic", "failed"}]
    /\ cause \in [Buffer -> [request : Seq(Line), failed : SUBSET Actions]]

Exclusive(r) == \A p, q \in Places : p # q => r[p] \cap r[q] = {}

\* Ownership: at any moment a buffer is at one place only, be it a variable of a goroutine, a
\* channel or a pool, so that no buffer is in a pool twice, and no goroutine reads or writes a
\* buffer that it has sent on or Put.  The one exception is the consumer at trace level, between
\* its send and the end of its logging: the buffer may be with an indexer, in the pool, or in
\* use for another message by then.
NoSharing ==
    /\ Exclusive(ref)
    /\ cPc # "trace" => \A p \in Places \ {Polled} : msgBuf.buf \cap ref[p] = {}

\* Requests: a batch consists of whole messages, each as it was polled and none of
\* them twice, although buffers are reused all the time and Get does not clear them.
BatchesAreWhole ==
    \A i \in Indexers, b \in Buffer : b \in ref[Batch(i)] =>
      /\ content[b] = Payload(ActionsOf(content[b]))
      /\ IsInjective(ActionsOf(content[b]))
      /\ \A m \in Topic : ToSet(m) \cap ToSet(ActionsOf(content[b])) # {} =>
                            \E k \in 0 .. Len(content[b]) :
                              IsPrefix(Payload(m), SubSeq(content[b], k + 1, Len(content[b])))

\* The lines of a request that belong to a failed action.
LinesToRepublish(c) ==
    FlatMap(c.request, [l \in Line |-> IF l[1] \in c.failed THEN <<l>> ELSE <<>>])

\* Republishing: what the producer reads is, line for line, what failed, if every
\* action of the request has a source line.
FailedLinesExact ==
    \A b \in ref[ErrorChan] \cup ref[ProdMsg] :
      (\A l \in ToSet(cause[b].request) : l[1] \notin OneLine) =>
        content[b] = LinesToRepublish(cause[b])

\* parseESErrors indexes out of range only for a request with a one-line action.
PanicsOnlyOnOneLine ==
    [][\A i \in Indexers : iPc[i] # "panic" /\ iPc'[i] = "panic" =>
         \E l \in ToSet(TextAt(Batch(i))) : l[1] \in OneLine]_vars

\* At trace level the consumer reads the buffer after it has sent it.  What it logs is
\* still its message as long as no indexer has copied and Put it.
TraceSeesMessageUntilPut ==
    cPc = "trace" /\ msgBuf.buf \subseteq ref[ConsumerChan] \cup UNION {ref[Msg(i)] : i \in Indexers}
      => \A b \in msgBuf.buf : content[b] = Payload(msgBuf.msg)
=============================================================================
