--------------------------- MODULE PipelineProofs ---------------------------
(***************************************************************************)
(* Safety of the pipeline for every topic, every number of indexers, all   *)
(* channel capacities and limits, and every set of failures.               *)
(***************************************************************************)
EXTENDS Pipeline, TLAPS

-----------------------------------------------------------------------------
(* What sending, receiving and closing do to a channel.                    *)

\* make returns an open, empty channel.
LEMMA NewChanType ==
  ASSUME NEW T
  PROVE  NewChan \in Channel(T) /\ ~NewChan.closed /\ NewChan.buf = <<>>
  BY DEF NewChan, Channel

\* A send appends and neither opens nor closes.
LEMMA SentType ==
  ASSUME NEW T, NEW c \in Channel(T), NEW x \in T
  PROVE  /\ Sent(c, x) \in Channel(T)
         /\ Sent(c, x).closed = c.closed
         /\ Sent(c, x).buf = Append(c.buf, x)
  BY DEF Sent, Channel

\* A receive takes an element of the channel's type and neither opens nor closes.
LEMMA RestType ==
  ASSUME NEW T, NEW c \in Channel(T), CanRecv(c)
  PROVE  /\ Received(c) \in T
         /\ Rest(c) \in Channel(T)
         /\ Rest(c).closed = c.closed
         /\ Rest(c).buf = Tail(c.buf)
  BY DEF Received, Rest, Channel, CanRecv

\* A close leaves what is buffered.
LEMMA ClosedType ==
  ASSUME NEW T, NEW c \in Channel(T)
  PROVE  /\ Closed(c) \in Channel(T)
         /\ Closed(c).closed
         /\ Closed(c).buf = c.buf
  BY DEF Closed, Channel

\* No two elements of the channel share anything.
Apart(c) == \A j, k \in DOMAIN c.buf : j # k => c.buf[j] \cap c.buf[k] = {}

\* A new channel holds nothing.
LEMMA NewChanApart == InChan(NewChan) = {} /\ Apart(NewChan)
  BY DEF NewChan, InChan, Apart

\* A send adds to what is in the channel, and keeps its elements apart if what is sent
\* was not in it.
LEMMA SentApart ==
  ASSUME NEW T, NEW c \in Channel(SUBSET T), NEW x \in SUBSET T
  PROVE  /\ InChan(Sent(c, x)) = InChan(c) \cup x
         /\ Apart(c) /\ x \cap InChan(c) = {} => Apart(Sent(c, x))
<1> DEFINE n == Len(c.buf)
           d == Sent(c, x)
<1>1. /\ n \in Nat
      /\ DOMAIN c.buf = 1 .. n
      /\ DOMAIN d.buf = 1 .. n + 1
      /\ d.buf[n + 1] = x
      /\ \A k \in 1 .. n : d.buf[k] = c.buf[k]
  BY DEF Sent, Channel
<1> HIDE DEF n, d
<1>2. InChan(d) = InChan(c) \cup x
  BY <1>1 DEF InChan
<1>3. ASSUME Apart(c), x \cap InChan(c) = {} PROVE Apart(d)
  <2>1. \A k \in 1 .. n : x \cap c.buf[k] = {}
    BY <1>1, <1>3 DEF InChan
  <2> QED
    BY <1>1, <1>3, <2>1 DEF Apart
<1> QED
  BY <1>2, <1>3 DEF d

\* A receive takes what it returns out of the channel.
LEMMA RestApart ==
  ASSUME NEW T, NEW c \in Channel(SUBSET T), CanRecv(c)
  PROVE  /\ InChan(c) = Received(c) \cup InChan(Rest(c))
         /\ Apart(c) => Apart(Rest(c)) /\ Received(c) \cap InChan(Rest(c)) = {}
<1> DEFINE n == Len(c.buf)
           d == Rest(c)
<1>1. /\ n \in Nat /\ n > 0
      /\ DOMAIN c.buf = 1 .. n
      /\ DOMAIN d.buf = 1 .. n - 1
      /\ Received(c) = c.buf[1]
      /\ \A k \in 1 .. n - 1 : d.buf[k] = c.buf[k + 1]
  BY DEF Rest, Received, Channel, CanRecv
<1> HIDE DEF n, d
<1>2. \A s : s \in InChan(d) <=> \E k \in 2 .. n : s \in c.buf[k]
  <2>1. ASSUME NEW k \in 1 .. n - 1 PROVE k + 1 \in 2 .. n /\ d.buf[k] = c.buf[k + 1]
    BY <1>1
  <2>2. ASSUME NEW k \in 2 .. n PROVE k - 1 \in 1 .. n - 1 /\ d.buf[k - 1] = c.buf[k]
    BY <1>1
  <2>3. \A s : s \in InChan(d) <=> \E k \in 1 .. n - 1 : s \in d.buf[k]
    BY <1>1 DEF InChan
  <2> QED
    BY <2>1, <2>2, <2>3
<1>3. InChan(c) = Received(c) \cup InChan(d)
  <2>1. \A s : s \in InChan(c) <=> \E k \in 1 .. n : s \in c.buf[k]
    BY <1>1 DEF InChan
  <2>2. \A k : k \in 1 .. n <=> k = 1 \/ k \in 2 .. n
    BY <1>1
  <2> QED
    BY <1>1, <1>2, <2>1, <2>2
<1>4. ASSUME Apart(c) PROVE Apart(d) /\ Received(c) \cap InChan(d) = {}
  <2>1. \A j, k \in 1 .. n : j # k => c.buf[j] \cap c.buf[k] = {}
    BY <1>1, <1>4 DEF Apart
  <2>2. ASSUME NEW j \in 1 .. n - 1, NEW k \in 1 .. n - 1, j # k
        PROVE  d.buf[j] \cap d.buf[k] = {}
    <3>1. j + 1 \in 1 .. n /\ k + 1 \in 1 .. n /\ j + 1 # k + 1
      BY <1>1, <2>2
    <3> QED
      BY <1>1, <2>1, <3>1
  <2>3. Apart(d)
    BY <1>1, <2>2 DEF Apart
  <2>4. ASSUME NEW k \in 2 .. n PROVE c.buf[1] \cap c.buf[k] = {}
    <3>1. 1 \in 1 .. n /\ k \in 1 .. n /\ k # 1
      BY <1>1
    <3> QED
      BY <2>1, <3>1
  <2> QED
    BY <1>1, <1>2, <2>3, <2>4
<1> QED
  BY <1>3, <1>4 DEF d

\* A close leaves what is in the channel.
LEMMA ClosedApart ==
  ASSUME NEW T, NEW c \in Channel(T)
  PROVE  InChan(Closed(c)) = InChan(c) /\ (Apart(c) => Apart(Closed(c)))
  BY ClosedType DEF InChan, Apart

-----------------------------------------------------------------------------
(* The inductive invariant of the pipeline's control.                      *)

\* Between two flushes there is room for one more message.
BatchCount ==
    \A i \in Indexers : iPc[i] \in {"select", "bytes", "write"} => bulkedMsgCount[i] < MsgLimit

\* When each local variable may hold SPIs.
Hands ==
    /\ cMsg # {} => cPc \in {"copy", "send"}
    /\ \A i \in Indexers :
         /\ iMsg[i] # {} =>
              \/ iPc[i] \in {"bytes", "write", "abort"}
              \/ iPc[i] \in {"flush", "report"} /\ iNext[i] \in {"bytes", "write"}
         /\ iPc[i] \in {"report", "return", "failed", "done", "dead"} => buffer[i] = {}
         /\ failed[i] # {} => iPc[i] = "report"
         /\ fMsg[i] # {} => fPc[i] = "send"
    /\ pMsg # {} => pPc \in {"produce", "cooldown"}

\* An indexer that is on its way out because consumerChan is closed.
Leaving(i) ==
    \/ iPc[i] \in {"return", "done"}
    \/ iPc[i] \in {"flush", "report"} /\ iNext[i] = "return"

\* Each channel is closed by its last sender, and each reader that has ended saw the
\* channel closed and empty.
Closing ==
    /\ consumerChan.closed <=> cPc \in {"failed", "done", "dead"}
    /\ \A i \in Indexers :
         /\ errorChan[i].closed <=> HasProducer /\ iPc[i] \in {"failed", "done", "dead"}
         /\ Leaving(i) => consumerChan.closed /\ consumerChan.buf = <<>>
         /\ fPc[i] = "done" => errorChan[i].buf = <<>> /\ (HasProducer => errorChan[i].closed)
         /\ mPc # "wait" => fPc[i] = "done"
    /\ mergedErrorChan.closed => mPc = "done"
    /\ pPc = "done" => mPc # "wait" /\ mergedErrorChan.buf = <<>>

ControlInv == TypeOK /\ BatchCount /\ Hands /\ Closing

LEMMA ControlInvInit == Init => ControlInv
<1> SUFFICES ASSUME Init PROVE ControlInv
  OBVIOUS
<1> USE LimitsAssumption DEF Init, HasProducer
<1>1. NewChan \in Channel(SUBSET Spis) /\ ~NewChan.closed /\ NewChan.buf = <<>>
  BY NewChanType
<1>2. TypeOK
  <2>1. /\ iPc \in [Indexers -> {"select", "bytes", "write", "flush", "report",
                                 "return", "abort", "failed", "done", "dead"}]
        /\ fPc \in [Indexers -> {"recv", "send", "done"}]
        /\ iNext \in [Indexers -> {"select", "bytes", "write", "return"}]
    OBVIOUS
  <2>2. /\ mPc \in {"none", "wait", "done"}
        /\ pPc \in {"start", "recv", "produce", "cooldown", "failed", "done", "dead"}
    OBVIOUS
  <2>3. bulkedMsgCount \in [Indexers -> 0 .. MsgLimit]
    OBVIOUS
  <2>4. errorChan \in [Indexers -> Channel(SUBSET Spis)]
    BY <1>1
  <2>5. lost \in [Losses -> SUBSET Spis]
    OBVIOUS
  <2> QED
    BY <1>1, <2>1, <2>2, <2>3, <2>4, <2>5
       DEF TypeOK, ConsumerTypeOK, IndexerTypeOK, MergeTypeOK, ProducerTypeOK, FatesTypeOK
<1>3. BatchCount
  BY DEF BatchCount
<1>4. Hands
  BY DEF Hands
<1>5. Closing
  BY <1>1 DEF Closing, Leaving
<1> QED
  BY <1>2, <1>3, <1>4, <1>5 DEF ControlInv

LEMMA ControlInvStep == ControlInv /\ [Next]_vars => ControlInv'
<1> SUFFICES ASSUME ControlInv, [Next]_vars PROVE ControlInv'
  OBVIOUS
<1> USE LimitsAssumption DEF ControlInv, HasProducer, consumerVars, indexerVars, mergeVars, producerVars, fates
<1>1. CASE Cancel
  <2> USE <1>1 DEF Cancel
  <2>1. TypeOK'
    <3> QED
      BY DEF TypeOK, ConsumerTypeOK, IndexerTypeOK, MergeTypeOK, ProducerTypeOK, FatesTypeOK
  <2>2. BatchCount'
    BY DEF BatchCount, TypeOK, IndexerTypeOK
  <2>3. Hands'
    BY DEF Hands, TypeOK, ConsumerTypeOK, IndexerTypeOK, MergeTypeOK, ProducerTypeOK, FatesTypeOK
  <2>4. Closing'
    BY DEF Closing, Leaving, TypeOK, ConsumerTypeOK, IndexerTypeOK, MergeTypeOK, ProducerTypeOK, FatesTypeOK
  <2> QED
    BY <2>1, <2>2, <2>3, <2>4
<1>2. CASE CancelOnError
  <2> USE <1>2 DEF CancelOnError
  <2>1. TypeOK'
    <3>1. ConsumerTypeOK'
      BY DEF TypeOK, ConsumerTypeOK
    <3>2. IndexerTypeOK'
      BY DEF TypeOK, IndexerTypeOK
    <3>3. ProducerTypeOK'
      BY DEF TypeOK, ProducerTypeOK
    <3> QED
      BY <3>1, <3>2, <3>3 DEF TypeOK, MergeTypeOK, FatesTypeOK
  <2>2. BatchCount'
    BY DEF BatchCount, TypeOK, IndexerTypeOK
  <2>3. Hands'
    BY DEF Hands, TypeOK, ConsumerTypeOK, IndexerTypeOK, MergeTypeOK, ProducerTypeOK, FatesTypeOK
  <2>4. Closing'
    BY DEF Closing, Leaving, TypeOK, ConsumerTypeOK, IndexerTypeOK, MergeTypeOK, ProducerTypeOK, FatesTypeOK
  <2> QED
    BY <2>1, <2>2, <2>3, <2>4
<1>3. CASE Consumer /\ ConsumerStart
  <2> USE <1>3 DEF Consumer, ConsumerStart, ConsumerReturn
  <2>1. /\ Closed(consumerChan) \in Channel(SUBSET Spis)
        /\ Closed(consumerChan).closed
        /\ Closed(consumerChan).buf = consumerChan.buf
    BY ClosedType DEF TypeOK, ConsumerTypeOK, IndexerTypeOK, MergeTypeOK
  <2>2. TypeOK'
    <3>1. ConsumerTypeOK'
      BY <2>1 DEF TypeOK, ConsumerTypeOK
    <3> QED
      BY <3>1 DEF TypeOK, IndexerTypeOK, MergeTypeOK, ProducerTypeOK, FatesTypeOK
  <2>3. BatchCount'
    BY <2>1 DEF BatchCount, TypeOK, IndexerTypeOK
  <2>4. Hands'
    BY <2>1 DEF Hands, TypeOK, ConsumerTypeOK, IndexerTypeOK, MergeTypeOK, ProducerTypeOK, FatesTypeOK
  <2>5. Closing'
    BY <2>1 DEF Closing, Leaving, TypeOK, ConsumerTypeOK, IndexerTypeOK, MergeTypeOK, ProducerTypeOK, FatesTypeOK
  <2> QED
    BY <2>2, <2>3, <2>4, <2>5
<1>4. CASE Consumer /\ ConsumerCheckCtx
  <2> USE <1>4 DEF Consumer, ConsumerCheckCtx, ConsumerReturn
  <2>1. /\ Closed(consumerChan) \in Channel(SUBSET Spis)
        /\ Closed(consumerChan).closed
        /\ Closed(consumerChan).buf = consumerChan.buf
    BY ClosedType DEF TypeOK, ConsumerTypeOK, IndexerTypeOK, MergeTypeOK
  <2>2. TypeOK'
    <3>1. ConsumerTypeOK'
      BY <2>1 DEF TypeOK, ConsumerTypeOK
    <3> QED
      BY <3>1 DEF TypeOK, IndexerTypeOK, MergeTypeOK, ProducerTypeOK, FatesTypeOK
  <2>3. BatchCount'
    BY <2>1 DEF BatchCount, TypeOK, IndexerTypeOK
  <2>4. Hands'
    BY <2>1 DEF Hands, TypeOK, ConsumerTypeOK, IndexerTypeOK, MergeTypeOK, ProducerTypeOK, FatesTypeOK
  <2>5. Closing'
    BY <2>1 DEF Closing, Leaving, TypeOK, ConsumerTypeOK, IndexerTypeOK, MergeTypeOK, ProducerTypeOK, FatesTypeOK
  <2> QED
    BY <2>2, <2>3, <2>4, <2>5
<1>5. CASE Consumer /\ ConsumerPoll
  <2> USE <1>5 DEF Consumer, ConsumerPoll, ConsumerReturn
  <2>1. /\ Closed(consumerChan) \in Channel(SUBSET Spis)
        /\ Closed(consumerChan).closed
        /\ Closed(consumerChan).buf = consumerChan.buf
    BY ClosedType DEF TypeOK, ConsumerTypeOK, IndexerTypeOK, MergeTypeOK
  <2>2. \A m \in topic : m \in SUBSET Spis
    BY DEF TypeOK, ConsumerTypeOK, Spis
  <2>3. TypeOK'
    <3>1. ConsumerTypeOK'
      BY <2>1, <2>2 DEF TypeOK, ConsumerTypeOK
    <3> QED
      BY <3>1 DEF TypeOK, IndexerTypeOK, MergeTypeOK, ProducerTypeOK, FatesTypeOK
  <2>4. BatchCount'
    BY <2>1, <2>2 DEF BatchCount, TypeOK, IndexerTypeOK
  <2>5. Hands'
    BY <2>1, <2>2 DEF Hands, TypeOK, ConsumerTypeOK, IndexerTypeOK, MergeTypeOK, ProducerTypeOK, FatesTypeOK
  <2>6. Closing'
    BY <2>1, <2>2 DEF Closing, Leaving, TypeOK, ConsumerTypeOK, IndexerTypeOK, MergeTypeOK, ProducerTypeOK, FatesTypeOK
  <2> QED
    BY <2>3, <2>4, <2>5, <2>6
<1>6. CASE Consumer /\ ConsumerCopy
  <2> USE <1>6 DEF Consumer, ConsumerCopy, Lose
  <2>1. lost' \in [Losses -> SUBSET Spis]
    BY DEF TypeOK, ConsumerTypeOK, FatesTypeOK, Losses
  <2>2. TypeOK'
    <3>1. ConsumerTypeOK'
      BY <2>1 DEF TypeOK, ConsumerTypeOK
    <3>2. FatesTypeOK'
      BY <2>1 DEF TypeOK, ConsumerTypeOK, IndexerTypeOK, MergeTypeOK, ProducerTypeOK, FatesTypeOK
    <3> QED
      BY <3>1, <3>2 DEF TypeOK, IndexerTypeOK, MergeTypeOK, ProducerTypeOK
  <2>3. BatchCount'
    BY <2>1 DEF BatchCount, TypeOK, IndexerTypeOK
  <2>4. Hands'
    BY <2>1 DEF Hands, TypeOK, ConsumerTypeOK, IndexerTypeOK, MergeTypeOK, ProducerTypeOK, FatesTypeOK
  <2>5. Closing'
    BY <2>1 DEF Closing, Leaving, TypeOK, ConsumerTypeOK, IndexerTypeOK, MergeTypeOK, ProducerTypeOK, FatesTypeOK
  <2> QED
    BY <2>2, <2>3, <2>4, <2>5
<1>7. CASE Consumer /\ ConsumerSend
  <2> USE <1>7 DEF Consumer, ConsumerSend
  <2>1. consumerChan \in Channel(SUBSET Spis) /\ cMsg \in SUBSET Spis
    BY DEF TypeOK, ConsumerTypeOK, IndexerTypeOK, MergeTypeOK
  <2>2. /\ Sent(consumerChan, cMsg) \in Channel(SUBSET Spis)
        /\ Sent(consumerChan, cMsg).closed = consumerChan.closed
    BY <2>1, SentType
  <2>3. TypeOK'
    <3>1. ConsumerTypeOK'
      BY <2>1, <2>2 DEF TypeOK, ConsumerTypeOK
    <3> QED
      BY <3>1 DEF TypeOK, IndexerTypeOK, MergeTypeOK, ProducerTypeOK, FatesTypeOK
  <2>4. BatchCount'
    BY <2>1, <2>2 DEF BatchCount, TypeOK, IndexerTypeOK
  <2>5. Hands'
    BY <2>1, <2>2 DEF Hands, TypeOK, ConsumerTypeOK, IndexerTypeOK, MergeTypeOK, ProducerTypeOK, FatesTypeOK
  <2>6. Closing'
    BY <2>1, <2>2 DEF Closing, Leaving, TypeOK, ConsumerTypeOK, IndexerTypeOK, MergeTypeOK, ProducerTypeOK, FatesTypeOK
  <2> QED
    BY <2>3, <2>4, <2>5, <2>6
<1>8. ASSUME NEW i \in Indexers, Indexer(i), IndexerRecv(i) PROVE ControlInv'
  <2> USE <1>8 DEF Indexer, IndexerRecv, TimeLimitFlush, FinalFlush, CallFlush, Goto, ConsumerChanEnded, Drained
  <2>1. CanRecv(consumerChan) =>
          /\ Received(consumerChan) \in SUBSET Spis
          /\ Rest(consumerChan) \in Channel(SUBSET Spis)
          /\ Rest(consumerChan).closed = consumerChan.closed
          /\ consumerChan.buf # <<>>
    BY RestType DEF TypeOK, ConsumerTypeOK, IndexerTypeOK, MergeTypeOK, CanRecv
  <2>2. TypeOK'
    <3>1. ConsumerTypeOK'
      BY <2>1 DEF TypeOK, ConsumerTypeOK
    <3>2. IndexerTypeOK'
      BY <2>1, ZenonT(60) DEF TypeOK, IndexerTypeOK
    <3> QED
      BY <3>1, <3>2 DEF TypeOK, MergeTypeOK, ProducerTypeOK, FatesTypeOK
  <2>3. BatchCount'
    BY <2>1 DEF BatchCount, TypeOK, IndexerTypeOK
  <2>4. CASE CanRecv(consumerChan)
    <3>1. /\ iMsg' = [iMsg EXCEPT ![i] = Received(consumerChan)]
          /\ consumerChan' = Rest(consumerChan)
          /\ \/ iPc' = [iPc EXCEPT ![i] = "flush"] /\ iNext' = [iNext EXCEPT ![i] = "bytes"]
             \/ iPc' = [iPc EXCEPT ![i] = "bytes"] /\ iNext' = iNext
      BY <2>1, <2>4
    <3>2. Hands'
      BY <3>1 DEF Hands, TypeOK, IndexerTypeOK
    <3>3. Closing'
      BY <2>1, <2>4, <3>1 DEF Closing, Leaving, TypeOK, IndexerTypeOK
    <3> QED
      BY <2>2, <2>3, <3>2, <3>3
  <2>5. CASE ~CanRecv(consumerChan)
    <3>1. /\ iPc' = [iPc EXCEPT ![i] = "flush"] /\ iNext' = [iNext EXCEPT ![i] = "return"]
          /\ UNCHANGED <<iMsg, consumerChan>>
          /\ consumerChan.closed /\ consumerChan.buf = <<>>
      BY <2>5
    <3>2. Hands'
      BY <3>1 DEF Hands, TypeOK, IndexerTypeOK
    <3>3. Closing'
      BY <3>1 DEF Closing, Leaving, TypeOK, IndexerTypeOK
    <3> QED
      BY <2>2, <2>3, <3>2, <3>3
  <2> QED
    BY <2>4, <2>5
<1>9. ASSUME NEW i \in Indexers, Indexer(i), IndexerTick(i) PROVE ControlInv'
  <2> USE <1>9 DEF Indexer, IndexerTick, ESStatusError, TimeLimitFlush, CallFlush, Goto
  <2>1. TypeOK'
    <3>1. IndexerTypeOK'
      BY DEF TypeOK, IndexerTypeOK
    <3> QED
      BY <3>1 DEF TypeOK, ConsumerTypeOK, MergeTypeOK, ProducerTypeOK, FatesTypeOK
  <2>2. BatchCount'
    BY DEF BatchCount, TypeOK, IndexerTypeOK
  <2>3. Hands'
    BY DEF Hands, TypeOK, ConsumerTypeOK, IndexerTypeOK, MergeTypeOK, ProducerTypeOK, FatesTypeOK
  <2>4. Closing'
    BY DEF Closing, Leaving, TypeOK, ConsumerTypeOK, IndexerTypeOK, MergeTypeOK, ProducerTypeOK, FatesTypeOK
  <2> QED
    BY <2>1, <2>2, <2>3, <2>4
<1>10. ASSUME NEW i \in Indexers, Indexer(i), BulkBytes(i) PROVE ControlInv'
  <2> USE <1>10 DEF Indexer, BulkBytes, CallFlush, Goto
  <2>1. TypeOK'
    <3>1. IndexerTypeOK'
      BY DEF TypeOK, IndexerTypeOK
    <3> QED
      BY <3>1 DEF TypeOK, ConsumerTypeOK, MergeTypeOK, ProducerTypeOK, FatesTypeOK
  <2>2. BatchCount'
    BY DEF BatchCount, TypeOK, IndexerTypeOK
  <2>3. Hands'
    BY DEF Hands, TypeOK, ConsumerTypeOK, IndexerTypeOK, MergeTypeOK, ProducerTypeOK, FatesTypeOK
  <2>4. Closing'
    BY DEF Closing, Leaving, TypeOK, ConsumerTypeOK, IndexerTypeOK, MergeTypeOK, ProducerTypeOK, FatesTypeOK
  <2> QED
    BY <2>1, <2>2, <2>3, <2>4
<1>11. ASSUME NEW i \in Indexers, Indexer(i), BulkWrite(i) PROVE ControlInv'
  <2> USE <1>11 DEF Indexer, BulkWrite, CallFlush, Goto
  <2>1. TypeOK'
    <3>1. bulkedMsgCount' \in [Indexers -> 0 .. MsgLimit]
      BY DEF TypeOK, IndexerTypeOK, BatchCount
    <3>2. buffer' \in [Indexers -> SUBSET Spis] /\ iMsg' \in [Indexers -> SUBSET Spis]
      BY DEF TypeOK, IndexerTypeOK
    <3>3. /\ iPc' \in [Indexers -> {"select", "bytes", "write", "flush", "report",
                                    "return", "abort", "failed", "done", "dead"}]
          /\ iNext' \in [Indexers -> {"select", "bytes", "write", "return"}]
      BY DEF TypeOK, IndexerTypeOK
    <3>4. failed' = failed /\ errorChan' = errorChan
      OBVIOUS
    <3>5. IndexerTypeOK'
      BY <3>1, <3>2, <3>3, <3>4 DEF TypeOK, IndexerTypeOK
    <3> QED
      BY <3>5 DEF TypeOK, ConsumerTypeOK, MergeTypeOK, ProducerTypeOK, FatesTypeOK
  <2>2. BatchCount'
    BY DEF BatchCount, TypeOK, IndexerTypeOK
  <2>3. Hands'
    BY DEF Hands, TypeOK, ConsumerTypeOK, IndexerTypeOK, MergeTypeOK, ProducerTypeOK, FatesTypeOK
  <2>4. Closing'
    BY DEF Closing, Leaving, TypeOK, ConsumerTypeOK, IndexerTypeOK, MergeTypeOK, ProducerTypeOK, FatesTypeOK
  <2> QED
    BY <2>1, <2>2, <2>3, <2>4
<1>12. ASSUME NEW i \in Indexers, Indexer(i), SendToES(i) PROVE ControlInv'
  <2> USE <1>12 DEF Indexer, SendToES, BulkResponse, BulkCallError, NewBuffer, Goto, Lose
  <2>1. TypeOK'
    <3>1. IndexerTypeOK'
      BY DEF TypeOK, IndexerTypeOK
    <3>2. FatesTypeOK'
      BY DEF TypeOK, ConsumerTypeOK, IndexerTypeOK, MergeTypeOK, ProducerTypeOK, FatesTypeOK
    <3> QED
      BY <3>1, <3>2 DEF TypeOK, ConsumerTypeOK, MergeTypeOK, ProducerTypeOK
  <2>2. BatchCount'
    BY DEF BatchCount, TypeOK, IndexerTypeOK
  <2>3. Hands'
    BY DEF Hands, TypeOK, ConsumerTypeOK, IndexerTypeOK, MergeTypeOK, ProducerTypeOK, FatesTypeOK
  <2>4. Closing'
    BY DEF Closing, Leaving, TypeOK, ConsumerTypeOK, IndexerTypeOK, MergeTypeOK, ProducerTypeOK, FatesTypeOK
  <2> QED
    BY <2>1, <2>2, <2>3, <2>4
<1>13. ASSUME NEW i \in Indexers, Indexer(i), SendErrors(i) PROVE ControlInv'
  <2> USE <1>13 DEF Indexer, SendErrors, NothingToSend, ResetCount, Goto, Lose
  <2>1. errorChan[i] \in Channel(SUBSET Spis) /\ failed[i] \in SUBSET Spis
    BY DEF TypeOK, ConsumerTypeOK, IndexerTypeOK, MergeTypeOK
  <2>2. /\ Sent(errorChan[i], failed[i]) \in Channel(SUBSET Spis)
        /\ Sent(errorChan[i], failed[i]).closed = errorChan[i].closed
    BY <2>1, SentType
  <2>3. TypeOK'
    <3>1. IndexerTypeOK'
      <4>1. iPc' \in [Indexers -> {"select", "bytes", "write", "flush", "report",
                                   "return", "abort", "failed", "done", "dead"}]
        BY DEF TypeOK, IndexerTypeOK
      <4>2. bulkedMsgCount' \in [Indexers -> 0 .. MsgLimit]
        BY DEF TypeOK, IndexerTypeOK
      <4>3. errorChan' \in [Indexers -> Channel(SUBSET Spis)]
        BY <2>2 DEF TypeOK, IndexerTypeOK
      <4>4. failed' \in [Indexers -> SUBSET Spis]
        BY DEF TypeOK, IndexerTypeOK
      <4> QED
        BY <4>1, <4>2, <4>3, <4>4 DEF TypeOK, IndexerTypeOK
    <3>2. FatesTypeOK'
      BY <2>1, <2>2 DEF TypeOK, ConsumerTypeOK, IndexerTypeOK, MergeTypeOK, ProducerTypeOK, FatesTypeOK
    <3> QED
      BY <3>1, <3>2 DEF TypeOK, ConsumerTypeOK, MergeTypeOK, ProducerTypeOK
  <2>4. BatchCount'
    BY <2>1, <2>2 DEF BatchCount, TypeOK, IndexerTypeOK
  <2>5. Hands'
    BY <2>1, <2>2 DEF Hands, TypeOK, ConsumerTypeOK, IndexerTypeOK, MergeTypeOK, ProducerTypeOK, FatesTypeOK
  <2>6. Closing'
    BY <2>1, <2>2, ZenonT(60) DEF Closing, Leaving, TypeOK, ConsumerTypeOK, IndexerTypeOK, MergeTypeOK, ProducerTypeOK, FatesTypeOK
  <2> QED
    BY <2>3, <2>4, <2>5, <2>6
<1>14. ASSUME NEW i \in Indexers, Indexer(i), IndexerReturn(i) PROVE ControlInv'
  <2> USE <1>14 DEF Indexer, IndexerReturn, CloseErrorChan, NewBuffer, Goto, Lose
  <2>1. /\ Closed(errorChan[i]) \in Channel(SUBSET Spis)
        /\ Closed(errorChan[i]).closed
        /\ Closed(errorChan[i]).buf = errorChan[i].buf
    BY ClosedType DEF TypeOK, ConsumerTypeOK, IndexerTypeOK, MergeTypeOK
  <2>2. TypeOK'
    <3>1. IndexerTypeOK'
      BY <2>1 DEF TypeOK, IndexerTypeOK
    <3>2. FatesTypeOK'
      BY <2>1 DEF TypeOK, ConsumerTypeOK, IndexerTypeOK, MergeTypeOK, ProducerTypeOK, FatesTypeOK
    <3> QED
      BY <3>1, <3>2 DEF TypeOK, ConsumerTypeOK, MergeTypeOK, ProducerTypeOK
  <2>3. BatchCount'
    BY <2>1 DEF BatchCount, TypeOK, IndexerTypeOK
  <2>4. Hands'
    BY <2>1 DEF Hands, TypeOK, ConsumerTypeOK, IndexerTypeOK, MergeTypeOK, ProducerTypeOK, FatesTypeOK
  <2>5. Closing'
    BY <2>1 DEF Closing, Leaving, TypeOK, ConsumerTypeOK, IndexerTypeOK, MergeTypeOK, ProducerTypeOK, FatesTypeOK
  <2> QED
    BY <2>2, <2>3, <2>4, <2>5
<1>15. ASSUME NEW i \in Indexers, Forwarder(i), ForwarderRecv(i) PROVE ControlInv'
  <2> USE <1>15 DEF Forwarder, ForwarderRecv, Drained
  <2>1. CanRecv(errorChan[i]) =>
          /\ Received(errorChan[i]) \in SUBSET Spis
          /\ Rest(errorChan[i]) \in Channel(SUBSET Spis)
          /\ Rest(errorChan[i]).closed = errorChan[i].closed
          /\ errorChan[i].buf # <<>>
    BY RestType DEF TypeOK, ConsumerTypeOK, IndexerTypeOK, MergeTypeOK, CanRecv
  <2>2. TypeOK'
    <3>1. IndexerTypeOK'
      BY <2>1, ZenonT(60) DEF TypeOK, IndexerTypeOK
    <3>2. MergeTypeOK'
      BY <2>1 DEF TypeOK, MergeTypeOK
    <3> QED
      BY <3>1, <3>2 DEF TypeOK, ConsumerTypeOK, ProducerTypeOK, FatesTypeOK
  <2>3. BatchCount'
    BY <2>1 DEF BatchCount, TypeOK, IndexerTypeOK
  <2>4. Hands'
    BY <2>1, ZenonT(60) DEF Hands, TypeOK, ConsumerTypeOK, IndexerTypeOK, MergeTypeOK, ProducerTypeOK, FatesTypeOK
  <2>5. Closing'
    BY <2>1 DEF Closing, Leaving, TypeOK, ConsumerTypeOK, IndexerTypeOK, MergeTypeOK, ProducerTypeOK, FatesTypeOK
  <2> QED
    BY <2>2, <2>3, <2>4, <2>5
<1>16. ASSUME NEW i \in Indexers, Forwarder(i), ForwarderSend(i) PROVE ControlInv'
  <2> USE <1>16 DEF Forwarder, ForwarderSend
  <2>1. mergedErrorChan \in Channel(SUBSET Spis) /\ fMsg[i] \in SUBSET Spis
    BY DEF TypeOK, ConsumerTypeOK, IndexerTypeOK, MergeTypeOK
  <2>2. /\ Sent(mergedErrorChan, fMsg[i]) \in Channel(SUBSET Spis)
        /\ Sent(mergedErrorChan, fMsg[i]).closed = mergedErrorChan.closed
    BY <2>1, SentType
  <2>3. TypeOK'
    <3>1. MergeTypeOK'
      BY <2>1, <2>2 DEF TypeOK, MergeTypeOK
    <3> QED
      BY <3>1 DEF TypeOK, ConsumerTypeOK, IndexerTypeOK, ProducerTypeOK, FatesTypeOK
  <2>4. BatchCount'
    BY <2>1, <2>2 DEF BatchCount, TypeOK, IndexerTypeOK
  <2>5. Hands'
    BY <2>1, <2>2 DEF Hands, TypeOK, ConsumerTypeOK, IndexerTypeOK, MergeTypeOK, ProducerTypeOK, FatesTypeOK
  <2>6. Closing'
    BY <2>1, <2>2 DEF Closing, Leaving, TypeOK, ConsumerTypeOK, IndexerTypeOK, MergeTypeOK, ProducerTypeOK, FatesTypeOK
  <2> QED
    BY <2>3, <2>4, <2>5, <2>6
<1>17. CASE MergeClose
  <2> USE <1>17 DEF MergeClose, ForwardersDone
  <2>1. /\ Closed(mergedErrorChan) \in Channel(SUBSET Spis)
        /\ Closed(mergedErrorChan).closed
        /\ Closed(mergedErrorChan).buf = mergedErrorChan.buf
    BY ClosedType DEF TypeOK, ConsumerTypeOK, IndexerTypeOK, MergeTypeOK
  <2>2. TypeOK'
    <3>1. MergeTypeOK'
      BY <2>1 DEF TypeOK, MergeTypeOK
    <3> QED
      BY <3>1 DEF TypeOK, ConsumerTypeOK, IndexerTypeOK, ProducerTypeOK, FatesTypeOK
  <2>3. BatchCount'
    BY <2>1 DEF BatchCount, TypeOK, IndexerTypeOK
  <2>4. Hands'
    BY <2>1 DEF Hands, TypeOK, ConsumerTypeOK, IndexerTypeOK, MergeTypeOK, ProducerTypeOK, FatesTypeOK
  <2>5. Closing'
    BY <2>1 DEF Closing, Leaving, TypeOK, ConsumerTypeOK, IndexerTypeOK, MergeTypeOK, ProducerTypeOK, FatesTypeOK
  <2> QED
    BY <2>2, <2>3, <2>4, <2>5
<1>18. CASE Producer /\ ProducerStart
  <2> USE <1>18 DEF Producer, ProducerStart
  <2>1. TypeOK'
    <3>1. ProducerTypeOK'
      BY DEF TypeOK, ProducerTypeOK
    <3> QED
      BY <3>1 DEF TypeOK, ConsumerTypeOK, IndexerTypeOK, MergeTypeOK, FatesTypeOK
  <2>2. BatchCount'
    BY DEF BatchCount, TypeOK, IndexerTypeOK
  <2>3. Hands'
    BY DEF Hands, TypeOK, ConsumerTypeOK, IndexerTypeOK, MergeTypeOK, ProducerTypeOK, FatesTypeOK
  <2>4. Closing'
    BY DEF Closing, Leaving, TypeOK, ConsumerTypeOK, IndexerTypeOK, MergeTypeOK, ProducerTypeOK, FatesTypeOK
  <2> QED
    BY <2>1, <2>2, <2>3, <2>4
<1>19. CASE Producer /\ ProducerRecv
  <2> USE <1>19 DEF Producer, ProducerRecv, Drained
  <2>1. CanRecv(mergedErrorChan) =>
          /\ Received(mergedErrorChan) \in SUBSET Spis
          /\ Rest(mergedErrorChan) \in Channel(SUBSET Spis)
          /\ Rest(mergedErrorChan).closed = mergedErrorChan.closed
          /\ mergedErrorChan.buf # <<>>
    BY RestType DEF TypeOK, ConsumerTypeOK, IndexerTypeOK, MergeTypeOK, CanRecv
  <2>2. TypeOK'
    <3>1. MergeTypeOK'
      BY <2>1 DEF TypeOK, MergeTypeOK
    <3>2. ProducerTypeOK'
      BY <2>1 DEF TypeOK, ProducerTypeOK
    <3> QED
      BY <3>1, <3>2 DEF TypeOK, ConsumerTypeOK, IndexerTypeOK, FatesTypeOK
  <2>3. BatchCount'
    BY <2>1 DEF BatchCount, TypeOK, IndexerTypeOK
  <2>4. Hands'
    BY <2>1 DEF Hands, TypeOK, ConsumerTypeOK, IndexerTypeOK, MergeTypeOK, ProducerTypeOK, FatesTypeOK
  <2>5. Closing'
    BY <2>1 DEF Closing, Leaving, TypeOK, ConsumerTypeOK, IndexerTypeOK, MergeTypeOK, ProducerTypeOK, FatesTypeOK
  <2> QED
    BY <2>2, <2>3, <2>4, <2>5
<1>20. CASE Producer /\ Produce
  <2> USE <1>20 DEF Producer, Produce, Enqueue, Lose
  <2>1. TypeOK'
    <3>1. ProducerTypeOK'
      BY DEF TypeOK, ProducerTypeOK
    <3>2. FatesTypeOK'
      BY DEF TypeOK, ConsumerTypeOK, IndexerTypeOK, MergeTypeOK, ProducerTypeOK, FatesTypeOK
    <3> QED
      BY <3>1, <3>2 DEF TypeOK, ConsumerTypeOK, IndexerTypeOK, MergeTypeOK
  <2>2. BatchCount'
    BY DEF BatchCount, TypeOK, IndexerTypeOK
  <2>3. Hands'
    BY DEF Hands, TypeOK, ConsumerTypeOK, IndexerTypeOK, MergeTypeOK, ProducerTypeOK, FatesTypeOK
  <2>4. Closing'
    BY DEF Closing, Leaving, TypeOK, ConsumerTypeOK, IndexerTypeOK, MergeTypeOK, ProducerTypeOK, FatesTypeOK
  <2> QED
    BY <2>1, <2>2, <2>3, <2>4
<1>21. CASE UNCHANGED vars
  <2> USE <1>21 DEF vars
  <2>1. TypeOK'
    <3> QED
      BY DEF TypeOK, ConsumerTypeOK, IndexerTypeOK, MergeTypeOK, ProducerTypeOK, FatesTypeOK
  <2>2. BatchCount'
    BY DEF BatchCount, TypeOK, IndexerTypeOK
  <2>3. Hands'
    BY DEF Hands, TypeOK, ConsumerTypeOK, IndexerTypeOK, MergeTypeOK, ProducerTypeOK, FatesTypeOK
  <2>4. Closing'
    BY DEF Closing, Leaving, TypeOK, ConsumerTypeOK, IndexerTypeOK, MergeTypeOK, ProducerTypeOK, FatesTypeOK
  <2> QED
    BY <2>1, <2>2, <2>3, <2>4
<1> QED
  BY <1>1, <1>2, <1>3, <1>4, <1>5, <1>6, <1>7, <1>8, <1>9, <1>10, <1>11, <1>12, <1>13, <1>14, <1>15, <1>16, <1>17, <1>18, <1>19, <1>20, <1>21
     DEF Next, Consumer, Indexer, Forwarder, Producer, Exited

\* Every variable keeps its type.
THEOREM TypeCorrect == Spec => []TypeOK
<1>1. ControlInv => TypeOK
  BY DEF ControlInv
<1> QED
  BY <1>1, ControlInvInit, ControlInvStep, PTL DEF Spec

\* No interleaving and no failure makes a goroutine send on a closed channel or close
\* a channel twice, which would end the process with a panic.
THEOREM ChannelSafety == Spec => []NoPanic
<1>1. ControlInv => NoPanic
  BY DEF ControlInv, Closing, NoPanic
<1> QED
  BY <1>1, ControlInvInit, ControlInvStep, PTL DEF Spec

\* When the pool's Wait returns after a shutdown in which some indexer and the
\* producer lived, no SPI is left behind in a channel, a buffer or a variable.
THEOREM GracefulStopDrains == Spec => []Drains
<1>1. ASSUME ControlInv, Stopped, pPc = "done", NEW k \in Indexers, iPc[k] = "done"
      PROVE  InFlight = {}
  <2> USE <1>1 DEF ControlInv
  <2>1. \A c : c.buf = <<>> => InChan(c) = {}
    BY DEF InChan
  <2>2. cMsg = {} /\ pMsg = {}
    BY DEF Stopped, Hands
  <2>3. InChan(consumerChan) = {}
    BY <2>1 DEF Closing, Leaving
  <2>4. InChan(mergedErrorChan) = {}
    BY <2>1 DEF Closing
  <2>5. ASSUME NEW i \in Indexers
        PROVE  /\ iMsg[i] = {} /\ buffer[i] = {} /\ failed[i] = {} /\ fMsg[i] = {}
               /\ InChan(errorChan[i]) = {}
    BY <2>1, <2>5 DEF Stopped, Hands, Closing
  <2> QED
    BY <2>2, <2>3, <2>4, <2>5 DEF InFlight
<1>2. ControlInv => Drains
  BY <1>1 DEF Drains
<1> QED
  BY <1>2, ControlInvInit, ControlInvStep, PTL DEF Spec

\* Only the return of an indexer adds to what was abandoned, and what it adds is nothing if
\* it returns nil.
LEMMA AbandonStep ==
  ASSUME ControlInv, [Next]_vars,
         NEW s \in lost'["indexer_exit"] \ lost["indexer_exit"]
  PROVE  \E i \in Indexers : /\ iPc[i] # "failed" /\ iPc'[i] = "failed"
                             /\ s \in buffer[i] \cup iMsg[i]
<1>1. ASSUME NEW i \in Indexers, IndexerReturn(i)
      PROVE  iPc[i] # "failed" /\ iPc'[i] = "failed" /\ s \in buffer[i] \cup iMsg[i]
  <2>1. iPc[i] = "return" => buffer[i] = {} /\ iMsg[i] = {}
    BY DEF ControlInv, Hands
  <2>2. lost'["indexer_exit"] = lost["indexer_exit"] \cup (buffer[i] \cup iMsg[i])
    BY <1>1 DEF IndexerReturn, Lose, ControlInv, TypeOK, FatesTypeOK, Losses
  <2>3. s \in buffer[i] \cup iMsg[i]
    BY <2>2
  <2>4. iPc[i] = "abort"
    BY <1>1, <2>1, <2>3 DEF IndexerReturn
  <2> QED
    BY <1>1, <2>3, <2>4 DEF IndexerReturn, Goto, ControlInv, TypeOK, IndexerTypeOK
<1>2. ASSUME NEW i \in Indexers, Indexer(i) PROVE IndexerReturn(i)
  <2>1. ASSUME ~IndexerReturn(i) PROVE lost'["indexer_exit"] = lost["indexer_exit"]
    BY <1>2, <2>1 DEF Indexer, IndexerRecv, IndexerTick, BulkBytes, BulkWrite, SendToES,
         BulkResponse, BulkCallError, SendErrors, Lose, ControlInv, TypeOK, FatesTypeOK, Losses
  <2> QED
    BY <2>1
<1>3. ~Consumer
  <2>1. ASSUME Consumer PROVE lost'["indexer_exit"] = lost["indexer_exit"]
    BY <2>1 DEF Consumer, ConsumerStart, ConsumerCheckCtx, ConsumerPoll, ConsumerCopy,
         ConsumerSend, Lose, ControlInv, TypeOK, FatesTypeOK, Losses
  <2> QED
    BY <2>1
<1>4. ~Producer
  <2>1. ASSUME Producer PROVE lost'["indexer_exit"] = lost["indexer_exit"]
    BY <2>1 DEF Producer, ProducerStart, ProducerRecv, Produce, Enqueue, Lose, ControlInv,
         TypeOK, FatesTypeOK, Losses
  <2> QED
    BY <2>1
<1>5. ~(CancelOnError \/ Cancel \/ (\E i \in Indexers : Forwarder(i)) \/ MergeClose
          \/ UNCHANGED vars)
  BY DEF CancelOnError, Cancel, Forwarder, MergeClose, vars, fates
<1> QED
  BY <1>1, <1>2, <1>3, <1>4, <1>5 DEF Next, Exited

\* Whatever an indexer abandons it held itself and returns an error in the same step, so
\* one that returns nil has flushed every message it received.
THEOREM AbandonedOnlyByAbort == Spec => OnlyAbortAbandons
<1>1. ControlInv /\ [Next]_vars =>
        [\A s \in lost'["indexer_exit"] \ lost["indexer_exit"] :
           \E i \in Indexers : /\ iPc[i] # "failed" /\ iPc'[i] = "failed"
                               /\ s \in buffer[i] \cup iMsg[i]]_vars
  BY AbandonStep
<1> QED
  BY <1>1, ControlInvInit, ControlInvStep, PTL DEF Spec, OnlyAbortAbandons
=============================================================================
