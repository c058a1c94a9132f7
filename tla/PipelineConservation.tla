------------------------ MODULE PipelineConservation ------------------------
(***************************************************************************)
(* Each SPI is in one place, and the pipeline implements Delivery.         *)
(***************************************************************************)
EXTENDS PipelineProofs, FiniteSetTheorems

\* Where an SPI is: in the topic, in flight, or settled.
FlightNames == {"consumer", "consumerChan", "msg", "buffer", "failed", "errorChan",
                "forwarder", "mergedErrorChan", "producer"}
FateNames == {"indexed", "republished", "lost"}
Names == {"topic"} \cup FlightNames \cup FateNames

\* The place called n, with index x where there are several, is the only one of the
\* component's places that may hold the SPI s, and if it is one of them it does.
InTopic(s, n, x) ==
    /\ n = "topic" => x \in topic
    /\ \A m \in topic : s \in m <=> n = "topic" /\ x = m

InConsumer(s, n) ==
    /\ s \in cMsg <=> n = "consumer"
    /\ s \in InChan(consumerChan) <=> n = "consumerChan"

InIndexer(s, n, x) ==
    /\ n \in {"msg", "buffer", "failed"} => x \in Indexers
    /\ \A i \in Indexers :
         /\ s \in iMsg[i] <=> n = "msg" /\ x = i
         /\ s \in buffer[i] <=> n = "buffer" /\ x = i
         /\ s \in failed[i] <=> n = "failed" /\ x = i

InMerge(s, n, x) ==
    /\ n \in {"errorChan", "forwarder"} => x \in Indexers
    /\ \A i \in Indexers :
         /\ s \in InChan(errorChan[i]) <=> n = "errorChan" /\ x = i
         /\ s \in fMsg[i] <=> n = "forwarder" /\ x = i

InProducer(s, n) ==
    /\ s \in InChan(mergedErrorChan) <=> n = "mergedErrorChan"
    /\ s \in pMsg <=> n = "producer"

InFate(s, n, x) ==
    /\ s \in indexed <=> n = "indexed"
    /\ s \in republished <=> n = "republished"
    /\ n = "lost" => x \in Losses
    /\ \A r \in Losses : s \in lost[r] <=> n = "lost" /\ x = r

Held(s, n, x) ==
    /\ n \in Names
    /\ InTopic(s, n, x) /\ InConsumer(s, n) /\ InIndexer(s, n, x)
    /\ InMerge(s, n, x) /\ InProducer(s, n) /\ InFate(s, n, x)

\* No SPI is twice in one channel.
ChannelsApart ==
    /\ Apart(consumerChan) /\ Apart(mergedErrorChan)
    /\ \A i \in Indexers : Apart(errorChan[i])

OnePlace == \A s \in Spis : \E n, x : Held(s, n, x)

PlaceInv == ChannelsApart /\ OnePlace

\* All SPIs start in the topic, each in the one message that holds it.
LEMMA PlaceInvInit == Init => PlaceInv
<1> SUFFICES ASSUME Init PROVE PlaceInv
  OBVIOUS
<1>1. ChannelsApart
  BY NewChanApart DEF Init, ChannelsApart
<1>2. ASSUME NEW s \in Spis PROVE \E n, x : Held(s, n, x)
  <2>1. PICK m \in Messages : s \in m
    BY DEF Spis
  <2>2. InTopic(s, "topic", m)
    BY <2>1, MessagesAssumption DEF Init, InTopic
  <2>3. InConsumer(s, "topic") /\ InProducer(s, "topic")
    BY NewChanApart DEF Init, InConsumer, InProducer
  <2>4. InIndexer(s, "topic", m)
    BY DEF Init, InIndexer
  <2>5. InMerge(s, "topic", m)
    BY NewChanApart DEF Init, InMerge
  <2>6. InFate(s, "topic", m)
    BY DEF Init, InFate
  <2> QED
    BY <2>2, <2>3, <2>4, <2>5, <2>6 DEF Held, Names
<1> QED
  BY <1>1, <1>2 DEF PlaceInv, OnePlace

\* A step moves a message, a batch or nothing from one place to the next.
LEMMA PlaceInvStep == ControlInv /\ PlaceInv /\ [Next]_vars => PlaceInv'
<1> SUFFICES ASSUME ControlInv, PlaceInv, [Next]_vars PROVE PlaceInv'
  OBVIOUS
<1> USE DEF consumerVars, indexerVars, mergeVars, producerVars, fates
<1>t. TypeOK /\ Hands
  BY DEF ControlInv
<1>c. /\ consumerChan \in Channel(SUBSET Spis) /\ Apart(consumerChan)
      /\ mergedErrorChan \in Channel(SUBSET Spis) /\ Apart(mergedErrorChan)
      /\ \A i \in Indexers : errorChan[i] \in Channel(SUBSET Spis) /\ Apart(errorChan[i])
  BY <1>t DEF PlaceInv, ChannelsApart, TypeOK, ConsumerTypeOK, IndexerTypeOK, MergeTypeOK
<1>s. ASSUME ChannelsApart',
             \A s \in Spis : \A n, x : Held(s, n, x) => \E n2, x2 : Held(s, n2, x2)'
      PROVE  PlaceInv'
  BY <1>s DEF PlaceInv, OnePlace
<1>1. CASE UNCHANGED <<topic, cMsg, consumerChan, iMsg, buffer, failed, errorChan, fMsg,
                       mergedErrorChan, pMsg, fates>>
  BY <1>s, <1>1 DEF PlaceInv, ChannelsApart, OnePlace, Held, InTopic, InConsumer, InIndexer, InMerge,
       InProducer, InFate
<1>2. CASE Consumer /\ (ConsumerStart \/ ConsumerCheckCtx)
  <2>1. /\ InChan(consumerChan') = InChan(consumerChan)
        /\ Apart(consumerChan')
    BY <1>2, <1>c, ClosedApart DEF ConsumerStart, ConsumerCheckCtx, ConsumerReturn
  <2>2. UNCHANGED <<topic, cMsg, iMsg, buffer, failed, errorChan, fMsg, mergedErrorChan, pMsg,
                    fates>>
    BY <1>2 DEF Consumer, ConsumerStart, ConsumerCheckCtx
  <2>3. ChannelsApart'
    BY <1>c, <2>1, <2>2 DEF ChannelsApart
  <2> QED
    BY <1>s, <2>1, <2>2, <2>3 DEF Held, InTopic, InConsumer, InIndexer, InMerge, InProducer, InFate
<1>3. CASE Consumer /\ ConsumerPoll
  <2>1. /\ InChan(consumerChan') = InChan(consumerChan)
        /\ Apart(consumerChan')
    BY <1>3, <1>c, ClosedApart DEF ConsumerPoll, ConsumerReturn
  <2>2. UNCHANGED <<iMsg, buffer, failed, errorChan, fMsg, mergedErrorChan, pMsg, fates>>
    BY <1>3 DEF Consumer, ConsumerPoll
  <2>3. ChannelsApart'
    BY <1>c, <2>1, <2>2 DEF ChannelsApart
  <2>4. CASE UNCHANGED <<topic, cMsg>>
    BY <1>s, <2>1, <2>2, <2>3, <2>4
       DEF Held, InTopic, InConsumer, InIndexer, InMerge, InProducer, InFate
  <2>5. ASSUME NEW m \in topic, topic' = topic \ {m}, cMsg' = m PROVE PlaceInv'
    <3>1. cMsg = {}
      BY <1>t, <1>3 DEF Hands, ConsumerPoll
    <3> SUFFICES ASSUME NEW s \in Spis, NEW n, NEW x, Held(s, n, x)
                 PROVE  \E n2, x2 : Held(s, n2, x2)'
      BY <1>s, <2>3
    <3> USE DEF Held, InTopic, InConsumer, InIndexer, InMerge, InProducer, InFate, Names, FlightNames
    <3>2. CASE s \in m
      <4>1. Held(s, "consumer", x)'
        BY <2>1, <2>2, <2>5, <3>1, <3>2
      <4> HIDE DEF Held
      <4> QED
        BY <4>1
    <3>3. CASE s \notin m
      <4>1. Held(s, n, x)'
        BY <2>1, <2>2, <2>5, <3>1, <3>3
      <4> HIDE DEF Held
      <4> QED
        BY <4>1
    <3> HIDE DEF Held
    <3> QED
      BY <3>2, <3>3
  <2> QED
    BY <1>3, <2>4, <2>5 DEF ConsumerPoll
<1>4. CASE Consumer /\ ConsumerCopy
  <2>1. UNCHANGED <<topic, consumerChan, iMsg, buffer, failed, errorChan, fMsg, mergedErrorChan,
                    pMsg, indexed, republished>>
    BY <1>4 DEF Consumer, ConsumerCopy
  <2>2. ChannelsApart'
    BY <1>c, <2>1 DEF ChannelsApart
  <2>3. CASE UNCHANGED <<cMsg, lost>>
    BY <1>s, <2>1, <2>2, <2>3 DEF Held, InTopic, InConsumer, InIndexer, InMerge, InProducer, InFate
  <2>4. CASE cMsg' = {} /\ Lose("write", cMsg)
    <3>1. \A r \in Losses : lost'[r] = IF r = "write" THEN lost[r] \cup cMsg ELSE lost[r]
      BY <1>t, <2>4 DEF Lose, TypeOK, FatesTypeOK
    <3>e. \A s : s \notin cMsg => \A r \in Losses : s \in lost'[r] <=> s \in lost[r]
      BY <3>1
    <3> SUFFICES ASSUME NEW s \in Spis, NEW n, NEW x, Held(s, n, x)
                 PROVE  \E n2, x2 : Held(s, n2, x2)'
      BY <1>s, <2>2
    <3> USE DEF Held, InTopic, InConsumer, InIndexer, InMerge, InProducer, InFate, Names, FateNames
    <3>2. s \in cMsg => Held(s, "lost", "write")'
      BY <2>1, <2>4, <3>1 DEF Losses
    <3>3. CASE s \notin cMsg
      <4>1. \A r \in Losses : s \in lost'[r] <=> s \in lost[r]
        BY <3>e, <3>3
      <4>2. Held(s, n, x)'
        BY <2>1, <2>4, <3>3, <4>1
      <4> HIDE DEF Held
      <4> QED
        BY <4>2
    <3> HIDE DEF Held
    <3> QED
      BY <3>2, <3>3
  <2> QED
    BY <1>4, <2>3, <2>4 DEF ConsumerCopy
<1>5. CASE Consumer /\ ConsumerSend
  <2>1. UNCHANGED <<topic, iMsg, buffer, failed, errorChan, fMsg, mergedErrorChan, pMsg, fates>>
        /\ cMsg' = {}
    BY <1>5 DEF Consumer, ConsumerSend
  <2>2. cMsg \cap InChan(consumerChan) = {}
    <3>1. \A s \in Spis : ~(s \in cMsg /\ s \in InChan(consumerChan))
      BY DEF PlaceInv, OnePlace, Held, InConsumer
    <3> QED
      BY <1>t, <3>1 DEF TypeOK, ConsumerTypeOK
  <2>3. InChan(consumerChan') = InChan(consumerChan) \cup cMsg /\ Apart(consumerChan')
    BY <1>t, <1>c, <1>5, <2>2, SentApart DEF ConsumerSend, TypeOK, ConsumerTypeOK
  <2>4. ChannelsApart'
    BY <1>c, <2>1, <2>3 DEF ChannelsApart
  <2> SUFFICES ASSUME NEW s \in Spis, NEW n, NEW x, Held(s, n, x)
               PROVE  \E n2, x2 : Held(s, n2, x2)'
    BY <1>s, <2>4
  <2> USE DEF Held, InTopic, InConsumer, InIndexer, InMerge, InProducer, InFate, Names, FlightNames
  <2>5. s \in cMsg => Held(s, "consumerChan", x)'
    BY <2>1, <2>3
  <2>6. s \notin cMsg => Held(s, n, x)'
    BY <2>1, <2>3
  <2> QED
    BY <2>5, <2>6
<1>6. ASSUME NEW i \in Indexers, Indexer(i), IndexerRecv(i) PROVE PlaceInv'
  <2>1. UNCHANGED <<topic, cMsg, buffer, failed, errorChan, fMsg, mergedErrorChan, pMsg, fates>>
    BY <1>6 DEF Indexer, IndexerRecv
  <2>2. CASE UNCHANGED <<iMsg, consumerChan>>
    BY <1>1, <2>1, <2>2
  <2>3. CASE /\ CanRecv(consumerChan)
             /\ iMsg' = [iMsg EXCEPT ![i] = Received(consumerChan)]
             /\ consumerChan' = Rest(consumerChan)
    <3> DEFINE msg == Received(consumerChan)
    <3>1. /\ InChan(consumerChan) = msg \cup InChan(consumerChan')
          /\ msg \cap InChan(consumerChan') = {}
          /\ Apart(consumerChan')
      BY <1>c, <2>3, RestApart
    <3>2. iMsg[i] = {} /\ \A j \in Indexers : iMsg'[j] = IF j = i THEN msg ELSE iMsg[j]
      BY <1>t, <1>6, <2>3 DEF Hands, IndexerRecv, TypeOK, IndexerTypeOK
    <3>3. ChannelsApart'
      BY <1>c, <2>1, <3>1 DEF ChannelsApart
    <3> HIDE DEF msg
    <3> SUFFICES ASSUME NEW s \in Spis, NEW n, NEW x, Held(s, n, x)
                 PROVE  \E n2, x2 : Held(s, n2, x2)'
      BY <1>s, <3>3
    <3> USE DEF Held, InTopic, InConsumer, InIndexer, InMerge, InProducer, InFate, Names, FlightNames
    <3>4. s \in msg => Held(s, "msg", i)'
      BY <2>1, <3>1, <3>2
    <3>5. s \notin msg => Held(s, n, x)'
      BY <2>1, <3>1, <3>2
    <3> HIDE DEF Held
    <3> QED
      BY <3>4, <3>5
  <2> QED
    BY <1>6, <2>2, <2>3 DEF IndexerRecv
<1>7. ASSUME NEW i \in Indexers, Indexer(i), BulkWrite(i) PROVE PlaceInv'
  <2>1. UNCHANGED <<topic, cMsg, consumerChan, failed, errorChan, fMsg, mergedErrorChan, pMsg, fates>>
    BY <1>7 DEF Indexer, BulkWrite
  <2>2. CASE UNCHANGED <<buffer, iMsg>>
    BY <1>1, <2>1, <2>2
  <2>3. CASE /\ buffer' = [buffer EXCEPT ![i] = @ \cup iMsg[i]]
             /\ iMsg' = [iMsg EXCEPT ![i] = {}]
    <3>1. /\ \A j \in Indexers : buffer'[j] = IF j = i THEN buffer[j] \cup iMsg[j] ELSE buffer[j]
          /\ \A j \in Indexers : iMsg'[j] = IF j = i THEN {} ELSE iMsg[j]
      BY <1>t, <2>3 DEF TypeOK, IndexerTypeOK
    <3>2. ChannelsApart'
      BY <1>c, <2>1 DEF ChannelsApart
    <3> SUFFICES ASSUME NEW s \in Spis, NEW n, NEW x, Held(s, n, x)
                 PROVE  \E n2, x2 : Held(s, n2, x2)'
      BY <1>s, <3>2
    <3> USE DEF Held, InTopic, InConsumer, InIndexer, InMerge, InProducer, InFate, Names, FlightNames
    <3>3. CASE s \in iMsg[i]
      <4>1. n = "msg" /\ x = i
        BY <3>3
      <4>2. Held(s, "buffer", i)'
        BY <2>1, <3>1, <3>3, <4>1
      <4> HIDE DEF Held
      <4> QED
        BY <4>2
    <3>4. s \notin iMsg[i] => Held(s, n, x)'
      BY <2>1, <3>1
    <3> HIDE DEF Held
    <3> QED
      BY <3>3, <3>4
  <2> QED
    BY <1>7, <2>2, <2>3 DEF BulkWrite
<1>8. ASSUME NEW i \in Indexers, Indexer(i), SendToES(i) PROVE PlaceInv'
  <2>1. UNCHANGED <<topic, cMsg, consumerChan, iMsg, errorChan, fMsg, mergedErrorChan, pMsg,
                    republished>>
    BY <1>8 DEF Indexer, SendToES
  <2>2. /\ \A j \in Indexers : buffer'[j] = IF j = i THEN {} ELSE buffer[j]
        /\ failed[i] = {}
    BY <1>t, <1>8 DEF SendToES, NewBuffer, TypeOK, IndexerTypeOK, Hands
  <2>3. ChannelsApart'
    BY <1>c, <2>1 DEF ChannelsApart
  <2> USE DEF Held, InTopic, InConsumer, InIndexer, InMerge, InProducer, InFate, Names, FlightNames,
          FateNames
  <2>4. CASE buffer[i] = {} /\ UNCHANGED <<indexed, failed, lost>>
    BY <1>s, <2>1, <2>2, <2>3, <2>4
  <2>5. CASE BulkResponse(i)
    <3>1. PICK bad \in SUBSET buffer[i] :
            /\ indexed' = indexed \cup (buffer[i] \ bad)
            /\ failed' = [failed EXCEPT ![i] = bad]
            /\ lost' = lost
      BY <2>5 DEF BulkResponse
    <3>2. \A j \in Indexers : failed'[j] = IF j = i THEN bad ELSE failed[j]
      BY <1>t, <3>1 DEF TypeOK, IndexerTypeOK
    <3> SUFFICES ASSUME NEW s \in Spis, NEW n, NEW x, Held(s, n, x)
                 PROVE  \E n2, x2 : Held(s, n2, x2)'
      BY <1>s, <2>3
    <3>3. s \in bad => Held(s, "failed", i)'
      BY <2>1, <2>2, <3>1, <3>2
    <3>4. s \in buffer[i] \ bad => Held(s, "indexed", i)'
      BY <2>1, <2>2, <3>1, <3>2
    <3>5. s \notin buffer[i] => Held(s, n, x)'
      BY <2>1, <2>2, <3>1, <3>2
    <3> HIDE DEF Held
    <3> QED
      BY <3>3, <3>4, <3>5
  <2>6. CASE BulkCallError(i)
    <3>1. PICK done \in SUBSET buffer[i] :
            /\ indexed' = indexed \cup done
            /\ Lose("bulk_call", buffer[i] \ done)
            /\ failed' = failed
      BY <2>6 DEF BulkCallError
    <3>2. \A r \in Losses :
            lost'[r] = IF r = "bulk_call" THEN lost[r] \cup (buffer[i] \ done) ELSE lost[r]
      BY <1>t, <3>1 DEF Lose, TypeOK, FatesTypeOK
    <3>e. \A s : s \notin buffer[i] => \A r \in Losses : s \in lost'[r] <=> s \in lost[r]
      BY <3>2
    <3> SUFFICES ASSUME NEW s \in Spis, NEW n, NEW x, Held(s, n, x)
                 PROVE  \E n2, x2 : Held(s, n2, x2)'
      BY <1>s, <2>3
    <3>3. s \in done => Held(s, "indexed", i)'
      BY <2>1, <2>2, <3>1, <3>2
    <3>4. s \in buffer[i] \ done => Held(s, "lost", "bulk_call")'
      BY <2>1, <2>2, <3>1, <3>2 DEF Losses
    <3>5. CASE s \notin buffer[i]
      <4>1. \A r \in Losses : s \in lost'[r] <=> s \in lost[r]
        BY <3>e, <3>5
      <4>2. Held(s, n, x)'
        BY <2>1, <2>2, <3>1, <3>5, <4>1
      <4> HIDE DEF Held
      <4> QED
        BY <4>2
    <3> HIDE DEF Held
    <3> QED
      BY <3>3, <3>4, <3>5
  <2> QED
    BY <1>8, <2>4, <2>5, <2>6 DEF SendToES
<1>9. ASSUME NEW i \in Indexers, Indexer(i), SendErrors(i) PROVE PlaceInv'
  <2>1. UNCHANGED <<topic, cMsg, consumerChan, iMsg, buffer, fMsg, mergedErrorChan, pMsg, indexed,
                    republished>>
    BY <1>9 DEF Indexer, SendErrors
  <2>2. \A j \in Indexers : failed'[j] = IF j = i THEN {} ELSE failed[j]
    BY <1>t, <1>9 DEF SendErrors, TypeOK, IndexerTypeOK
  <2> USE DEF Held, InTopic, InConsumer, InIndexer, InMerge, InProducer, InFate, Names, FlightNames,
          FateNames
  <2>3. CASE Lose("no_producer", failed[i]) /\ UNCHANGED errorChan
    <3>1. \A r \in Losses : lost'[r] = IF r = "no_producer" THEN lost[r] \cup failed[i] ELSE lost[r]
      BY <1>t, <2>3 DEF Lose, TypeOK, FatesTypeOK
    <3>e. \A s : s \notin failed[i] => \A r \in Losses : s \in lost'[r] <=> s \in lost[r]
      BY <3>1
    <3>2. ChannelsApart'
      BY <1>c, <2>1, <2>3 DEF ChannelsApart
    <3> SUFFICES ASSUME NEW s \in Spis, NEW n, NEW x, Held(s, n, x)
                 PROVE  \E n2, x2 : Held(s, n2, x2)'
      BY <1>s, <3>2
    <3>3. s \in failed[i] => Held(s, "lost", "no_producer")'
      BY <2>1, <2>2, <2>3, <3>1 DEF Losses
    <3>4. CASE s \notin failed[i]
      <4>1. \A r \in Losses : s \in lost'[r] <=> s \in lost[r]
        BY <3>e, <3>4
      <4>2. Held(s, n, x)'
        BY <2>1, <2>2, <2>3, <3>4, <4>1
      <4> HIDE DEF Held
      <4> QED
        BY <4>2
    <3> HIDE DEF Held
    <3> QED
      BY <3>3, <3>4
  <2>4. CASE /\ errorChan' = [errorChan EXCEPT ![i] = Sent(@, failed[i])]
             /\ UNCHANGED lost
    <3>1. failed[i] \cap InChan(errorChan[i]) = {}
      <4>1. \A s \in Spis : ~(s \in failed[i] /\ s \in InChan(errorChan[i]))
        BY DEF PlaceInv, OnePlace
      <4> QED
        BY <1>t, <4>1 DEF TypeOK, IndexerTypeOK
    <3>2. failed[i] \in SUBSET Spis
      BY <1>t DEF TypeOK, IndexerTypeOK
    <3>3. /\ InChan(Sent(errorChan[i], failed[i])) = InChan(errorChan[i]) \cup failed[i]
          /\ Apart(Sent(errorChan[i], failed[i]))
      BY <1>c, <3>1, <3>2, SentApart
    <3>4. \A j \in Indexers : errorChan'[j] = IF j = i THEN Sent(errorChan[i], failed[i])
                                              ELSE errorChan[j]
      BY <1>t, <2>4 DEF TypeOK, IndexerTypeOK
    <3>5. ChannelsApart'
      BY <1>c, <2>1, <3>3, <3>4 DEF ChannelsApart
    <3>6. \A j \in Indexers : InChan(errorChan'[j]) = IF j = i THEN InChan(errorChan[i]) \cup failed[i]
                                                      ELSE InChan(errorChan[j])
      BY <3>3, <3>4
    <3> SUFFICES ASSUME NEW s \in Spis, NEW n, NEW x, Held(s, n, x)
                 PROVE  \E n2, x2 : Held(s, n2, x2)'
      BY <1>s, <3>5
    <3>7. s \in failed[i] => Held(s, "errorChan", i)'
      BY <2>1, <2>2, <2>4, <3>6
    <3>8. s \notin failed[i] => Held(s, n, x)'
      BY <2>1, <2>2, <2>4, <3>6
    <3> HIDE DEF Held
    <3> QED
      BY <3>7, <3>8
  <2> QED
    BY <1>9, <2>3, <2>4 DEF SendErrors
<1>10. ASSUME NEW i \in Indexers, Indexer(i), IndexerReturn(i) PROVE PlaceInv'
  <2>1. UNCHANGED <<topic, cMsg, consumerChan, failed, fMsg, mergedErrorChan, pMsg, indexed,
                    republished>>
    BY <1>10 DEF Indexer, IndexerReturn
  <2>2. /\ \A j \in Indexers : buffer'[j] = IF j = i THEN {} ELSE buffer[j]
        /\ \A j \in Indexers : iMsg'[j] = IF j = i THEN {} ELSE iMsg[j]
    BY <1>t, <1>10 DEF IndexerReturn, NewBuffer, TypeOK, IndexerTypeOK
  <2>3. \A j \in Indexers : InChan(errorChan'[j]) = InChan(errorChan[j]) /\ Apart(errorChan'[j])
    <3>1. \A j \in Indexers : errorChan'[j] = errorChan[j] \/ errorChan'[j] = Closed(errorChan[j])
      BY <1>t, <1>10 DEF IndexerReturn, CloseErrorChan, TypeOK, IndexerTypeOK
    <3> QED
      BY <1>c, <3>1, ClosedApart
  <2>4. \A r \in Losses :
          lost'[r] = IF r = "indexer_exit" THEN lost[r] \cup buffer[i] \cup iMsg[i] ELSE lost[r]
    BY <1>t, <1>10 DEF IndexerReturn, Lose, TypeOK, FatesTypeOK
  <2>e. \A s : s \notin buffer[i] \cup iMsg[i] => \A r \in Losses : s \in lost'[r] <=> s \in lost[r]
    BY <2>4
  <2>5. ChannelsApart'
    BY <1>c, <2>1, <2>3 DEF ChannelsApart
  <2> SUFFICES ASSUME NEW s \in Spis, NEW n, NEW x, Held(s, n, x)
               PROVE  \E n2, x2 : Held(s, n2, x2)'
    BY <1>s, <2>5
  <2> USE DEF Held, InTopic, InConsumer, InIndexer, InMerge, InProducer, InFate, Names, FateNames
  <2>6. s \in buffer[i] \cup iMsg[i] => Held(s, "lost", "indexer_exit")'
    BY <2>1, <2>2, <2>3, <2>4 DEF Losses
  <2>7. CASE s \notin buffer[i] \cup iMsg[i]
    <3>1. \A r \in Losses : s \in lost'[r] <=> s \in lost[r]
      BY <2>e, <2>7
    <3>2. Held(s, n, x)'
      BY <2>1, <2>2, <2>3, <2>7, <3>1
    <3> HIDE DEF Held
    <3> QED
      BY <3>2
  <2> HIDE DEF Held
  <2> QED
    BY <2>6, <2>7
<1>11. ASSUME NEW i \in Indexers, Forwarder(i), ForwarderRecv(i) PROVE PlaceInv'
  <2>1. UNCHANGED <<topic, cMsg, consumerChan, iMsg, buffer, failed, mergedErrorChan, pMsg, fates>>
    BY <1>11 DEF Forwarder, ForwarderRecv
  <2>2. CASE UNCHANGED <<fMsg, errorChan>>
    BY <1>1, <2>1, <2>2
  <2>3. CASE /\ CanRecv(errorChan[i])
             /\ fMsg' = [fMsg EXCEPT ![i] = Received(errorChan[i])]
             /\ errorChan' = [errorChan EXCEPT ![i] = Rest(@)]
    <3> DEFINE msg == Received(errorChan[i])
               rest == Rest(errorChan[i])
    <3>1. /\ InChan(errorChan[i]) = msg \cup InChan(rest)
          /\ msg \cap InChan(rest) = {}
          /\ Apart(rest)
      BY <1>c, <2>3, RestApart
    <3>2. /\ fMsg[i] = {}
          /\ \A j \in Indexers : fMsg'[j] = IF j = i THEN msg ELSE fMsg[j]
          /\ \A j \in Indexers : errorChan'[j] = IF j = i THEN rest ELSE errorChan[j]
      BY <1>t, <1>11, <2>3 DEF Hands, ForwarderRecv, TypeOK, IndexerTypeOK, MergeTypeOK
    <3> HIDE DEF msg, rest
    <3>3. ChannelsApart'
      BY <1>c, <2>1, <3>1, <3>2 DEF ChannelsApart
    <3>4. \A j \in Indexers : InChan(errorChan'[j]) = IF j = i THEN InChan(rest)
                                                      ELSE InChan(errorChan[j])
      BY <3>2
    <3> SUFFICES ASSUME NEW s \in Spis, NEW n, NEW x, Held(s, n, x)
                 PROVE  \E n2, x2 : Held(s, n2, x2)'
      BY <1>s, <3>3
    <3> USE DEF Held, InTopic, InConsumer, InIndexer, InMerge, InProducer, InFate, Names, FlightNames
    <3>5. s \in msg => Held(s, "forwarder", i)'
      BY <2>1, <3>1, <3>2, <3>4
    <3>6. s \notin msg => Held(s, n, x)'
      BY <2>1, <3>1, <3>2, <3>4
    <3> HIDE DEF Held
    <3> QED
      BY <3>5, <3>6
  <2> QED
    BY <1>11, <2>2, <2>3 DEF ForwarderRecv
<1>12. ASSUME NEW i \in Indexers, Forwarder(i), ForwarderSend(i) PROVE PlaceInv'
  <2>1. UNCHANGED <<topic, cMsg, consumerChan, iMsg, buffer, failed, errorChan, pMsg, fates>>
    BY <1>12 DEF Forwarder, ForwarderSend
  <2>2. fMsg[i] \in SUBSET Spis /\ \A j \in Indexers : fMsg'[j] = IF j = i THEN {} ELSE fMsg[j]
    BY <1>t, <1>12 DEF ForwarderSend, TypeOK, MergeTypeOK
  <2>3. fMsg[i] \cap InChan(mergedErrorChan) = {}
    <3>1. \A s \in Spis : ~(s \in fMsg[i] /\ s \in InChan(mergedErrorChan))
      BY DEF PlaceInv, OnePlace, Held, InMerge, InProducer
    <3> QED
      BY <2>2, <3>1
  <2>4. /\ InChan(mergedErrorChan') = InChan(mergedErrorChan) \cup fMsg[i]
        /\ Apart(mergedErrorChan')
    <3>1. mergedErrorChan' = Sent(mergedErrorChan, fMsg[i])
      BY <1>12 DEF ForwarderSend
    <3>2. mergedErrorChan \in Channel(SUBSET Spis) /\ Apart(mergedErrorChan)
      BY <1>c
    <3>3. fMsg[i] \in SUBSET Spis
      BY <2>2
    <3>4. /\ InChan(Sent(mergedErrorChan, fMsg[i])) = InChan(mergedErrorChan) \cup fMsg[i]
          /\ Apart(Sent(mergedErrorChan, fMsg[i]))
      BY <2>3, <3>2, <3>3, SentApart, ZenonT(60)
    <3> QED
      BY <3>1, <3>4
  <2>5. ChannelsApart'
    BY <1>c, <2>1, <2>4 DEF ChannelsApart
  <2> SUFFICES ASSUME NEW s \in Spis, NEW n, NEW x, Held(s, n, x)
               PROVE  \E n2, x2 : Held(s, n2, x2)'
    BY <1>s, <2>5
  <2> USE DEF Held, InTopic, InConsumer, InIndexer, InMerge, InProducer, InFate, Names, FlightNames
  <2>6. s \in fMsg[i] => Held(s, "mergedErrorChan", i)'
    BY <2>1, <2>2, <2>4
  <2>7. s \notin fMsg[i] => Held(s, n, x)'
    BY <2>1, <2>2, <2>4
  <2> HIDE DEF Held
  <2> QED
    BY <2>6, <2>7
<1>13. CASE MergeClose
  <2>1. UNCHANGED <<topic, cMsg, consumerChan, iMsg, buffer, failed, errorChan, fMsg, pMsg, fates>>
    BY <1>13 DEF MergeClose
  <2>2. InChan(mergedErrorChan') = InChan(mergedErrorChan) /\ Apart(mergedErrorChan')
    BY <1>c, <1>13, ClosedApart DEF MergeClose
  <2>3. ChannelsApart'
    BY <1>c, <2>1, <2>2 DEF ChannelsApart
  <2> QED
    BY <1>s, <2>1, <2>2, <2>3 DEF Held, InTopic, InConsumer, InIndexer, InMerge, InProducer, InFate
<1>14. CASE Producer /\ ProducerRecv
  <2>1. UNCHANGED <<topic, cMsg, consumerChan, iMsg, buffer, failed, errorChan, fMsg, fates>>
    BY <1>14 DEF Producer, ProducerRecv
  <2>2. CASE UNCHANGED <<pMsg, mergedErrorChan>>
    BY <1>1, <2>1, <2>2
  <2>3. CASE /\ CanRecv(mergedErrorChan)
             /\ pMsg' = Received(mergedErrorChan)
             /\ mergedErrorChan' = Rest(mergedErrorChan)
    <3>1. /\ InChan(mergedErrorChan) = pMsg' \cup InChan(mergedErrorChan')
          /\ pMsg' \cap InChan(mergedErrorChan') = {}
          /\ Apart(mergedErrorChan')
      BY <1>c, <2>3, RestApart
    <3>2. pMsg = {}
      BY <1>t, <1>14 DEF Hands, ProducerRecv
    <3>3. ChannelsApart'
      BY <1>c, <2>1, <3>1 DEF ChannelsApart
    <3> SUFFICES ASSUME NEW s \in Spis, NEW n, NEW x, Held(s, n, x)
                 PROVE  \E n2, x2 : Held(s, n2, x2)'
      BY <1>s, <3>3
    <3> USE DEF Held, InTopic, InConsumer, InIndexer, InMerge, InProducer, InFate, Names, FlightNames
    <3>4. s \in pMsg' => Held(s, "producer", x)'
      BY <2>1, <3>1, <3>2
    <3>5. s \notin pMsg' => Held(s, n, x)'
      BY <2>1, <3>1, <3>2
    <3> HIDE DEF Held
    <3> QED
      BY <3>4, <3>5
  <2> QED
    BY <1>14, <2>2, <2>3 DEF ProducerRecv
<1>15. CASE Producer /\ Produce
  <2>1. UNCHANGED <<topic, cMsg, consumerChan, iMsg, buffer, failed, errorChan, fMsg,
                    mergedErrorChan, indexed>>
    BY <1>15 DEF Producer, Produce
  <2>2. ChannelsApart'
    BY <1>c, <2>1 DEF ChannelsApart
  <2> USE DEF Held, InTopic, InConsumer, InIndexer, InMerge, InProducer, InFate, Names, FateNames
  <2>3. CASE UNCHANGED <<pMsg, republished, lost>>
    BY <1>s, <2>1, <2>2, <2>3
  <2>4. CASE republished' = republished \cup pMsg /\ pMsg' = {} /\ UNCHANGED lost
    <3> SUFFICES ASSUME NEW s \in Spis, NEW n, NEW x, Held(s, n, x)
                 PROVE  \E n2, x2 : Held(s, n2, x2)'
      BY <1>s, <2>2
    <3>1. s \in pMsg => Held(s, "republished", x)'
      BY <2>1, <2>4
    <3>2. s \notin pMsg => Held(s, n, x)'
      BY <2>1, <2>4
    <3> HIDE DEF Held
    <3> QED
      BY <3>1, <3>2
  <2>5. CASE Lose("produce", pMsg) /\ pMsg' = {} /\ UNCHANGED republished
    <3>1. \A r \in Losses : lost'[r] = IF r = "produce" THEN lost[r] \cup pMsg ELSE lost[r]
      BY <1>t, <2>5 DEF Lose, TypeOK, FatesTypeOK
    <3>e. \A s : s \notin pMsg => \A r \in Losses : s \in lost'[r] <=> s \in lost[r]
      BY <3>1
    <3> SUFFICES ASSUME NEW s \in Spis, NEW n, NEW x, Held(s, n, x)
                 PROVE  \E n2, x2 : Held(s, n2, x2)'
      BY <1>s, <2>2
    <3>2. s \in pMsg => Held(s, "lost", "produce")'
      BY <2>1, <2>5, <3>1 DEF Losses
    <3>3. CASE s \notin pMsg
      <4>1. \A r \in Losses : s \in lost'[r] <=> s \in lost[r]
        BY <3>e, <3>3
      <4>2. Held(s, n, x)'
        BY <2>1, <2>5, <3>3, <4>1
      <4> HIDE DEF Held
      <4> QED
        BY <4>2
    <3> HIDE DEF Held
    <3> QED
      BY <3>2, <3>3
  <2> QED
    BY <1>15, <2>3, <2>4, <2>5 DEF Produce, Enqueue
<1>16. CASE Cancel \/ CancelOnError \/ (Producer /\ ProducerStart) \/ UNCHANGED vars
  BY <1>1, <1>16 DEF Cancel, CancelOnError, Producer, ProducerStart, vars
<1>17. ASSUME NEW i \in Indexers, Indexer(i), IndexerTick(i) \/ BulkBytes(i) PROVE PlaceInv'
  BY <1>1, <1>17 DEF Indexer, IndexerTick, BulkBytes
<1> QED
  BY <1>2, <1>3, <1>4, <1>5, <1>6, <1>7, <1>8, <1>9, <1>10, <1>11, <1>12, <1>13, <1>14, <1>15,
     <1>16, <1>17 DEF Next, Consumer, Indexer, Forwarder, Producer, Exited

\* Each SPI is in one place in every reachable state.
LEMMA PlaceInvariant == Spec => [](ControlInv /\ PlaceInv)
  BY ControlInvInit, ControlInvStep, PlaceInvInit, PlaceInvStep, PTL DEF Spec

-----------------------------------------------------------------------------
\* The slot of the channel c that holds s is unique.
LEMMA OneSlot ==
  ASSUME NEW c, Apart(c), NEW s, s \in InChan(c)
  PROVE  \E k \in DOMAIN c.buf : \A j \in DOMAIN c.buf : s \in c.buf[j] <=> j = k
<1>1. PICK k \in DOMAIN c.buf : s \in c.buf[k]
  BY DEF InChan
<1>2. \A j \in DOMAIN c.buf : s \in c.buf[j] <=> j = k
  BY <1>1 DEF Apart
<1> QED
  BY <1>2

\* What InFlight adds up.
LEMMA InFlightMembers ==
  ASSUME NEW s
  PROVE  s \in InFlight <=>
           \/ s \in cMsg \/ s \in InChan(consumerChan) \/ s \in InChan(mergedErrorChan) \/ s \in pMsg
           \/ \E i \in Indexers : \/ s \in iMsg[i] \/ s \in buffer[i] \/ s \in failed[i]
                                  \/ s \in InChan(errorChan[i]) \/ s \in fMsg[i]
<1> DEFINE U == UNION {iMsg[i] \cup buffer[i] \cup failed[i] \cup InChan(errorChan[i]) \cup fMsg[i] :
                         i \in Indexers}
<1>1. s \in U <=> \E i \in Indexers : \/ s \in iMsg[i] \/ s \in buffer[i] \/ s \in failed[i]
                                      \/ s \in InChan(errorChan[i]) \/ s \in fMsg[i]
  OBVIOUS
<1>2. InFlight = cMsg \cup InChan(consumerChan) \cup U \cup InChan(mergedErrorChan) \cup pMsg
  BY DEF InFlight
<1> HIDE DEF U
<1> QED
  BY <1>1, <1>2

\* Where Delivery sees each SPI: an SPI is in the topic, in flight, or settled in one
\* way, and nothing else is anywhere.
Lost == UNION {lost[r] : r \in Losses}

SeenOnce ==
    \A s \in Spis : \E n \in Names :
      /\ s \in InFlight <=> n \in FlightNames
      /\ (\E m \in topic : s \in m) <=> n = "topic"
      /\ s \in Lost <=> n = "lost"
      /\ s \in indexed <=> n = "indexed"
      /\ s \in republished <=> n = "republished"

OnlySpis ==
    InFlight \subseteq Spis /\ indexed \subseteq Spis /\ republished \subseteq Spis /\ Lost \subseteq Spis

\* The places in the code refine what Delivery sees.
LEMMA PlacesSeen == PlaceInv => SeenOnce
<1> SUFFICES ASSUME PlaceInv, NEW s \in Spis
             PROVE  \E n \in Names :
                      /\ s \in InFlight <=> n \in FlightNames
                      /\ (\E m \in topic : s \in m) <=> n = "topic"
                      /\ s \in Lost <=> n = "lost"
                      /\ s \in indexed <=> n = "indexed"
                      /\ s \in republished <=> n = "republished"
  BY DEF SeenOnce
<1>1. PICK n, x : Held(s, n, x)
  BY DEF PlaceInv, OnePlace
<1>2. s \in InFlight <=> n \in FlightNames
  BY <1>1, InFlightMembers DEF Held, InConsumer, InIndexer, InMerge, InProducer, FlightNames
<1>3. (\E m \in topic : s \in m) <=> n = "topic"
  BY <1>1 DEF Held, InTopic
<1>4. s \in Lost <=> n = "lost"
  BY <1>1 DEF Held, InFate, Lost
<1>5. n \in Names /\ (s \in indexed <=> n = "indexed") /\ (s \in republished <=> n = "republished")
  BY <1>1 DEF Held, InFate
<1> QED
  BY <1>2, <1>3, <1>4, <1>5

\* A step either polls one message or leaves the topic alone; a fate is never undone.
LEMMA FatesGrow ==
  ASSUME ControlInv, [Next]_vars
  PROVE  /\ indexed \subseteq indexed' /\ republished \subseteq republished'
         /\ \A r \in Losses : lost[r] \subseteq lost'[r]
         /\ \/ topic' = topic
            \/ \E m \in topic : /\ topic' = topic \ {m}
                                /\ UNCHANGED <<indexed, republished, lost>>
                                /\ m \subseteq cMsg'
<1> USE DEF consumerVars, indexerVars, mergeVars, producerVars, fates
<1>t. lost \in [Losses -> SUBSET Spis]
  BY DEF ControlInv, TypeOK, FatesTypeOK
<1>1. ASSUME NEW r0, NEW set, Lose(r0, set) PROVE \A r \in Losses : lost[r] \subseteq lost'[r]
  BY <1>t, <1>1 DEF Lose
<1>2. CASE Consumer
  <2>1. CASE ConsumerPoll
    BY <1>2, <2>1 DEF Consumer, ConsumerPoll
  <2>2. CASE ConsumerCopy
    BY <1>1, <1>2, <2>2 DEF Consumer, ConsumerCopy
  <2> QED
    BY <1>2, <2>1, <2>2 DEF Consumer, ConsumerStart, ConsumerCheckCtx, ConsumerSend
<1>3. ASSUME NEW i \in Indexers, Indexer(i)
      PROVE  /\ indexed \subseteq indexed' /\ UNCHANGED <<topic, republished>>
             /\ \A r \in Losses : lost[r] \subseteq lost'[r]
  <2>1. UNCHANGED <<topic, republished>>
    BY <1>3 DEF Indexer
  <2>2. indexed \subseteq indexed'
    BY <1>3 DEF Indexer, IndexerRecv, IndexerTick, BulkBytes, BulkWrite, SendToES, BulkResponse,
         BulkCallError, SendErrors, IndexerReturn
  <2>3. lost' = lost \/ \E r0, set : Lose(r0, set)
    BY <1>3 DEF Indexer, IndexerRecv, IndexerTick, BulkBytes, BulkWrite, SendToES, BulkResponse,
         BulkCallError, SendErrors, IndexerReturn
  <2> QED
    BY <1>1, <2>1, <2>2, <2>3
<1>4. CASE Producer
  <2>1. lost' = lost \/ \E r0, set : Lose(r0, set)
    BY <1>4 DEF Producer, ProducerStart, ProducerRecv, Produce, Enqueue
  <2> QED
    BY <1>1, <1>4, <2>1 DEF Producer, ProducerStart, ProducerRecv, Produce, Enqueue
<1>5. CASE Cancel \/ CancelOnError \/ (\E i \in Indexers : Forwarder(i)) \/ MergeClose \/ UNCHANGED vars
  BY <1>5 DEF Cancel, CancelOnError, Forwarder, MergeClose, vars
<1> QED
  BY <1>2, <1>3, <1>4, <1>5 DEF Next, Exited

\* Everything that is anywhere is an SPI of some message.
LEMMA SpisOnly == TypeOK => OnlySpis
<1> SUFFICES ASSUME TypeOK PROVE OnlySpis
  OBVIOUS
<1>1. ASSUME NEW c \in Channel(SUBSET Spis) PROVE InChan(c) \subseteq Spis
  BY DEF Channel, InChan
<1>2. /\ cMsg \subseteq Spis /\ pMsg \subseteq Spis
      /\ InChan(consumerChan) \subseteq Spis /\ InChan(mergedErrorChan) \subseteq Spis
  BY <1>1 DEF TypeOK, ConsumerTypeOK, MergeTypeOK, ProducerTypeOK
<1>3. \A i \in Indexers :
        /\ iMsg[i] \subseteq Spis /\ buffer[i] \subseteq Spis /\ failed[i] \subseteq Spis
        /\ InChan(errorChan[i]) \subseteq Spis /\ fMsg[i] \subseteq Spis
  BY <1>1 DEF TypeOK, IndexerTypeOK, MergeTypeOK
<1>4. \A s : s \in InFlight => s \in Spis
  BY <1>2, <1>3, InFlightMembers
<1>5. indexed \subseteq Spis /\ republished \subseteq Spis /\ Lost \subseteq Spis
  BY DEF TypeOK, FatesTypeOK, Lost
<1> QED
  BY <1>4, <1>5 DEF OnlySpis

\* The polled message is in flight once the consumer holds it.
LEMMA PolledInFlight == cMsg \subseteq InFlight
  BY InFlightMembers

\* A step is a step of Delivery: what is newly indexed, republished or lost was in
\* flight, is so no longer, and is in one of the three sets only.
LEMMA DeliveryStep ==
  ASSUME ControlInv, SeenOnce, OnlySpis, SeenOnce', OnlySpis', (cMsg \subseteq InFlight)', [Next]_vars
  PROVE  [D!Next]_(D!vars)
<1> DEFINE i == indexed' \ indexed
           r == republished' \ republished
           l == Lost' \ Lost
<1>1. /\ indexed \subseteq indexed' /\ republished \subseteq republished' /\ Lost \subseteq Lost'
      /\ \/ topic' = topic
         \/ \E m \in topic : /\ topic' = topic \ {m}
                             /\ UNCHANGED <<indexed, republished, lost>>
                             /\ m \subseteq cMsg'
  BY FatesGrow DEF Lost
<1> USE DEF Names, FlightNames, FateNames
<1>2. CASE topic' = topic
  <2>1. \A s \in Spis : s \in InFlight' <=> s \in InFlight /\ s \notin i \cup r \cup l
    BY <1>1, <1>2 DEF SeenOnce
  <2>2. \A s \in Spis : /\ s \in i \cup r \cup l => s \in InFlight
                        /\ ~(s \in i /\ s \in r) /\ ~(s \in i /\ s \in l) /\ ~(s \in r /\ s \in l)
    BY <1>1, <1>2 DEF SeenOnce
  <2>3. /\ InFlight' = InFlight \ (i \cup r \cup l)
        /\ indexed' = indexed \cup i /\ republished' = republished \cup r /\ Lost' = Lost \cup l
    BY <1>1, <2>1 DEF OnlySpis
  <2>5. i \in SUBSET InFlight /\ r \in SUBSET (InFlight \ i) /\ l \in SUBSET (InFlight \ (i \cup r))
    BY <2>2 DEF OnlySpis
  <2> HIDE DEF i, r, l
  <2>6. \E i2 \in SUBSET InFlight : \E r2 \in SUBSET (InFlight \ i2) :
          \E l2 \in SUBSET (InFlight \ (i2 \cup r2)) : D!Settle(i2, r2, l2)
    BY <1>2, <2>3, <2>5 DEF D!Settle, Lost
  <2> QED
    BY <2>6 DEF D!Next
<1>3. ASSUME NEW m \in topic, topic' = topic \ {m}, UNCHANGED <<indexed, republished, lost>>,
             m \subseteq cMsg'
      PROVE  D!Consume(m)
  <2>1. Lost' = Lost
    BY <1>3 DEF Lost
  <2>2. m \subseteq InFlight' /\ m \subseteq Spis
    BY <1>3 DEF OnlySpis
  <2>3. \A s \in Spis : s \in InFlight' <=> s \in InFlight \/ s \in m
    BY <1>3, <2>1, <2>2 DEF SeenOnce
  <2>4. InFlight' = InFlight \cup m
    BY <2>2, <2>3 DEF OnlySpis
  <2> QED
    BY <1>3, <2>1, <2>4 DEF D!Consume, Lost
<1> QED
  BY <1>1, <1>2, <1>3 DEF D!Next

\* For every topic, number of indexers, capacities, limits and failures, the pipeline
\* (main.go's pool of goroutines and their channels) implements Delivery: each message
\* is consumed whole, and each of its SPIs is settled at most once and in one way.
THEOREM DeliveryImplemented == Spec => ImplementsDelivery
<1>1. Init => D!Init
  <2> SUFFICES ASSUME Init PROVE D!Init
    OBVIOUS
  <2>1. InFlight = {}
    BY NewChanApart, InFlightMembers DEF Init
  <2>2. UNION {lost[r] : r \in Losses} = {}
    BY DEF Init
  <2> QED
    BY <2>1, <2>2 DEF Init, D!Init
<1> DEFINE I == ControlInv /\ SeenOnce /\ OnlySpis /\ cMsg \subseteq InFlight
<1>2. ControlInv /\ PlaceInv => I
  BY PlacesSeen, SpisOnly, PolledInFlight DEF ControlInv
<1>3. I /\ I' /\ [Next]_vars => [D!Next]_(D!vars)
  BY DeliveryStep
<1> QED
  BY <1>1, <1>2, <1>3, PlaceInvariant, PTL DEF Spec, ImplementsDelivery, D!Spec

-----------------------------------------------------------------------------
\* What a family of places holds of s, when at most one of them holds it.
LEMMA AtOne ==
  ASSUME NEW name, NEW f, NEW s, NEW k \in DOMAIN f, \A j \in DOMAIN f : s \in f[j] <=> j = k
  PROVE  At(name, f, s) = {<<name, k>>}
  BY DEF At

LEMMA AtNone ==
  ASSUME NEW name, NEW f, NEW s, \A j \in DOMAIN f : s \notin f[j]
  PROVE  At(name, f, s) = {}
  BY DEF At

\* A channel, and a single variable, as a family of places.
LEMMA AtChan ==
  ASSUME NEW name, NEW c, NEW s, Apart(c)
  PROVE  /\ s \in InChan(c) => \E p : At(name, c.buf, s) = {p}
         /\ s \notin InChan(c) => At(name, c.buf, s) = {}
<1>1. CASE s \in InChan(c)
  <2>1. PICK k \in DOMAIN c.buf : \A j \in DOMAIN c.buf : s \in c.buf[j] <=> j = k
    BY <1>1, OneSlot
  <2>2. At(name, c.buf, s) = {<<name, k>>}
    BY <2>1 DEF At
  <2> QED
    BY <1>1, <2>2
<1>2. CASE s \notin InChan(c)
  BY <1>2, AtNone DEF InChan
<1> QED
  BY <1>1, <1>2

LEMMA AtVar ==
  ASSUME NEW name, NEW v, NEW s
  PROVE  /\ s \in v => \E p : At(name, <<v>>, s) = {p}
         /\ s \notin v => At(name, <<v>>, s) = {}
<1>1. DOMAIN <<v>> = {1} /\ <<v>>[1] = v
  OBVIOUS
<1> DEFINE f == <<v>>
<1>2. DOMAIN f = {1} /\ f[1] = v
  BY <1>1
<1> HIDE DEF f
<1>3. s \in v => At(name, f, s) = {<<name, 1>>}
  BY <1>2, AtOne
<1>4. s \notin v => At(name, f, s) = {}
  BY <1>2, AtNone
<1> QED
  BY <1>3, <1>4 DEF f

\* If s is held at one place only, Holders has one element.
LEMMA OneHolder ==
  ASSUME TypeOK, ChannelsApart, NEW s \in Spis, NEW n, NEW x, Held(s, n, x)
  PROVE  \E p : Holders(s) = {p}
<1> DEFINE f == [m \in topic |-> m]
           g == [q \in UNION {Queued(i) : i \in Indexers} |-> errorChan[q[1]].buf[q[2]]]
           h == <<indexed, republished>>
           A1 == At("topic", f, s)
           A2 == At("consumer", <<cMsg>>, s)
           A3 == At("consumerChan", consumerChan.buf, s)
           A4 == At("msg", iMsg, s)
           A5 == At("buffer", buffer, s)
           A6 == At("failed", failed, s)
           A7 == At("errorChan", g, s)
           A8 == At("forwarder", fMsg, s)
           A9 == At("mergedErrorChan", mergedErrorChan.buf, s)
           A10 == At("producer", <<pMsg>>, s)
           A11 == At("fate", h, s)
           A12 == At("lost", lost, s)
           One(A) == \E p : A = {p}
<1>d. /\ DOMAIN iMsg = Indexers /\ DOMAIN buffer = Indexers /\ DOMAIN failed = Indexers
      /\ DOMAIN fMsg = Indexers /\ DOMAIN lost = Losses
  BY DEF TypeOK, IndexerTypeOK, MergeTypeOK, FatesTypeOK
<1>1. /\ n = "topic" => One(A1)
      /\ n # "topic" => A1 = {}
  <2>1. DOMAIN f = topic /\ \A m \in topic : f[m] = m
    OBVIOUS
  <2> HIDE DEF f
  <2>2. CASE n = "topic"
    <3>1. x \in DOMAIN f /\ \A m \in DOMAIN f : s \in f[m] <=> m = x
      BY <2>1, <2>2 DEF Held, InTopic
    <3>2. A1 = {<<"topic", x>>}
      BY <3>1 DEF At
    <3> QED
      BY <2>2, <3>2
  <2>3. CASE n # "topic"
    <3>1. \A m \in DOMAIN f : s \notin f[m]
      BY <2>1, <2>3 DEF Held, InTopic
    <3> QED
      BY <2>3, <3>1, AtNone
  <2> QED
    BY <2>2, <2>3
<1>2. /\ n = "consumer" => One(A2)
      /\ n # "consumer" => A2 = {}
  BY AtVar DEF Held, InConsumer
<1>3. /\ n = "consumerChan" => One(A3)
      /\ n # "consumerChan" => A3 = {}
  <2>1. Apart(consumerChan) /\ (s \in InChan(consumerChan) <=> n = "consumerChan")
    BY DEF Held, InConsumer, ChannelsApart
  <2> QED
    BY <2>1, AtChan
<1>4. /\ n = "msg" => A4 = {<<"msg", x>>}
      /\ n # "msg" => A4 = {}
  BY <1>d DEF At, Held, InIndexer
<1>5. /\ n = "buffer" => A5 = {<<"buffer", x>>}
      /\ n # "buffer" => A5 = {}
  BY <1>d DEF At, Held, InIndexer
<1>6. /\ n = "failed" => A6 = {<<"failed", x>>}
      /\ n # "failed" => A6 = {}
  BY <1>d DEF At, Held, InIndexer
<1>7. /\ n = "errorChan" => One(A7)
      /\ n # "errorChan" => A7 = {}
  <2>1. \A q : q \in DOMAIN g <=> \E i \in Indexers : \E k \in DOMAIN errorChan[i].buf : q = <<i, k>>
    BY DEF Queued
  <2>2. \A i \in Indexers : \A k \in DOMAIN errorChan[i].buf : g[<<i, k>>] = errorChan[i].buf[k]
    BY DEF Queued
  <2> HIDE DEF g
  <2>3. CASE n = "errorChan"
    <3>1. x \in Indexers /\ s \in InChan(errorChan[x]) /\ Apart(errorChan[x])
      BY <2>3 DEF Held, InMerge, ChannelsApart
    <3>2. PICK k \in DOMAIN errorChan[x].buf :
            \A j \in DOMAIN errorChan[x].buf : s \in errorChan[x].buf[j] <=> j = k
      BY <3>1, OneSlot
    <3>3. \A i \in Indexers : i # x => \A j \in DOMAIN errorChan[i].buf : s \notin errorChan[i].buf[j]
      BY <2>3 DEF Held, InMerge, InChan
    <3>4. <<x, k>> \in DOMAIN g
      BY <2>1, <3>1
    <3>5. \A q \in DOMAIN g : s \in g[q] <=> q = <<x, k>>
      BY <2>1, <2>2, <3>1, <3>2, <3>3
    <3>6. A7 = {<<"errorChan", <<x, k>>>>}
      BY <3>4, <3>5 DEF At
    <3> QED
      BY <2>3, <3>6
  <2>4. CASE n # "errorChan"
    <3>1. \A i \in Indexers : \A j \in DOMAIN errorChan[i].buf : s \notin errorChan[i].buf[j]
      BY <2>4 DEF Held, InMerge, InChan
    <3>2. \A q \in DOMAIN g : s \notin g[q]
      BY <2>1, <2>2, <3>1
    <3> QED
      BY <2>4, <3>2, AtNone
  <2> QED
    BY <2>3, <2>4
<1>8. /\ n = "forwarder" => A8 = {<<"forwarder", x>>}
      /\ n # "forwarder" => A8 = {}
  BY <1>d DEF At, Held, InMerge
<1>9. /\ n = "mergedErrorChan" => One(A9)
      /\ n # "mergedErrorChan" => A9 = {}
  BY AtChan DEF Held, InProducer, ChannelsApart
<1>10. /\ n = "producer" => One(A10)
       /\ n # "producer" => A10 = {}
  <2>1. s \in pMsg <=> n = "producer"
    BY DEF Held, InProducer
  <2> QED
    BY <2>1, AtVar
<1>11. /\ n \in {"indexed", "republished"} => One(A11)
       /\ n \notin {"indexed", "republished"} => A11 = {}
  <2>1. DOMAIN h = {1, 2} /\ h[1] = indexed /\ h[2] = republished
    OBVIOUS
  <2> HIDE DEF h
  <2>2. n = "indexed" => A11 = {<<"fate", 1>>}
    BY <2>1, AtOne DEF Held, InFate
  <2>3. n = "republished" => A11 = {<<"fate", 2>>}
    BY <2>1, AtOne DEF Held, InFate
  <2>4. n \notin {"indexed", "republished"} => A11 = {}
    BY <2>1, AtNone DEF Held, InFate
  <2> QED
    BY <2>2, <2>3, <2>4
<1>12. /\ n = "lost" => A12 = {<<"lost", x>>}
       /\ n # "lost" => A12 = {}
  BY <1>d DEF At, Held, InFate
<1>13. Holders(s) = A1 \cup A2 \cup A3 \cup A4 \cup A5 \cup A6 \cup A7 \cup A8 \cup A9 \cup A10
                      \cup A11 \cup A12
  BY DEF Holders
<1>14. n \in Names
  BY DEF Held
<1> HIDE DEF A1, A2, A3, A4, A5, A6, A7, A8, A9, A10, A11, A12
<1> QED
  BY <1>1, <1>2, <1>3, <1>4, <1>5, <1>6, <1>7, <1>8, <1>9, <1>10, <1>11, <1>12, <1>13, <1>14
     DEF Names, FlightNames, FateNames

\* For every topic, number of indexers, capacities, limits and failures: no hand-over
\* between the goroutines of main.go, no flush and no failed bulk request duplicates an
\* SPI or lets one disappear without being accounted for.
THEOREM SpisConserved == Spec => []Conservation
<1>1. ControlInv /\ PlaceInv => Conservation
  <2> SUFFICES ASSUME ControlInv, PlaceInv, NEW s \in Spis PROVE Cardinality(Holders(s)) = 1
    BY DEF Conservation
  <2>1. PICK n, x : Held(s, n, x)
    BY DEF PlaceInv, OnePlace
  <2>2. PICK p : Holders(s) = {p}
    BY <2>1, OneHolder DEF ControlInv, PlaceInv
  <2> QED
    BY <2>2, FS_Singleton
<1> QED
  BY <1>1, PlaceInvariant, PTL
=============================================================================
