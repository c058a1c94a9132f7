------------------------------ MODULE Delivery ------------------------------
(***************************************************************************)
(* What the indexer promises about SPIs (Arkime session documents), with   *)
(* no goroutine, channel or buffer in sight: every SPI is consumed from    *)
(* the topic with its whole message, is then in flight, and is settled     *)
(* exactly once: indexed in Elasticsearch, republished to Kafka, or lost.  *)
(* A settled SPI is never in flight again.                                 *)
(***************************************************************************)
CONSTANT Messages       \* every message is the set of the SPIs it carries

VARIABLES
    waiting,            \* messages still in the topic
    inflight,           \* SPIs consumed and not settled
    indexed,            \* SPIs stored by Elasticsearch
    republished,        \* SPIs handed to the Kafka producer's queue
    lost                \* SPIs the program has dropped

vars == <<waiting, inflight, indexed, republished, lost>>

Init ==
    /\ waiting = Messages
    /\ inflight = {} /\ indexed = {} /\ republished = {} /\ lost = {}

Consume(m) ==
    /\ m \in waiting
    /\ waiting' = waiting \ {m}
    /\ inflight' = inflight \cup m
    /\ UNCHANGED <<indexed, republished, lost>>

\* One step may settle several SPIs, and not all of them the same way: a bulk
\* request whose answer is lost may have been carried out in part.
Settle(i, r, l) ==
    /\ inflight' = inflight \ (i \cup r \cup l)
    /\ indexed' = indexed \cup i
    /\ republished' = republished \cup r
    /\ lost' = lost \cup l
    /\ UNCHANGED waiting

\* The three sets share no SPI: nothing is settled in two ways.
Next ==
    \/ \E m \in waiting : Consume(m)
    \/ \E i \in SUBSET inflight :
         \E r \in SUBSET (inflight \ i) :
           \E l \in SUBSET (inflight \ (i \cup r)) : Settle(i, r, l)

Spec == Init /\ [][Next]_vars
=============================================================================
