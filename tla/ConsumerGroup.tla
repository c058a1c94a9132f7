--------------------------- MODULE ConsumerGroup ---------------------------
(***************************************************************************)
(* Instances of the program in one Kafka consumer group: which messages a  *)
(* stop, a crash or a rebalance loses or consumes twice.  The consumer     *)
(* leaves offsets to librdkafka's defaults: an offset is stored when its   *)
(* message is polled and committed in the background, whatever becomes of  *)
(* the message; a partition without a committed offset is read from its    *)
(* end.  What happens between the poll and the end of a message is module  *)
(* Pipeline: here an instance holds it until it settles, that is until it  *)
(* is indexed, republished or dropped and counted.  Once a goroutine of    *)
(* the instance has failed nothing is certain any more: what is held may   *)
(* be left unread, and the consumer or main may wait for ever.             *)
(***************************************************************************)
EXTENDS Integers, FiniteSets

CONSTANTS
    Instances,
    Nobody,         \* owner of a partition that has none
    Partitions,
    MaxOffset,      \* bound on the messages of a partition
    MaxIncidents    \* bound on stops, failures, crashes, rebalances and lost assignments

ASSUME GroupAssumption ==
    /\ Nobody \notin Instances
    /\ MaxOffset \in Nat
    /\ MaxIncidents \in Nat

None == -1

\* A message is its partition and its offset.
Offsets == 0 .. MaxOffset - 1
Messages == Partitions \X Offsets

VARIABLES
    logEnd,         \* of each partition
    committed,      \* the group's offset of each partition, or None
    owner,          \* the instance to which the coordinator has given the partition
    state,          \* of each instance
    broken,         \* the instances in which a goroutine has failed
    position,       \* the next offset an instance polls, None where it has no assignment
    stored,         \* the offset that an instance is going to commit, or None
    held,           \* messages polled and not settled
    settled,
    crashed,        \* committed messages that were held by an instance when it crashed
    abandoned,      \* committed messages that were held by a broken instance when it ended
    skipped,        \* messages passed over because no offset was committed yet
    disturbed,      \* partitions whose owner crashed or lost its assignment
    incidents

kafkaVars == <<logEnd, committed, owner>>
instanceVars == <<state, broken, position, stored, held>>
history == <<settled, crashed, abandoned, skipped, disturbed>>
vars == <<kafkaVars, instanceVars, history, incidents>>

Init ==
    /\ logEnd = [p \in Partitions |-> 0]
    /\ committed = [p \in Partitions |-> None]
    /\ owner = [p \in Partitions |-> Nobody]
    /\ state = [n \in Instances |-> "down"]
    /\ broken = {}
    /\ position = [n \in Instances |-> [p \in Partitions |-> None]]
    /\ stored = position
    /\ held = [n \in Instances |-> {}]
    /\ settled = {} /\ crashed = {} /\ abandoned = {} /\ skipped = {} /\ disturbed = {}
    /\ incidents = 0

Incident == incidents < MaxIncidents /\ incidents' = incidents + 1

-----------------------------------------------------------------------------
(* Kafka and librdkafka.                                                   *)

Append(p) ==
    /\ logEnd[p] < MaxOffset
    /\ logEnd' = [logEnd EXCEPT ![p] = @ + 1]
    /\ UNCHANGED <<committed, owner, instanceVars, history, incidents>>

\* The offsets that instance n has stored for partitions it owns.
CommitStored(n) ==
    committed' = [p \in Partitions |->
      IF owner[p] = n /\ stored[n][p] # None THEN stored[n][p] ELSE committed[p]]

AutoCommit(n) ==
    /\ state[n] \in {"running", "blocked"}
    /\ CommitStored(n)
    /\ UNCHANGED <<logEnd, owner, instanceVars, history, incidents>>

\* The coordinator has not heard of the instance for session.timeout.ms, or Poll was not called
\* for too long: the consumer waits for room in its channel, for a while or for ever.
LoseAssignment(n, p) ==
    /\ \/ state[n] = "running" /\ Incident
       \/ state[n] = "blocked" /\ UNCHANGED incidents
    /\ owner[p] = n
    /\ owner' = [owner EXCEPT ![p] = Nobody]
    /\ disturbed' = disturbed \cup {p}
    /\ UNCHANGED <<logEnd, committed, instanceVars, settled, crashed, abandoned, skipped>>

-----------------------------------------------------------------------------
(* Consumer.Start                                                          *)

Unassign(n, ps) ==
    /\ position' = [position EXCEPT ![n] = [p \in Partitions |-> IF p \in ps THEN None ELSE @[p]]]
    /\ stored' = [stored EXCEPT ![n] = [p \in Partitions |-> IF p \in ps THEN None ELSE @[p]]]

\* The instance is started, and subscribes to the topic.
Start(n) ==
    /\ state[n] = "down"
    /\ state' = [state EXCEPT ![n] = "running"]
    /\ UNCHANGED <<kafkaVars, broken, position, stored, held, history, incidents>>

\* rebalanceCb returns without an assignment of its own, so the client assigns the partition.
AssignedPartitions(n, p) ==
    /\ state[n] = "running" /\ owner[p] = Nobody /\ position[n][p] = None
    /\ owner' = [owner EXCEPT ![p] = n]
    /\ position' = [position EXCEPT ![n][p] =
                      IF committed[p] = None THEN logEnd[p] ELSE committed[p]]
    /\ skipped' = IF committed[p] = None
                  THEN skipped \cup (({p} \X (0 .. logEnd[p] - 1)) \ settled)
                  ELSE skipped
    /\ UNCHANGED <<logEnd, committed, state, broken, stored, held,
                   settled, crashed, abandoned, disturbed, incidents>>

\* The rebalance gives the partition to another instance: the client commits and unassigns it.
RevokedPartitions(n, p) ==
    /\ Incident
    /\ state[n] = "running" /\ owner[p] = n
    /\ IF stored[n][p] # None
       THEN committed' = [committed EXCEPT ![p] = stored[n][p]] ELSE UNCHANGED committed
    /\ owner' = [owner EXCEPT ![p] = Nobody]
    /\ Unassign(n, {p})
    /\ UNCHANGED <<logEnd, state, broken, held, history>>

\* Mutant of AssignmentLost: the offset is committed all the same.
CommitAfterLoss(n, p) ==
    /\ state[n] = "running" /\ owner[p] # n /\ position[n][p] # None
    /\ IF stored[n][p] # None
       THEN committed' = [committed EXCEPT ![p] = stored[n][p]] ELSE UNCHANGED committed
    /\ Unassign(n, {p})
    /\ UNCHANGED <<logEnd, owner, state, broken, held, history, incidents>>

\* The instance learns that it has lost the partition.
AssignmentLost(n, p) ==
    /\ state[n] = "running" /\ owner[p] # n /\ position[n][p] # None
    /\ Unassign(n, {p})
    /\ UNCHANGED <<kafkaVars, state, broken, held, history, incidents>>

\* Mutant of Poll: the bound of the partition is missed by one.
PollPastEnd(n, p) ==
    /\ state[n] = "running" /\ position[n][p] # None /\ position[n][p] <= logEnd[p]
    /\ position' = [position EXCEPT ![n][p] = @ + 1]
    /\ stored' = [stored EXCEPT ![n][p] = position[n][p] + 1]
    /\ held' = [held EXCEPT ![n] = @ \cup {<<p, position[n][p]>>}]
    /\ UNCHANGED <<kafkaVars, state, broken, history, incidents>>

\* A message goes into the pipeline; an instance that does not know of its loss goes on, too.
Poll(n, p) ==
    /\ state[n] = "running" /\ position[n][p] # None /\ position[n][p] < logEnd[p]
    /\ position' = [position EXCEPT ![n][p] = @ + 1]
    /\ stored' = [stored EXCEPT ![n][p] = position[n][p] + 1]
    /\ held' = [held EXCEPT ![n] = @ \cup {<<p, position[n][p]>>}]
    /\ UNCHANGED <<kafkaVars, state, broken, history, incidents>>

\* The instance leaves the group.
Leave(n) == owner' = [p \in Partitions |-> IF owner[p] = n THEN Nobody ELSE owner[p]]

\* Somebody stops the instance, or its context is cancelled because a goroutine has failed.
Stopped(n) ==
    /\ state[n] = "running"
    /\ IF n \in broken THEN UNCHANGED incidents ELSE Incident

\* Mutant of Stop: without the deferred consumer.Close().
StopWithoutClose(n) ==
    /\ Stopped(n)
    /\ state' = [state EXCEPT ![n] = "draining"]
    /\ Leave(n) /\ Unassign(n, Partitions)
    /\ UNCHANGED <<logEnd, committed, broken, held, history>>

\* ctx.Done or an error of Poll: consumer.Close() commits and leaves the group, and only then
\* is the channel closed and the pipeline drained.
Stop(n) ==
    /\ Stopped(n)
    /\ state' = [state EXCEPT ![n] = "draining"]
    /\ CommitStored(n) /\ Leave(n) /\ Unassign(n, Partitions)
    /\ UNCHANGED <<logEnd, broken, held, history>>

-----------------------------------------------------------------------------
(* The rest of the program.                                                *)

\* A message leaves the pipeline.
Settle(n) ==
    \E m \in held[n] :
      /\ settled' = settled \cup {m}
      /\ held' = [held EXCEPT ![n] = @ \ {m}]
      /\ UNCHANGED <<kafkaVars, state, broken, position, stored,
                     crashed, abandoned, skipped, disturbed, incidents>>

\* A goroutine other than the consumer returns an error: an indexer that cannot reload its
\* client, the producer, the reload itself.
GoroutineFails(n) ==
    /\ Incident
    /\ state[n] \in {"running", "draining"} /\ n \notin broken
    /\ broken' = broken \cup {n}
    /\ UNCHANGED <<kafkaVars, state, position, stored, held, history>>

\* The consumer waits for ever to send to indexers that are gone, or the goroutines behind it
\* wait for a producer that is gone: Start or ctxPool.Wait() never returns.
Block(n) ==
    /\ state[n] \in {"running", "draining"} /\ n \in broken
    /\ state' = [state EXCEPT ![n] = "blocked"]
    /\ UNCHANGED <<kafkaVars, broken, position, stored, held, history, incidents>>

IsCommitted(m) == m[2] < committed[m[1]]

\* Mutant of Exit: the goroutines are not waited for.
ExitAtOnce(n) ==
    /\ state[n] = "draining"
    /\ state' = [state EXCEPT ![n] = "down"]
    /\ broken' = broken \ {n}
    /\ held' = [held EXCEPT ![n] = {}]
    /\ UNCHANGED <<kafkaVars, position, stored, history, incidents>>

\* ctxPool.Wait() returns: the pipeline is drained, unless a goroutine failed and left to nobody
\* what it held, or what was in its channel.
Exit(n) ==
    /\ state[n] = "draining" /\ (held[n] = {} \/ n \in broken)
    /\ state' = [state EXCEPT ![n] = "down"]
    /\ broken' = broken \ {n}
    /\ held' = [held EXCEPT ![n] = {}]
    /\ abandoned' = abandoned \cup {m \in held[n] : IsCommitted(m)}
    /\ UNCHANGED <<kafkaVars, position, stored, settled, crashed, skipped, disturbed, incidents>>

\* The process is gone, at any point.
Crash(n) ==
    /\ Incident
    /\ state[n] # "down"
    /\ state' = [state EXCEPT ![n] = "down"]
    /\ broken' = broken \ {n}
    /\ held' = [held EXCEPT ![n] = {}]
    /\ Leave(n) /\ Unassign(n, Partitions)
    /\ crashed' = crashed \cup {m \in held[n] : IsCommitted(m)}
    /\ disturbed' = disturbed \cup {p \in Partitions : owner[p] = n}
    /\ UNCHANGED <<logEnd, committed, settled, abandoned, skipped>>

Next ==
    \/ \E p \in Partitions : Append(p)
    \/ \E n \in Instances :
         \/ AutoCommit(n) \/ Start(n) \/ Stop(n) \/ Settle(n)
         \/ GoroutineFails(n) \/ Block(n) \/ Exit(n) \/ Crash(n)
    \/ \E n \in Instances, p \in Partitions :
         \/ LoseAssignment(n, p) \/ AssignedPartitions(n, p) \/ RevokedPartitions(n, p)
         \/ AssignmentLost(n, p) \/ Poll(n, p)

Spec == Init /\ [][Next]_vars

\* The process is restarted when it ends, the group rebalances, Start polls in a loop, and the
\* pipeline settles what it holds as long as none of its goroutines has failed (property
\* EverySpiSettles of module Pipeline).  A failure cancels the context.  A consumer that has not
\* called Poll for max.poll.interval.ms loses what it owns.
Fairness ==
    /\ \A n \in Instances :
         /\ WF_vars(Start(n)) /\ WF_vars(Exit(n))
         /\ WF_vars(n \notin broken /\ Settle(n))
         /\ WF_vars(n \in broken /\ Stop(n))
    /\ \A n \in Instances, p \in Partitions :
         /\ WF_vars(AssignedPartitions(n, p))
         /\ WF_vars(AssignmentLost(n, p))
         /\ WF_vars(state[n] = "blocked" /\ LoseAssignment(n, p))
         /\ WF_vars(Poll(n, p))

FairSpec == Spec /\ Fairness

-----------------------------------------------------------------------------
TypeOK ==
    /\ logEnd \in [Partitions -> 0 .. MaxOffset]
    /\ committed \in [Partitions -> 0 .. MaxOffset \cup {None}]
    /\ owner \in [Partitions -> Instances \cup {Nobody}]
    /\ state \in [Instances -> {"down", "running", "draining", "blocked"}]
    /\ broken \in SUBSET Instances
    /\ position \in [Instances -> [Partitions -> 0 .. MaxOffset \cup {None}]]
    /\ stored \in [Instances -> [Partitions -> 0 .. MaxOffset \cup {None}]]
    /\ held \in [Instances -> SUBSET Messages]
    /\ settled \in SUBSET Messages
    /\ crashed \in SUBSET Messages
    /\ abandoned \in SUBSET Messages
    /\ skipped \in SUBSET Messages
    /\ disturbed \in SUBSET Partitions
    /\ incidents \in 0 .. MaxIncidents

\* Although offsets are committed before their messages are indexed, the group never passes over
\* a message for good, except what was in the buffers of an instance that crashed, what an
\* instance with a failed goroutine still held when it ended, and what was there before the group
\* first committed: the stop of a sound instance, a restart and a rebalance lose nothing.
NothingPassedOver ==
    \A p \in Partitions, o \in Offsets : o < committed[p] =>
      \/ <<p, o>> \in settled \cup crashed \cup abandoned \cup skipped
      \/ \E n \in Instances : <<p, o>> \in held[n]

\* A message is in the pipelines of two instances, or comes again after it was settled, only if
\* an owner of its partition crashed or lost its assignment: a stop or a rebalance hands a
\* partition over at the right offset although the old owner is still draining.
ConsumedOnce ==
    \A p \in Partitions \ disturbed, o \in Offsets, n \in Instances :
      <<p, o>> \in held[n] =>
        <<p, o>> \notin settled /\ \A k \in Instances \ {n} : <<p, o>> \notin held[k]

\* An instance that lost its assignment and still polls never moves the offset of the group back.
OffsetsNeverGoBack == [][\A p \in Partitions : committed[p] <= committed'[p]]_vars

\* Every message of the topic is settled in the end: what an instance lost before it was committed
\* is consumed again.  The exceptions are the messages lost as NothingPassedOver says, those that
\* an instance that waits for ever keeps, and the end of all consumption once every instance does.
EveryMessageSettles ==
    \A m \in Messages :
      m[2] < logEnd[m[1]] ~>
        [](\/ m \in settled \cup crashed \cup abandoned \cup skipped
           \/ \E n \in Instances : state[n] = "blocked" /\ m \in held[n]
           \/ \A n \in Instances : state[n] = "blocked")
=============================================================================
