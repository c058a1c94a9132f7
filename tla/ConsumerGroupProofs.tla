------------------------ MODULE ConsumerGroupProofs ------------------------
(***************************************************************************)
(* For any number of instances and partitions: the group's offsets never   *)
(* go back, no committed message is passed over, and none is consumed      *)
(* twice in a partition whose owners neither crashed nor lost it.          *)
(***************************************************************************)
EXTENDS ConsumerGroup, TLAPS

\* An owner is a running or a blocked instance that knows of its assignment.
OwnersRun ==
    \A n \in Instances, p \in Partitions : owner[p] = n =>
      state[n] \in {"running", "blocked"} /\ position[n][p] # None

\* What is stored is the position, from the first poll on.
StoredIsPosition ==
    \A n \in Instances, p \in Partitions :
      stored[n][p] # None => stored[n][p] = position[n][p]

\* An owner is not behind the offset of the group.
OwnerAhead ==
    \A n \in Instances, p \in Partitions :
      owner[p] = n => committed[p] <= position[n][p]

\* The messages between the offset of the group and an owner's position are its own, unless they
\* are settled or were skipped.
OwnerClaims ==
    \A n \in Instances, p \in Partitions, o \in Offsets :
      owner[p] = n /\ committed[p] <= o /\ o < position[n][p] =>
        <<p, o>> \in settled \cup skipped \cup held[n]

IInv ==
    TypeOK /\ OwnersRun /\ StoredIsPosition /\ OwnerAhead /\ OwnerClaims /\ NothingPassedOver

\* Below the successor is below or equal.
LEMMA BelowNext == ASSUME NEW i \in Int, NEW j \in Int, i < j + 1 PROVE i < j \/ i = j
  OBVIOUS

\* An order on integers is total.
LEMMA NotBelow == ASSUME NEW i \in Int, NEW j \in Int, i <= j PROVE ~(j < i)
  OBVIOUS

\* Both a bound below j and j itself are below the successor of j.
LEMMA BelowSuccessor ==
    ASSUME NEW i \in Int, NEW j \in Int, NEW k \in Int, k <= j, i < k \/ i = j
    PROVE  i < j + 1
  OBVIOUS

\* Every conjunct holds initially.
LEMMA InitIInv == Init => IInv
  <1> SUFFICES ASSUME Init PROVE IInv
    OBVIOUS
  <1> USE GroupAssumption DEF Init, None
  <1>1. TypeOK
    BY DEF TypeOK, Messages, Offsets
  <1>2. OwnersRun /\ StoredIsPosition /\ OwnerAhead /\ OwnerClaims
    BY DEF OwnersRun, StoredIsPosition, OwnerAhead, OwnerClaims, Offsets
  <1>3. NothingPassedOver
    BY DEF NothingPassedOver, Offsets
  <1> QED BY <1>1, <1>2, <1>3 DEF IInv

\* The type invariant.
LEMMA TypeStep == IInv /\ Next => TypeOK'
  <1> SUFFICES ASSUME IInv, Next PROVE TypeOK'
    OBVIOUS
  <1> USE GroupAssumption DEF IInv, TypeOK, Messages, Offsets, None, kafkaVars, instanceVars, history
  <1>1. CASE \E p \in Partitions : Append(p)
    BY <1>1 DEF Append
  <1>2. CASE \E n \in Instances : AutoCommit(n)
    BY <1>2 DEF AutoCommit, CommitStored
  <1>3. CASE \E n \in Instances : Start(n)
    BY <1>3 DEF Start
  <1>4. CASE \E n \in Instances : Stop(n)
    BY <1>4 DEF Stop, Stopped, CommitStored, Leave, Unassign, Incident
  <1>5. CASE \E n \in Instances : Settle(n)
    BY <1>5 DEF Settle
  <1>6. CASE \E n \in Instances : Exit(n)
    BY <1>6 DEF Exit
  <1>7. CASE \E n \in Instances : Crash(n)
    BY <1>7 DEF Crash, Leave, Unassign, Incident
  <1>8. CASE \E n \in Instances, p \in Partitions : LoseAssignment(n, p)
    BY <1>8 DEF LoseAssignment, Incident
  <1>9. CASE \E n \in Instances, p \in Partitions : AssignedPartitions(n, p)
    BY <1>9 DEF AssignedPartitions
  <1>10. CASE \E n \in Instances, p \in Partitions : RevokedPartitions(n, p)
    BY <1>10 DEF RevokedPartitions, Unassign, Incident
  <1>11. CASE \E n \in Instances, p \in Partitions : AssignmentLost(n, p)
    BY <1>11 DEF AssignmentLost, Unassign
  <1>12. CASE \E n \in Instances : GoroutineFails(n)
    BY <1>12 DEF GoroutineFails, Incident
  <1>13. CASE \E n \in Instances : Block(n)
    BY <1>13 DEF Block
  <1>14. CASE \E n \in Instances, p \in Partitions : Poll(n, p)
    BY <1>14 DEF Poll
  <1> QED BY <1>1, <1>2, <1>3, <1>4, <1>5, <1>6, <1>7, <1>8, <1>9, <1>10, <1>11, <1>12, <1>13,
         <1>14 DEF Next

\* Only a running instance is given a partition, and it gives up what it owns when it stops.
LEMMA OwnersRunStep == IInv /\ Next => OwnersRun'
  <1> SUFFICES ASSUME IInv, Next PROVE OwnersRun'
    OBVIOUS
  <1> USE GroupAssumption DEF IInv, TypeOK, Messages, Offsets, None, kafkaVars, instanceVars, history, OwnersRun
  <1>1. CASE \E p \in Partitions : Append(p)
    BY <1>1 DEF Append
  <1>2. CASE \E n \in Instances : AutoCommit(n)
    BY <1>2 DEF AutoCommit, CommitStored
  <1>3. CASE \E n \in Instances : Start(n)
    BY <1>3 DEF Start
  <1>4. CASE \E n \in Instances : Stop(n)
    BY <1>4 DEF Stop, Stopped, CommitStored, Leave, Unassign, Incident
  <1>5. CASE \E n \in Instances : Settle(n)
    BY <1>5 DEF Settle
  <1>6. CASE \E n \in Instances : Exit(n)
    BY <1>6 DEF Exit
  <1>7. CASE \E n \in Instances : Crash(n)
    BY <1>7 DEF Crash, Leave, Unassign, Incident
  <1>8. CASE \E n \in Instances, p \in Partitions : LoseAssignment(n, p)
    BY <1>8 DEF LoseAssignment, Incident
  <1>9. CASE \E n \in Instances, p \in Partitions : AssignedPartitions(n, p)
    BY <1>9 DEF AssignedPartitions
  <1>10. CASE \E n \in Instances, p \in Partitions : RevokedPartitions(n, p)
    BY <1>10 DEF RevokedPartitions, Unassign, Incident
  <1>11. CASE \E n \in Instances, p \in Partitions : AssignmentLost(n, p)
    BY <1>11 DEF AssignmentLost, Unassign
  <1>12. CASE \E n \in Instances : GoroutineFails(n)
    BY <1>12 DEF GoroutineFails, Incident
  <1>13. CASE \E n \in Instances : Block(n)
    BY <1>13 DEF Block
  <1>14. CASE \E n \in Instances, p \in Partitions : Poll(n, p)
    BY <1>14 DEF Poll
  <1> QED BY <1>1, <1>2, <1>3, <1>4, <1>5, <1>6, <1>7, <1>8, <1>9, <1>10, <1>11, <1>12, <1>13,
         <1>14 DEF Next

\* A poll stores what it leaves as position.
LEMMA StoredStep == IInv /\ Next => StoredIsPosition'
  <1> SUFFICES ASSUME IInv, Next PROVE StoredIsPosition'
    OBVIOUS
  <1> USE GroupAssumption DEF IInv, TypeOK, Messages, Offsets, None, kafkaVars, instanceVars, history, StoredIsPosition
  <1>1. CASE \E p \in Partitions : Append(p)
    BY <1>1 DEF Append
  <1>2. CASE \E n \in Instances : AutoCommit(n)
    BY <1>2 DEF AutoCommit, CommitStored
  <1>3. CASE \E n \in Instances : Start(n)
    BY <1>3 DEF Start
  <1>4. CASE \E n \in Instances : Stop(n)
    BY <1>4 DEF Stop, Stopped, CommitStored, Leave, Unassign, Incident
  <1>5. CASE \E n \in Instances : Settle(n)
    BY <1>5 DEF Settle
  <1>6. CASE \E n \in Instances : Exit(n)
    BY <1>6 DEF Exit
  <1>7. CASE \E n \in Instances : Crash(n)
    BY <1>7 DEF Crash, Leave, Unassign, Incident
  <1>8. CASE \E n \in Instances, p \in Partitions : LoseAssignment(n, p)
    BY <1>8 DEF LoseAssignment, Incident
  <1>9. CASE \E n \in Instances, p \in Partitions : AssignedPartitions(n, p)
    BY <1>9 DEF AssignedPartitions
  <1>10. CASE \E n \in Instances, p \in Partitions : RevokedPartitions(n, p)
    BY <1>10 DEF RevokedPartitions, Unassign, Incident
  <1>11. CASE \E n \in Instances, p \in Partitions : AssignmentLost(n, p)
    BY <1>11 DEF AssignmentLost, Unassign
  <1>12. CASE \E n \in Instances : GoroutineFails(n)
    BY <1>12 DEF GoroutineFails, Incident
  <1>13. CASE \E n \in Instances : Block(n)
    BY <1>13 DEF Block
  <1>14. CASE \E n \in Instances, p \in Partitions : Poll(n, p)
    BY <1>14 DEF Poll
  <1> QED BY <1>1, <1>2, <1>3, <1>4, <1>5, <1>6, <1>7, <1>8, <1>9, <1>10, <1>11, <1>12, <1>13,
         <1>14 DEF Next

\* An owner commits its own position.
LEMMA OwnerAheadStep == IInv /\ Next => OwnerAhead'
  <1> SUFFICES ASSUME IInv, Next PROVE OwnerAhead'
    OBVIOUS
  <1> USE GroupAssumption DEF IInv, TypeOK, Messages, Offsets, None, kafkaVars, instanceVars, history, OwnersRun, StoredIsPosition, OwnerAhead
  <1>1. CASE \E p \in Partitions : Append(p)
    BY <1>1 DEF Append
  <1>2. CASE \E n \in Instances : AutoCommit(n)
    BY <1>2 DEF AutoCommit, CommitStored
  <1>3. CASE \E n \in Instances : Start(n)
    BY <1>3 DEF Start
  <1>4. CASE \E n \in Instances : Stop(n)
    BY <1>4 DEF Stop, Stopped, CommitStored, Leave, Unassign, Incident
  <1>5. CASE \E n \in Instances : Settle(n)
    BY <1>5 DEF Settle
  <1>6. CASE \E n \in Instances : Exit(n)
    BY <1>6 DEF Exit
  <1>7. CASE \E n \in Instances : Crash(n)
    BY <1>7 DEF Crash, Leave, Unassign, Incident
  <1>8. CASE \E n \in Instances, p \in Partitions : LoseAssignment(n, p)
    BY <1>8 DEF LoseAssignment, Incident
  <1>9. CASE \E n \in Instances, p \in Partitions : AssignedPartitions(n, p)
    BY <1>9 DEF AssignedPartitions
  <1>10. CASE \E n \in Instances, p \in Partitions : RevokedPartitions(n, p)
    BY <1>10 DEF RevokedPartitions, Unassign, Incident
  <1>11. CASE \E n \in Instances, p \in Partitions : AssignmentLost(n, p)
    BY <1>11 DEF AssignmentLost, Unassign
  <1>12. CASE \E n \in Instances : GoroutineFails(n)
    BY <1>12 DEF GoroutineFails, Incident
  <1>13. CASE \E n \in Instances : Block(n)
    BY <1>13 DEF Block
  <1>14. CASE \E n \in Instances, p \in Partitions : Poll(n, p)
    BY <1>14 DEF Poll
  <1> QED BY <1>1, <1>2, <1>3, <1>4, <1>5, <1>6, <1>7, <1>8, <1>9, <1>10, <1>11, <1>12, <1>13,
         <1>14 DEF Next

\* What an owner polls it holds until it is settled.
LEMMA OwnerClaimsStep == IInv /\ Next => OwnerClaims'
  <1> SUFFICES ASSUME IInv, Next,
                      NEW k \in Instances, NEW q \in Partitions, NEW o \in Offsets,
                      owner'[q] = k, committed'[q] <= o, o < position'[k][q]
               PROVE  <<q, o>> \in settled' \cup skipped' \cup held'[k]
    BY DEF OwnerClaims
  <1> USE GroupAssumption DEF IInv, TypeOK, Messages, Offsets, None, kafkaVars, instanceVars, history, OwnersRun, StoredIsPosition, OwnerAhead, OwnerClaims
  <1>1. CASE \E p \in Partitions : Append(p)
    BY <1>1 DEF Append
  <1>2. CASE \E n \in Instances : AutoCommit(n)
    BY <1>2 DEF AutoCommit, CommitStored
  <1>3. CASE \E n \in Instances : Start(n)
    BY <1>3 DEF Start
  <1>4. CASE \E n \in Instances : Stop(n)
    BY <1>4 DEF Stop, Stopped, CommitStored, Leave, Unassign
  <1>5. CASE \E n \in Instances : Settle(n)
    BY <1>5 DEF Settle
  <1>6. CASE \E n \in Instances : Exit(n)
    BY <1>6 DEF Exit
  <1>7. CASE \E n \in Instances : Crash(n)
    BY <1>7 DEF Crash, Leave, Unassign
  <1>8. CASE \E n \in Instances, p \in Partitions : LoseAssignment(n, p)
    BY <1>8 DEF LoseAssignment
  <1>9. CASE \E n \in Instances, p \in Partitions : AssignedPartitions(n, p)
    <2>1. PICK n \in Instances, p \in Partitions : AssignedPartitions(n, p)
      BY <1>9
    <2>2. committed' = committed /\ held' = held /\ settled' = settled /\ skipped \subseteq skipped'
      BY <2>1 DEF AssignedPartitions
    <2>3. CASE k = n /\ q = p /\ committed[p] = None
      <3>1. position'[k][q] = logEnd[p] /\ o \in 0 .. logEnd[p] - 1
        BY <2>1, <2>3 DEF AssignedPartitions
      <3> QED BY <2>1, <2>2, <2>3, <3>1 DEF AssignedPartitions
    <2>4. CASE k = n /\ q = p /\ committed[p] # None
      <3>1. position'[k][q] = committed[q]
        BY <2>1, <2>4 DEF AssignedPartitions
      <3> QED BY <2>2, <3>1
    <2>5. CASE ~(k = n /\ q = p)
      <3>1. position'[k][q] = position[k][q] /\ owner[q] = k
        BY <2>1, <2>5 DEF AssignedPartitions
      <3> QED BY <2>2, <3>1
    <2> QED BY <2>3, <2>4, <2>5
  <1>10. CASE \E n \in Instances, p \in Partitions : RevokedPartitions(n, p)
    BY <1>10 DEF RevokedPartitions, Unassign
  <1>11. CASE \E n \in Instances, p \in Partitions : AssignmentLost(n, p)
    BY <1>11 DEF AssignmentLost, Unassign
  <1>12. CASE \E n \in Instances : GoroutineFails(n)
    BY <1>12 DEF GoroutineFails, Incident
  <1>13. CASE \E n \in Instances : Block(n)
    BY <1>13 DEF Block
  <1>14. CASE \E n \in Instances, p \in Partitions : Poll(n, p)
    <2>1. PICK n \in Instances, p \in Partitions : Poll(n, p)
      BY <1>14
    <2>2. CASE k = n /\ q = p
      <3>1. position'[k][q] = position[n][p] + 1 /\ held'[n] = held[n] \cup {<<p, position[n][p]>>}
        BY <2>1, <2>2 DEF Poll
      <3>2. position[n][p] \in Int /\ o \in Int /\ o < position[n][p] + 1
        BY <3>1, <2>2
      <3>3. o < position[n][p] \/ o = position[n][p]
        BY <3>2, BelowNext
      <3> QED BY <2>1, <2>2, <3>1, <3>3 DEF Poll
    <2>3. CASE ~(k = n /\ q = p)
      <3>1. position'[k][q] = position[k][q] /\ held[k] \subseteq held'[k]
        BY <2>1, <2>3 DEF Poll
      <3> QED BY <2>1, <3>1 DEF Poll
    <2> QED BY <2>2, <2>3
  <1> QED BY <1>1, <1>2, <1>3, <1>4, <1>5, <1>6, <1>7, <1>8, <1>9, <1>10, <1>11, <1>12, <1>13,
         <1>14 DEF Next

\* What NothingPassedOver says of one message.
Accounted(p, o) ==
    \/ <<p, o>> \in settled \cup crashed \cup abandoned \cup skipped
    \/ \E n \in Instances : <<p, o>> \in held[n]

\* What an owner commits is accounted for.
LEMMA CommitClaims ==
    ASSUME IInv, NEW n \in Instances, NEW p \in Partitions, NEW o \in Offsets,
           o < committed[p] \/ (owner[p] = n /\ stored[n][p] # None /\ o < stored[n][p])
    PROVE  Accounted(p, o)
  <1>1. CASE o < committed[p]
    BY <1>1 DEF IInv, NothingPassedOver, Accounted
  <1>2. CASE ~(o < committed[p])
    <2>1. committed[p] <= o /\ o < position[n][p] /\ owner[p] = n
      BY <1>2 DEF IInv, TypeOK, StoredIsPosition, Offsets, None
    <2> QED BY <2>1 DEF IInv, OwnerClaims, Accounted
  <1> QED BY <1>1, <1>2

\* The offset of the group moves only past what an owner claims, and a crash keeps account of
\* what it takes.
LEMMA NothingPassedOverStep == IInv /\ Next => NothingPassedOver'
  <1> SUFFICES ASSUME IInv, Next,
                      NEW q \in Partitions, NEW o \in Offsets, o < committed'[q]
               PROVE  \/ <<q, o>> \in settled' \cup crashed' \cup abandoned' \cup skipped'
                      \/ \E k \in Instances : <<q, o>> \in held'[k]
    BY DEF NothingPassedOver
  <1> USE GroupAssumption DEF IInv, TypeOK, Messages, Offsets, None, kafkaVars, instanceVars, history, OwnersRun, StoredIsPosition, OwnerAhead, OwnerClaims, NothingPassedOver
  <1>1. CASE \E p \in Partitions : Append(p)
    BY <1>1 DEF Append
  <1>2. CASE \E n \in Instances : AutoCommit(n)
    <2>1. PICK n \in Instances : AutoCommit(n)
      BY <1>2
    <2>2. \/ committed'[q] = committed[q]
          \/ owner[q] = n /\ stored[n][q] # None /\ committed'[q] = stored[n][q]
      BY <1>1, <2>1 DEF AutoCommit, CommitStored
    <2>3. Accounted(q, o)
      BY <2>2, CommitClaims
    <2> QED BY <2>1, <2>3 DEF AutoCommit, Accounted
  <1>3. CASE \E n \in Instances : Start(n)
    BY <1>3 DEF Start
  <1>4. CASE \E n \in Instances : Stop(n)
    <2>1. PICK n \in Instances : Stop(n)
      BY <1>4
    <2>2. \/ committed'[q] = committed[q]
          \/ owner[q] = n /\ stored[n][q] # None /\ committed'[q] = stored[n][q]
      BY <2>1 DEF Stop, Stopped, CommitStored
    <2>3. Accounted(q, o)
      BY <2>2, CommitClaims
    <2> QED BY <2>1, <2>3 DEF Stop, Accounted
  <1>5. CASE \E n \in Instances : Settle(n)
    BY <1>5 DEF Settle
  <1>6. CASE \E n \in Instances : Exit(n)
    <2>1. PICK n \in Instances : Exit(n)
      BY <1>6
    <2>2. Accounted(q, o)
      BY <2>1 DEF Exit, Accounted
    <2>3. CASE <<q, o>> \in held[n]
      BY <2>1, <2>3 DEF Exit, IsCommitted
    <2>4. CASE \E k \in Instances \ {n} : <<q, o>> \in held[k]
      BY <2>1, <2>4 DEF Exit
    <2>5. CASE <<q, o>> \in settled \cup crashed \cup abandoned \cup skipped
      BY <2>1, <2>5 DEF Exit
    <2> QED BY <2>2, <2>3, <2>4, <2>5 DEF Accounted
  <1>7. CASE \E n \in Instances : Crash(n)
    <2>1. PICK n \in Instances : Crash(n)
      BY <1>7
    <2>2. Accounted(q, o)
      BY <2>1 DEF Crash, Accounted
    <2>3. CASE <<q, o>> \in held[n]
      BY <2>1, <2>3 DEF Crash, IsCommitted
    <2>4. CASE \E k \in Instances \ {n} : <<q, o>> \in held[k]
      BY <2>1, <2>4 DEF Crash
    <2>5. CASE <<q, o>> \in settled \cup crashed \cup abandoned \cup skipped
      BY <2>1, <2>5 DEF Crash
    <2> QED BY <2>2, <2>3, <2>4, <2>5 DEF Accounted
  <1>8. CASE \E n \in Instances, p \in Partitions : LoseAssignment(n, p)
    BY <1>8 DEF LoseAssignment
  <1>9. CASE \E n \in Instances, p \in Partitions : AssignedPartitions(n, p)
    BY <1>9 DEF AssignedPartitions
  <1>10. CASE \E n \in Instances, p \in Partitions : RevokedPartitions(n, p)
    <2>1. PICK n \in Instances, p \in Partitions : RevokedPartitions(n, p)
      BY <1>10
    <2>2. \/ committed'[q] = committed[q]
          \/ owner[q] = n /\ stored[n][q] # None /\ committed'[q] = stored[n][q]
      BY <2>1 DEF RevokedPartitions
    <2>3. Accounted(q, o)
      BY <2>2, CommitClaims
    <2> QED BY <2>1, <2>3 DEF RevokedPartitions, Accounted
  <1>11. CASE \E n \in Instances, p \in Partitions : AssignmentLost(n, p)
    BY <1>11 DEF AssignmentLost, Unassign
  <1>12. CASE \E n \in Instances : GoroutineFails(n)
    BY <1>12 DEF GoroutineFails, Incident
  <1>13. CASE \E n \in Instances : Block(n)
    BY <1>13 DEF Block
  <1>14. CASE \E n \in Instances, p \in Partitions : Poll(n, p)
    BY <1>14 DEF Poll
  <1> QED BY <1>1, <1>2, <1>3, <1>4, <1>5, <1>6, <1>7, <1>8, <1>9, <1>10, <1>11, <1>12, <1>13,
         <1>14 DEF Next

\* A step that changes no variable.
LEMMA StutterIInv == IInv /\ UNCHANGED vars => IInv'
  BY DEF IInv, vars, kafkaVars, instanceVars, history, TypeOK, OwnersRun, StoredIsPosition,
         OwnerAhead, OwnerClaims, NothingPassedOver

\* The inductive invariant.
LEMMA InvariantHolds == Spec => []IInv
  <1>1. IInv /\ [Next]_vars => IInv'
    <2> SUFFICES ASSUME IInv, Next PROVE IInv'
      BY StutterIInv
    <2> QED
      BY TypeStep, OwnersRunStep, StoredStep, OwnerAheadStep, OwnerClaimsStep,
         NothingPassedOverStep DEF IInv
  <1> QED BY InitIInv, <1>1, PTL DEF Spec

\* The variables keep their types: no instance polls past the end of a partition.
THEOREM TypeCorrect == Spec => []TypeOK
  BY InvariantHolds, PTL DEF IInv

\* consumer.Close() commits before the pipeline is drained, and the background commits do so all
\* the time; yet only what a crashed instance held, what an instance with a failed goroutine
\* left behind, or what was there before the first commit, is ever passed over.
THEOREM NothingPassedOverTheorem == Spec => []NothingPassedOver
  BY InvariantHolds, PTL DEF IInv

\* An instance commits nothing for a partition it no longer owns, so the group does not consume
\* the whole backlog again.
THEOREM OffsetsNeverGoBackTheorem == Spec => OffsetsNeverGoBack
  <1>1. ASSUME IInv, Next, NEW q \in Partitions
        PROVE  committed[q] <= committed'[q]
    <2> USE DEF IInv, TypeOK, None, OwnersRun, StoredIsPosition, OwnerAhead
    <2>1. CASE \E n \in Instances : AutoCommit(n)
      BY <1>1, <2>1 DEF AutoCommit, CommitStored
    <2>2. CASE \E n \in Instances : Stop(n)
      BY <1>1, <2>2 DEF Stop, CommitStored
    <2>3. CASE \E n \in Instances, p \in Partitions : RevokedPartitions(n, p)
      BY <1>1, <2>3 DEF RevokedPartitions
    <2>4. CASE UNCHANGED committed
      BY <1>1, <2>4
    <2> QED
      BY <1>1, <2>1, <2>2, <2>3, <2>4
      DEF Next, Append, Start, Settle, GoroutineFails, Block, Exit, Crash, LoseAssignment, AssignedPartitions,
          AssignmentLost, Poll, kafkaVars
  <1>2. IInv /\ [Next]_vars => [\A p \in Partitions : committed[p] <= committed'[p]]_vars
    BY <1>1
  <1> QED BY InvariantHolds, <1>2, PTL DEF OffsetsNeverGoBack, Spec

-----------------------------------------------------------------------------
\* Where the next owner of a partition is going to start.
Frontier(p) ==
    IF owner[p] # Nobody /\ stored[owner[p]][p] # None THEN stored[owner[p]][p] ELSE committed[p]

\* In an undisturbed partition only the owner polls, ...
OnlyOwnerPolls ==
    \A n \in Instances, p \in Partitions \ disturbed : position[n][p] # None => owner[p] = n

\* ... and what was polled is behind the frontier.
BehindFrontier ==
    \A p \in Partitions \ disturbed, o \in Offsets :
      <<p, o>> \in settled \/ (\E n \in Instances : <<p, o>> \in held[n]) => o < Frontier(p)

OnceInv == IInv /\ OnlyOwnerPolls /\ BehindFrontier /\ ConsumedOnce

\* A stop and a revocation end the polling together with the ownership.
LEMMA OnlyOwnerPollsStep == OnceInv /\ Next => OnlyOwnerPolls'
  <1> SUFFICES ASSUME OnceInv, Next PROVE OnlyOwnerPolls'
    OBVIOUS
  <1> USE GroupAssumption DEF IInv, OnceInv, TypeOK, Messages, Offsets, None, kafkaVars, instanceVars, history, OnlyOwnerPolls, OwnersRun, StoredIsPosition
  <1>1. CASE \E p \in Partitions : Append(p)
    BY <1>1 DEF Append
  <1>2. CASE \E n \in Instances : AutoCommit(n)
    BY <1>2 DEF AutoCommit, CommitStored
  <1>3. CASE \E n \in Instances : Start(n)
    BY <1>3 DEF Start
  <1>4. CASE \E n \in Instances : Stop(n)
    BY <1>4 DEF Stop, Stopped, CommitStored, Leave, Unassign
  <1>5. CASE \E n \in Instances : Settle(n)
    BY <1>5 DEF Settle
  <1>6. CASE \E n \in Instances : Exit(n)
    BY <1>6 DEF Exit
  <1>7. CASE \E n \in Instances : Crash(n)
    BY <1>7 DEF Crash, Leave, Unassign
  <1>8. CASE \E n \in Instances, p \in Partitions : LoseAssignment(n, p)
    BY <1>8 DEF LoseAssignment
  <1>9. CASE \E n \in Instances, p \in Partitions : AssignedPartitions(n, p)
    BY <1>9 DEF AssignedPartitions
  <1>10. CASE \E n \in Instances, p \in Partitions : RevokedPartitions(n, p)
    BY <1>10 DEF RevokedPartitions, Unassign
  <1>11. CASE \E n \in Instances, p \in Partitions : AssignmentLost(n, p)
    BY <1>11 DEF AssignmentLost, Unassign
  <1>12. CASE \E n \in Instances : GoroutineFails(n)
    BY <1>12 DEF GoroutineFails, Incident
  <1>13. CASE \E n \in Instances : Block(n)
    BY <1>13 DEF Block
  <1>14. CASE \E n \in Instances, p \in Partitions : Poll(n, p)
    BY <1>14 DEF Poll
  <1> QED BY <1>1, <1>2, <1>3, <1>4, <1>5, <1>6, <1>7, <1>8, <1>9, <1>10, <1>11, <1>12, <1>13,
         <1>14 DEF Next

\* The offset handed over includes all that was polled.
LEMMA BehindFrontierStep == OnceInv /\ Next => BehindFrontier'
  <1> SUFFICES ASSUME OnceInv, Next, NEW q \in Partitions \ disturbed', NEW o \in Offsets,
                      <<q, o>> \in settled' \/ \E k \in Instances : <<q, o>> \in held'[k]
               PROVE  o < Frontier(q)'
    BY DEF BehindFrontier
  <1> USE GroupAssumption DEF IInv, OnceInv, TypeOK, Messages, Offsets, None, kafkaVars, instanceVars, history, OnlyOwnerPolls, OwnersRun, StoredIsPosition, OwnerAhead, Frontier, BehindFrontier
  <1>1. CASE \E p \in Partitions : Append(p)
    BY <1>1 DEF Append
  <1>2. CASE \E n \in Instances : AutoCommit(n)
    BY <1>2 DEF AutoCommit, CommitStored
  <1>3. CASE \E n \in Instances : Start(n)
    BY <1>3 DEF Start
  <1>4. CASE \E n \in Instances : Stop(n)
    BY <1>4 DEF Stop, Stopped, CommitStored, Leave, Unassign
  <1>5. CASE \E n \in Instances : Settle(n)
    BY <1>5 DEF Settle
  <1>6. CASE \E n \in Instances : Exit(n)
    BY <1>6 DEF Exit
  <1>7. CASE \E n \in Instances : Crash(n)
    BY <1>7 DEF Crash, Leave, Unassign
  <1>8. CASE \E n \in Instances, p \in Partitions : LoseAssignment(n, p)
    BY <1>8 DEF LoseAssignment
  <1>9. CASE \E n \in Instances, p \in Partitions : AssignedPartitions(n, p)
    BY <1>9 DEF AssignedPartitions
  <1>10. CASE \E n \in Instances, p \in Partitions : RevokedPartitions(n, p)
    BY <1>10 DEF RevokedPartitions, Unassign
  <1>11. CASE \E n \in Instances, p \in Partitions : AssignmentLost(n, p)
    BY <1>11 DEF AssignmentLost, Unassign
  <1>12. CASE \E n \in Instances : GoroutineFails(n)
    BY <1>12 DEF GoroutineFails, Incident
  <1>13. CASE \E n \in Instances : Block(n)
    BY <1>13 DEF Block
  <1>14. CASE \E n \in Instances, p \in Partitions : Poll(n, p)
    <2>1. PICK n \in Instances, p \in Partitions : Poll(n, p)
      BY <1>14
    <2>2. CASE q = p
      <3>1. owner[q] = n /\ owner'[q] = n /\ n # Nobody
        BY <2>1, <2>2 DEF Poll
      <3>2. Frontier(q)' = position[n][q] + 1 /\ Frontier(q) <= position[n][q]
        BY <2>1, <2>2, <3>1 DEF Poll
      <3>3. o < Frontier(q) \/ o = position[n][q]
        BY <2>1, <2>2 DEF Poll
      <3>4. o \in Int /\ position[n][q] \in Int /\ Frontier(q) \in Int
        BY <2>1, <3>1
      <3> QED BY <3>2, <3>3, <3>4, BelowSuccessor
    <2>3. CASE q # p
      <3>1. Frontier(q)' = Frontier(q)
        BY <2>1, <2>3 DEF Poll
      <3>2. o < Frontier(q)
        BY <2>1, <2>3 DEF Poll
      <3> QED BY <3>1, <3>2
    <2> QED BY <2>2, <2>3
  <1> QED BY <1>1, <1>2, <1>3, <1>4, <1>5, <1>6, <1>7, <1>8, <1>9, <1>10, <1>11, <1>12, <1>13,
         <1>14 DEF Next

\* What is polled is new.
LEMMA ConsumedOnceStep == OnceInv /\ Next => ConsumedOnce'
  <1> SUFFICES ASSUME OnceInv, Next,
                      NEW q \in Partitions \ disturbed', NEW o \in Offsets, NEW j \in Instances,
                      <<q, o>> \in held'[j]
               PROVE  <<q, o>> \notin settled' /\ \A k \in Instances \ {j} : <<q, o>> \notin held'[k]
    BY DEF ConsumedOnce
  <1> USE GroupAssumption DEF IInv, OnceInv, TypeOK, Messages, Offsets, None, kafkaVars, instanceVars, history, OnlyOwnerPolls, OwnersRun, StoredIsPosition, OwnerAhead, Frontier, BehindFrontier, ConsumedOnce
  <1>1. CASE \E p \in Partitions : Append(p)
    BY <1>1 DEF Append
  <1>2. CASE \E n \in Instances : AutoCommit(n)
    BY <1>2 DEF AutoCommit, CommitStored
  <1>3. CASE \E n \in Instances : Start(n)
    BY <1>3 DEF Start
  <1>4. CASE \E n \in Instances : Stop(n)
    BY <1>4 DEF Stop, Stopped, CommitStored, Leave, Unassign
  <1>5. CASE \E n \in Instances : Settle(n)
    <2>1. PICK n \in Instances : \E m \in held[n] :
            /\ settled' = settled \cup {m}
            /\ held' = [held EXCEPT ![n] = @ \ {m}]
            /\ UNCHANGED disturbed
      BY <1>5 DEF Settle
    <2>2. PICK m \in held[n] :
            /\ settled' = settled \cup {m}
            /\ held' = [held EXCEPT ![n] = @ \ {m}]
            /\ UNCHANGED disturbed
      BY <2>1
    <2>3. \A k \in Instances : held'[k] \subseteq held[k]
      BY <2>2
    <2>4. CASE m = <<q, o>>
      BY <2>2, <2>3, <2>4
    <2>5. CASE m # <<q, o>>
      BY <2>2, <2>3, <2>5
    <2> QED BY <2>4, <2>5
  <1>6. CASE \E n \in Instances : Exit(n)
    BY <1>6 DEF Exit
  <1>7. CASE \E n \in Instances : Crash(n)
    BY <1>7 DEF Crash, Leave, Unassign
  <1>8. CASE \E n \in Instances, p \in Partitions : LoseAssignment(n, p)
    BY <1>8 DEF LoseAssignment
  <1>9. CASE \E n \in Instances, p \in Partitions : AssignedPartitions(n, p)
    BY <1>9 DEF AssignedPartitions
  <1>10. CASE \E n \in Instances, p \in Partitions : RevokedPartitions(n, p)
    BY <1>10 DEF RevokedPartitions, Unassign
  <1>11. CASE \E n \in Instances, p \in Partitions : AssignmentLost(n, p)
    BY <1>11 DEF AssignmentLost, Unassign
  <1>12. CASE \E n \in Instances : GoroutineFails(n)
    BY <1>12 DEF GoroutineFails, Incident
  <1>13. CASE \E n \in Instances : Block(n)
    BY <1>13 DEF Block
  <1>14. CASE \E n \in Instances, p \in Partitions : Poll(n, p)
    <2>1. PICK n \in Instances, p \in Partitions : Poll(n, p)
      BY <1>14
    <2>2. CASE q = p /\ o = position[n][p]
      <3>1. owner[q] = n /\ n # Nobody
        BY <2>1, <2>2 DEF Poll
      <3>2. Frontier(q) <= o /\ Frontier(q) \in Int /\ o \in Int
        BY <2>1, <2>2, <3>1 DEF Poll
      <3>3. ~(o < Frontier(q))
        BY <3>2, NotBelow
      <3>4. <<q, o>> \notin settled /\ \A k \in Instances : <<q, o>> \notin held[k]
        BY <2>1, <3>3 DEF Poll
      <3> QED BY <2>1, <3>4 DEF Poll
    <2>3. CASE ~(q = p /\ o = position[n][p])
      <3>1. \A k \in Instances : <<q, o>> \in held'[k] <=> <<q, o>> \in held[k]
        BY <2>1, <2>3 DEF Poll
      <3> QED BY <2>1, <3>1 DEF Poll
    <2> QED BY <2>2, <2>3
  <1> QED BY <1>1, <1>2, <1>3, <1>4, <1>5, <1>6, <1>7, <1>8, <1>9, <1>10, <1>11, <1>12, <1>13,
         <1>14 DEF Next
\* A stop or a rebalance hands a partition over behind the last message polled, although the old
\* owner is still draining: only a crash or a lost assignment makes the group consume a message
\* twice.
THEOREM ConsumedOnceTheorem == Spec => []ConsumedOnce
  <1>1. Init => OnceInv
    <2> SUFFICES ASSUME Init PROVE OnceInv
      OBVIOUS
    <2> QED BY InitIInv DEF Init, OnceInv, OnlyOwnerPolls, BehindFrontier, ConsumedOnce
  <1>2. OnceInv /\ [Next]_vars => OnceInv'
    <2>1. ASSUME OnceInv, Next PROVE OnceInv'
      BY <2>1, TypeStep, OwnersRunStep, StoredStep, OwnerAheadStep, OwnerClaimsStep,
         NothingPassedOverStep, OnlyOwnerPollsStep, BehindFrontierStep, ConsumedOnceStep
      DEF OnceInv, IInv
    <2>2. ASSUME OnceInv, UNCHANGED vars PROVE OnceInv'
      BY <2>2, StutterIInv
      DEF OnceInv, OnlyOwnerPolls, BehindFrontier, ConsumedOnce, Frontier, vars, kafkaVars,
          instanceVars, history
    <2> QED BY <2>1, <2>2
  <1> QED BY <1>1, <1>2, PTL DEF Spec, OnceInv
=============================================================================
