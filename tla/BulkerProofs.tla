---------------------------- MODULE BulkerProofs ----------------------------
(***************************************************************************)
(* The limits of the bulker hold for every interval, message limit, byte   *)
(* limit, set of message lengths and delay.                                *)
(***************************************************************************)
EXTENDS Bulker, TLAPS

\* What makes the batch limits inductive: the message in hand is written only into
\* a buffer that has room for it or is empty, and nothing is buffered between the
\* two halves of a flush.
WriteFits ==
    /\ pc = "write" => bytes + msg <= BytesLimit \/ (bytes = 0 /\ count = 0)
    /\ pc = "mark" => count = 0 /\ bytes = 0
    /\ count = 0 => bytes = 0

BatchInv == TypeOK /\ BatchBounds /\ WriteFits

\* Type correctness and the batch limits are one induction: the type of count is
\* its limit.
LEMMA BatchInvInit == Init => BatchInv
  BY BulkerAssumption DEF Init, BatchInv, TypeOK, BatchBounds, WriteFits

LEMMA BatchInvStep == BatchInv /\ [Next]_vars => BatchInv'
<1> SUFFICES ASSUME BatchInv, [Next]_vars PROVE BatchInv'
  OBVIOUS
<1> USE BulkerAssumption DEF BatchInv, TypeOK, BatchBounds, WriteFits, Goto, CallFlush
<1>1. ASSUME NEW m \in Sizes, Recv(m) PROVE BatchInv'
  BY <1>1 DEF Recv
<1>2. CASE RecvClosed
  BY <1>2 DEF RecvClosed
<1>3. CASE Tick
  BY <1>3 DEF Tick
<1>4. CASE StatusChecked
  BY <1>4 DEF StatusChecked
<1>5. CASE Rearm
  BY <1>5 DEF Rearm
<1>6. CASE CheckBytes
  BY <1>6 DEF CheckBytes, BytesLimitReached
<1>7. CASE Write
  BY <1>7 DEF Write, MsgLimitReached
<1>8. CASE FlushCb
  BY <1>8 DEF FlushCb
<1>9. CASE MarkFlush
  BY <1>9 DEF MarkFlush
<1>10. CASE Elapse
  BY <1>10 DEF Elapse, Older, MaxAge
<1>11. CASE UNCHANGED vars
  BY <1>11 DEF vars
<1> QED
  BY <1>1, <1>2, <1>3, <1>4, <1>5, <1>6, <1>7, <1>8, <1>9, <1>10, <1>11
     DEF Next, Step, Stopped

\* Every variable keeps its type; in particular the count never passes its limit and
\* no step takes longer than Delay.
THEOREM TypeCorrect == Spec => []TypeOK
  BY BatchInvInit, BatchInvStep, PTL DEF Spec, BatchInv

\* Batches respect the byte and the message limit, whatever the messages' lengths.
THEOREM BatchLimits == Spec => []BatchBounds
  BY BatchInvInit, BatchInvStep, PTL DEF Spec, BatchInv

-----------------------------------------------------------------------------
\* How old the batch can be at each point.  Buffered after the last flush, it is no
\* older than that flush, so any check of the time limit finds it at most TimeLimit
\* old or flushes it; after a check that did not, the next one is at most one
\* interval of the ticker away.
AgeInv ==
    /\ sinceFlush <= TimeLimit => oldest <= sinceFlush
    /\ count = 0 => oldest = 0
    /\ pc = "select" => IF 0 < untilTick
                        THEN lag = 0 /\ oldest + untilTick <= 2 * TimeLimit + Delay
                        ELSE oldest <= 2 * TimeLimit + 2 * Delay + lag
    /\ pc = "status" => oldest <= 2 * TimeLimit + 3 * Delay + lag
    /\ pc = "rearm" => oldest <= TimeLimit + lag
    /\ pc = "bytes" => oldest <= TimeLimit + lag
    /\ pc = "write" => oldest <= TimeLimit + Delay + lag
    /\ pc \in {"bytes", "write"} /\ 0 < untilTick => oldest + untilTick <= 2 * TimeLimit
    /\ pc = "flush" => oldest <= 2 * TimeLimit + 4 * Delay + lag
    /\ pc = "mark" => count = 0
    /\ AgeBound

LEMMA AgeInvInit == Init => AgeInv
  BY BulkerAssumption DEF Init, AgeInv, AgeBound

LEMMA AgeInvStep == TypeOK /\ AgeInv /\ [Next]_vars => AgeInv'
<1> SUFFICES ASSUME TypeOK, AgeInv, [Next]_vars PROVE AgeInv'
  OBVIOUS
<1> USE BulkerAssumption DEF TypeOK, AgeInv, AgeBound, Goto, CallFlush
<1>1. ASSUME NEW m \in Sizes, Recv(m) PROVE AgeInv'
  BY <1>1 DEF Recv, TimeLimitReached
<1>2. CASE RecvClosed
  BY <1>2 DEF RecvClosed
<1>3. CASE Tick
  BY <1>3 DEF Tick
<1>4. CASE StatusChecked
  BY <1>4 DEF StatusChecked, TimeLimitReached
<1>5. CASE Rearm
  BY <1>5 DEF Rearm
<1>6. CASE CheckBytes
  BY <1>6 DEF CheckBytes, BytesLimitReached
<1>7. CASE Write
  BY <1>7 DEF Write, MsgLimitReached
<1>8. CASE FlushCb
  BY <1>8 DEF FlushCb
<1>9. CASE MarkFlush
  BY <1>9 DEF MarkFlush
<1>10. CASE Elapse
  BY <1>10 DEF Elapse, Idle, Older, MaxAge
<1>11. CASE UNCHANGED vars
  BY <1>11 DEF vars
<1> QED
  BY <1>1, <1>2, <1>3, <1>4, <1>5, <1>6, <1>7, <1>8, <1>9, <1>10, <1>11
     DEF Next, Step, Stopped

\* A message waits at most two intervals and five delays in the buffer, for every
\* interval and every delay, even one longer than the interval.
THEOREM BoundedAge == Spec => []AgeBound
<1>1. AgeInv => AgeBound
  BY DEF AgeInv
<1> QED
  BY <1>1, AgeInvInit, AgeInvStep, TypeCorrect, PTL DEF Spec
=============================================================================
