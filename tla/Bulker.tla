------------------------------- MODULE Bulker -------------------------------
(***************************************************************************)
(* One indexer goroutine on the clock: the select loop of Indexer.Start    *)
(* with its ticker, and the bulker whose three limits decide when a batch  *)
(* goes to Elasticsearch.  What the batch contains is left out (see        *)
(* Pipeline); here a message is its length in bytes.                       *)
(*                                                                         *)
(* Time advances in units, by the action Elapse.  Clocks are kept as ages  *)
(* and countdowns: sinceFlush is time.Since(lastFlush), cut off above      *)
(* TimeLimit where its value no longer matters.  The goroutine spends at   *)
(* most Delay units at any point where it is not waiting for its select:   *)
(* in a call to Elasticsearch, in a blocked send to errorChan, or simply   *)
(* not scheduled.                                                          *)
(***************************************************************************)
EXTENDS Naturals

CONSTANTS
    TimeLimit,      \* flushInterval: the ticker's period and bulker.timeLimit
    MsgLimit,       \* maxBufferedMsgs
    BytesLimit,     \* maxBufferedBytes
    Sizes,          \* the lengths of the messages
    Delay

ASSUME BulkerAssumption ==
    /\ TimeLimit \in Nat \ {0}
    /\ MsgLimit \in Nat \ {0}
    /\ BytesLimit \in Nat
    /\ Sizes \subseteq Nat
    /\ Delay \in Nat

VARIABLES
    pc,             \* where the goroutine is
    next,           \* where flush returns to
    msg,            \* length of the message in hand
    bytes,          \* buffer.Len()
    count,          \* bulkedMsgCount
    sinceFlush,     \* time.Since(lastFlush)
    untilTick,      \* time until ticker.C is ready, 0 once it is
    oldest,         \* how long the first message of the batch has been buffered
    lag             \* time spent at pc

vars == <<pc, next, msg, bytes, count, sinceFlush, untilTick, oldest, lag>>

\* lastFlush is the zero time until the first flush, further back than any limit.
Init ==
    /\ pc = "select" /\ next = "select"
    /\ msg = 0 /\ bytes = 0 /\ count = 0
    /\ sinceFlush = TimeLimit + 1
    /\ untilTick = TimeLimit
    /\ oldest = 0 /\ lag = 0

Goto(p) == pc' = p /\ lag' = 0

\* bulker.flush, which continues at p.
CallFlush(p) == Goto("flush") /\ next' = p

\* Mutant of TimeLimitReached: off by one.
TimeLimitNeedsTwo == TimeLimit < sinceFlush /\ 1 < count

\* The first condition of bulk.
TimeLimitReached == TimeLimit < sinceFlush /\ 0 < count

\* case msg := <-consumerChan, up to the second condition of bulk.
Recv(m) ==
    /\ pc = "select"
    /\ msg' = m
    /\ IF TimeLimitReached THEN CallFlush("bytes") ELSE Goto("bytes") /\ UNCHANGED next
    /\ UNCHANGED <<bytes, count, sinceFlush, untilTick, oldest>>

\* consumerChan is closed.
RecvClosed ==
    /\ pc = "select"
    /\ CallFlush("stopped")
    /\ UNCHANGED <<msg, bytes, count, sinceFlush, untilTick, oldest>>

\* case <-ticker.C
Tick ==
    /\ pc = "select" /\ untilTick = 0
    /\ Goto("status")
    /\ UNCHANGED <<next, msg, bytes, count, sinceFlush, untilTick, oldest>>

\* CheckESStatus returns.  An error ends the goroutine, else bulk(nil) follows.
StatusChecked ==
    /\ pc = "status"
    /\ \/ Goto("stopped") /\ UNCHANGED next
       \/ IF TimeLimitReached THEN CallFlush("rearm") ELSE Goto("rearm") /\ UNCHANGED next
    /\ UNCHANGED <<msg, bytes, count, sinceFlush, untilTick, oldest>>

\* ticker.Reset at the end of the ticker's case.
Rearm ==
    /\ pc = "rearm"
    /\ untilTick' = TimeLimit
    /\ Goto("select")
    /\ UNCHANGED <<next, msg, bytes, count, sinceFlush, oldest>>

\* Mutant of BytesLimitReached: checked without the message at hand.
BufferOverLimit == BytesLimit < bytes

\* The second condition of bulk.
BytesLimitReached == BytesLimit < bytes + msg

CheckBytes ==
    /\ pc = "bytes"
    /\ IF BytesLimitReached THEN CallFlush("write") ELSE Goto("write") /\ UNCHANGED next
    /\ UNCHANGED <<msg, bytes, count, sinceFlush, untilTick, oldest>>

\* Mutant of MsgLimitReached: compared before the count is incremented.
CountAtLimit == MsgLimit = count

\* The third condition of bulk, on the incremented count.
MsgLimitReached == MsgLimit = count + 1

\* msg.WriteTo, whose error ends the goroutine, the count and the third condition.
Write ==
    /\ pc = "write"
    /\ \/ Goto("stopped") /\ UNCHANGED <<next, bytes, count>>
       \/ /\ bytes' = bytes + msg
          /\ count' = count + 1
          /\ IF MsgLimitReached
             THEN CallFlush("select") ELSE Goto("select") /\ UNCHANGED next
    /\ UNCHANGED <<msg, sinceFlush, untilTick, oldest>>

\* flushCb: the batch has been sent, its errors forwarded, and the ticker is reset.
FlushCb ==
    /\ pc = "flush"
    /\ bytes' = 0 /\ count' = 0 /\ oldest' = 0
    /\ untilTick' = TimeLimit
    /\ Goto("mark")
    /\ UNCHANGED <<next, msg, sinceFlush>>

\* The rest of flush reads the clock after the ticker was reset.
MarkFlush ==
    /\ pc = "mark"
    /\ sinceFlush' = 0
    /\ Goto(next)
    /\ UNCHANGED <<next, msg, bytes, count, untilTick, oldest>>

Idle == pc = "select" /\ 0 < untilTick

\* The bound of oldest; AgeBound says that it is never reached.
MaxAge == 2 * TimeLimit + 5 * Delay + 1

Older(age) == IF age < MaxAge THEN age + 1 ELSE age

Elapse ==
    /\ pc # "stopped"
    /\ IF Idle THEN UNCHANGED lag ELSE lag < Delay /\ lag' = lag + 1
    /\ sinceFlush' = IF sinceFlush <= TimeLimit THEN sinceFlush + 1 ELSE sinceFlush
    /\ untilTick' = IF 0 < untilTick THEN untilTick - 1 ELSE 0
    /\ oldest' = IF 0 < count THEN Older(oldest) ELSE 0
    /\ UNCHANGED <<pc, next, msg, bytes, count>>

\* What the goroutine does by itself; messages and the close come from outside.
Step == Tick \/ StatusChecked \/ Rearm \/ CheckBytes \/ Write \/ FlushCb \/ MarkFlush

Stopped == pc = "stopped" /\ UNCHANGED vars

Next ==
    \/ \E m \in Sizes : Recv(m)
    \/ RecvClosed
    \/ Step
    \/ Elapse
    \/ Stopped

Spec == Init /\ [][Next]_vars

\* The goroutine is scheduled, its calls return and time passes.
FairSpec == Spec /\ WF_vars(Step) /\ WF_vars(Elapse)

-----------------------------------------------------------------------------
TypeOK ==
    /\ pc \in {"select", "status", "rearm", "bytes", "write", "flush", "mark", "stopped"}
    /\ next \in {"select", "rearm", "bytes", "write", "stopped"}
    /\ msg \in Nat /\ bytes \in Nat
    /\ count \in 0 .. MsgLimit
    /\ sinceFlush \in 0 .. TimeLimit + 1
    /\ untilTick \in 0 .. TimeLimit
    /\ oldest \in Nat
    /\ lag \in 0 .. Delay

\* A batch is no larger than the configured bytes, except that a message longer
\* than the limit travels alone; and outside of a flush there is always room for
\* one more message, so that the count cannot step over its "==" limit.
BatchBounds ==
    /\ BytesLimit < bytes => count = 1
    /\ pc \notin {"flush", "stopped"} => count < MsgLimit

\* A message is handed to Elasticsearch at most two intervals, and five delays,
\* after it was buffered.  Two, not one: flushBuffer resets the ticker before flush reads the
\* clock, so a tick may just miss the time limit and the next one is a whole interval away.
AgeBound == oldest <= 2 * TimeLimit + 5 * Delay

\* A batch is flushed even if no further message arrives, unless the goroutine
\* ends with an error.
BatchIsFlushed == 0 < count ~> count = 0 \/ pc = "stopped"
=============================================================================
