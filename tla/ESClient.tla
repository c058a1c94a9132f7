------------------------------ MODULE ESClient ------------------------------
(***************************************************************************)
(* The Elasticsearch client that all indexers and the SIGHUP handler       *)
(* share: bulk calls with their retries, CheckESStatus, the reload of the  *)
(* connection pool, and the collector of the client's metrics.             *)
(* Connections differ only in being live or dead, so the pool is two       *)
(* numbers.  The metrics of the client are enabled (WithESClientMetrics),  *)
(* hence reading them does not fail.                                       *)
(***************************************************************************)
EXTENDS Integers, FiniteSets

CONSTANTS
    Indexers,
    Clusters,           \* numbers of nodes that a discovery may find
    MaxDeadPercentage,  \* ElasticClientMaxDeadPercentage
    MaxRetries          \* ElasticClientMaxRetries

\* The largest pool for which Scales, below, has enough powers of two.
MaxPool == 65536

ASSUME ClientAssumption ==
    /\ IsFiniteSet(Indexers)
    /\ Clusters \subseteq 0 .. MaxPool
    /\ MaxDeadPercentage \in Nat
    /\ MaxRetries \in Nat

\* Who calls CheckESStatus.
Checkers == Indexers \cup {"reload"}

VARIABLES
    live, dead,     \* connections of the pool
    pc,             \* of each checker
    ticks,          \* indexers whose ticker has fired
    attempt,        \* of the bulk call that an indexer is making, from 0 on
    applied,        \* how often Elasticsearch has carried out this call
    registered,     \* the collector: what it described, and whether the pool was empty
    wasted          \* reloads since the pool was last at the threshold

calls == <<attempt, applied>>
vars == <<live, dead, pc, ticks, calls, registered, wasted>>

total == live + dead

-----------------------------------------------------------------------------
(* The percentage of CheckESStatus, in float32: 24 significant bits, each  *)
(* operation rounded to the nearest value, a tie to the even one.          *)

\* Whether a quotient q with remainder r of a division by d is rounded up.
RoundsUp(q, r, d) == 2 * r > d \/ (2 * r = d /\ q % 2 = 1)

Rounded(q, r, d) == IF RoundsUp(q, r, d) THEN q + 1 ELSE q

\* By which power of two a quotient n / d is scaled up to lie between 1 and 2.
Scales == {1, 2, 4, 8, 16, 32, 64, 128, 256, 512, 1024, 2048, 4096, 8192, 16384, 32768, 65536}

\* float32(n) / float32(d) for 0 < n <= d, as mant / scale.
Quotient(n, d) ==
    LET s == CHOOSE s \in Scales : d <= n * s /\ n * s < 2 * d
        scaled == n * s * 2^23
    IN  [mant |-> Rounded(scaled \div d, scaled % d, d), scale |-> s * 2^23]

\* x * 100 for such an x, truncated to an integer.
TimesHundred(x) ==
    LET p == x.mant * 100
        unit == IF p < 2^30 THEN 2^6 ELSE 2^7
    IN  (Rounded(p \div unit, p % unit, unit) * unit) \div x.scale

\* What the conversion of NaN to int yields: the least integer on some processors (any
\* negative number will do), zero on others.
NaN == {-1, 0}

\* Mutant of DeadPercentage: the conversion to int comes before the multiplication.
TruncatedTooEarly(n, d) == IF d = 0 THEN NaN ELSE {(n \div d) * 100}

\* int(float32(deadConnections) / float32(totalConnections) * 100)
DeadPercentage(n, d) ==
    IF d = 0 THEN NaN ELSE IF n = 0 THEN {0} ELSE {TimesHundred(Quotient(n, d))}

-----------------------------------------------------------------------------
\* NewIndexer's client knows the one address it was given.
Init ==
    /\ live = 1 /\ dead = 0
    /\ pc = [c \in Checkers |-> "new"] /\ ticks = {}
    /\ attempt = [i \in Indexers |-> 0] /\ applied = [i \in Indexers |-> 0]
    /\ registered = [descs |-> {}, empty |-> TRUE]
    /\ wasted = 0

Goto(c, p) == pc' = [pc EXCEPT ![c] = p]

\* What the dead connections are compared with, as exact numbers.
AtThreshold == total > 0 /\ 100 * dead >= MaxDeadPercentage * total
TooManyDead == total > 0 /\ 100 * dead > MaxDeadPercentage * total

ClientDescs == {"requests", "failures", "responses", "total", "dead"}

\* Mutant of Describe: the metric of the single connections is left out.
DescribeClient == ClientDescs

\* ESCollector.Describe sends the metric of a connection once for each connection.
Describe ==
    ClientDescs \cup (IF total > 0 THEN {"connection_failures"} ELSE {})

\* The metrics that ESCollector.Collect may send.
Collect ==
    ClientDescs \cup (IF total > 0 THEN {"connection_failures"} ELSE {})

\* NewIndexer registers the collector; the goroutines are started later.
Register ==
    /\ \A c \in Checkers : pc[c] = "new"
    /\ registered' = [descs |-> Describe, empty |-> total = 0]
    /\ pc' = [c \in Checkers |-> "idle"]
    /\ UNCHANGED <<live, dead, ticks, calls>>

-----------------------------------------------------------------------------
(* The client library.                                                     *)

\* The pool is replaced by the nodes that the cluster names, all taken to be alive.
\* Nodes that are only masters do not count, so there may be none.
NewPool == live' \in Clusters /\ dead' = 0

\* DiscoverNodesOnStart and DiscoverNodesInterval: an error changes nothing.
BackgroundDiscovery == NewPool /\ UNCHANGED <<pc, ticks, calls, registered>>

\* The timer of a dead connection puts it back.
Resurrect ==
    /\ dead > 0
    /\ dead' = dead - 1 /\ live' = live + 1
    /\ UNCHANGED <<pc, ticks, calls, registered>>

-----------------------------------------------------------------------------
(* Indexer.sendToES: client.Bulk                                           *)

\* A tick that was not received is lost: nobody looks at it during the call, and flushBuffer
\* resets the ticker after it.
BulkCall(i) ==
    /\ pc[i] = "idle"
    /\ Goto(i, "bulk")
    /\ attempt' = [attempt EXCEPT ![i] = 0]
    /\ applied' = [applied EXCEPT ![i] = 0]
    /\ ticks' = ticks \ {i}
    /\ UNCHANGED <<live, dead, registered>>

\* Mutant of Retry: the attempts are not counted.
RetryForever(i) == UNCHANGED <<attempt, pc>>

\* Mutant of Retry: the first attempt is not counted as one.
RetryOnceMore(i) ==
    IF attempt[i] <= MaxRetries
    THEN attempt' = [attempt EXCEPT ![i] = @ + 1] /\ UNCHANGED pc
    ELSE Goto(i, "idle") /\ UNCHANGED attempt

\* RetryBackoffFunc, up to MaxRetries times; then Bulk returns what it got last.
Retry(i) ==
    IF attempt[i] < MaxRetries
    THEN attempt' = [attempt EXCEPT ![i] = @ + 1] /\ UNCHANGED pc
    ELSE Goto(i, "idle") /\ UNCHANGED attempt

\* Elasticsearch carries out the request, and does so again when it is repeated.
Apply(i) == applied' = [applied EXCEPT ![i] = @ + 1]

\* The answer arrives; a connection that was dead is alive again.
Answered(i) ==
    /\ Apply(i)
    /\ \/ live > 0 /\ UNCHANGED <<live, dead>>
       \/ dead > 0 /\ live' = live + 1 /\ dead' = dead - 1
    /\ Goto(i, "idle")
    /\ UNCHANGED attempt

\* The connection breaks, or a status of RetryStatuses comes back, before or after
\* Elasticsearch has carried out the request.  A broken connection is dead.
Unanswered(i) ==
    /\ total > 0
    /\ Apply(i) \/ UNCHANGED applied
    /\ \/ live > 0 /\ live' = live - 1 /\ dead' = dead + 1
       \/ UNCHANGED <<live, dead>>
    /\ Retry(i)

\* Another error of the server, or a pool without connections: no retry.
Refused(i) ==
    /\ Goto(i, "idle")
    /\ UNCHANGED <<live, dead, calls>>

Attempt(i) ==
    /\ pc[i] = "bulk"
    /\ Answered(i) \/ Unanswered(i) \/ Refused(i)
    /\ UNCHANGED <<ticks, registered>>

-----------------------------------------------------------------------------
(* Indexer.CheckESStatus                                                   *)

\* The ticker fires once an interval has passed since it was last reset.  A tick during a bulk
\* call or a reload is left out, for the reset that follows discards it.
TickerFires(i) ==
    /\ pc[i] = "idle" /\ i \notin ticks
    /\ ticks' = ticks \cup {i}
    /\ UNCHANGED <<live, dead, pc, calls, registered>>

\* case <-ticker.C of an indexer, or case <-reloadChan: the metrics are read and the percentage
\* compared, on a copy of the numbers.
CheckESStatus(c) ==
    /\ pc[c] = "idle" /\ (c \in Indexers => c \in ticks)
    /\ ticks' = ticks \ {c}
    /\ \E p \in DeadPercentage(dead, total) :
         Goto(c, IF p < MaxDeadPercentage THEN "idle" ELSE "reload")
    /\ UNCHANGED <<live, dead, calls, registered>>

\* Mutant of Reloaded: the reload is repeated.
ReloadAgain == "reload"

\* return nil
Reloaded == "idle"

\* i.client.DiscoverNodes(), whose error ends the goroutine.
DiscoverNodes(c) ==
    /\ pc[c] = "reload"
    /\ \/ NewPool /\ Goto(c, Reloaded)
       \/ Goto(c, "failed") /\ UNCHANGED <<live, dead>>
    /\ UNCHANGED <<ticks, calls, registered>>

-----------------------------------------------------------------------------
\* After an error the program stops.
Failed == \E c \in Checkers : pc[c] = "failed"

\* wasted counts the reloads that find the pool below the threshold.
Other == ~Failed /\ wasted' = IF AtThreshold' THEN 0 ELSE wasted
Reload == ~Failed /\ wasted' = IF AtThreshold THEN 0 ELSE wasted + 1

Next ==
    \/ Register /\ Other
    \/ BackgroundDiscovery /\ Other
    \/ Resurrect /\ Other
    \/ \E i \in Indexers : BulkCall(i) /\ Other
    \/ \E i \in Indexers : Attempt(i) /\ Other
    \/ \E i \in Indexers : TickerFires(i) /\ Other
    \/ \E c \in Checkers : CheckESStatus(c) /\ Other
    \/ \E c \in Checkers : DiscoverNodes(c) /\ Reload
    \/ Failed /\ UNCHANGED vars

Spec == Init /\ [][Next]_vars

\* Every attempt of a bulk call ends (answer or timeout), a discovery too, and the ticker of an
\* indexer that makes no call fires.  A call keeps it from firing, and may always come first.
\* Strong fairness for a tick that has fired: select picks at random between it and a message.
Fairness ==
    \A i \in Indexers :
      /\ WF_vars(Attempt(i) /\ Other)
      /\ WF_vars(DiscoverNodes(i) /\ Reload)
      /\ WF_vars(TickerFires(i) /\ Other)
      /\ SF_vars(CheckESStatus(i) /\ Other)

FairSpec == Spec /\ Fairness

-----------------------------------------------------------------------------
TypeOK ==
    /\ live \in Nat /\ dead \in Nat /\ wasted \in Nat
    /\ pc \in [Checkers -> {"new", "idle", "bulk", "reload", "failed"}]
    /\ ticks \subseteq Indexers
    /\ attempt \in [Indexers -> 0 .. MaxRetries]
    /\ applied \in [Indexers -> Nat]
    /\ registered \in [descs : SUBSET (ClientDescs \cup {"connection_failures"}), empty : BOOLEAN]

\* The truncated float32 percentage is never above the exact one and at most 1 below it: for
\* every maximum CheckESStatus decides as exact numbers would, unless the dead connections are
\* exactly at it (59 of 100 yield 58).  Without any connection there is no reload, whatever the
\* processor makes of NaN, for a maximum above 0.
ThresholdExact ==
    \A p \in DeadPercentage(dead, total) :
      IF total = 0 THEN p <= 0
      ELSE p * total <= 100 * dead /\ 100 * dead <= (p + 1) * total

\* The indexers and the SIGHUP handler decide on copies of the metrics, without a lock: when
\* the pool is in order again, each of them carries out at most the one reload it had decided
\* on before.
NoReloadStorm ==
    wasted + Cardinality({c \in Checkers : pc[c] = "reload"}) <= Cardinality(Checkers)

\* Elasticsearch carries out a bulk call once for each attempt at most: sessions are indexed
\* more than once only by a call that RetryBackoffFunc repeated, so at most MaxRetries + 1 times.
DuplicatesBounded ==
    \A i \in Indexers : applied[i] <= attempt[i] + 1

\* The pedantic registry refuses to collect what was not described.  Describe depends on the
\* pool at start: unless that was empty, every later scrape succeeds, whatever nodes are
\* discovered.
ScrapesSucceed == ~registered.empty => Collect \subseteq registered.descs

\* Under steady load the flushes of an indexer come so close together that its ticker never
\* fires, and it never checks the pool.
Busy(i) == []<>(pc[i] = "bulk") /\ <>[](i \notin ticks)

\* A pool with too many dead connections does not stay so: they come back, an indexer reloads
\* the client, or the failed reload stops the program, unless all indexers are busy for ever.
DeadPoolHandled ==
    (\A i \in Indexers : Busy(i)) \/ (TooManyDead ~> (~TooManyDead \/ Failed))
=============================================================================
