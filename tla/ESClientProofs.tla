--------------------------- MODULE ESClientProofs ---------------------------
(***************************************************************************)
(* The shared Elasticsearch client, for any number of indexers and any     *)
(* cluster.  First the float32 arithmetic of CheckESStatus, then the       *)
(* invariants that rest on it.                                             *)
(***************************************************************************)
EXTENDS ESClient, FiniteSetTheorems, TLAPS

-----------------------------------------------------------------------------
(* The percentage.  Two operations are rounded, each by at most half of    *)
(* its unit.                                                               *)

\* Rounding to the nearest integer is off by at most half of the divisor.
LEMMA RoundedFacts ==
  ASSUME NEW a \in Nat, NEW d \in Nat \ {0}
  PROVE  LET m == Rounded(a \div d, a % d, d)
         IN  /\ m \in Nat
             /\ 2 * (m * d) <= 2 * a + d
             /\ 2 * a <= 2 * (m * d) + d
<1> DEFINE q == a \div d
           r == a % d
<1>1. q \in Nat /\ r \in Nat /\ r < d /\ a = (q * d) + r
  OBVIOUS
<1> HIDE DEF q, r
<1>2. CASE RoundsUp(q, r, d)
  <2>1. Rounded(q, r, d) = q + 1 /\ 2 * r >= d
    BY <1>1, <1>2 DEF Rounded, RoundsUp
  <2>2. (q + 1) * d = (q * d) + d
    BY <1>1
  <2> QED
    BY <1>1, <2>1, <2>2 DEF q, r
<1>3. CASE ~RoundsUp(q, r, d)
  <2>1. Rounded(q, r, d) = q /\ 2 * r <= d
    BY <1>1, <1>3 DEF Rounded, RoundsUp
  <2> QED
    BY <1>1, <2>1 DEF q, r
<1> QED
  BY <1>2, <1>3

\* Some scale brings the quotient between 1 and 2.
LEMMA ScaleExists ==
  ASSUME NEW n \in Nat \ {0}, NEW d \in Nat, n <= d, d <= MaxPool
  PROVE  \E s \in Scales : d <= n * s /\ n * s < 2 * d
  BY SMT DEF Scales, MaxPool

\* float32(n) / float32(d) is off by at most half a unit of the last of 24 bits.
LEMMA QuotientFacts ==
  ASSUME NEW n \in Nat \ {0}, NEW d \in Nat, n <= d, d <= MaxPool
  PROVE  LET x == Quotient(n, d)
         IN  /\ x.mant \in Nat /\ x.scale \in Nat /\ 114 * d < x.scale
             /\ 2 * (x.mant * d) <= 2 * (n * x.scale) + d
             /\ 2 * (n * x.scale) <= 2 * (x.mant * d) + d
<1> DEFINE s == CHOOSE s \in Scales : d <= n * s /\ n * s < 2 * d
           scale == s * 2^23
           mant == Rounded((n * s * 2^23) \div d, (n * s * 2^23) % d, d)
<1>1. s \in Scales
  BY ScaleExists, Zenon
<1>2. s \in Nat /\ 1 <= s
  <2> HIDE DEF s
  <2> QED
    BY <1>1, SMT DEF Scales
<1>3. Quotient(n, d) = [mant |-> mant, scale |-> scale]
  BY DEF Quotient
<1> HIDE DEF s
<1>4. scale \in Nat /\ 8388608 <= scale /\ n * s * 2^23 = n * scale
  BY <1>2, SMT
<1>5. 114 * d < scale
  BY <1>4, SMT DEF MaxPool
<1>6. n * scale \in Nat
  <2> HIDE DEF scale
  <2> QED
    BY <1>4, SMT
<1>7. mant = Rounded((n * scale) \div d, (n * scale) % d, d)
  BY <1>4
<1> HIDE DEF scale, mant
<1>8. /\ mant \in Nat
      /\ 2 * (mant * d) <= 2 * (n * scale) + d
      /\ 2 * (n * scale) <= 2 * (mant * d) + d
  <2>1. d \in Nat \ {0}
    OBVIOUS
  <2> QED
    BY <1>6, <1>7, <2>1, RoundedFacts, Zenon
<1> QED
  BY <1>3, <1>4, <1>5, <1>8

\* Multiplying by 100 rounds again, at most by 64, and then truncates.
LEMMA TimesHundredFacts ==
  ASSUME NEW x, x.mant \in Nat, x.scale \in Nat \ {0}
  PROVE  /\ TimesHundred(x) \in Nat
         /\ TimesHundred(x) * x.scale <= 100 * x.mant + 64
         /\ 100 * x.mant < TimesHundred(x) * x.scale + x.scale + 64
<1> DEFINE p == x.mant * 100
           unit == IF p < 2^30 THEN 2^6 ELSE 2^7
           m == Rounded(p \div unit, p % unit, unit)
           t == (m * unit) \div x.scale
<1>1. TimesHundred(x) = t
  BY DEF TimesHundred
<1>2. p \in Nat /\ p = 100 * x.mant
  BY SMT
<1>3. unit \in Nat \ {0} /\ unit <= 128
  BY SMT
<1> HIDE DEF p, unit
<1>4. m \in Nat /\ 2 * (m * unit) <= 2 * p + unit /\ 2 * p <= 2 * (m * unit) + unit
  BY <1>2, <1>3, RoundedFacts, ZenonT(40)
<1>5. m * unit \in Nat /\ m * unit <= p + 64 /\ p <= m * unit + 64
  <2>1. m * unit \in Nat
    BY <1>3, <1>4
  <2> QED
    BY <1>2, <1>3, <1>4, <2>1
<1> DEFINE b == m * unit
<1> HIDE DEF m, b
<1>6. t = b \div x.scale /\ b \in Nat /\ b <= p + 64 /\ p <= b + 64
  BY <1>5 DEF b
<1> HIDE DEF t
<1>7. t \in Nat /\ t * x.scale <= b /\ b < t * x.scale + x.scale
  BY <1>6
<1>8. t * x.scale \in Nat
  BY <1>7
<1> QED
  BY <1>1, <1>2, <1>6, <1>7, <1>8

\* CheckESStatus: the percentage p of n dead connections of d satisfies
\* p <= 100 n / d <= p + 1.  Both roundings together are worth less than one part of the
\* scale, because 50 d + 64 d is less than the scale.
LEMMA PercentageExact ==
  ASSUME NEW n \in Nat, NEW d \in Nat \ {0}, n <= d, d <= MaxPool, NEW p \in DeadPercentage(n, d)
  PROVE  p \in Nat /\ p * d <= 100 * n /\ 100 * n <= (p + 1) * d
<1>1. CASE n = 0
  BY <1>1 DEF DeadPercentage
<1>2. CASE n # 0
  <2> DEFINE x == Quotient(n, d)
             S == x.scale
             M == x.mant
  <2>1. p = TimesHundred(x)
    BY <1>2 DEF DeadPercentage
  <2>2. /\ M \in Nat /\ S \in Nat /\ 114 * d < S
        /\ 2 * (M * d) <= 2 * (n * S) + d
        /\ 2 * (n * S) <= 2 * (M * d) + d
    <3>1. n \in Nat \ {0} /\ d \in Nat
      BY <1>2
    <3> QED
      BY <3>1, QuotientFacts, Zenon
  <2>3. p \in Nat /\ p * S <= 100 * M + 64 /\ 100 * M < p * S + S + 64
    <3>1. S \in Nat \ {0}
      BY <2>2
    <3> HIDE DEF x
    <3> QED
      BY <2>1, <2>2, <3>1, TimesHundredFacts, Zenon
  <2> HIDE DEF S, M
  <2> DEFINE Md == M * d
             nS == n * S
             pd == p * d
  <2>4. Md \in Nat /\ nS \in Nat /\ pd \in Nat
    BY <2>2, <2>3
  <2>5. pd * S <= 100 * Md + 64 * d
    <3>1. (p * S) * d <= (100 * M + 64) * d
      BY <2>2, <2>3
    <3>2. (p * S) * d = pd * S /\ (100 * M + 64) * d = 100 * Md + 64 * d
      BY <2>2, <2>3
    <3> QED
      BY <3>1, <3>2
  <2>6. 100 * Md <= (pd + d) * S + 64 * d
    <3>1. (100 * M) * d <= (p * S + S + 64) * d
      BY <2>2, <2>3
    <3>2. (p * S + S + 64) * d = (pd + d) * S + 64 * d /\ (100 * M) * d = 100 * Md
      BY <2>2, <2>3
    <3> QED
      BY <3>1, <3>2
  <2>7. pd <= 100 * n
    <3> SUFFICES ASSUME 100 * n + 1 <= pd PROVE FALSE
      BY <2>4
    <3>1. (100 * n + 1) * S <= pd * S
      BY <2>2, <2>4
    <3>2. (100 * n + 1) * S = 100 * nS + S
      BY <2>2
    <3> HIDE DEF Md, nS, pd
    <3> QED
      BY <2>2, <2>4, <2>5, <3>1, <3>2 DEF Md, nS
  <2>8. 100 * n <= pd + d
    <3> SUFFICES ASSUME pd + d + 1 <= 100 * n PROVE FALSE
      BY <2>4
    <3>1. (pd + d + 1) * S <= (100 * n) * S
      BY <2>2, <2>4
    <3>2. (pd + d + 1) * S = (pd + d) * S + S /\ (100 * n) * S = 100 * nS
      BY <2>2, <2>4
    <3> QED
      BY <2>2, <2>4, <2>6, <3>1, <3>2
  <2> QED
    BY <2>3, <2>7, <2>8
<1> QED
  BY <1>1, <1>2

-----------------------------------------------------------------------------
(* Type, retries and scrapes.                                              *)

\* The pool is never larger than the largest cluster.
PoolBounded == total <= MaxPool

\* Before an attempt, Elasticsearch has carried out the call at most once for each attempt
\* that has failed.
AppliedBeforeAttempt == \A i \in Indexers : pc[i] = "bulk" => applied[i] <= attempt[i]

\* A collector that was registered with connections has described everything.
DescribedAll == ~registered.empty => registered.descs = ClientDescs \cup {"connection_failures"}

IInv == TypeOK /\ PoolBounded /\ AppliedBeforeAttempt /\ DuplicatesBounded /\ DescribedAll

LEMMA IInvInit == Init => IInv
<1> SUFFICES ASSUME Init PROVE IInv
  OBVIOUS
<1>1. TypeOK
  BY ClientAssumption DEF Init, TypeOK
<1>2. PoolBounded
  BY SMT DEF Init, PoolBounded, total, MaxPool
<1> QED
  BY <1>1, <1>2 DEF Init, IInv, AppliedBeforeAttempt, DuplicatesBounded, DescribedAll

\* A discovery yields a pool within the bound.
LEMMA NewPoolBounded == NewPool => live' \in Nat /\ dead' \in Nat /\ PoolBounded'
  BY ClientAssumption DEF NewPool, PoolBounded, total

LEMMA IInvStep == IInv /\ [Next]_vars => IInv'
<1> SUFFICES ASSUME IInv, [Next]_vars PROVE IInv'
  OBVIOUS
<1> DEFINE Calls == attempt \in [Indexers -> 0 .. MaxRetries] /\ applied \in [Indexers -> Nat]
                    /\ AppliedBeforeAttempt /\ DuplicatesBounded
           Pool == live \in Nat /\ dead \in Nat /\ PoolBounded
           Pcs == pc \in [Checkers -> {"new", "idle", "bulk", "reload", "failed"}]
           Registered == registered \in [descs : SUBSET (ClientDescs \cup {"connection_failures"}),
                                         empty : BOOLEAN] /\ DescribedAll
<1>a. Calls /\ Pool /\ Pcs /\ Registered /\ wasted \in Nat
  BY DEF IInv, TypeOK
<1>t. ticks' \subseteq Indexers
  BY DEF IInv, TypeOK, Next, vars, Register, BackgroundDiscovery, Resurrect, BulkCall, Attempt,
         TickerFires, CheckESStatus, DiscoverNodes
<1>b. ASSUME Calls', Pool', Pcs', Registered', wasted' \in Nat PROVE IInv'
  BY <1>b, <1>t DEF IInv, TypeOK
<1>c. Indexers \subseteq Checkers
  BY DEF Checkers
<1>d. (Other \/ Reload) => wasted' \in Nat
  BY <1>a DEF Other, Reload
<1>e. ASSUME UNCHANGED registered PROVE Registered'
  BY <1>a, <1>e DEF DescribedAll
<1>f. ASSUME UNCHANGED <<live, dead>> PROVE Pool'
  BY <1>a, <1>f DEF PoolBounded, total
\* A checker leaves for anywhere but a bulk call.
<1>g. ASSUME NEW c \in Checkers, NEW p \in {"idle", "reload", "failed"}, Goto(c, p),
             UNCHANGED calls
      PROVE  Pcs' /\ Calls'
  BY <1>a, <1>c, <1>g DEF Goto, calls, AppliedBeforeAttempt, DuplicatesBounded
<1>1. ASSUME Register, Other PROVE IInv'
  <2>1. Pcs' /\ Calls'
    BY <1>a, <1>c, <1>1 DEF Register, calls, AppliedBeforeAttempt, DuplicatesBounded
  <2>2. Registered'
    <3>1. registered' = [descs |-> Describe, empty |-> total = 0]
      BY <1>1 DEF Register
    <3>2. /\ Describe \in SUBSET (ClientDescs \cup {"connection_failures"})
          /\ total # 0 => Describe = ClientDescs \cup {"connection_failures"}
      BY <1>a DEF Describe, total
    <3> QED
      BY <3>1, <3>2 DEF DescribedAll
  <2> QED
    BY <1>1, <1>b, <1>d, <1>f, <2>1, <2>2 DEF Register
<1>2. ASSUME BackgroundDiscovery, Other PROVE IInv'
  <2>1. Pcs' /\ Calls'
    BY <1>a, <1>2 DEF BackgroundDiscovery, calls, AppliedBeforeAttempt, DuplicatesBounded
  <2> QED
    BY <1>2, <1>b, <1>d, <1>e, <2>1, NewPoolBounded DEF BackgroundDiscovery
<1>3. ASSUME Resurrect, Other PROVE IInv'
  <2>1. Pcs' /\ Calls'
    BY <1>a, <1>3 DEF Resurrect, calls, AppliedBeforeAttempt, DuplicatesBounded
  <2>2. Pool'
    BY <1>a, <1>3 DEF Resurrect, PoolBounded, total
  <2> QED
    BY <1>3, <1>b, <1>d, <1>e, <2>1, <2>2 DEF Resurrect
<1>4. ASSUME NEW i \in Indexers, BulkCall(i), Other PROVE IInv'
  <2>1. Pcs' /\ Calls'
    BY <1>a, <1>c, <1>4, ClientAssumption
       DEF BulkCall, Goto, AppliedBeforeAttempt, DuplicatesBounded
  <2> QED
    BY <1>4, <1>b, <1>d, <1>e, <1>f, <2>1 DEF BulkCall
<1>5. ASSUME NEW i \in Indexers, Attempt(i), Other PROVE IInv'
  <2>1. Pcs' /\ Calls'
    <3>1. CASE Answered(i)
      BY <1>5, <1>a, <1>c, <3>1
         DEF Attempt, Answered, Apply, Goto, AppliedBeforeAttempt, DuplicatesBounded
    <3>2. CASE Unanswered(i)
      <4> USE <1>5, <1>a, <1>c, <3>2, ClientAssumption
          DEF Attempt, Unanswered, Apply, Retry, Goto, AppliedBeforeAttempt, DuplicatesBounded
      <4>1. CASE attempt[i] < MaxRetries
        BY <4>1
      <4>2. CASE ~(attempt[i] < MaxRetries)
        BY <4>2
      <4> QED
        BY <4>1, <4>2
    <3>3. CASE Refused(i)
      BY <1>5, <1>c, <1>g, <3>3 DEF Refused
    <3> QED
      BY <1>5, <3>1, <3>2, <3>3 DEF Attempt
  <2>2. Pool'
    BY <1>5, <1>a DEF Attempt, Answered, Unanswered, Refused, PoolBounded, total
  <2> QED
    BY <1>5, <1>b, <1>d, <1>e, <2>1, <2>2 DEF Attempt
<1>5a. ASSUME NEW i \in Indexers, TickerFires(i), Other PROVE IInv'
  <2>1. Pcs' /\ Calls'
    BY <1>a, <1>5a DEF TickerFires, calls, AppliedBeforeAttempt, DuplicatesBounded
  <2> QED
    BY <1>5a, <1>b, <1>d, <1>e, <1>f, <2>1 DEF TickerFires
<1>6. ASSUME NEW c \in Checkers, CheckESStatus(c), Other PROVE IInv'
  <2>1. \E p \in {"idle", "reload"} : Goto(c, p)
    BY <1>6 DEF CheckESStatus
  <2>2. UNCHANGED <<live, dead, calls, registered>>
    BY <1>6 DEF CheckESStatus
  <2> QED
    BY <1>6, <1>b, <1>d, <1>e, <1>f, <1>g, <2>1, <2>2
<1>7. ASSUME NEW c \in Checkers, DiscoverNodes(c), Reload PROVE IInv'
  <2>1. \E p \in {"idle", "failed"} : Goto(c, p)
    BY <1>7 DEF DiscoverNodes, Reloaded
  <2>2. Pool' /\ UNCHANGED <<calls, registered>>
    BY <1>7, <1>f, NewPoolBounded DEF DiscoverNodes
  <2> QED
    BY <1>7, <1>b, <1>d, <1>e, <1>g, <2>1, <2>2
<1>8. ASSUME UNCHANGED vars PROVE IInv'
  BY <1>8, <1>a, <1>b, <1>e, <1>f DEF vars, calls, AppliedBeforeAttempt, DuplicatesBounded
<1> QED
  BY <1>1, <1>2, <1>3, <1>4, <1>5, <1>5a, <1>6, <1>7, <1>8 DEF Next

\* Every variable keeps its type; the attempts of a bulk call never exceed MaxRetries.
THEOREM TypeCorrect == Spec => []TypeOK
  BY IInvInit, IInvStep, PTL DEF Spec, IInv

\* However the shared pool changes meanwhile, Elasticsearch carries out a bulk call at most
\* once for each attempt that sendToES' client made of it.
THEOREM DuplicatesBoundedTheorem == Spec => []DuplicatesBounded
  BY IInvInit, IInvStep, PTL DEF Spec, IInv

\* No discovery of nodes makes a later scrape fail, if the collector was registered with a
\* connection in the pool.
THEOREM ScrapesSucceedTheorem == Spec => []ScrapesSucceed
<1>1. IInv => ScrapesSucceed
  BY DEF IInv, DescribedAll, ScrapesSucceed, Collect
<1> QED
  BY <1>1, IInvInit, IInvStep, PTL DEF Spec

\* For every pool of at most MaxPool connections, the float32 percentage of dead connections
\* is the exact one, truncated, or one less where the exact one is an integer.
THEOREM ThresholdExactTheorem == Spec => []ThresholdExact
<1>1. IInv => ThresholdExact
  <2> SUFFICES ASSUME IInv, NEW p \in DeadPercentage(dead, total)
               PROVE  IF total = 0 THEN p <= 0
                      ELSE p * total <= 100 * dead /\ 100 * dead <= (p + 1) * total
    BY DEF ThresholdExact
  <2>1. dead \in Nat /\ total \in Nat /\ dead <= total /\ total <= MaxPool
    BY DEF IInv, TypeOK, PoolBounded, total
  <2>2. CASE total = 0
    BY <2>2 DEF DeadPercentage, NaN
  <2>3. CASE total # 0
    BY <2>1, <2>3, PercentageExact
  <2> QED
    BY <2>2, <2>3
<1> QED
  BY <1>1, IInvInit, IInvStep, PTL DEF Spec

-----------------------------------------------------------------------------
(* Reloads.                                                                *)

\* Those who have decided to reload.
Deciders == {c \in Checkers : pc[c] = "reload"}

\* Finitely many callers of CheckESStatus.
LEMMA DecidersFinite ==
  /\ IsFiniteSet(Checkers) /\ Cardinality(Checkers) \in Nat
  /\ IsFiniteSet(Deciders) /\ Cardinality(Deciders) \in Nat
  /\ Cardinality(Deciders) <= Cardinality(Checkers)
<1>1. IsFiniteSet(Checkers)
  BY ClientAssumption, FS_AddElement DEF Checkers
<1>2. Deciders \subseteq Checkers
  BY DEF Deciders
<1> QED
  BY <1>1, <1>2, FS_Subset, FS_CardinalityType

\* The same in the next state.
LEMMA DecidersFiniteNext ==
  /\ IsFiniteSet(Deciders') /\ Cardinality(Deciders') \in Nat
  /\ Cardinality(Deciders') <= Cardinality(Checkers)
<1>1. Deciders' \subseteq Checkers
  BY DEF Deciders
<1> QED
  BY <1>1, DecidersFinite, FS_Subset, FS_CardinalityType

\* CheckESStatus decides to reload only a pool that is at the threshold, unless the threshold
\* is 0 and the pool empty.
LEMMA DecidesAtThreshold ==
  ASSUME IInv, MaxDeadPercentage > 0, NEW c \in Checkers, CheckESStatus(c)
  PROVE  Deciders' \subseteq Deciders \/ AtThreshold
<1>1. PICK p \in DeadPercentage(dead, total) :
        Goto(c, IF p < MaxDeadPercentage THEN "idle" ELSE "reload")
  BY DEF CheckESStatus
<1>2. dead \in Nat /\ total \in Nat /\ dead <= total /\ total <= MaxPool
  BY DEF IInv, TypeOK, PoolBounded, total
<1>3. CASE total = 0
  <2>1. p < MaxDeadPercentage
    BY <1>3, ClientAssumption DEF DeadPercentage, NaN
  <2> QED
    BY <1>1, <2>1 DEF Goto, Deciders, IInv, TypeOK
<1>4. CASE total # 0 /\ p < MaxDeadPercentage
  BY <1>1, <1>4 DEF Goto, Deciders, IInv, TypeOK
<1>5. CASE total # 0 /\ ~(p < MaxDeadPercentage)
  <2>1. p \in Nat /\ p * total <= 100 * dead
    BY <1>2, <1>5, PercentageExact
  <2> DEFINE n == total
  <2> HIDE DEF n
  <2>2. n \in Nat /\ n > 0 /\ p * n <= 100 * dead
    BY <1>2, <1>5, <2>1 DEF n
  <2>3. MaxDeadPercentage * n <= p * n
    BY <1>5, <2>1, <2>2, ClientAssumption
  <2>4. 100 * dead >= MaxDeadPercentage * n
    BY <1>2, <2>1, <2>2, <2>3, ClientAssumption
  <2> QED
    BY <2>2, <2>4 DEF AtThreshold, n
<1> QED
  BY <1>3, <1>4, <1>5

\* A step that is no reload adds to the deciders only at the threshold.
LEMMA OtherStep ==
  ASSUME TypeOK, NoReloadStorm, Other, Deciders' \subseteq Deciders \/ AtThreshold'
  PROVE  NoReloadStorm'
<1>1. NoReloadStorm' <=> wasted' + Cardinality(Deciders') <= Cardinality(Checkers)
  BY DEF NoReloadStorm, Deciders
<1>2. wasted \in Nat /\ wasted + Cardinality(Deciders) <= Cardinality(Checkers)
  BY DEF TypeOK, NoReloadStorm, Deciders
<1>3. CASE AtThreshold'
  BY <1>1, <1>3, DecidersFinite, DecidersFiniteNext DEF Other
<1>4. CASE ~AtThreshold'
  <2>1. Cardinality(Deciders') <= Cardinality(Deciders)
    BY <1>4, DecidersFinite, FS_Subset
  <2>2. wasted' = wasted
    BY <1>4 DEF Other
  <2> QED
    BY <1>1, <1>2, <2>1, <2>2, DecidersFinite, DecidersFiniteNext
<1> QED
  BY <1>3, <1>4

\* A reload makes one decider less.
LEMMA ReloadStep ==
  ASSUME TypeOK, NoReloadStorm, NEW c \in Checkers, DiscoverNodes(c), Reload
  PROVE  NoReloadStorm'
<1>1. NoReloadStorm' <=> wasted' + Cardinality(Deciders') <= Cardinality(Checkers)
  BY DEF NoReloadStorm, Deciders
<1>2. wasted \in Nat /\ wasted + Cardinality(Deciders) <= Cardinality(Checkers)
  BY DEF TypeOK, NoReloadStorm, Deciders
<1>3. c \in Deciders /\ Deciders' = Deciders \ {c}
  BY DEF DiscoverNodes, Reloaded, Goto, Deciders, TypeOK
<1>4. Cardinality(Deciders') = Cardinality(Deciders) - 1
  BY <1>3, DecidersFinite, FS_RemoveElement
<1>5. wasted' = 0 \/ wasted' = wasted + 1
  BY DEF Reload
<1> QED
  BY <1>1, <1>2, <1>4, <1>5, DecidersFinite, DecidersFiniteNext

LEMMA StormStep ==
  ASSUME MaxDeadPercentage > 0
  PROVE  IInv /\ NoReloadStorm /\ [Next]_vars => NoReloadStorm'
<1> SUFFICES ASSUME IInv, NoReloadStorm, [Next]_vars PROVE NoReloadStorm'
  OBVIOUS
<1>0. TypeOK
  BY DEF IInv
<1>1. ASSUME Other, Deciders' \subseteq Deciders PROVE NoReloadStorm'
  BY <1>0, <1>1, OtherStep
<1>2. ASSUME Register, Other PROVE NoReloadStorm'
  <2>1. Deciders' \subseteq Deciders
    BY <1>2 DEF Register, Deciders
  <2> QED
    BY <1>1, <1>2, <2>1
<1>3. ASSUME BackgroundDiscovery \/ Resurrect, Other PROVE NoReloadStorm'
  <2>1. Deciders' \subseteq Deciders
    BY <1>3 DEF BackgroundDiscovery, Resurrect, Deciders
  <2> QED
    BY <1>1, <1>3, <2>1
<1>4. ASSUME NEW i \in Indexers, BulkCall(i) \/ Attempt(i) \/ TickerFires(i), Other
      PROVE  NoReloadStorm'
  <2>1. UNCHANGED pc \/ Goto(i, "bulk") \/ Goto(i, "idle")
    BY <1>4 DEF TickerFires, BulkCall, Attempt, Answered, Unanswered, Refused, Retry
  <2>2. Deciders' \subseteq Deciders
    BY <1>0, <2>1 DEF Goto, Deciders, TypeOK
  <2> QED
    BY <1>1, <1>4, <2>2
<1>5. ASSUME NEW c \in Checkers, CheckESStatus(c), Other PROVE NoReloadStorm'
  <2>1. AtThreshold' = AtThreshold
    BY <1>5 DEF CheckESStatus, AtThreshold, total
  <2>2. Deciders' \subseteq Deciders \/ AtThreshold
    BY <1>5, DecidesAtThreshold
  <2> QED
    BY <1>0, <1>5, <2>1, <2>2, OtherStep
<1>6. ASSUME NEW c \in Checkers, DiscoverNodes(c), Reload PROVE NoReloadStorm'
  BY <1>0, <1>6, ReloadStep
<1>7. ASSUME UNCHANGED vars PROVE NoReloadStorm'
  BY <1>7 DEF vars, NoReloadStorm
<1> QED
  BY <1>2, <1>3, <1>4, <1>5, <1>6, <1>7 DEF Next

\* For any number of indexers: while the pool is below the threshold, at most one reload per
\* caller of CheckESStatus is carried out in vain.  (With a maximum of 0 an empty pool counts
\* as too dead, and a cluster without data nodes is reloaded at every check.)
THEOREM NoReloadStormTheorem == MaxDeadPercentage > 0 => (Spec => []NoReloadStorm)
<1> SUFFICES ASSUME MaxDeadPercentage > 0 PROVE Spec => []NoReloadStorm
  OBVIOUS
<1>1. Init => NoReloadStorm
  <2> SUFFICES ASSUME Init PROVE NoReloadStorm
    OBVIOUS
  <2>1. Deciders = {} /\ wasted = 0
    BY DEF Init, Deciders
  <2> QED
    BY <2>1, DecidersFinite, FS_EmptySet DEF NoReloadStorm, Deciders
<1> QED
  BY <1>1, IInvInit, IInvStep, StormStep, PTL DEF Spec
=============================================================================
