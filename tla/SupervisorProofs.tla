-------------------------- MODULE SupervisorProofs --------------------------
(***************************************************************************)
(* The pool reports the root cause, for any set of indexers, and the       *)
(* histogram has the buckets asked for, for any limit and density.         *)
(***************************************************************************)
EXTENDS Supervisor, TLAPS

\* Quotients of natural numbers.
LEMMA DivFacts ==
  ASSUME NEW a \in Nat, NEW d \in Nat \ {0}
  PROVE  /\ a \div d \in Nat
         /\ d * (a \div d) <= a
         /\ a < d * (a \div d) + d
  OBVIOUS

\* computeBuckets: at least as many buckets as the density says and fewer than twice as many,
\* a step apart, the last one less than a step below the limit.
LEMMA ComputeBucketsFacts ==
  ASSUME NEW limit \in Nat, NEW density \in Nat \ {0}, BucketStep(limit, density) > 0
  PROVE  LET b == ComputeBuckets(limit, density)
         IN  /\ b \in Seq(Nat \ {0})
             /\ Len(b) \in density .. 2 * density - 1
             /\ limit - b[Len(b)] \in 0 .. b[1] - 1
<1> DEFINE s == limit \div density
           n == limit \div s
           b == ComputeBuckets(limit, density)
<1>1. /\ s \in Nat /\ density * s <= limit /\ limit < density * s + density
      /\ s > 0
  BY DivFacts DEF BucketStep
<1>2. b = [k \in 1 .. n |-> k * s]
  BY DEF ComputeBuckets, BucketStep
<1>3. n \in Nat /\ s * n <= limit /\ limit < s * n + s
  <2> HIDE DEF s
  <2> QED
    BY <1>1, DivFacts
<1> HIDE DEF s, n, b
<1>4. density <= n
  <2> SUFFICES ASSUME n + 1 <= density PROVE FALSE
    BY <1>3
  <2>1. s * (n + 1) <= s * density
    BY <1>1, <1>3
  <2> QED
    BY <1>1, <1>3, <2>1
<1>5. n <= 2 * density - 1
  <2> SUFFICES ASSUME 2 * density <= n PROVE FALSE
    BY <1>3
  <2>1. s * (2 * density) <= s * n
    BY <1>1, <1>3
  <2>2. density <= density * s
    BY <1>1
  <2> QED
    BY <1>1, <1>3, <2>1, <2>2
<1>6. \A k \in 1 .. n : k * s \in Nat \ {0}
  BY <1>1, <1>3
<1>7. b \in Seq(Nat \ {0}) /\ Len(b) = n
  BY <1>2, <1>3, <1>6
<1>8. b[1] = s /\ b[n] = s * n
  BY <1>1, <1>2, <1>3, <1>4
<1> QED
  BY <1>1, <1>3, <1>4, <1>5, <1>7, <1>8 DEF b

-----------------------------------------------------------------------------
\* Why main knows the root cause.  A context that is cancelled while no error is recorded
\* was cancelled by a signal, because the pool records an error before it cancels; and only
\* a cancelled context leads to Shutdown.
CancelledBySignal ==
    /\ ctxDone /\ err = "none" => cause = "signal"
    /\ \A t \in Tasks : pc[t] = "cancel" => err # "none"
    /\ \A t \in Tasks : pc[t] \in {"shutdown", "shutdown failed"} => ctxDone
    /\ cause # "none" => ctxDone

IInv == TypeOK /\ CancelledBySignal /\ RootCauseReported /\ BucketsFollowDensity

LEMMA IInvInit == Init => IInv
<1> SUFFICES ASSUME Init PROVE IInv
  OBVIOUS
<1>1. TypeOK
  <2>1. buckets \in Seq(Nat \ {0})
    BY DEF Init
  <2>2. {ctxDone, reloadChan, closing} \subseteq BOOLEAN
    BY DEF Init
  <2> QED
    BY <2>1, <2>2 DEF Init, TypeOK
<1>2. CancelledBySignal /\ RootCauseReported /\ BucketsFollowDensity
  BY DEF Init, CancelledBySignal, RootCauseReported, BucketsFollowDensity
<1> QED
  BY <1>1, <1>2 DEF IInv

\* The set-up changes mainPc, and once the buckets.
LEMMA SetupStep == IInv /\ Setup => IInv'
<1> SUFFICES ASSUME IInv, Setup PROVE IInv'
  OBVIOUS
<1>1. UNCHANGED <<pc, ctxDone, reloadChan, closing, err, cause, env>>
  BY DEF Setup, ProcessEnv, SetupMetricsAndServer, NotifySignals, SetupKafka, NewElasticClient,
         RegisterCollector, settings
<1>2. mainPc' \in {"env", "metrics", "notify", "notify hangup", "fatal", "panic"} \cup Listening
  BY DEF Setup, ProcessEnv, SetupMetricsAndServer, NewPrometheus, SetupBulkerPrometheus,
         NotifySignals, SetupKafka, NewElasticClient, RegisterCollector, Listening
<1>3. \/ buckets' = buckets
      \/ /\ env.density > 0 /\ BucketStep(env.limit, env.density) > 0
         /\ buckets' = ComputeBuckets(env.limit, env.density)
  BY DEF Setup, ProcessEnv, SetupMetricsAndServer, NewPrometheus, SetupBulkerPrometheus,
         NotifySignals, SetupKafka, NewElasticClient, RegisterCollector, settings
<1>4. env.limit \in Nat /\ env.density \in Nat
  BY SettingsAssumption DEF IInv, TypeOK
<1>5. buckets' \in Seq(Nat \ {0}) /\ BucketsFollowDensity'
  <2>1. CASE buckets' = buckets
    BY <1>1, <2>1 DEF IInv, TypeOK, BucketsFollowDensity
  <2>2. CASE /\ env.density > 0 /\ BucketStep(env.limit, env.density) > 0
             /\ buckets' = ComputeBuckets(env.limit, env.density)
    <3> DEFINE b == ComputeBuckets(env.limit, env.density)
    <3>1. /\ b \in Seq(Nat \ {0})
          /\ Len(b) \in env.density .. 2 * env.density - 1
          /\ env.limit - b[Len(b)] \in 0 .. b[1] - 1
      <4>1. env.density \in Nat \ {0} /\ BucketStep(env.limit, env.density) > 0
        BY <1>4, <2>2
      <4> QED
        BY <1>4, <4>1, ComputeBucketsFacts, Zenon
    <3> HIDE DEF b
    <3>2. buckets' = b /\ env' = env
      BY <1>1, <2>2 DEF b
    <3> QED
      BY <3>1, <3>2 DEF BucketsFollowDensity
  <2> QED
    BY <1>3, <2>1, <2>2
<1>6. TypeOK'
  BY <1>1, <1>2, <1>5 DEF IInv, TypeOK
<1> QED
  BY <1>1, <1>5, <1>6 DEF IInv, CancelledBySignal, RootCauseReported

\* Every other step leaves the settings and the buckets alone.
LEMMA IInvStep == IInv /\ [Next]_vars => IInv'
<1> SUFFICES ASSUME IInv, [Next]_vars PROVE IInv'
  OBVIOUS
<1> DEFINE Rest == TypeOK /\ CancelledBySignal /\ RootCauseReported
<1>0. ASSUME UNCHANGED settings, Rest' PROVE IInv'
  BY <1>0 DEF IInv, settings, BucketsFollowDensity
<1>t. {"reload", "http"} \subseteq Tasks
  BY DEF Tasks
<1> USE DEF Goto
<1>1. CASE Setup
  BY <1>1, SetupStep
<1>2. ASSUME NEW t \in Tasks, StartTask(t) PROVE IInv'
  <2>1. pc' = [pc EXCEPT ![t] = pc'[t]] /\ pc'[t] \in {"select", "start", "run"}
    BY <1>2 DEF StartTask, IInv, TypeOK
  <2>2. mainPc' \in {"wait", "start"} /\ UNCHANGED <<settings, ctxDone, reloadChan, closing, err, cause>>
    BY <1>2 DEF StartTask
  <2>3. Rest'
    BY <2>1, <2>2 DEF IInv, TypeOK, CancelledBySignal, RootCauseReported, settings, Listening
  <2> QED
    BY <1>0, <2>2, <2>3
<1>3. CASE Terminate
  <2>1. Rest'
    <3>1. CASE mainPc' = "killed" /\ UNCHANGED <<ctxDone, cause>>
      BY <1>3, <3>1 DEF Terminate, IInv, TypeOK, CancelledBySignal, RootCauseReported, settings
    <3>2. CASE ~ctxDone /\ Cancel("signal") /\ UNCHANGED mainPc
      BY <1>3, <3>2
         DEF Terminate, Cancel, IInv, TypeOK, CancelledBySignal, RootCauseReported, settings
    <3> QED
      BY <1>3, <3>1, <3>2 DEF Terminate
  <2> QED
    BY <1>0, <1>3, <2>1 DEF Terminate
<1>4. CASE Hangup
  <2>1. Rest'
    BY <1>4 DEF Hangup, IInv, TypeOK, CancelledBySignal, RootCauseReported, settings
  <2> QED
    BY <1>0, <1>4, <2>1 DEF Hangup
<1>5. CASE ReloadTask
  <2>1. Rest'
    <3> USE <1>t DEF IInv, TypeOK, CancelledBySignal, RootCauseReported, settings
    <3>1. CASE Reload
      BY <3>1 DEF Reload
    <3>2. CASE ReloadChecked
      BY <3>2 DEF ReloadChecked
    <3>3. CASE ReloadCtxDone
      BY <3>3 DEF ReloadCtxDone
    <3>4. CASE ShutdownReturns
      BY <3>4 DEF ShutdownReturns
    <3> QED
      BY <1>5, <3>1, <3>2, <3>3, <3>4 DEF ReloadTask
  <2> QED
    BY <1>0, <1>5, <2>1 DEF ReloadTask, Reload, ReloadChecked, ReloadCtxDone, ShutdownReturns
<1>6. CASE Listen \/ ServeReturns
  <2>1. \E p \in {"serve", "failed", "done"} : Goto("http", p)
    BY <1>6 DEF Listen, ServeReturns
  <2>2. UNCHANGED <<mainPc, settings, ctxDone, reloadChan, closing, err, cause>>
    BY <1>6 DEF Listen, ServeReturns
  <2>3. Rest'
    BY <1>t, <2>1, <2>2 DEF IInv, TypeOK, CancelledBySignal, RootCauseReported, settings
  <2> QED
    BY <1>0, <2>2, <2>3
<1>7. ASSUME NEW t \in Tasks, NEW p \in {"run", "blocked", "failed", "done"},
             Goto(t, p), UNCHANGED poolVars
      PROVE  IInv'
  <2>1. Rest'
    BY <1>7 DEF poolVars, IInv, TypeOK, CancelledBySignal, RootCauseReported, settings
  <2> QED
    BY <1>0, <1>7, <2>1 DEF poolVars
<1>p. CASE \/ ConsumerReturns \/ ConsumerBlocks
           \/ \E i \in Indexers : IndexerReturns(i)
           \/ MergeReturns \/ \E t \in Tasks : SenderBlocks(t)
           \/ ProducerStarts \/ ProducerReturns
  <2>1. \E t \in Tasks, p \in {"run", "blocked", "failed", "done"} : Goto(t, p) /\ UNCHANGED poolVars
    BY <1>p DEF ConsumerReturns, ConsumerBlocks, IndexerReturns, MergeReturns, SenderBlocks,
                ProducerStarts, ProducerReturns, Tasks
  <2> QED
    BY <1>7, <2>1
<1>8. ASSUME NEW t \in Tasks, AddError(t) PROVE IInv'
  <2>1. /\ ErrorOf(t) \in {"task", "shutdown"}
        /\ ErrorOf(t) = "shutdown" => ctxDone
    BY <1>8 DEF AddError, ErrorOf, IInv, CancelledBySignal
  <2>2. TypeOK'
    BY <1>8, <2>1 DEF AddError, IInv, TypeOK, settings
  <2>3. CancelledBySignal' /\ RootCauseReported'
    BY <1>8, <2>1 DEF AddError, IInv, TypeOK, CancelledBySignal, RootCauseReported
  <2> QED
    BY <1>0, <1>8, <2>2, <2>3 DEF AddError
<1>9. ASSUME NEW t \in Tasks, CancelOnError(t) PROVE IInv'
  <2>1. Rest'
    BY <1>9 DEF CancelOnError, Cancel, IInv, TypeOK, CancelledBySignal, RootCauseReported, settings
  <2> QED
    BY <1>0, <1>9, <2>1 DEF CancelOnError
<1>10. CASE WaitReturns
  <2>1. Rest'
    BY <1>10 DEF WaitReturns, IInv, TypeOK, CancelledBySignal, RootCauseReported, settings
  <2> QED
    BY <1>0, <1>10, <2>1 DEF WaitReturns
<1>11. CASE UNCHANGED vars
  BY <1>11 DEF vars, settings, IInv, TypeOK, CancelledBySignal, RootCauseReported,
               BucketsFollowDensity
<1> QED
  BY <1>1, <1>2, <1>3, <1>4, <1>5, <1>6, <1>p, <1>8, <1>9, <1>10, <1>11 DEF Next, Halted

-----------------------------------------------------------------------------
\* Every variable of main and of the pool keeps its type.
THEOREM TypeCorrect == Spec => []TypeOK
  BY IInvInit, IInvStep, PTL DEF Spec, IInv

\* Whatever fails while the goroutines stop, an error of server.Shutdown is what main
\* reports only when a signal, and no failure, started the shutdown.
THEOREM RootCauseTheorem == Spec => []RootCauseReported
  BY IInvInit, IInvStep, PTL DEF Spec, IInv

\* For every limit and density, computeBuckets yields from density to less than twice as many
\* buckets and covers the limit up to less than a step.
THEOREM BucketsTheorem == Spec => []BucketsFollowDensity
  BY IInvInit, IInvStep, PTL DEF Spec, IInv
=============================================================================
