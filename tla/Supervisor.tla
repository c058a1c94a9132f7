----------------------------- MODULE Supervisor -----------------------------
(***************************************************************************)
(* main: the set-up, the pool of goroutines, the context they share, the   *)
(* signals, the goroutine that reloads the Elasticsearch client on SIGHUP  *)
(* and shuts the HTTP server down, and the goroutine that serves HTTP.     *)
(* Of the goroutines of the pipeline, which module Pipeline describes, it  *)
(* has what main waits for: each one returns after the one before it, or   *)
(* with an error, or never, when it has to send to goroutines that are     *)
(* gone.  A context pool of sourcegraph/conc first records a task's error  *)
(* and then cancels.                                                       *)
(***************************************************************************)
EXTENDS Naturals, Sequences

CONSTANTS
    Indexers,
    Limits,         \* values of BulkerMaxMessages
    Densities       \* values of BulkerMetricsDensity

ASSUME SettingsAssumption == Limits \subseteq Nat /\ Densities \subseteq Nat

\* The indexers have names of their own, and there is one at least.
ASSUME IndexersAssumption ==
    /\ Indexers # {}
    /\ Indexers \cap {"reload", "http", "consumer", "merge", "producer"} = {}

\* "merge" are the goroutines of merge: the forwarders and the one that waits for them.
Tasks == Indexers \cup {"reload", "http", "consumer", "merge", "producer"}

VARIABLES
    pc,             \* of every goroutine of the pool, "new" before it is started
    mainPc,         \* of main itself
    env,            \* the two settings above, and whether there is a producer
    buckets,        \* of the histogram of flushed messages (the one of bytes is alike)
    ctxDone,        \* the pool's context is cancelled
    reloadChan,     \* a SIGHUP is in the channel, whose capacity is one
    closing,        \* server.Shutdown was called
    err,            \* the first error recorded: that of Shutdown, or another one
    cause           \* why the context was cancelled

settings == <<env, buckets>>
vars == <<pc, mainPc, settings, ctxDone, reloadChan, closing, err, cause>>

Init ==
    /\ env \in [limit : Limits, density : Densities, producer : BOOLEAN]
    /\ pc = [t \in Tasks |-> IF t \in {"merge", "producer"} /\ ~env.producer THEN "done" ELSE "new"]
    /\ mainPc = "env"
    /\ buckets = <<>>
    /\ ctxDone = FALSE /\ reloadChan = FALSE /\ closing = FALSE
    /\ err = "none" /\ cause = "none"

Goto(t, p) == pc' = [pc EXCEPT ![t] = p]

Cancel(why) ==
    /\ ctxDone' = TRUE
    /\ cause' = IF ctxDone THEN cause ELSE why

-----------------------------------------------------------------------------
(* The set-up.  logger.Fatal ends the process at once.                     *)

\* printBuildInfo, processEnv and setLogLevel.
ProcessEnv ==
    /\ mainPc = "env"
    /\ mainPc' \in {"metrics", "fatal"}
    /\ UNCHANGED settings

\* Mutant of BucketStep: half the step, for twice the buckets.
HalvedStep(maxBucket, density) == maxBucket \div (2 * density)

\* step := maxBucket / density
BucketStep(maxBucket, density) == maxBucket \div density

\* Mutant of ComputeBuckets: i < maxBucket ends the loop.
BucketsBelow(maxBucket, density) ==
    LET step == BucketStep(maxBucket, density)
    IN  [k \in 1 .. (maxBucket - 1) \div step |-> k * step]

\* for i := step; i <= maxBucket; i += step, which ends if step is not zero.
ComputeBuckets(maxBucket, density) ==
    LET step == BucketStep(maxBucket, density)
    IN  [k \in 1 .. maxBucket \div step |-> k * step]

\* Panics for a density of 0.
SetupBulkerPrometheus ==
    \/ /\ env.density = 0
       /\ mainPc' = "panic" /\ UNCHANGED buckets
    \/ /\ env.density > 0
       /\ BucketStep(env.limit, env.density) > 0
       /\ buckets' = ComputeBuckets(env.limit, env.density)
       /\ mainPc' = "notify"

\* The buckets of the other metrics are fixed, and the registrations cannot fail, for the
\* names are distinct.
NewPrometheus == SetupBulkerPrometheus

\* The server is not started yet.
SetupMetricsAndServer == mainPc = "metrics" /\ NewPrometheus /\ UNCHANGED env

\* signal.NotifyContext, then signal.Notify.
NotifySignals ==
    /\ \/ mainPc = "notify" /\ mainPc' = "notify hangup"
       \/ mainPc = "notify hangup" /\ mainPc' = "kafka"
    /\ UNCHANGED settings

\* setupKafka fills in the configuration of consumer and producer and cannot fail.
SetupKafka == mainPc = "kafka" /\ mainPc' = "client" /\ UNCHANGED settings

\* newElasticClient: the address must be valid and the cluster answer a ping with 200.  The
\* transport has a timeout for the connection only, so that the ping may wait for its answer.
NewElasticClient ==
    /\ mainPc = "client"
    /\ mainPc' \in {"collector", "fatal"}
    /\ UNCHANGED settings

\* The rest of NewIndexer registers the collector, which asks the client for metrics.
RegisterCollector ==
    /\ mainPc = "collector"
    /\ mainPc' \in {"start", "fatal"}
    /\ UNCHANGED settings

Setup ==
    /\ \/ ProcessEnv
       \/ SetupMetricsAndServer
       \/ NotifySignals
       \/ SetupKafka
       \/ NewElasticClient
       \/ RegisterCollector
    /\ UNCHANGED <<pc, ctxDone, reloadChan, closing, err, cause>>

\* The order of the calls of ctxPool.Go.
Stage(t) ==
    CASE t = "reload" -> 1 [] t = "http" -> 2 [] t = "consumer" -> 3
      [] t = "merge" -> 5 [] t = "producer" -> 6 [] OTHER -> 4

\* ctxPool.Go, for one goroutine after the other.  A context that is cancelled by now
\* does not keep any of them from starting.
StartTask(t) ==
    /\ mainPc = "start" /\ pc[t] = "new"
    /\ \A u \in Tasks : Stage(u) < Stage(t) => pc[u] # "new"
    /\ Goto(t, CASE t = "reload" -> "select" [] t \in {"http", "producer"} -> "start" [] OTHER -> "run")
    /\ mainPc' = IF \A u \in Tasks \ {t} : pc[u] # "new" THEN "wait" ELSE "start"
    /\ UNCHANGED <<settings, ctxDone, reloadChan, closing, err, cause>>

-----------------------------------------------------------------------------
(* Signals, which end the process by default.                              *)

\* From where on main has asked for all of them.
Listening == {"kafka", "client", "collector", "start", "wait"}

\* SIGINT or SIGTERM.
Terminate ==
    /\ \/ /\ mainPc \in {"env", "metrics", "notify"}
          /\ mainPc' = "killed" /\ UNCHANGED <<ctxDone, cause>>
       \/ /\ mainPc \in Listening \cup {"notify hangup"} /\ ~ctxDone
          /\ Cancel("signal") /\ UNCHANGED mainPc
    /\ UNCHANGED <<pc, settings, reloadChan, closing, err>>

\* SIGHUP, dropped by signal.Notify if one is pending.
Hangup ==
    /\ \/ /\ mainPc \in {"env", "metrics", "notify", "notify hangup"}
          /\ mainPc' = "killed" /\ UNCHANGED reloadChan
       \/ /\ mainPc \in Listening /\ ~reloadChan
          /\ reloadChan' = TRUE /\ UNCHANGED mainPc
    /\ UNCHANGED <<pc, settings, ctxDone, closing, err, cause>>

-----------------------------------------------------------------------------
(* The reload goroutine.                                                   *)

\* case <-reloadChan
Reload ==
    /\ pc["reload"] = "select" /\ reloadChan
    /\ reloadChan' = FALSE
    /\ Goto("reload", "check")
    /\ UNCHANGED <<mainPc, settings, ctxDone, closing, err, cause>>

\* Mutant of ReloadChecked: the loop around the select is missing.
ReloadOnce ==
    /\ pc["reload"] = "check"
    /\ Goto("reload", "done") \/ Goto("reload", "failed")
    /\ UNCHANGED <<mainPc, settings, ctxDone, reloadChan, closing, err, cause>>

\* CheckESStatus, whose error ends the goroutine.
ReloadChecked ==
    /\ pc["reload"] = "check"
    /\ Goto("reload", "select") \/ Goto("reload", "failed")
    /\ UNCHANGED <<mainPc, settings, ctxDone, reloadChan, closing, err, cause>>

\* Mutant of ReloadCtxDone: the goroutine returns without calling Shutdown.
ReloadJustReturns ==
    /\ pc["reload"] = "select" /\ ctxDone
    /\ Goto("reload", "done")
    /\ UNCHANGED <<mainPc, settings, ctxDone, reloadChan, closing, err, cause>>

\* case <-ctx.Done(): Shutdown closes the listeners, then waits for the requests.
ReloadCtxDone ==
    /\ pc["reload"] = "select" /\ ctxDone
    /\ closing' = TRUE
    /\ Goto("reload", "shutdown")
    /\ UNCHANGED <<mainPc, settings, ctxDone, reloadChan, err, cause>>

\* Shutdown returns, with an error if the requests outlast its timeout.
ShutdownReturns ==
    /\ pc["reload"] = "shutdown"
    /\ Goto("reload", "done") \/ Goto("reload", "shutdown failed")
    /\ UNCHANGED <<mainPc, settings, ctxDone, reloadChan, closing, err, cause>>

-----------------------------------------------------------------------------
(* The HTTP goroutine.                                                     *)

\* ListenAndServe binds its port, or finds it in use, or was shut down before.
Listen ==
    /\ pc["http"] = "start"
    /\ IF closing THEN Goto("http", "done") ELSE Goto("http", "serve") \/ Goto("http", "failed")
    /\ UNCHANGED <<mainPc, settings, ctxDone, reloadChan, closing, err, cause>>

\* ListenAndServe returns: ErrServerClosed after Shutdown, else an Accept error.
ServeReturns ==
    /\ pc["http"] = "serve"
    /\ IF closing THEN Goto("http", "done") ELSE Goto("http", "failed")
    /\ UNCHANGED <<mainPc, settings, ctxDone, reloadChan, closing, err, cause>>

-----------------------------------------------------------------------------
(* The pipeline.                                                           *)

poolVars == <<mainPc, settings, ctxDone, reloadChan, closing, err, cause>>

\* A goroutine that has returned an error, and one that has returned at all.
Failed(t) == pc[t] \in {"failed", "cancel", "dead"}

Returned(t) == Failed(t) \/ pc[t] = "done"

\* Consumer.Start sees the context between two polls, or fails, and closes its channel.
ConsumerReturns ==
    /\ pc["consumer"] = "run"
    /\ (ctxDone /\ Goto("consumer", "done")) \/ Goto("consumer", "failed")
    /\ UNCHANGED poolVars

\* Its plain send waits for ever once no indexer reads any more.
ConsumerBlocks ==
    /\ pc["consumer"] = "run"
    /\ \A i \in Indexers : Failed(i) \/ pc[i] = "blocked"
    /\ Goto("consumer", "blocked")
    /\ UNCHANGED poolVars

\* Indexer.Start returns once the consumer's channel is closed and empty, or with an error.
IndexerReturns(i) ==
    /\ pc[i] = "run"
    /\ (Returned("consumer") /\ Goto(i, "done")) \/ Goto(i, "failed")
    /\ UNCHANGED poolVars

\* Every indexer's channel is empty and closed once it has returned.
MergeReturns ==
    /\ pc["merge"] = "run"
    /\ \A i \in Indexers : Returned(i)
    /\ Goto("merge", "done")
    /\ UNCHANGED poolVars

\* Nobody reads what merge sends after NewProducer has failed, so a forwarder waits for ever, and
\* in the end the indexer that sends to it.
SenderBlocks(t) ==
    /\ t \in Indexers \cup {"merge"} /\ pc[t] = "run"
    /\ Failed("producer")
    /\ Goto(t, "blocked")
    /\ UNCHANGED poolVars

\* NewProducer, which is all that can fail.
ProducerStarts ==
    /\ pc["producer"] = "start"
    /\ Goto("producer", "run") \/ Goto("producer", "failed")
    /\ UNCHANGED poolVars

\* merge has closed its channel.
ProducerReturns ==
    /\ pc["producer"] = "run" /\ pc["merge"] = "done"
    /\ Goto("producer", "done")
    /\ UNCHANGED poolVars

-----------------------------------------------------------------------------
(* The pool.                                                               *)

\* Mutant of ErrorOf: the error is not wrapped with where it comes from.
ErrorUnwrapped(t) == pc[t]

\* What is recorded for the error of task t.
ErrorOf(t) == IF pc[t] = "shutdown failed" THEN "shutdown" ELSE "task"

\* Mutant of AddError: WithFirstError is missing, so that a later error replaces it.
AddLastError(t) ==
    /\ pc[t] \in {"failed", "shutdown failed"}
    /\ err' = ErrorOf(t)
    /\ Goto(t, "cancel")
    /\ UNCHANGED <<mainPc, settings, ctxDone, reloadChan, closing, cause>>

\* WithFirstError: the pool keeps the first error ...
AddError(t) ==
    /\ pc[t] \in {"failed", "shutdown failed"}
    /\ err' = IF err = "none" THEN ErrorOf(t) ELSE err
    /\ Goto(t, "cancel")
    /\ UNCHANGED <<mainPc, settings, ctxDone, reloadChan, closing, cause>>

\* Mutant of CancelOnError: WithCancelOnError is missing.
NoCancelOnError(t) ==
    /\ pc[t] = "cancel"
    /\ Goto(t, "dead")
    /\ UNCHANGED <<mainPc, settings, ctxDone, reloadChan, closing, err, cause>>

\* ... WithCancelOnError: and then cancels the context.
CancelOnError(t) ==
    /\ pc[t] = "cancel"
    /\ Cancel(err)
    /\ Goto(t, "dead")
    /\ UNCHANGED <<mainPc, settings, reloadChan, closing, err>>

\* ctxPool.Wait() returns, and main ends, by logger.Fatal if there was an error.
WaitReturns ==
    /\ mainPc = "wait"
    /\ \A t \in Tasks : pc[t] \in {"done", "dead"}
    /\ mainPc' = IF err = "none" THEN "exit" ELSE "fatal"
    /\ UNCHANGED <<pc, settings, ctxDone, reloadChan, closing, err, cause>>

\* The process has ended.
Ended == mainPc \in {"exit", "fatal", "panic", "killed"}

\* The ways in which the program never ends.  The reload goroutine has failed, and nobody is left
\* to shut the HTTP server down; every indexer has failed while the consumer had a message to
\* send; there is no producer to read what merge sends.
Stuck ==
    \/ pc["reload"] = "dead" /\ ~closing
    \/ pc["consumer"] = "blocked" /\ \A i \in Indexers : Failed(i)
    \/ Failed("producer") /\ \E t \in Tasks : pc[t] = "blocked"

\* Nothing else keeps the program from going on: TLC reports any other state without a step.
Halted == (Ended \/ Stuck) /\ UNCHANGED vars

ReloadTask == Reload \/ ReloadChecked \/ ReloadCtxDone \/ ShutdownReturns

Next ==
    \/ Setup
    \/ \E t \in Tasks : StartTask(t)
    \/ Terminate \/ Hangup
    \/ ReloadTask
    \/ Listen \/ ServeReturns
    \/ ConsumerReturns \/ ConsumerBlocks
    \/ \E i \in Indexers : IndexerReturns(i)
    \/ MergeReturns \/ \E t \in Tasks : SenderBlocks(t)
    \/ ProducerStarts \/ ProducerReturns
    \/ \E t \in Tasks : AddError(t) \/ CancelOnError(t)
    \/ WaitReturns
    \/ Halted

Spec == Init /\ [][Next]_vars

\* Goroutines that can run do so, main being one, and Shutdown has a timeout; a shut down server
\* stops serving.  That Elasticsearch answers, the ping as well as the requests of an indexer, is
\* an assumption: nothing in the code bounds the wait.  A consumer that sees the cancelled context
\* returns, and those behind it follow one after the other; nothing is assumed of one that waits
\* to send to goroutines that are gone.  Strong fairness for the cancelled context: a select with
\* two ready cases picks one at random, so endless SIGHUPs do not hide ctx.Done().  Nothing forces
\* a failure.
FairSpec ==
    /\ Spec
    /\ WF_vars(Setup) /\ \A t \in Tasks : WF_vars(StartTask(t))
    /\ WF_vars(ReloadTask) /\ SF_vars(ReloadCtxDone)
    /\ WF_vars(Listen) /\ WF_vars(closing /\ ServeReturns)
    /\ WF_vars(ctxDone /\ ConsumerReturns)
    /\ \A i \in Indexers : WF_vars(Returned("consumer") /\ IndexerReturns(i))
    /\ WF_vars(MergeReturns) /\ WF_vars(ProducerStarts) /\ WF_vars(ProducerReturns)
    /\ \A t \in Tasks : WF_vars(AddError(t) \/ CancelOnError(t))
    /\ WF_vars(WaitReturns)

-----------------------------------------------------------------------------
TypeOK ==
    /\ pc \in [Tasks -> {"new", "select", "check", "shutdown", "shutdown failed", "start", "serve",
                         "run", "blocked", "failed", "cancel", "done", "dead"}]
    /\ mainPc \in {"env", "metrics", "notify", "notify hangup", "exit", "fatal", "panic",
                  "killed"} \cup Listening
    /\ env \in [limit : Limits, density : Densities, producer : BOOLEAN]
    /\ buckets \in Seq(Nat \ {0})
    /\ {ctxDone, reloadChan, closing} \subseteq BOOLEAN
    /\ err \in {"none", "task", "shutdown"}
    /\ cause \in {"none", "signal", "task", "shutdown"}

\* Root cause: an error of the shutdown itself is what main reports only if the
\* shutdown was requested by a signal.  When a goroutine's failure started it, that
\* failure is reported, whatever goes wrong while the others stop.
RootCauseReported == err = "shutdown" => cause = "signal"

\* A SIGHUP leads to a check of the Elasticsearch connections, even if it arrives
\* during the set-up, unless the program is being stopped.
HangupServed == reloadChan ~> ~reloadChan \/ ctxDone \/ Ended

\* A failed goroutine ends the program, unless it is stuck.  In particular the failure of some
\* indexers, of the consumer or of the HTTP server always does.
FailureStopsUnlessStuck == err # "none" ~> mainPc = "fatal" \/ Stuck

\* After a signal the program ends, with the same exceptions.  The signal may precede
\* the goroutines, which then start with a cancelled context.
SignalStopsUnlessStuck == cause = "signal" ~> Ended \/ Stuck

\* The set-up ends, with the pool running or the process ended, unless it is caught in
\* the loop of computeBuckets by a limit below the density.
SetupEnds ==
    mainPc = "env" ~> \/ Ended \/ mainPc = "wait"
                      \/ mainPc = "metrics" /\ env.limit < env.density

\* What the setting for the density means: the histogram has at least that many
\* buckets and fewer than twice as many, and the last one is less than a step short
\* of the limit, although neither need divide the other.
BucketsFollowDensity ==
    buckets # <<>> =>
      /\ Len(buckets) \in env.density .. 2 * env.density - 1
      /\ env.limit - buckets[Len(buckets)] \in 0 .. buckets[1] - 1

\* main.go: an error of any goroutine of the pool ends the program with
\* logger.Fatal "error in goroutine pool", those errors apart that leave a goroutine waiting to
\* send (run pipeline_consumer_blocked shows one).
FailureIsFatal == err # "none" ~> mainPc = "fatal" \/ \E t \in Tasks : pc[t] = "blocked"
=============================================================================
