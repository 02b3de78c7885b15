----------------------------- MODULE ScanRounds -----------------------------
(***************************************************************************)
(* The resident parser: the scheduler that triggers scans, the coordinator *)
(* that runs one round at a time over the task pool, the reporter of round *)
(* statistics, and the shutdown sequence of Run and Drain                  *)
(* (internal/app/runner.go, internal/app/shutdown.go,                      *)
(* internal/sources/coordinator.go, internal/output/reporter.go).          *)
(***************************************************************************)
EXTENDS TaskPool, Sequences

CONSTANTS
    ScanModes,           \* "once" (cfg.ScanOnce: one round, then exit), "loop"
    SourceConcurrency,   \* errgroup limit, 0 for no limit
    StatsBuffer          \* capacity of statsCh

ASSUME ScanRoundsAssumption ==
    /\ ScanModes \subseteq {"once", "loop"}
    /\ SourceConcurrency \in Nat
    /\ StatsBuffer \in Nat \ {0}

VARIABLES
    scanCh,         \* tokens in scanCh, capacity 1
    scheduler,      \* "run" or "exit"
    coordinator,    \* "select", "wait_prior", "wait_exit" or "exit"
    round,          \* round[r]: progress of the runRound goroutine of r
    roundCancelled, \* roundCancelled[r]: its own context was cancelled
    activeRound,    \* the round whose handle is stored, or NoRound
    statsCh,        \* queued snapshots
    reported,       \* history: snapshots the reporter handled
    reporter,       \* "run" or "exit"
    mode,           \* the configured member of ScanModes
    onceDone,       \* token in onceDone, capacity 1
    main            \* "run", "cancelled", "closed", "drained", "timed_out"

roundVars == <<scanCh, scheduler, coordinator, round, roundCancelled,
               activeRound, statsCh, reported, reporter, onceDone, main,
               mode>>
vars == <<poolVars, roundVars>>

RoundState == {"unused", "spawned", "collect", "wait", "send", "cleanup",
               "returned"}
Live(r) == round[r] \notin {"unused", "returned"}
RoundCtxDone(r) == roundCancelled[r] \/ ctxDone
Collecting(r) == {s \in Sources : emitter[r][s] \notin {"idle", "done"}}

Init ==
    /\ PoolInit
    /\ scanCh = 0
    /\ scheduler = "run"
    /\ coordinator = "select"
    /\ round = [r \in Rounds |-> "unused"]
    /\ roundCancelled = [r \in Rounds |-> FALSE]
    /\ activeRound = NoRound
    /\ statsCh = <<>>
    /\ reported = {}
    /\ reporter = "run"
    /\ onceDone = FALSE
    /\ mode \in ScanModes
    /\ main = "run"

-----------------------------------------------------------------------------
(* Scheduler.                                                              *)

\* Bound: no more triggers than the model has rounds.
RoundsLeft ==
    \E q \in Rounds : round[q] = "unused" /\ \E r \in Rounds :
        round[r] = "unused" /\ (coordinator = "wait_prior" => r # q)

\* Fault: the trigger does not look whether a token is already queued.
TriggerUnbounded ==
    /\ scheduler = "run"
    /\ RoundsLeft
    /\ scanCh < 2
    /\ scanCh' = scanCh + 1
    /\ scheduler' = IF mode = "once" THEN "exit" ELSE scheduler
    /\ UNCHANGED <<poolVars, coordinator, round, roundCancelled, activeRound,
                   statsCh, reported, reporter, onceDone, main,
                   mode>>

\* A tick (or the single trigger of ScanOnce) puts a token into scanCh; a
\* tick that finds the channel full is dropped and leaves no trace.
Trigger ==
    /\ scheduler = "run"
    /\ scanCh = 0
    /\ RoundsLeft
    /\ scanCh' = 1
    /\ scheduler' = IF mode = "once" THEN "exit" ELSE scheduler
    /\ UNCHANGED <<poolVars, coordinator, round, roundCancelled, activeRound,
                   statsCh, reported, reporter, onceDone, main,
                   mode>>

SchedulerExit ==
    /\ ctxDone
    /\ scheduler = "run"
    /\ scheduler' = "exit"
    /\ UNCHANGED <<poolVars, scanCh, coordinator, round, roundCancelled,
                   activeRound, statsCh, reported, reporter, onceDone, main,
                   mode>>

-----------------------------------------------------------------------------
(* Coordinator loop.                                                       *)

\* cancelActiveRound: under roundMu, cancel the stored handle and forget it.
CancelActiveRound ==
    /\ roundCancelled' = [r \in Rounds |->
                             roundCancelled[r] \/ r = activeRound]
    /\ activeRound' = NoRound

\* case <-scanCh: cancel the prior round, then go on to roundWG.Wait().
TakeScan ==
    /\ coordinator = "select"
    /\ scanCh = 1
    /\ scanCh' = 0
    /\ coordinator' = "wait_prior"
    /\ CancelActiveRound
    /\ UNCHANGED <<poolVars, scheduler, round, statsCh, reported, reporter,
                   onceDone, main, mode>>

\* Fault: roundWG.Wait() is missing before the next round starts.
SpawnRoundWithoutWait ==
    /\ coordinator = "wait_prior"
    /\ \E r \in Rounds :
          /\ round[r] = "unused"
          /\ \A q \in Rounds : q < r => round[q] # "unused"
          /\ round' = [round EXCEPT ![r] = "spawned"]
    /\ coordinator' = "select"
    /\ UNCHANGED <<poolVars, scanCh, scheduler, roundCancelled, activeRound,
                   statsCh, reported, reporter, onceDone, main,
                   mode>>

\* roundWG.Wait() returned: roundWG.Add(1) and go runRound.
SpawnRound ==
    /\ coordinator = "wait_prior"
    /\ \A r \in Rounds : ~Live(r)
    /\ \E r \in Rounds :
          /\ round[r] = "unused"
          /\ \A q \in Rounds : q < r => round[q] # "unused"
          /\ round' = [round EXCEPT ![r] = "spawned"]
    /\ coordinator' = "select"
    /\ UNCHANGED <<poolVars, scanCh, scheduler, roundCancelled, activeRound,
                   statsCh, reported, reporter, onceDone, main,
                   mode>>

\* case <-ctx.Done(): cancel the active round and wait for it.
CoordinatorCtxDone ==
    /\ ctxDone
    /\ coordinator = "select"
    /\ coordinator' = "wait_exit"
    /\ CancelActiveRound
    /\ UNCHANGED <<poolVars, scanCh, scheduler, round, statsCh, reported,
                   reporter, onceDone, main,
                   mode>>

CoordinatorExit ==
    /\ coordinator = "wait_exit"
    /\ \A r \in Rounds : ~Live(r)
    /\ coordinator' = "exit"
    /\ UNCHANGED <<poolVars, scanCh, scheduler, round, roundCancelled,
                   activeRound, statsCh, reported, reporter, onceDone, main,
                   mode>>

-----------------------------------------------------------------------------
(* The runRound goroutine.                                                 *)

MoveRound(r, from, to) ==
    /\ round[r] = from
    /\ round' = [round EXCEPT ![r] = to]

\* beginRound: cancel a handle that is still stored, then store this one.
BeginRound(r) ==
    /\ MoveRound(r, "spawned", "collect")
    /\ roundCancelled' = [q \in Rounds |->
                             roundCancelled[q] \/ q = activeRound]
    /\ activeRound' = r
    /\ UNCHANGED <<poolVars, scanCh, scheduler, coordinator, statsCh,
                   reported, reporter, onceDone, main,
                   mode>>

\* ScanTimeout of the round context.
ScanTimeout(r) ==
    /\ round[r] \in {"collect", "wait", "send"}
    /\ ~roundCancelled[r]
    /\ roundCancelled' = [roundCancelled EXCEPT ![r] = TRUE]
    /\ UNCHANGED <<poolVars, scanCh, scheduler, coordinator, round,
                   activeRound, statsCh, reported, reporter, onceDone, main,
                   mode>>

\* g.Go starts the Collect of a source once the errgroup has a free slot.
StartCollect(r, s) ==
    /\ round[r] = "collect"
    /\ SourceConcurrency > 0 => Cardinality(Collecting(r)) < SourceConcurrency
    /\ MoveEmitter(r, s, "idle", "collecting")
    /\ UNCHANGED <<taskCh, closed, ctxDone, worker, wg, stats, emitted,
                   skipped, panic, roundVars>>

Emit(r, s) ==
    /\ \/ TryEnqueueCheck(r, s, RoundCtxDone(r))
       \/ TryEnqueueSend(r, s)
       \/ TrackTask(r, s)
    /\ UNCHANGED roundVars

\* Collect returned: the source counts as ok or failed, and an error never
\* cancels the other sources.
EndCollect(r, s) ==
    /\ MoveEmitter(r, s, "collecting", "done")
    /\ \E c \in {"ok", "fail"} : stats' = Bump(r, c)
    /\ UNCHANGED <<taskCh, closed, ctxDone, worker, wg, emitted, skipped,
                   panic, roundVars>>

\* g.Wait() returned.
SourcesDone(r) ==
    /\ \A s \in Sources : emitter[r][s] = "done"
    /\ MoveRound(r, "collect", "wait")
    /\ UNCHANGED <<poolVars, scanCh, scheduler, coordinator, roundCancelled,
                   activeRound, statsCh, reported, reporter, onceDone, main,
                   mode>>

\* Fault: the round does not wait for its tasks.
StateWaitSkipped(r) ==
    /\ MoveRound(r, "wait", "send")
    /\ UNCHANGED <<poolVars, scanCh, scheduler, coordinator, roundCancelled,
                   activeRound, statsCh, reported, reporter, onceDone, main,
                   mode>>

\* state.Wait() returned.
StateWait(r) ==
    /\ wg[r] = 0
    /\ MoveRound(r, "wait", "send")
    /\ UNCHANGED <<poolVars, scanCh, scheduler, coordinator, roundCancelled,
                   activeRound, statsCh, reported, reporter, onceDone, main,
                   mode>>

\* Snapshot and TrySendStats: the snapshot is dropped when statsCh is full.
SendStats(r) ==
    /\ MoveRound(r, "send", "cleanup")
    /\ statsCh' = IF Len(statsCh) < StatsBuffer
                    THEN Append(statsCh, [of |-> r, stats |-> stats[r]])
                    ELSE statsCh
    /\ UNCHANGED <<poolVars, scanCh, scheduler, coordinator, roundCancelled,
                   activeRound, reported, reporter, onceDone, main,
                   mode>>

\* Fault: the finished round leaves its handle behind.
EndRoundKeepsHandle(r) ==
    /\ MoveRound(r, "cleanup", "returned")
    /\ roundCancelled' = [roundCancelled EXCEPT ![r] = TRUE]
    /\ UNCHANGED <<poolVars, scanCh, scheduler, coordinator, activeRound,
                   statsCh, reported, reporter, onceDone, main,
                   mode>>

\* Deferred: handle.cancel(), clearRoundHandle if it is still ours, Done.
EndRound(r) ==
    /\ MoveRound(r, "cleanup", "returned")
    /\ roundCancelled' = [roundCancelled EXCEPT ![r] = TRUE]
    /\ activeRound' = IF activeRound = r THEN NoRound ELSE activeRound
    /\ UNCHANGED <<poolVars, scanCh, scheduler, coordinator, statsCh,
                   reported, reporter, onceDone, main,
                   mode>>

RoundStep(r) ==
    \/ BeginRound(r)
    \/ SourcesDone(r)
    \/ StateWait(r)
    \/ SendStats(r)
    \/ EndRound(r)

-----------------------------------------------------------------------------
(* Reporter, Run and Drain.                                                *)

\* Fault: the reporter never signals onceDone.
ReportSilent ==
    /\ reporter = "run"
    /\ statsCh # <<>>
    /\ reported' = reported \cup {Head(statsCh)}
    /\ statsCh' = Tail(statsCh)
    /\ UNCHANGED <<poolVars, scanCh, scheduler, coordinator, round,
                   roundCancelled, activeRound, reporter, onceDone, main,
                   mode>>

Report ==
    /\ reporter = "run"
    /\ statsCh # <<>>
    /\ reported' = reported \cup {Head(statsCh)}
    /\ statsCh' = Tail(statsCh)
    /\ onceDone' = (onceDone \/ mode = "once")
    /\ UNCHANGED <<poolVars, scanCh, scheduler, coordinator, round,
                   roundCancelled, activeRound, reporter, main, mode>>

ReporterExit ==
    /\ ctxDone
    /\ reporter = "run"
    /\ reporter' = "exit"
    /\ UNCHANGED <<poolVars, scanCh, scheduler, coordinator, round,
                   roundCancelled, activeRound, statsCh, reported, onceDone,
                   main, mode>>

\* The context of Run ends: a signal (any time), or cancel() once onceDone
\* delivered the report of a ScanOnce round.
Cancel ==
    /\ main = "run"
    /\ main' = "cancelled"
    /\ ctxDone' = TRUE
    /\ onceDone' = FALSE
    /\ UNCHANGED <<taskCh, closed, emitter, worker, wg, stats, emitted,
                   skipped, panic, scanCh, scheduler, coordinator, round,
                   roundCancelled, activeRound, statsCh, reported, reporter,
                   mode>>

\* Drain: close(taskCh).
CloseTasks ==
    /\ main = "cancelled"
    /\ main' = "closed"
    /\ closed' = TRUE
    /\ UNCHANGED <<taskCh, ctxDone, emitter, worker, wg, stats, emitted,
                   skipped, panic, scanCh, scheduler, coordinator, round,
                   roundCancelled, activeRound, statsCh, reported, reporter,
                   onceDone, mode>>

AllJoined ==
    /\ \A w \in Workers : worker[w].at = "exit"
    /\ coordinator = "exit"
    /\ scheduler = "exit"
    /\ reporter = "exit"

\* Fault: Drain has no timeout arm.
DrainReturnUntimed ==
    /\ main = "closed"
    /\ AllJoined
    /\ main' = "drained"
    /\ UNCHANGED <<poolVars, scanCh, scheduler, coordinator, round,
                   roundCancelled, activeRound, statsCh, reported, reporter,
                   onceDone, mode>>

\* Drain: wg.Wait() wins, or the shutdown timeout does.
DrainReturn ==
    /\ main = "closed"
    /\ main' \in IF AllJoined THEN {"drained", "timed_out"} ELSE {"timed_out"}
    /\ UNCHANGED <<poolVars, scanCh, scheduler, coordinator, round,
                   roundCancelled, activeRound, statsCh, reported, reporter,
                   onceDone, mode>>

-----------------------------------------------------------------------------
PoolStep(w) == WorkerStep(w) /\ UNCHANGED roundVars

SystemStep ==
    \/ SchedulerExit
    \/ TakeScan
    \/ SpawnRound
    \/ CoordinatorCtxDone
    \/ CoordinatorExit
    \/ \E r \in Rounds : RoundStep(r)
    \/ \E r \in Rounds, s \in Sources : StartCollect(r, s)
    \/ Report
    \/ ReporterExit
    \/ CloseTasks
    \/ DrainReturn

Running == panic = "none" /\ main \notin {"drained", "timed_out"}

Next ==
    /\ Running
    /\ \/ Trigger
       \/ SystemStep
       \/ \E r \in Rounds : ScanTimeout(r)
       \/ \E r \in Rounds, s \in Sources : Emit(r, s) \/ EndCollect(r, s)
       \/ \E w \in Workers : PoolStep(w)
       \/ Cancel

Spec == Init /\ [][Next]_vars

\* Fairness: every runnable goroutine is scheduled again, a Collect call
\* returns (its requests carry HTTPTimeout), Process returns (taskTimeout),
\* the Drain timer fires, and Run reacts to onceDone.  The
\* trigger of ScanOnce is a plain send and happens; ticks, signals and
\* ScanTimeout need not.
Fairness ==
    /\ WF_vars(Running /\ SystemStep)
    /\ \A r \in Rounds : WF_vars(Running /\ RoundStep(r))
    /\ \A r \in Rounds, s \in Sources :
          /\ WF_vars(Running /\ StartCollect(r, s))
          /\ WF_vars(Running /\ Emit(r, s) /\ emitter[r][s] # "collecting")
          /\ WF_vars(Running /\ EndCollect(r, s))
    /\ \A w \in Workers : WF_vars(Running /\ PoolStep(w))
    /\ WF_vars(Running /\ onceDone /\ Cancel)
    /\ WF_vars(Running /\ mode = "once" /\ Trigger)

FairSpec == Spec /\ Fairness

-----------------------------------------------------------------------------
(* Properties.                                                             *)

\* Type correctness of the coordinator, the rounds and the shutdown state.
TypeOK ==
    /\ PoolTypeOK
    /\ scanCh \in 0..1
    /\ scheduler \in {"run", "exit"}
    /\ coordinator \in {"select", "wait_prior", "wait_exit", "exit"}
    /\ round \in [Rounds -> RoundState]
    /\ roundCancelled \in [Rounds -> BOOLEAN]
    /\ activeRound \in Rounds \cup {NoRound}
    /\ statsCh \in Seq([of : Rounds, stats : [Counter -> Nat]])
    /\ reported \subseteq [of : Rounds, stats : [Counter -> Nat]]
    /\ reporter \in {"run", "exit"}
    /\ onceDone \in BOOLEAN
    /\ mode \in ScanModes
    /\ main \in {"run", "cancelled", "closed", "drained", "timed_out"}

\* coordinator.go: "Wait for the prior round goroutine to exit before starting
\* another": two runRound goroutines never overlap, whatever the timing of
\* ticks, timeouts and cancellation.
OneRoundAtATime ==
    \A q, r \in Rounds : Live(q) /\ Live(r) => q = r

\* coordinator.go: state.Wait() blocks "until processor workers call
\* FinishTask for every enqueued item": past that wait no task of the round
\* is queued, held by a worker, or about to be tracked.
WaitMeansFinished ==
    \A r \in Rounds :
        round[r] \in {"send", "cleanup", "returned"} =>
            /\ taskCh[r] = 0
            /\ Holding(r) = {}
            /\ \A s \in Sources : emitter[r][s] = "done"

Snapshots == {statsCh[i] : i \in DOMAIN statsCh} \cup reported

\* Every snapshot that leaves a round is final and complete: each item that
\* TryEnqueue let through is counted in exactly one of Accepted, a reject
\* bucket or Dropped (items received after shutdown began excepted), each
\* source is counted once, and no counter of the round moves afterwards.
SnapshotAccountsForEveryItem ==
    \A n \in Snapshots :
        LET c == n.stats IN
        /\ c["settled"] + c["dropped"] + skipped[n.of]
              = emitted[n.of]
        /\ c["ok"] + c["fail"] = Cardinality(Sources)
        /\ c = stats[n.of]

\* The stored handle names the live round, so cancelActiveRound never
\* cancels a finished round or one that has not begun.
HandleNamesLiveRound ==
    activeRound # NoRound =>
        round[activeRound] \in {"collect", "wait", "send", "cleanup"}

\* A round that was spawned reports and returns unless the process is shut
\* down (or panics): neither a slow source, a full channel, nor a tick that
\* arrives while it runs can wedge the coordinator.
RoundsComplete ==
    \A r \in Rounds :
        Live(r) ~> (round[r] = "returned" \/ ctxDone \/ panic # "none")

\* Once its context is cancelled Run returns from Drain, even when a
\* goroutine never joins.
ShutdownReturns ==
    ctxDone ~> (main \in {"drained", "timed_out"} \/ panic # "none")

\* A ScanOnce process (TestRunScanOnceExits) always terminates: the single
\* round is reported, the report ends the context, and Run returns.
OnceExits ==
    mode = "once" ~> (main \in {"drained", "timed_out"} \/ panic # "none")

\* enqueue_test.go pairs TryEnqueue with FinishTask and Wait: tracking a task
\* comes before it can be finished, so the counter never goes below zero.
WaitGroupNeverNegative == panic # "negative_waitgroup_counter"
=============================================================================
