------------------------------ MODULE TaskPool ------------------------------
(***************************************************************************)
(* The bounded task channel of the parser, the emitters that feed it with  *)
(* TryEnqueue, the worker pool that drains it, and the RoundState whose    *)
(* WaitGroup ties the two together (internal/pipeline/enqueue.go,          *)
(* worker.go, stats.go).                                                   *)
(*                                                                         *)
(* A task is abstracted to the round whose RoundState it points at.  The   *)
(* tasks of one round are interchangeable, so the channel is the number of *)
(* queued tasks of each round.  Goroutines are interleaved at the points   *)
(* where the code can be preempted: TryEnqueue is three steps (context     *)
(* check, send, TrackTask) and process is up to four.                      *)
(***************************************************************************)
EXTENDS Integers, FiniteSets, FiniteSetsExt

CONSTANTS
    Workers,      \* worker goroutines of the Pool
    Sources,      \* goroutines that emit items
    Rounds,       \* RoundStates, one per scan round
    TaskBuffer,   \* capacity of taskCh
    MaxEmits      \* bound on the items one source emits in one round

ASSUME TaskPoolAssumption ==
    /\ IsFiniteSet(Workers)
    /\ IsFiniteSet(Sources)
    /\ Rounds \subseteq Nat \ {0}
    /\ IsFiniteSet(Rounds)
    /\ TaskBuffer \in Nat \ {0}
    /\ MaxEmits \in Nat

VARIABLES
    taskCh,    \* taskCh[r]: queued tasks of round r
    closed,    \* close(taskCh) has happened
    ctxDone,   \* the context of the workers is done
    emitter,   \* emitter[r][s]: where source s of round r stands
    worker,    \* worker[w]: where worker w stands and whose task it holds
    wg,        \* wg[r]: counter of the WaitGroup of RoundState r
    stats,     \* stats[r]: the atomic counters of RoundState r
    emitted,   \* history: items of round r handed to TryEnqueue's send
    skipped,   \* history: items of round r received after ctx was done
    panic      \* the runtime panic that ended the process, if any

poolVars == <<taskCh, closed, ctxDone, emitter, worker, wg, stats, emitted,
              skipped, panic>>

NoRound == 0
\* Accepted and the reject buckets are one counter, "settled".
Counter == {"raw", "settled", "dropped", "ok", "fail"}

EmitterState == {"idle", "collecting", "checked", "sent", "done"}
WorkerState == {"select", "got", "busy", "finish", "exit"}

Queued == MapThenSumSet(LAMBDA r : taskCh[r], Rounds)
Bump(r, c) == [stats EXCEPT ![r][c] = @ + 1]

PoolInit ==
    /\ taskCh = [r \in Rounds |-> 0]
    /\ closed = FALSE
    /\ ctxDone = FALSE
    /\ emitter = [r \in Rounds |-> [s \in Sources |-> "idle"]]
    /\ worker = [w \in Workers |-> [at |-> "select", of |-> NoRound]]
    /\ wg = [r \in Rounds |-> 0]
    /\ stats = [r \in Rounds |-> [c \in Counter |-> 0]]
    /\ emitted = [r \in Rounds |-> 0]
    /\ skipped = [r \in Rounds |-> 0]
    /\ panic = "none"

-----------------------------------------------------------------------------
(* Emitters: one Collect call per source, calling TryEnqueue per item.     *)

MoveEmitter(r, s, from, to) ==
    /\ emitter[r][s] = from
    /\ emitter' = [emitter EXCEPT ![r][s] = to]

\* First select of TryEnqueue: a done context refuses the item (the source
\* stays where it is), an open one lets it through to the send.
TryEnqueueCheck(r, s, emitCtxDone) ==
    /\ ~emitCtxDone
    /\ emitted[r] < MaxEmits * Cardinality(Sources)
    /\ MoveEmitter(r, s, "collecting", "checked")
    /\ UNCHANGED <<taskCh, closed, ctxDone, worker, wg, stats, emitted,
                   skipped, panic>>

\* Fault: a full channel drops the item without counting it.
TryEnqueueSendUncounted(r, s) ==
    /\ ~closed
    /\ emitted' = [emitted EXCEPT ![r] = @ + 1]
    /\ IF Queued < TaskBuffer
         THEN /\ MoveEmitter(r, s, "checked", "sent")
              /\ taskCh' = [taskCh EXCEPT ![r] = @ + 1]
         ELSE /\ MoveEmitter(r, s, "checked", "collecting")
              /\ UNCHANGED taskCh
    /\ UNCHANGED <<closed, ctxDone, worker, wg, stats, skipped, panic>>

\* Second select of TryEnqueue: non-blocking send.  A full channel counts
\* the item as dropped; a send on a closed channel panics.
TryEnqueueSend(r, s) ==
    \/ /\ closed
       /\ emitter[r][s] = "checked"
       /\ panic' = "send_on_closed_channel"
       /\ UNCHANGED <<taskCh, closed, ctxDone, emitter, worker, wg, stats,
                      emitted, skipped>>
    \/ /\ ~closed
       /\ emitted' = [emitted EXCEPT ![r] = @ + 1]
       /\ IF Queued < TaskBuffer
            THEN /\ MoveEmitter(r, s, "checked", "sent")
                 /\ taskCh' = [taskCh EXCEPT ![r] = @ + 1]
                 /\ UNCHANGED stats
            ELSE /\ MoveEmitter(r, s, "checked", "collecting")
                 /\ stats' = Bump(r, "dropped")
                 /\ UNCHANGED taskCh
       /\ UNCHANGED <<closed, ctxDone, worker, wg, skipped, panic>>

\* The send succeeded: task.Stats.TrackTask() is wg.Add(1).
TrackTask(r, s) ==
    /\ MoveEmitter(r, s, "sent", "collecting")
    /\ wg' = [wg EXCEPT ![r] = @ + 1]
    /\ UNCHANGED <<taskCh, closed, ctxDone, worker, stats, emitted, skipped,
                   panic>>

-----------------------------------------------------------------------------
(* Workers.                                                                *)

Step(w, from, to) ==
    /\ worker[w].at = from
    /\ worker' = [worker EXCEPT ![w].at = to]

\* Fault: a receive on the closed channel is taken for a task.
ReceiveClosed(w, r) ==
    /\ taskCh[r] > 0 \/ closed
    /\ worker[w].at = "select"
    /\ worker' = [worker EXCEPT ![w] = [at |-> "got", of |-> r]]
    /\ taskCh' = [taskCh EXCEPT ![r] = @ - 1]
    /\ UNCHANGED <<closed, ctxDone, emitter, wg, stats, emitted, skipped,
                   panic>>

\* select in Pool.worker: the task case.
Receive(w, r) ==
    /\ taskCh[r] > 0
    /\ worker[w].at = "select"
    /\ worker' = [worker EXCEPT ![w] = [at |-> "got", of |-> r]]
    /\ taskCh' = [taskCh EXCEPT ![r] = @ - 1]
    /\ UNCHANGED <<closed, ctxDone, emitter, wg, stats, emitted, skipped,
                   panic>>

\* select in Pool.worker: ctx.Done(), or the channel closed and drained.
WorkerExit(w) ==
    /\ ctxDone \/ (closed /\ \A r \in Rounds : taskCh[r] = 0)
    /\ Step(w, "select", "exit")
    /\ UNCHANGED <<taskCh, closed, ctxDone, emitter, wg, stats, emitted,
                   skipped, panic>>

\* Fault: the early return of process skips FinishTask.
ProcessBeginLeaks(w) ==
    /\ worker[w].at = "got"
    /\ IF ctxDone
         THEN /\ worker' = [worker EXCEPT ![w] =
                              [at |-> "select", of |-> NoRound]]
              /\ skipped' = [skipped EXCEPT ![worker[w].of] = @ + 1]
              /\ UNCHANGED stats
         ELSE /\ Step(w, "got", "busy")
              /\ stats' = Bump(worker[w].of, "raw")
              /\ UNCHANGED skipped
    /\ UNCHANGED <<taskCh, closed, ctxDone, emitter, wg, emitted, panic>>

\* process: a done context returns before RawTotal is counted.
ProcessBegin(w) ==
    LET r == worker[w].of IN
    /\ IF ctxDone
         THEN /\ Step(w, "got", "finish")
              /\ skipped' = [skipped EXCEPT ![r] = @ + 1]
              /\ UNCHANGED stats
         ELSE /\ Step(w, "got", "busy")
              /\ stats' = Bump(r, "raw")
              /\ UNCHANGED skipped
    /\ UNCHANGED <<taskCh, closed, ctxDone, emitter, wg, emitted, panic>>

\* Fault: a rejected task returns to the select without FinishTask.
ProcessOutcomeLeaks(w) ==
    /\ worker[w].at = "busy"
    /\ \/ worker' = [worker EXCEPT ![w].at = "finish"]
       \/ worker' = [worker EXCEPT ![w] = [at |-> "select", of |-> NoRound]]
    /\ stats' = Bump(worker[w].of, "settled")
    /\ UNCHANGED <<taskCh, closed, ctxDone, emitter, wg, emitted, skipped,
                   panic>>

\* process: Processor.Process returned; exactly one outcome counter moves.
\* The default branch of recordRoundReject shares the Dropped counter with
\* TryEnqueue.
ProcessOutcome(w) ==
    /\ Step(w, "busy", "finish")
    /\ \E c \in {"settled", "dropped"} :
          stats' = Bump(worker[w].of, c)
    /\ UNCHANGED <<taskCh, closed, ctxDone, emitter, wg, emitted, skipped,
                   panic>>

\* The deferred FinishTask: wg.Done(), which panics below zero.
FinishTask(w) ==
    LET r == worker[w].of IN
    /\ worker[w].at = "finish"
    /\ worker' = [worker EXCEPT ![w] = [at |-> "select", of |-> NoRound]]
    /\ wg' = [wg EXCEPT ![r] = @ - 1]
    /\ panic' = IF wg[r] = 0 THEN "negative_waitgroup_counter" ELSE panic
    /\ UNCHANGED <<taskCh, closed, ctxDone, emitter, stats, emitted, skipped>>

WorkerStep(w) ==
    \/ \E r \in Rounds : Receive(w, r)
    \/ WorkerExit(w)
    \/ ProcessBegin(w)
    \/ ProcessOutcome(w)
    \/ FinishTask(w)

-----------------------------------------------------------------------------
Holding(r) == {w \in Workers : worker[w].of = r}
Sending(r) == {s \in Sources : emitter[r][s] = "sent"}

\* Type correctness of the channel, the goroutines and the counters.
PoolTypeOK ==
    /\ taskCh \in [Rounds -> Nat]
    /\ closed \in BOOLEAN
    /\ ctxDone \in BOOLEAN
    /\ emitter \in [Rounds -> [Sources -> EmitterState]]
    /\ worker \in [Workers -> [at : WorkerState, of : Rounds \cup {NoRound}]]
    /\ wg \in [Rounds -> Int]
    /\ stats \in [Rounds -> [Counter -> Nat]]
    /\ emitted \in [Rounds -> Nat]
    /\ skipped \in [Rounds -> Nat]
    /\ panic \in {"none", "send_on_closed_channel",
                  "negative_waitgroup_counter"}

\* A worker carries a round exactly while it processes a task of it.
WorkerCarriesTask ==
    \A w \in Workers :
        worker[w].of # NoRound <=> worker[w].at \in {"got", "busy", "finish"}

\* The WaitGroup of a round, plus the sends whose TrackTask has not run yet,
\* counts exactly the tasks that are queued or held by a worker.  This is
\* what makes state.Wait() mean "every enqueued item was finished", although
\* TryEnqueue tracks a task only after it is visible to the workers.
WaitGroupCountsTasks ==
    \A r \in Rounds :
        wg[r] + Cardinality(Sending(r)) = taskCh[r] + Cardinality(Holding(r))
=============================================================================
