------------------------------ MODULE OneShot -------------------------------
(***************************************************************************)
(* The one-shot drivers of the task pool: runCollectOnce (a crawler such   *)
(* as tgweb, internal/app/collect_once.go) and runIngestOnce (a stream of  *)
(* Telethon items, internal/app/deps.go, internal/ingest).  Both feed one  *)
(* RoundState; they differ in when they close the channel, cancel the      *)
(* workers and wait for the tasks.                                         *)
(***************************************************************************)
EXTENDS TaskPool

CONSTANT Drivers   \* "collect", "ingest"

ASSUME OneShotAssumption ==
    /\ Drivers \subseteq {"collect", "ingest"}
    /\ Rounds = {1}

VARIABLES
    driver,   \* which of Drivers runs
    main      \* its control point

vars == <<poolVars, driver, main>>

MainState == {"collect", "join", "wait", "report", "linger", "cancelled",
              "closed", "returned"}
This == 1

Init ==
    /\ PoolInit
    /\ driver \in Drivers
    /\ main = "collect"

Go(from, to) == main = from /\ main' = to /\ UNCHANGED driver

-----------------------------------------------------------------------------
(* The collect callback, or ingest.ScanFormat on the stream.               *)

StartSource(s) ==
    /\ main = "collect"
    /\ MoveEmitter(This, s, "idle", "collecting")
    /\ UNCHANGED <<taskCh, closed, ctxDone, worker, wg, stats, emitted,
                   skipped, panic, driver, main>>

EmitItem(s) ==
    /\ \/ TryEnqueueCheck(This, s, ctxDone)
       \/ TryEnqueueSend(This, s)
       \/ TrackTask(This, s)
    /\ UNCHANGED <<driver, main>>

\* The crawl of a source ends, or the stream reached EOF or a done context.
SourceReturn(s) ==
    /\ MoveEmitter(This, s, "collecting", "done")
    /\ UNCHANGED <<taskCh, closed, ctxDone, worker, wg, stats, emitted,
                   skipped, panic, driver, main>>

EmittersDone == \A s \in Sources : emitter[This][s] = "done"

\* A signal ends the context; in runCollectOnce so does ScanTimeout.
ContextEnds ==
    /\ ~ctxDone
    /\ main # "returned"
    /\ ctxDone' = TRUE
    /\ UNCHANGED <<taskCh, closed, emitter, worker, wg, stats, emitted,
                   skipped, panic, driver, main>>

-----------------------------------------------------------------------------
(* runCollectOnce: close, join the workers, then state.Wait().             *)

\* Fault: close(taskCh) does not wait for collect to return.
CollectCloseEarly ==
    /\ driver = "collect"
    /\ Go("collect", "join")
    /\ closed' = TRUE
    /\ UNCHANGED <<taskCh, ctxDone, emitter, worker, wg, stats, emitted,
                   skipped, panic>>

CollectClose ==
    /\ driver = "collect"
    /\ EmittersDone
    /\ Go("collect", "join")
    /\ closed' = TRUE
    /\ UNCHANGED <<taskCh, ctxDone, emitter, worker, wg, stats, emitted,
                   skipped, panic>>

\* <-waitCh: a slow drain is logged and waited for without cancelling.
CollectJoin ==
    /\ \A w \in Workers : worker[w].at = "exit"
    /\ Go("join", "wait")
    /\ UNCHANGED poolVars

CollectStateWait ==
    /\ driver = "collect"
    /\ wg[This] = 0
    /\ Go("wait", "returned")
    /\ UNCHANGED poolVars

-----------------------------------------------------------------------------
(* runIngestOnce: state.Wait() first, then report, cancel and Drain.       *)

IngestScanned ==
    /\ driver = "ingest"
    /\ EmittersDone
    /\ Go("collect", "wait")
    /\ UNCHANGED poolVars

\* Fault: runIngestOnce reports without waiting for its tasks.
IngestStateWaitSkipped ==
    /\ driver = "ingest"
    /\ Go("wait", "report")
    /\ UNCHANGED poolVars

IngestStateWait ==
    /\ driver = "ingest"
    /\ wg[This] = 0
    /\ Go("wait", "report")
    /\ UNCHANGED poolVars

\* statsCh has room for the only snapshot, so the send succeeds.
IngestReport ==
    /\ Go("report", "linger")
    /\ UNCHANGED poolVars

\* onceDone or two seconds, then cancel().
IngestCancel ==
    /\ Go("linger", "cancelled")
    /\ ctxDone' = TRUE
    /\ UNCHANGED <<taskCh, closed, emitter, worker, wg, stats, emitted,
                   skipped, panic>>

IngestClose ==
    /\ Go("cancelled", "closed")
    /\ closed' = TRUE
    /\ UNCHANGED <<taskCh, ctxDone, emitter, worker, wg, stats, emitted,
                   skipped, panic>>

\* Drain: joined, or timed out.
IngestDrained ==
    /\ Go("closed", "returned")
    /\ UNCHANGED poolVars

-----------------------------------------------------------------------------
DriverStep ==
    \/ CollectClose \/ CollectJoin \/ CollectStateWait
    \/ IngestScanned \/ IngestStateWait \/ IngestReport
    \/ IngestCancel \/ IngestClose \/ IngestDrained

PoolStep(w) == WorkerStep(w) /\ UNCHANGED <<driver, main>>
Running == panic = "none"

Next ==
    /\ Running
    /\ \/ DriverStep
       \/ ContextEnds
       \/ \E s \in Sources : StartSource(s) \/ EmitItem(s) \/ SourceReturn(s)
       \/ \E w \in Workers : PoolStep(w)

Spec == Init /\ [][Next]_vars

\* Runnable goroutines run; sources start and return.  The context need not
\* end.
Fairness ==
    /\ WF_vars(Running /\ DriverStep)
    /\ \A s \in Sources :
          /\ WF_vars(Running /\ StartSource(s))
          /\ WF_vars(Running /\ EmitItem(s) /\ emitter[This][s] # "collecting")
          /\ WF_vars(Running /\ SourceReturn(s))
    /\ \A w \in Workers : WF_vars(Running /\ PoolStep(w))

FairSpec == Spec /\ Fairness

-----------------------------------------------------------------------------
(* Properties.                                                             *)

\* Type correctness of the driver on top of the pool.
TypeOK ==
    /\ PoolTypeOK
    /\ driver \in Drivers
    /\ main \in MainState

\* The drivers close taskCh only once no emitter can send any more, so the
\* send-on-closed panic of the resident process cannot happen here.
NoSendOnClosed == panic # "send_on_closed_channel"

\* When a driver returns, each item that TryEnqueue let through has its one
\* outcome (or was skipped because the context had ended) and none is left
\* in the channel or with a worker.
ReturnAccountsForEveryItem ==
    main \in {"report", "linger", "cancelled", "closed", "returned"} =>
        LET c == stats[This] IN
        /\ c["settled"] + c["dropped"] + skipped[This]
              = emitted[This]
        /\ taskCh[This] = 0
        /\ Holding(This) = {}

\* Without a timeout or signal both drivers return.
ReturnsUnlessContextEnds ==
    <>(main = "returned" \/ ctxDone \/ ~Running)
=============================================================================
