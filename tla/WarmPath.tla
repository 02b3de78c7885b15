------------------------------ MODULE WarmPath ------------------------------
(***************************************************************************)
(* The warm path with its BatchWorker (internal/warmpath/batch_worker.go): *)
(* WarmService composed with the goroutine that drains the spill files,    *)
(* submits Gemini Batch jobs, keeps them in a state file, polls them and   *)
(* applies their answers in two phases, and with crashes and restarts.     *)
(* The spill files and the state file survive a crash; queue, buffer and   *)
(* everything a goroutine holds do not.                                    *)
(*                                                                         *)
(* The Batch API is external: a poll may find a job running, finished with *)
(* answers for some leads, or failed for good.                             *)
(***************************************************************************)
EXTENDS WarmService

CONSTANTS MaxCrashes   \* bound on crashes and restarts

ASSUME WarmPathAssumption == MaxCrashes \in Nat

VARIABLES
    bpc,      \* where the batch worker stands
    hand,     \* records drained from a spill file, not submitted yet
    engage,   \* records of the engage spill file
    jobs,     \* BatchWorker.state
    saved,    \* the state file
    todo,     \* jobs of the poll's snapshot still to be looked at
    keep,     \* pollJobs' remaining
    left,     \* left[h]: answers of Head(todo) still to be applied
    items,    \* engageItems of Head(todo)
    repeated, \* history: leads that one answer named more than once
    crashes

batchVars ==
    <<bpc, hand, engage, jobs, saved, todo, keep, left, items, repeated>>
vars ==
    <<setup, ctx, serviceVars, leadVars, spill, faults, batchVars, crashes>>

Job == [phase : {"core", "engage"}, records : Seq(SUBSET Leads)]
Records(s) == UNION Range(s)
JobLeads(s) == UNION {Records(j.records) : j \in Range(s)}

Init ==
    /\ ServiceInit
    /\ bpc = "select"
    /\ hand = <<>> /\ todo = <<>> /\ keep = <<>>
    /\ left = NoAnswers /\ items = {} /\ repeated = {}
    /\ engage = <<>> /\ jobs = <<>> /\ saved = <<>>
    /\ crashes = 0

-----------------------------------------------------------------------------
(* Flush: core spill first, then the engage spill.                         *)

\* Fault: an empty core spill ends the flush before the engage spill.
DrainCoreOnly ==
    /\ bpc = "select"
    /\ spill # <<>>
    /\ \/ /\ Torn \notin Range(spill)
          /\ hand' = spill
          /\ spill' = <<>>
          /\ bpc' = "core"
       \/ /\ Torn \in Range(spill)
          /\ bpc' = "engage_drain"
          /\ UNCHANGED <<hand, spill>>
    /\ UNCHANGED <<setup, ctx, serviceVars, leadVars, faults, engage, jobs,
                   saved, todo, keep, left, items, repeated>>

\* flushCoreSpill's Drain reads and removes the file; a torn line makes it
\* fail and leaves the file.
DrainCore ==
    /\ bpc = "select"
    /\ spill # <<>> \/ engage # <<>>
    /\ \/ /\ spill # <<>> /\ Torn \notin Range(spill)
          /\ hand' = spill
          /\ spill' = <<>>
          /\ bpc' = "core"
       \/ /\ spill = <<>> \/ Torn \in Range(spill)
          /\ bpc' = "engage_drain"
          /\ UNCHANGED <<hand, spill>>
    /\ UNCHANGED <<setup, ctx, serviceVars, leadVars, faults, engage, jobs,
                   saved, todo, keep, left, items, repeated>>

DrainEngage ==
    /\ bpc = "engage_drain"
    /\ \/ /\ engage # <<>> /\ Torn \notin Range(engage)
          /\ hand' = engage
          /\ engage' = <<>>
          /\ bpc' = "engage"
       \/ /\ engage = <<>> \/ Torn \in Range(engage)
          /\ bpc' = "select"
          /\ UNCHANGED <<hand, engage>>
    /\ UNCHANGED <<setup, ctx, serviceVars, leadVars, spill, faults, jobs,
                   saved, todo, keep, left, items, repeated>>

\* buildCoreLines or buildEngageLines skips a record it cannot encode; with
\* no line left nothing is submitted.
SkipRecord ==
    /\ bpc \in {"core", "engage"}
    /\ Failing(FALSE)
    /\ \E i \in DOMAIN hand :
          /\ hand' = RemoveAt(hand, i)
          /\ lost' = lost \cup hand[i]
    /\ bpc' = IF hand' # <<>> THEN bpc
              ELSE IF bpc = "core" THEN "engage_drain" ELSE "select"
    /\ UNCHANGED <<setup, ctx, serviceVars, doc, spill, settled, dlq, accepted,
                   rescans, engage, jobs, saved, todo, keep, left,
                   items, repeated>>

\* Fault: the phase is read after it has moved on.
SubmitOKPhase ==
    /\ bpc \in {"core", "engage"}
    /\ ctx = "live"
    /\ bpc' = IF bpc = "core" THEN "save_core" ELSE "save"
    /\ jobs' = Append(jobs, [phase |-> bpc', records |-> hand])
    /\ hand' = <<>>
    /\ UNCHANGED <<setup, ctx, serviceVars, leadVars, spill, faults, engage,
                   saved, todo, keep, left, items, repeated>>

\* Submit succeeds: appendJob, then saveState.
SubmitOK ==
    /\ bpc \in {"core", "engage"}
    /\ ctx = "live"
    /\ jobs' = Append(jobs, [phase |-> bpc, records |-> hand])
    /\ hand' = <<>>
    /\ bpc' = IF bpc = "core" THEN "save_core" ELSE "save"
    /\ UNCHANGED <<setup, ctx, serviceVars, leadVars, spill, faults, engage,
                   saved, todo, keep, left, items, repeated>>

\* Fault: a failed submit does not put the records back.
SubmitFailDrops ==
    /\ bpc \in {"core", "engage"}
    /\ Failing(ctx = "done")
    /\ hand' = <<>>
    /\ bpc' = IF bpc = "core" THEN "engage_drain" ELSE "select"
    /\ UNCHANGED <<setup, ctx, serviceVars, leadVars, spill, engage, jobs,
                   saved, todo, keep, left, items, repeated>>

\* Submit fails: the records are appended to the spill file again, behind
\* what the service spilled meanwhile.  The first append that fails ends the
\* loop: its record may be there, whole or torn, or not, and those behind it
\* are gone.
SubmitFail ==
    LET file == IF bpc = "core" THEN spill ELSE engage
        Requeued(n) ==
            IF n = Len(hand) THEN {file \o hand}
            ELSE AppendFailed(file \o SubSeq(hand, 1, n), hand[n + 1])
        failures(n) == (IF ctx = "done" THEN 0 ELSE 1)
                         + (IF n = Len(hand) THEN 0 ELSE 1)
    IN
    /\ bpc \in {"core", "engage"}
    /\ \E n \in 0..Len(hand) : \E requeued \in Requeued(n) :
          /\ faults + failures(n) <= MaxFaults[mode]
          /\ faults' = faults + failures(n)
          /\ lost' = lost \cup (Records(hand) \ Records(requeued))
          /\ \/ bpc = "core" /\ spill' = requeued
                /\ bpc' = "engage_drain" /\ UNCHANGED engage
             \/ bpc = "engage" /\ engage' = requeued
                /\ bpc' = "select" /\ UNCHANGED spill
    /\ hand' = <<>>
    /\ UNCHANGED <<setup, ctx, serviceVars, doc, settled, dlq, accepted,
                   rescans, jobs, saved, todo, keep, left, items,
                   repeated>>

\* Fault: the state file keeps what was in it before.
SaveStateStale ==
    /\ bpc \in {"save_core", "save"}
    /\ bpc' = IF bpc = "save_core" THEN "engage_drain" ELSE "select"
    /\ UNCHANGED <<setup, ctx, serviceVars, leadVars, spill, faults, hand,
                   engage, jobs, saved, todo, keep, left, items, repeated>>

\* saveState up to the write: an encoding, a directory or an open that fails
\* leaves the older file; else os.WriteFile has truncated it.
SaveState ==
    /\ bpc \in {"save_core", "save"}
    /\ \/ /\ saved' = <<>> /\ UNCHANGED faults
          /\ bpc' = IF bpc = "save_core" THEN "write_core" ELSE "write"
       \/ /\ Failing(FALSE) /\ UNCHANGED saved
          /\ bpc' = IF bpc = "save_core" THEN "engage_drain" ELSE "select"
    /\ UNCHANGED <<setup, ctx, serviceVars, leadVars, spill, hand, engage,
                   jobs, todo, keep, left, items, repeated>>

\* The jobs are written; a write that fails leaves an unreadable file.
WriteState ==
    /\ bpc \in {"write_core", "write"}
    /\ \/ saved' = jobs /\ UNCHANGED faults
       \/ Failing(FALSE) /\ UNCHANGED saved
    /\ bpc' = IF bpc = "write_core" THEN "engage_drain" ELSE "select"
    /\ UNCHANGED <<setup, ctx, serviceVars, leadVars, spill, hand, engage,
                   jobs, todo, keep, left, items, repeated>>

-----------------------------------------------------------------------------
(* pollJobs.                                                               *)

PollStart ==
    /\ bpc = "select"
    /\ jobs # <<>>
    /\ todo' = jobs
    /\ keep' = <<>>
    /\ bpc' = "poll"
    /\ UNCHANGED <<setup, ctx, serviceVars, leadVars, spill, faults, hand,
                   engage, jobs, saved, left, items, repeated>>

\* The job is not finished, or its status or output cannot be fetched.
PollKeep ==
    /\ bpc = "poll"
    /\ todo # <<>>
    /\ keep' = Append(keep, Head(todo))
    /\ todo' = Tail(todo)
    /\ UNCHANGED <<setup, ctx, serviceVars, leadVars, spill, faults, bpc, hand,
                   engage, jobs, saved, left, items, repeated>>

\* FAILED, CANCELLED or EXPIRED: the job is forgotten with its records.
PollTerminal ==
    /\ bpc = "poll"
    /\ todo # <<>>
    /\ ctx = "live"
    /\ faults < MaxFaults[mode] /\ faults' = faults + 1
    /\ lost' = lost \cup Records(Head(todo).records)
    /\ todo' = Tail(todo)
    /\ UNCHANGED <<setup, ctx, serviceVars, doc, spill, settled, dlq, accepted,
                   rescans, bpc, hand, engage, jobs, saved, keep,
                   left, items, repeated>>

\* SUCCEEDED: answers for some of the leads, perhaps several for one.
PollSucceeded ==
    /\ bpc = "poll"
    /\ todo # <<>>
    /\ ctx = "live"
    /\ left' \in Answers(Records(Head(todo).records))
    /\ lost' = lost \cup (Records(Head(todo).records) \ Named(left'))
    /\ repeated' = repeated \cup {h \in Leads : left'[h] > 1}
    /\ bpc' = "apply"
    /\ UNCHANGED <<setup, ctx, serviceVars, doc, spill, settled, dlq, accepted,
                   rescans, faults, hand, engage, jobs, saved, todo,
                   keep, items>>

\* shouldQueueEngage and applyResultPending: a High lead of a core job waits
\* for the engage phase as "pending"; a failed patch, which may have been
\* applied, is only logged.
QueueEngage(h) ==
    /\ items' = items \cup {h}
    /\ \/ ctx = "live" /\ Patch(h, "pending") /\ UNCHANGED faults
       \/ Failing(ctx = "done") /\ (UNCHANGED doc \/ Patch(h, "pending"))
    /\ UNCHANGED <<settled, lost>>

ApplyJob ==
    /\ bpc = "apply"
    /\ \E h \in Named(left) :
          /\ left' = [left EXCEPT ![h] = @ - 1]
          /\ \/ Head(todo).phase = "core" /\ QueueEngage(h)
             \/ ApplyResult(h, ctx = "done") /\ UNCHANGED items
    /\ UNCHANGED <<setup, ctx, serviceVars, spill, dlq, accepted, rescans, bpc,
                   hand, engage, jobs, saved, todo, keep, repeated>>

\* An answer cannot be parsed, or the engage spill cannot be written: the
\* job stays and all of its answers are applied again on a later poll.
ApplyAbort ==
    /\ bpc = "apply"
    /\ left # NoAnswers \/ items # {}
    /\ Failing(FALSE)
    /\ \/ UNCHANGED engage
       \/ left = NoAnswers /\ engage' \in AppendFailed(engage, items)
    /\ left' = NoAnswers /\ items' = {}
    /\ keep' = Append(keep, Head(todo))
    /\ todo' = Tail(todo)
    /\ bpc' = "poll"
    /\ UNCHANGED <<setup, ctx, serviceVars, leadVars, spill, hand, jobs, saved,
                   repeated>>

\* Fault: a finished job stays among the remaining ones.
ApplyEndKeepsJob ==
    /\ bpc = "apply"
    /\ left = NoAnswers
    /\ engage' = IF items = {} THEN engage ELSE Append(engage, items)
    /\ items' = {}
    /\ keep' = Append(keep, Head(todo))
    /\ todo' = Tail(todo)
    /\ bpc' = "poll"
    /\ UNCHANGED <<setup, ctx, serviceVars, leadVars, spill, faults, hand,
                   jobs, saved, left, repeated>>

\* All answers applied: queueEngageItems writes the leads that wait for
\* engage (its chunks are one record here) and the job is finished.
ApplyEnd ==
    /\ bpc = "apply"
    /\ left = NoAnswers
    /\ engage' = IF items = {} THEN engage ELSE Append(engage, items)
    /\ items' = {}
    /\ todo' = Tail(todo)
    /\ bpc' = "poll"
    /\ UNCHANGED <<setup, ctx, serviceVars, leadVars, spill, faults, hand,
                   jobs, saved, keep, left, repeated>>

\* replaceJobs(remaining), then saveState.
PollEnd ==
    /\ bpc = "poll"
    /\ todo = <<>>
    /\ jobs' = keep
    /\ keep' = <<>>
    /\ bpc' = "save"
    /\ UNCHANGED <<setup, ctx, serviceVars, leadVars, spill, faults, hand,
                   engage, saved, todo, left, items, repeated>>

BatchExit ==
    /\ bpc = "select"
    /\ ctx = "done"
    /\ bpc' = "exited"
    /\ UNCHANGED <<setup, ctx, serviceVars, leadVars, spill, faults, hand,
                   engage, jobs, saved, todo, keep, left, items, repeated>>

-----------------------------------------------------------------------------
(* Crash and restart: loadState reads the state file.                      *)

Volatile ==
    Range(queue) \cup Range(buffer) \cup Range(work) \cup Named(results)
      \cup Records(hand) \cup JobLeads(jobs) \cup Named(left) \cup items
Durable == Records(spill) \cup Records(engage) \cup JobLeads(saved)

Restart ==
    /\ crashes < MaxCrashes
    /\ crashes' = crashes + 1
    /\ lost' = lost \cup (Volatile \ Durable)
    /\ ctx' = "live" /\ budget' = "unused"
    /\ queue' = <<>> /\ buffer' = <<>>
    /\ ipc' = "run" /\ apc' = "select"
    /\ work' = <<>> /\ attempt' = 0 /\ results' = NoAnswers
    /\ bpc' = "select"
    /\ hand' = <<>> /\ todo' = <<>> /\ keep' = <<>>
    /\ left' = NoAnswers /\ items' = {}
    /\ jobs' = saved
    /\ UNCHANGED <<setup, doc, settled, dlq, accepted, rescans,
                   spill, engage, saved, repeated, faults>>

-----------------------------------------------------------------------------
BatchStep ==
    /\ mode = "batch"
    /\ \/ DrainCore \/ DrainEngage \/ SkipRecord \/ SubmitOK \/ SubmitFail
       \/ SaveState \/ WriteState
       \/ PollStart \/ PollKeep \/ PollTerminal \/ PollSucceeded
       \/ ApplyJob \/ ApplyAbort \/ ApplyEnd \/ PollEnd
       \/ BatchExit

Next ==
    \/ ServiceStep /\ UNCHANGED <<batchVars, crashes>>
    \/ BatchStep /\ UNCHANGED crashes
    \/ Restart

Spec == Init /\ [][Next]_vars

\* Each loop keeps running.  Go's select picks among the ready cases at
\* random, so neither a cancelled context nor a poll is passed over for
\* flushes for ever.  A Batch job is answered in the end.
FairSpec ==
    /\ Spec
    /\ WF_vars((Ingest \/ IngestExit) /\ UNCHANGED <<batchVars, crashes>>)
    /\ WF_vars((Flush \/ DrainStart \/ DrainTake \/ ProcessBatch)
                 /\ UNCHANGED <<batchVars, crashes>>)
    /\ WF_vars(BatchStep /\ UNCHANGED crashes)
    /\ SF_vars(DrainStart /\ UNCHANGED <<batchVars, crashes>>)
    /\ SF_vars(mode = "batch" /\ PollStart /\ UNCHANGED crashes)
    /\ SF_vars(mode = "batch" /\ PollSucceeded /\ UNCHANGED crashes)

-----------------------------------------------------------------------------
(* Properties.                                                             *)

\* Type correctness.
TypeOK ==
    /\ mode \in Modes /\ dlqUp \in BOOLEAN /\ ctx \in {"live", "done"}
    /\ budget \in {"unused", "open", "expired"}
    /\ queue \in Seq(Leads) /\ Len(queue) <= QueueSize
    /\ buffer \in Seq(Leads)
    /\ ipc \in {"run", "exited"}
    /\ apc \in {"select", "filter", "call", "backoff", "dlq", "apply",
                "drain", "exited"}
    /\ work \in Seq(Leads) /\ Len(work) <= BatchSize
    /\ attempt \in 0..RetryMax - 1
    /\ results \in Answers(Leads) /\ left \in Answers(Leads)
    /\ doc \in [Leads -> Status]
    /\ \A f \in {spill, engage, hand} : f \in Seq(SUBSET Leads)
    /\ \A s \in {settled, dlq, lost, items, repeated} : s \subseteq Leads
    /\ bpc \in {"select", "core", "save_core", "engage_drain", "engage",
                "save", "write_core", "write", "poll", "apply", "exited"}
    /\ \A s \in {jobs, saved, todo, keep} : s \in Seq(Job)

\* No event disappears: a lead the hot path handed over is held by a queue,
\* a goroutine, a file or a job, or it was settled, has a dead-letter row, or
\* was given up at one of the points the code logs or skips (full queue,
\* failed patch or insert, no answer, failed job, crash).
EventsAreTracked ==
    \A h \in Leads : accepted[h] > 0 =>
        h \in Volatile \cup Durable \cup settled \cup dlq \cup lost

\* A batch worker at its select holds nothing: everything it took from a
\* spill file or a poll is in a file or a job again, or settled or given up.
BatchRestHoldsNothing ==
    bpc \in {"select", "exited"} =>
        /\ hand = <<>> /\ todo = <<>> /\ left = NoAnswers /\ items = {}
        /\ faults = 0 => saved = jobs

\* An analysed lead returns to "pending" only if it was handed over again (a
\* second accept or a rescan), if one answer named it twice, or after a
\* failure: the engage phase of one hand-off never undoes its result.
DoneIsFinal ==
    [][\A h \in Leads : doc[h] = "done" /\ doc'[h] = "pending" =>
          \/ accepted[h] + rescans[h] > 1
          \/ h \in repeated
          \/ faults + crashes > 0]_vars

\* Within its drain budget, analyzeLoop returns after the context is
\* cancelled: every batch is analysed, dead-lettered or spilled.
DrainReturns ==
    ctx = "done" ~> apc = "exited" \/ budget = "expired" \/ ctx = "live"

\* Every accepted lead is settled, dead-lettered or given up unless the
\* process is told to stop or a torn line blocks a spill file.
AcceptedIsSettled ==
    \A h \in Leads :
        accepted[h] > 0 ~> \/ h \in settled \cup dlq \cup lost
                           \/ ctx = "done"
                           \/ Torn \in Range(spill) \cup Range(engage)

\* docs/OPS.md: WARM_ANALYSIS_SHUTDOWN_DRAIN is the "Flush budget on
\* shutdown": with the budget spent or not, the drain ends.
ShutdownDrainEnds == ctx = "done" ~> apc = "exited" \/ ctx = "live"
=============================================================================
