---------------------------- MODULE WarmService -----------------------------
(***************************************************************************)
(* The warm path's Service (internal/warmpath/service.go): accepted leads  *)
(* are captured into a bounded queue, moved to a buffer by ingestLoop, and *)
(* analysed in batches by analyzeLoop, which retries, writes a dead-letter *)
(* row, re-queues, rescans MongoDB for pending leads, and drains on        *)
(* shutdown.  In batch mode a batch goes to a spill file instead.          *)
(*                                                                         *)
(* An event is the hash_id of its lead.  A document carries only its       *)
(* analysis_status; the rejecting values (geo_rejected, icp_rejected,      *)
(* duplicate, the prescan reason) are one value, "rejected".               *)
(***************************************************************************)
EXTENDS Integers, FiniteSets, Sequences, SequencesExt

CONSTANTS
    Leads,       \* hash_ids
    Modes,       \* subset of {"sync", "batch"}: GEMINI_BATCH_MODE off or on
    QueueSize,   \* capacity of the Capturer's channel
    BatchSize,   \* leads taken by one processBatch
    RetryMax,    \* RetryMaxAttempts
    Offered,     \* Offered[m]: the leads the hot path accepts in mode m
    MaxAccepts,  \* bound on how often the hot path accepts a lead
    MaxRescans,  \* bound on how often a rescan re-queues a lead
    MaxAnswers,  \* bound on how often one answer names a lead
    MaxFaults    \* MaxFaults[m]: bound on failing external calls in mode m

ASSUME WarmAssumption ==
    /\ IsFiniteSet(Leads)
    /\ Modes \subseteq {"sync", "batch"}
    /\ Offered \in [Modes -> SUBSET Leads]
    /\ QueueSize \in Nat \ {0} /\ BatchSize \in Nat \ {0}
    /\ RetryMax \in Nat \ {0}
    /\ MaxAccepts \in Nat /\ MaxRescans \in Nat
    /\ MaxFaults \in [Modes -> Nat]
    /\ MaxAnswers \in Nat \ {0}

VARIABLES
    mode,      \* "batch" when the service has a batchWorker
    dlqUp,     \* the service has a dead-letter writer
    ctx,       \* "done" once the parent context is cancelled, else "live"
    budget,    \* the drain context: "unused", "open", "expired"
    queue,     \* Capturer.ch
    buffer,    \* Service.buffer
    ipc,       \* ingestLoop: "run" or "exited"
    apc,       \* where analyzeLoop stands
    work,      \* the batch processBatch holds
    attempt,   \* failed analyzer calls for it
    results,   \* results[h]: answers for the lead still to be applied
    doc,       \* doc[h]: analysis_status of the lead's document
    spill,     \* records of the core spill file, each a set of leads
    settled,   \* history: leads whose final patch returned nil
    dlq,       \* leads with a row in warm_analysis_dlq
    lost,      \* history: leads whose event was given up
    accepted, rescans,   \* history: counts per lead
    faults     \* failing external calls so far

setup == <<mode, dlqUp>>
serviceVars == <<budget, queue, buffer, ipc, apc, work, attempt, results>>
leadVars == <<doc, settled, dlq, lost, accepted, rescans>>

\* A line that json.Unmarshal refuses, left by a failed append.
Torn == {}
Status == {"absent", "unset", "pending", "done", "rejected"}

\* The answers of one response, counted per lead: the parsers return one
\* result per returned item, also when two items name the same lead.  Items
\* with an unknown id are skipped.
NoAnswers == [h \in Leads |-> 0]
Answers(leads) ==
    {a \in [Leads -> 0..MaxAnswers] : \A h \in Leads \ leads : a[h] = 0}
Named(a) == {h \in Leads : a[h] > 0}

ServiceInit ==
    /\ ctx = "live" /\ budget = "unused"
    /\ queue = <<>> /\ buffer = <<>>
    /\ ipc = "run" /\ apc = "select"
    /\ work = <<>> /\ attempt = 0 /\ results = NoAnswers
    /\ mode \in Modes
    /\ dlqUp \in IF mode = "sync" THEN BOOLEAN ELSE {TRUE}
    /\ doc = [h \in Leads |-> "absent"]
    /\ spill = <<>>
    /\ settled = {} /\ dlq = {} /\ lost = {}
    /\ accepted = [h \in Leads |-> 0]
    /\ rescans = [h \in Leads |-> 0]
    /\ faults = 0

\* A call made with a context that is done fails; any other may fail too.
Failing(done) ==
    /\ done \/ faults < MaxFaults[mode]
    /\ faults' = IF done THEN faults ELSE faults + 1

-----------------------------------------------------------------------------
(* The hot path.                                                           *)

\* An accepted lead is captured without blocking; a full queue drops it.
TryCapture(h) ==
    /\ h \in Offered[mode] /\ accepted[h] < MaxAccepts
    /\ accepted' = [accepted EXCEPT ![h] = @ + 1]
    /\ \/ Len(queue) < QueueSize /\ queue' = Append(queue, h)
          /\ UNCHANGED lost
       \/ Len(queue) = QueueSize /\ lost' = lost \cup {h}
          /\ UNCHANGED queue
    /\ UNCHANGED <<setup, ctx, budget, buffer, ipc, apc, work, attempt,
                   results, doc, spill, settled, dlq, rescans, faults>>

\* The BulkStore's batch with the lead reaches MongoDB, now or later: the
\* update sets neither analysis_status nor anything else the warm path reads.
UpsertDoc(h) ==
    /\ accepted[h] > 0
    /\ doc[h] = "absent"
    /\ doc' = [doc EXCEPT ![h] = "unset"]
    /\ UNCHANGED <<setup, ctx, serviceVars, spill, settled, dlq, lost,
                   accepted, rescans, faults>>

-----------------------------------------------------------------------------
(* The buffer.                                                             *)

\* enqueueDedupe: events whose hash is not in the buffer yet.
EnqueueDedupe(events) ==
    buffer \o SelectSeq(events, LAMBDA h : h \notin Range(buffer))

TakeBatch(next) ==
    LET n == IF Len(buffer) < BatchSize THEN Len(buffer) ELSE BatchSize IN
    /\ work' = SubSeq(buffer, 1, n)
    /\ buffer' = SubSeq(buffer, n + 1, Len(buffer))
    /\ apc' = next

Ingest ==
    /\ ipc = "run"
    /\ queue # <<>>
    /\ queue' = Tail(queue)
    /\ buffer' = EnqueueDedupe(<<Head(queue)>>)
    /\ UNCHANGED <<setup, ctx, budget, ipc, apc, work, attempt, results,
                   leadVars, spill, faults>>

\* On ctx.Done ingestLoop returns; what is queued stays in the channel.
IngestExit ==
    /\ ipc = "run"
    /\ ctx = "done"
    /\ ipc' = "exited"
    /\ UNCHANGED <<setup, ctx, budget, queue, buffer, apc, work, attempt,
                   results, leadVars, spill, faults>>

-----------------------------------------------------------------------------
(* analyzeLoop.                                                            *)

\* A tick of the analyze ticker; an empty buffer makes it a no-op.
Flush ==
    /\ apc = "select"
    /\ buffer # <<>>
    /\ TakeBatch("filter")
    /\ UNCHANGED <<setup, ctx, budget, queue, ipc, attempt, results, leadVars,
                   spill, faults>>

\* A tick of the rescan ticker: some stale pending leads, at most a batch of
\* them, are queued again.  A failed query changes nothing.
RescanPending ==
    /\ apc = "select"
    /\ ctx = "live"
    /\ \E stale \in SUBSET {h \in Leads : doc[h] = "pending"} :
          /\ stale # {} /\ Cardinality(stale) <= BatchSize
          /\ \A h \in stale : rescans[h] < MaxRescans
          /\ buffer' = EnqueueDedupe(SetToSeq(stale))
          /\ rescans' = [h \in Leads |->
                           IF h \in stale THEN rescans[h] + 1 ELSE rescans[h]]
    /\ UNCHANGED <<setup, ctx, budget, queue, ipc, apc, work, attempt, results,
                   doc, spill, settled, dlq, lost, accepted, faults>>

\* ctx.Done: flushAll starts with a fresh drain context.
DrainStart ==
    /\ apc = "select"
    /\ ctx = "done"
    /\ apc' = "drain"
    /\ budget' = "open"
    /\ UNCHANGED <<setup, ctx, queue, buffer, ipc, work, attempt, results,
                   leadVars, spill, faults>>

\* Fault: flushAll also waits for the queue, which nobody empties any more.
DrainTakeWaits ==
    /\ apc = "drain"
    /\ \/ buffer # <<>> /\ TakeBatch("filter")
       \/ buffer = <<>> /\ queue = <<>>
          /\ apc' = "exited" /\ UNCHANGED <<buffer, work>>
    /\ UNCHANGED <<setup, ctx, budget, queue, ipc, attempt, results, leadVars,
                   spill, faults>>

\* One iteration of flushAll.
DrainTake ==
    /\ apc = "drain"
    /\ \/ buffer # <<>> /\ TakeBatch("filter")
       \/ buffer = <<>> /\ apc' = "exited" /\ UNCHANGED <<buffer, work>>
    /\ UNCHANGED <<setup, ctx, budget, queue, ipc, attempt, results, leadVars,
                   spill, faults>>

BudgetExpires ==
    /\ budget = "open"
    /\ apc # "exited"
    /\ budget' = "expired"
    /\ UNCHANGED <<setup, ctx, queue, buffer, ipc, apc, work, attempt, results,
                   leadVars, spill, faults>>

-----------------------------------------------------------------------------
(* processBatch.                                                           *)

\* The context processBatch was given, and where its caller goes on.
CallDone == IF budget = "unused" THEN ctx = "done" ELSE budget = "expired"
Back == IF budget = "unused" THEN "select" ELSE "drain"

\* Fault: the batch replaces the buffer.
RequeueFrontOverwrites ==
    /\ buffer' = work
    /\ work' = <<>>
    /\ attempt' = 0
    /\ apc' = Back

RequeueFront ==
    /\ buffer' = work \o buffer
    /\ work' = <<>>
    /\ attempt' = 0
    /\ apc' = Back

\* PatchLeadAnalysis: UpdateOne without an upsert; a missing document is not
\* an error.
Patch(h, status) ==
    doc' = [doc EXCEPT ![h] = IF @ = "absent" THEN @ ELSE status]

\* filterWarmPrescan and filterWarmCluster: matching leads are patched as
\* rejected and leave the batch, also when the patch fails, and a patch that
\* fails may have been applied.  With a context that is done the embedding
\* calls fail and every lead stays.
Filter ==
    /\ apc = "filter"
    /\ \E out \in SUBSET Range(work) : \E failed \in SUBSET out :
          /\ out # {} => ~CallDone
          /\ IF failed = {} THEN UNCHANGED faults ELSE Failing(FALSE)
          /\ \E patched \in {out, out \ failed} :
                doc' = [h \in Leads |->
                          IF h \in patched /\ doc[h] # "absent"
                            THEN "rejected" ELSE doc[h]]
          /\ settled' = settled \cup (out \ failed)
          /\ lost' = lost \cup failed
          /\ work' = SelectSeq(work, LAMBDA h : h \notin out)
    /\ apc' = IF work' = <<>> THEN Back ELSE "call"
    /\ UNCHANGED <<setup, ctx, budget, queue, buffer, ipc, attempt, results,
                   spill, dlq, accepted, rescans>>

\* The batch is appended to the spill file as one record.
Spill ==
    /\ apc = "call"
    /\ mode = "batch"
    /\ spill' = Append(spill, Range(work))
    /\ work' = <<>>
    /\ apc' = Back
    /\ UNCHANGED <<setup, ctx, budget, queue, buffer, ipc, attempt, results,
                   leadVars, faults>>

\* What a failed Append may have left in a spill file.
AppendFailed(file, rec) == {file, Append(file, rec), Append(file, Torn)}

SpillFail ==
    /\ apc = "call"
    /\ mode = "batch"
    /\ Failing(FALSE)
    /\ spill' \in AppendFailed(spill, Range(work))
    /\ RequeueFront
    /\ UNCHANGED <<setup, ctx, budget, queue, ipc, results, leadVars>>

\* The analyzer answers for some of the leads, perhaps more than once for
\* one; a lead without an answer is not looked at again.
AnalyzeOK ==
    /\ apc = "call"
    /\ mode = "sync"
    /\ ~CallDone
    /\ results' \in Answers(Range(work))
    /\ lost' = lost \cup (Range(work) \ Named(results'))
    /\ work' = <<>>
    /\ attempt' = 0
    /\ apc' = IF results' = NoAnswers THEN Back ELSE "apply"
    /\ UNCHANGED <<setup, ctx, budget, queue, buffer, ipc, doc, spill, settled,
                   dlq, accepted, rescans, faults>>

\* The analyzer fails.  After the last attempt: the dead-letter row.
\* Otherwise a backoff, in which a context that is already done wins.
AnalyzeFail ==
    /\ apc = "call"
    /\ mode = "sync"
    /\ Failing(CallDone)
    /\ \/ /\ attempt + 1 = RetryMax
          /\ apc' = "dlq"
          /\ attempt' = 0
          /\ UNCHANGED <<buffer, work>>
       \/ /\ attempt + 1 < RetryMax
          /\ CallDone
          /\ RequeueFront
       \/ /\ attempt + 1 < RetryMax
          /\ ~CallDone
          /\ apc' = "backoff"
          /\ attempt' = attempt + 1
          /\ UNCHANGED <<buffer, work>>
    /\ UNCHANGED <<setup, ctx, budget, queue, ipc, results, leadVars, spill>>

Backoff ==
    /\ apc = "backoff"
    /\ \/ apc' = "call" /\ UNCHANGED <<buffer, work, attempt>>
       \/ CallDone /\ RequeueFront
    /\ UNCHANGED <<setup, ctx, budget, queue, ipc, results, leadVars, spill,
                   faults>>

\* InsertWarmAnalysisFailures; an error is only logged, and the rows may have
\* been inserted all the same.  A service whose dead-letter collection could
\* not be connected has no writer and leaves no row.
DeadLetter ==
    /\ apc = "dlq"
    /\ \/ /\ dlqUp /\ ~CallDone
          /\ dlq' = dlq \cup Range(work)
          /\ UNCHANGED <<lost, faults>>
       \/ /\ dlqUp /\ Failing(CallDone)
          /\ lost' = lost \cup Range(work)
          /\ dlq' \in {dlq, dlq \cup Range(work)}
       \/ /\ ~dlqUp
          /\ lost' = lost \cup Range(work)
          /\ UNCHANGED <<dlq, faults>>
    /\ work' = <<>>
    /\ apc' = Back
    /\ UNCHANGED <<setup, ctx, budget, queue, buffer, ipc, attempt, results,
                   doc, spill, settled, accepted, rescans>>

\* applyResult: a geo, ICP or duplicate reject patches and returns; any other
\* answer patches "done" and then notifies the CRM.  A failed patch, which
\* may have been applied, is only logged.
ApplyResult(h, done) ==
    \/ /\ ~done
       /\ Patch(h, "rejected")
       /\ settled' = settled \cup {h}
       /\ UNCHANGED <<lost, faults>>
    \/ /\ ~done
       /\ Patch(h, "done")
       /\ settled' = settled \cup {h}
       /\ UNCHANGED <<lost, faults>>
    \/ /\ Failing(done)
       /\ lost' = lost \cup {h}
       /\ UNCHANGED doc \/ Patch(h, "rejected") \/ Patch(h, "done")
       /\ UNCHANGED settled

\* One result of the response.
Apply ==
    /\ apc = "apply"
    /\ \E h \in Named(results) :
          /\ ApplyResult(h, CallDone)
          /\ results' = [results EXCEPT ![h] = @ - 1]
    /\ apc' = IF results' = NoAnswers THEN Back ELSE "apply"
    /\ UNCHANGED <<setup, ctx, budget, queue, buffer, ipc, work, attempt,
                   spill, dlq, accepted, rescans>>

-----------------------------------------------------------------------------
\* A signal, or the end of a one-shot command, cancels the context.
Cancel ==
    /\ ctx = "live"
    /\ ctx' = "done"
    /\ UNCHANGED <<setup, serviceVars, leadVars, spill, faults>>

ProcessBatch ==
    \/ Filter \/ Spill \/ SpillFail \/ AnalyzeOK \/ AnalyzeFail \/ Backoff
    \/ DeadLetter \/ Apply

ServiceStep ==
    \/ \E h \in Leads : TryCapture(h) \/ UpsertDoc(h)
    \/ Ingest \/ IngestExit
    \/ Flush \/ RescanPending
    \/ DrainStart \/ DrainTake \/ BudgetExpires
    \/ ProcessBatch
    \/ Cancel
=============================================================================
