# Verification of the BidShard lead miner

TLA+ models of the Go parser and its CRM store, TLC configurations that check
them on small instances, and TLAPS proofs of the properties that matter most,
for every value of the constants.  Every definition is translated from the code
under `src/`; `PROJECT.json` maps each one to its lines, names a mutated form of
the code for each checked property, and lists the hazards the properties aim at.

## The system

The parser finds leads.  Sources emit raw items into a bounded channel; a pool
of workers runs `Processor.Process` on each; what is accepted goes through a
buffered store into MongoDB, is linked to an entity, and is handed to background
services that analyse it with Gemini and notify a CRM.

| Part | Code (`src/internal/`) | State | Operations |
|---|---|---|---|
| Task pool | `pipeline/enqueue.go`, `worker.go`, `stats.go` | task channel, WaitGroup, round counters | TryEnqueue, worker loop, process, TrackTask, FinishTask |
| Scan rounds | `sources/coordinator.go`, `app/runner.go`, `app/shutdown.go`, `output/reporter.go` | scan token, round handle, statistics channel, contexts | tick, cancel and spawn a round, collect, wait, report, drain |
| One-shot drivers | `app/collect_once.go`, `app/deps.go`, `ingest/` | driver control point | collect or ingest, close, join, wait |
| Deduplication and store | `pipeline/processor.go`, `sink/mongo_bulk.go`, `sink/mongo.go`, `dedup/seen.go` | Seen cache, in-flight map, pending batch, documents | Process from the hash on, flush, exit, crash, restart |
| Entity graph | `entity/`, `sink/entity_store*.go`, `crm/store/entity_split.go`, `warmpath/entity_classify.go` | entity documents with `merge_generation`, `entity_id` of leads | RecordSighting, SplitEntityHash with rollback, classifyOne |
| Warm path | `warmpath/service.go`, `batch_worker.go`, `batch_spill.go`, `batch_engage_spill.go` | queue, buffer, spill files, jobs, state file, analysis status | capture, ingest, analyse, retry, dead-letter, rescan, submit and poll jobs, drain, restart |
| Outbound requests | `breaker/`, `httpclient/`, `proxybudget/`, `sources/{forum,supply,lander}/fetch.go` | breaker maps, proxy cooldowns, `currentProxy`, egress state and file | Get, Allow, RoundTrip, acquire, record, midnight, restart |
| Cold path | `coldpath/`, `sink/junk.go` | junk rows, shadow budget, report period | insert, analyse, boost, report |
| Gemini client | `gemini/` | request and token windows | wait for quota, call, record |
| CRM service | `crm/` (all but the split) | leads, outcomes, notification queue | webhook, admin API, bot |
| Telethon sidecar | `telethon/`, `src/sources/telegram/*.py` | socket, cursor, leases | accept, restart, advance |
| Headless queue | `app/headless_drain.go`, `sources/lander/headless_queue.go` | queue file, attempts | drain, remove |
| Feedback loops | `sourceregistry/`, `sourcedisable/`, `dorkdisable/`, `seedfeedback/`, `discover/`, `bgworker/`, `suggestions/` | counters, state files | count, disable, apply, tick |
| Pure text code | `scoring/`, `filter/`, `extract/`, `validate/`, `geo/`, `classify/` | none | functions of text |

The first seven are modelled; `PROJECT.json` has a row for each other part with
what is left out and why.

How the parts meet: a round of the coordinator (or a one-shot driver) owns the
sources and the round's statistics, and shares the task channel and the workers
with every other round.  A worker inside `Process` shares the Seen cache, the
in-flight map, the BulkStore and the entity collection with the other workers.
An accepted lead enters the warm path's queue while its document may still be in
the BulkStore's batch.  The CRM service is another process that writes the same
entity collection.  Sources reach the network through Get, which shares the
breaker, the proxy pool and the egress governor.

What makes this hard: goroutines that hand work over channels and check contexts
at different moments; two-phase critical sections (read, unlock, act) in the
BulkStore, the governor and the entity store; files that are truncated before
they are written or removed before their content is safe elsewhere; retries that
race a shutdown budget; a compare-and-swap protocol shared with writers that do
not follow it.

## Modules

| Module | Models |
|---|---|
| `TaskPool` | The task channel, TryEnqueue and the workers, at the grain of their preemption points.  No `Next` of its own: the two drivers below extend it. |
| `ScanRounds` | The resident process: scheduler, coordinator, one goroutine per round, reporter, Run and Drain, composed with `TaskPool`. |
| `OneShot` | `runCollectOnce` and `runIngestOnce`, composed with `TaskPool`. |
| `LeadDedup`, `LeadDedupProofs` | Process from the hash on, BulkStore and MongoDB, signals, crashes, restarts; proofs. |
| `EntityGraph` | The entity collection under workers, a split and a classifier. |
| `WarmService` | `Service` of the warm path: capture, ingestLoop, analyzeLoop. |
| `WarmPath` | `WarmService` composed with the BatchWorker, its files and jobs, and restarts. |
| `Outbound`, `OutboundProofs` | Gets of one source through breaker, transport, pool and governor; proofs. |
| `MC*` | Instances for TLC: model values, sets, symmetry.  `MCProgress` puts `OneShot` and `ScanRounds` side by side. |

State and actions follow the code.  A variable is named after the field or
channel it stands for and its comment says which; a goroutine's position is a
`pc` whose labels are the points where another goroutine can run: a channel
operation, a lock taken or released, a call of MongoDB, Gemini or the file
system.  Everything the code does between two such points is one action.

What is abstracted:

- A lead, task or event is its `hash_id` (a model value); texts, scores and
  wording are left out.
- Verdicts of text filters and paid checks are free choices.
- `TaskPool` counts the tasks of a round in the channel; tasks of a round are
  alike.  Reject reasons are one counter, "settled".
- The Seen cache of `LeadDedup` is the set of hashes it would report; time to
  live and eviction are `SeenForget`, which may drop any of them at any time.
- `EntityGraph` gives a lead a fixed event time, so `first_seen` of a document
  follows from its links, and keys that depend on the caller: a lead that a gate
  drops is known without what the enrichment found.  Heat, sources, matched words
  and `semantic_cluster` are left out; the canonical lead that heat picks is any
  row of the timeline.
- `Outbound` keeps deadlines as the time that is left.  The round-robin choice
  among the proxies that happen to be available is any of them.
- A call of an external system succeeds or fails, and a write that fails may have
  been applied all the same (a lost reply, a passed deadline) or in part (an
  unordered BulkWrite, an append, `os.WriteFile` after its truncation).
- An answer of Gemini may leave out a lead and may name one more than once.

Names that begin like a definition and follow a comment "Fault:" are its mutated
form.  No specification uses them.

## Runs

| Run | Question | Instance |
|---|---|---|
| `ScanRounds` | Do rounds never overlap, does `state.Wait` mean finished, is every statistics snapshot complete and final? | 2 rounds, 2 workers, 1 source of 2 items, channel of 1, shutdown anywhere |
| `Progress` | One-shot drivers: no send on a closed channel, complete accounting before the report, termination.  Resident parser: does every round return, does Drain, does a ScanOnce process exit? | one-shot: 2 sources, 2 workers, 2 items, channel of 1; resident: 2 rounds, 1 worker, 1 item, both modes |
| `ScanRoundsNegative` | (violation) Can a task be finished before it is tracked? | 1 round, 1 worker, 1 item |
| `LeadDedup` | Exclusive in-flight map, no duplicate in a batch, counted leads tracked | 2 workers, 2 hashes, 4 calls, batch of 3, one fault, one forgotten hash, one crash |
| `PaidTwice` | (violation) Can two workers pay for one hash? | 2 workers, 1 hash, 2 calls, no fault |
| `Entity` | Do leads and entities link each other, are documents coherent, are attempts spent on conflicts only, does a rollback restore, is a stale classification flagged? | 2 workers, 3 leads over a site and a company; 3 sightings, 1 split and 1 fault, or 2 sightings, 1 split, 1 classification and 1 fault |
| `SplitRollback` | (violation) Does a failing split always remove its new row? | 2 sightings, 1 split, 1 fault |
| `WarmPath` | Is every event held, settled or given up; drain and settlement | both modes, 2 leads and 2 faults (1 of each in batch mode), with and without a dead-letter writer |
| `WarmBatch` | The same across a crash, with a rescan and a double answer; is "done" final? | batch mode, 1 lead, 1 rescan, 1 fault, 1 crash |
| `WarmDrain` | (violation) Does the drain end once its budget is spent? | sync mode, 2 leads, no faults |
| `Outbound` | Breaker maps, overshoot of the recorded egress, state file | 2 Gets, 2 proxies, 3 fetchers, every answer, 1 redirect, midnight and restart anywhere |
| `OutboundLive` | Does every Get return, does an open circuit close? | 2 Gets, 1 proxy |

Deadlock checking is off where the modelled process really stops or a bound on
calls is used up, and on for `Outbound` and `OutboundLive`.

Why the bounds are enough.  The properties are about pairs: two workers on one
hash, a worker and a flush, two rounds, a split and one other writer, two Gets.
Two of each suffice for every pairwise interleaving.  The batch of three in
`LeadDedup` lets one worker flush what another has counted; the channel of one
in `ScanRounds` fills; `MaxSightings = 2` with three leads trims a timeline;
`MaxAttempts = 2` lets a sighting run out of attempts; the two breaker
thresholds differ; one byte of cap and one byte per response make two admitted
Gets overshoot.  One fault and one crash at every point cover single failures;
`WarmPath` allows two faults so that `RetryMax = 2` is exhausted.  `ScanRounds`
uses one source, so the errgroup limit of the coordinator is a constant that is
not exercised.  `OutboundLive` counts no egress.  Where TLC's bound is a worry,
`LeadDedup` and `Outbound` are proved without it.

Fairness is stated in the modules next to the formula.  Runnable goroutines are
scheduled again (the Go scheduler), calls with a timeout return, timers fire, a
contended `sync.Mutex` is handed over, `select` does not pass over a ready case
for ever.  Ticks, signals, cancellations, restarts and favourable answers are not
assumed.  `OutboundLive` assumes that the source keeps fetching: the breaker
notices an expiry only in `Allow`.  `WarmPath` assumes that a Gemini Batch job is
answered in the end.

## What the runs show

All invariants and liveness properties of the passing runs hold, and each fails
under the mutation of the code named in `PROJECT.json`.  The exceptions written
into the properties are what the code does not ensure:

- `CountedLeadsAreTracked` allows a lead to be lost by a failing flush or a dying
  process: `flushBatch` drops its whole copy on an error, also leads that other
  workers have counted as written, marked as seen and queued for analysis.
- `LeadIsLinked` excepts entities whose document a split replaced with what it
  had read before another merge, or rebuilt from a trimmed timeline, or failed on
  half way.  `SplitEntityHash` writes without a generation, and its rollback uses
  the context whose deadline may be the reason for it.
- `RollbackRestores` is about a split that nobody else wrote under and whose
  rollback calls succeed; a lead patch that failed after it was applied leaves the
  lead pointing to the deleted entity.
- `StaleClassIsForced` is about the fields `clearEntityClassification` clears, and
  excepts an entity whose classifier had read it before the split wrote it: its
  patch then brings the classification of the detached lead back, unflagged.
- `DoneIsFinal` excepts a lead that one answer named twice: the second result of a
  core job may set it back to "pending".
- `AcceptedIsSettled` excepts a torn spill line, which blocks the file.
- `ReturnsUnlessContextEnds` excepts an ended context: `runCollectOnce` then
  waits for ever for tasks that the workers left in the channel.
- `RestartKeepsTotal` allows the state file to fall behind after a write that
  failed, and to be lost when the process dies inside a write; it never holds more
  than was counted.
- `OvershootIsBounded` is about what `Record` counts.  A response without a
  positive `ContentLength` is not counted at all.
- Another Get may replace `currentProxy` before the transport reads it; a blocked
  response then cools down a proxy that did not carry it.  No property is stated
  about it.
- The upsert of an accepted lead stores no `analysis_status`, so the rescan for
  pending leads cannot find a dead-lettered lead; the model has the same gap.

Four runs show a disagreement between the code and what the repository says of
it.

- `ScanRoundsNegative`: TryEnqueue publishes a task before TrackTask, so a fast
  worker's FinishTask can drive the WaitGroup below zero.
- `WarmDrain`: with the drain budget spent, `requeueFront` and `flushAll` pass one
  batch back and forth without end.
- `PaidTwice`: the Seen check is not repeated after `acquireHash`, so a worker that
  missed the hash takes it after the first worker's reject and pays again, against
  "parallel workers and MX rejects do not repeat API work" (`processor.go:647`).
- `SplitRollback`: the rollback of a split runs on the context of the failed call;
  when that deadline has passed, the new row stays, against "Rolls back the new
  entity row if source update or lead patch fails" (`entity_split.go:24`).

## Proofs

`tlapm` checks both proof modules to the last leaf.  They use the named
assumptions of the modules they extend and put no bound on workers, hashes, Gets,
proxies, thresholds, calls, faults or crashes.

`LeadDedupProofs`, from `LeadDedupAssumption` and `BulkInnerAssumption`:

- `TypeCorrect` proves `TypeOK` with `WorkerShape`: a worker has a hash exactly
  while it is inside Process, and a batch copy exactly while it flushes, its own
  lead last.
- `Locks` proves `InflightIsExclusive`, which is inductive over `TypeInv`.
- `BatchUnique` needs `NotBatched`: past the first half of `Exists` a worker's
  hash is not in the batch.  It is kept because the lock table lets no other
  worker put that hash there.
- `CountedTracked` needs `TrackInv`: a worker about to accept already has its
  lead tracked, and Main holds a copy only between flushStore and exit.
- `PaidBounded` proves `PaidAtMostOncePerWorker`, what is left of the claim that
  `PaidTwice` refutes.  It needs `PaidInv`: what was paid for a hash plus the
  workers that can still pay for it is at most the number of workers once the hash
  is in the cache, and nothing was paid before.  The step of `PaidGates` moves one worker
  from the second count to the first.

`OutboundProofs`, from `OutboundAssumption`, proves one inductive invariant `IInv`
and from it `TypeCorrect`, `BreakerCoherent`, `OvershootBounded` and
`TotalSurvivesRestart`.  The breaker's and the file's properties are inductive
together with the types: whoever ends a save either equates file and total or
leaves a mark, and a new day empties both.
`OvershootIsBounded` is already stated in its inductive form: each admitted Get
reserves one response, so `Allow` adds a reservation below the cap and `Record`
turns one into bytes.

Only model-checked: `ScanRounds`, `OneShot`, `EntityGraph`, `WarmPath`, and all
liveness.  Liveness under fairness, ENABLED and induction over recursively
defined data are outside the prover's reach.

## Not modelled

See the components with status `not_modelled` in `PROJECT.json`.  The text gates,
scoring and extraction are functions of text over keyword tables, which small
instances do not represent.  Crawlers are single `Collect` calls whose effect on
the pipeline `ScanRounds` and `OneShot` have.  Metrics, logs, exports, command
line, deployment and profiling change no state that a property is about.

## Plan

In order of importance; hazards already listed for them carry a note until a
property covers them.

1. `EntityGraph` proofs: `TypeOK`, `AttemptsNeedConflicts`, then `LeadIsLinked`
   (snapshots of an entity outside `unsafe` with equal generations have equal
   links).
2. Gemini quota limiter: the separate critical sections of `checkRPD`,
   `checkTPM`, `Wait` and the recording; bounded overshoot; proof in the style of
   `OutboundProofs`.
3. Cold path: batching, analyse-save-boost order under failures, shadow budget,
   report periods.
4. CRM service: webhook replay, notification queue, outcome updates.
5. Telethon sidecar and Python scraper: accept and restart, cursor advance
   against emission, leases; an abstract specification "no message skipped" with
   the cursor protocol as its refinement.
6. Headless queue; source registry, automatic disabling, skip-if-running
   background jobs.
7. An abstract store ("a counted lead is stored or given up") that `LeadDedup`
   implements, and the composition of `LeadDedup` with `WarmService`, where an
   event can overtake the document it is about.
