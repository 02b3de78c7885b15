----------------------------- MODULE LeadDedup ------------------------------
(***************************************************************************)
(* How workers keep one lead per hash_id: the tail of Processor.Process    *)
(* (Seen cache, in-flight map, Exists, reservation, paid gates, Upsert)    *)
(* over the buffered BulkStore and MongoDB (internal/pipeline/             *)
(* processor.go, internal/sink/mongo_bulk.go, internal/sink/mongo.go),     *)
(* with signals, crashes and restarts of the process.                      *)
(*                                                                         *)
(* A lead is its hash_id.  The text gates before the hash is computed      *)
(* change nothing that is modelled here.  The Seen cache is the set of     *)
(* hashes it would report; it may drop any of them at any time.            *)
(***************************************************************************)
EXTENDS Integers, FiniteSets, Sequences

CONSTANTS
    Workers,      \* worker goroutines that call Process
    Main,         \* the goroutine that runs flushStore on exit
    Hashes,       \* hash_ids
    BatchSize,    \* batchSize of the BulkStore
    BulkInner,    \* the wrapped store implements BulkWriter (no CRM webhook)
    MaxCalls,     \* bound on calls of Process
    MaxFaults,    \* bound on failing store operations
    MaxForgets,   \* bound on hashes dropped by the Seen cache
    MaxCrashes    \* bound on crashes

NoHash == "none"

ASSUME LeadDedupAssumption ==
    /\ IsFiniteSet(Workers)
    /\ Main \notin Workers
    /\ NoHash \notin Hashes
    /\ BatchSize \in Nat \ {0}
    /\ MaxCalls \in Nat /\ MaxFaults \in Nat
    /\ MaxForgets \in Nat /\ MaxCrashes \in Nat

ASSUME BulkInnerAssumption == BulkInner \in BOOLEAN

VARIABLES
    seen,       \* hashes the SeenCache reports
    inflight,   \* keys of Processor.hashInflight
    pc,         \* pc[w]: where worker w stands in Process
    hash,       \* hash[w]: the hash_id of its call
    batch,      \* BulkStore.batch
    flushing,   \* flushing[a]: the batch copy goroutine a is writing
    docs,       \* hash_ids with a document in MongoDB (survives a crash)
    ctx,        \* "done" once a signal cancelled every context, else "live"
    main,       \* "run", "stopping", "flushed", "exited"
    paid,       \* history: passes through the paid gates per hash
    counted,    \* history: hashes given to RecordLeadWritten
    lost,       \* history: batched hashes that were dropped unwritten
    forgotten,  \* history: hashes the Seen cache dropped or a restart lost
    calls, faults, forgets, crashes   \* bounds

history == <<paid, counted, forgotten>>
bounds == <<calls, faults, forgets, crashes>>
life == <<ctx, main>>
proc == <<pc, hash>>
vars == <<seen, inflight, proc, batch, flushing, docs, life, lost, history,
          bounds>>

Point == {"idle", "called", "missed", "pending_check", "store_check",
          "gates", "upsert", "flush", "accept"}
\* Between acquireHash and the deferred releaseHash.
Critical == Point \ {"idle", "called", "missed"}
Elements(s) == {s[i] : i \in DOMAIN s}

Boot ==
    /\ seen = {}
    /\ inflight = {}
    /\ pc = [w \in Workers |-> "idle"]
    /\ hash = [w \in Workers |-> NoHash]
    /\ batch = <<>>
    /\ flushing = [a \in Workers \cup {Main} |-> <<>>]
    /\ ctx = "live"
    /\ main = "run"

Init ==
    /\ Boot
    /\ docs = {}
    /\ lost = {} /\ counted = {} /\ forgotten = {}
    /\ paid = [h \in Hashes |-> 0]
    /\ calls = 0 /\ faults = 0 /\ forgets = 0 /\ crashes = 0

ctxDone == ctx = "done"
Up == main # "exited"

-----------------------------------------------------------------------------
(* Processor.Process from the hash on.                                     *)

At(w, p) == Up /\ pc[w] = p
Goto(w, p) == pc' = [pc EXCEPT ![w] = p] /\ UNCHANGED hash

Return(w) ==
    /\ pc' = [pc EXCEPT ![w] = "idle"]
    /\ hash' = [hash EXCEPT ![w] = NoHash]

\* Process returns; the deferred releaseHash runs.
ReturnReleasing(w) ==
    /\ Return(w)
    /\ inflight' = inflight \ {hash[w]}

\* A worker that finds its context alive calls Process.
Process(w, h) ==
    /\ At(w, "idle")
    /\ main = "run" /\ ~ctxDone
    /\ calls < MaxCalls
    /\ calls' = calls + 1
    /\ pc' = [pc EXCEPT ![w] = "called"]
    /\ hash' = [hash EXCEPT ![w] = h]
    /\ UNCHANGED <<seen, inflight, batch, flushing, docs, life, lost,
                   history, faults, forgets, crashes>>

\* The Seen check, which does not look at the context; a hit is a dedup
\* outcome and changes nothing.
SeenCheck(w) ==
    /\ At(w, "called")
    /\ \/ hash[w] \in seen /\ Return(w)
       \/ hash[w] \notin seen /\ Goto(w, "missed")
    /\ UNCHANGED <<seen, inflight, batch, flushing, docs, life, lost,
                   history, bounds>>

\* Fault: Store instead of LoadOrStore.
AcquireHashUnchecked(w) ==
    /\ At(w, "missed")
    /\ Goto(w, "pending_check")
    /\ inflight' = inflight \cup {hash[w]}
    /\ UNCHANGED <<seen, batch, flushing, docs, life, lost, history, bounds>>

\* acquireHash: LoadOrStore on the in-flight map.
AcquireHash(w) ==
    LET h == hash[w] IN
    /\ At(w, "missed")
    /\ IF h \in inflight
         THEN /\ Return(w)
              /\ UNCHANGED inflight
         ELSE /\ Goto(w, "pending_check")
              /\ inflight' = inflight \cup {h}
    /\ UNCHANGED <<seen, batch, flushing, docs, life, lost, history, bounds>>

\* Fault: Exists does not look at the pending batch.
ExistsIgnoresBatch(w) ==
    /\ At(w, "pending_check")
    /\ Goto(w, "store_check")
    /\ UNCHANGED <<seen, inflight, batch, flushing, docs, life, lost, history,
                   bounds>>

\* BulkStore.Exists, first half: under the mutex, the pending batch counts as
\* written.  A hit marks the hash and returns.
ExistsInBatch(w) ==
    LET h == hash[w] IN
    /\ At(w, "pending_check")
    /\ IF h \in Elements(batch)
         THEN /\ ReturnReleasing(w)
              /\ seen' = seen \cup {h}
         ELSE /\ Goto(w, "store_check")
              /\ UNCHANGED <<seen, inflight>>
    /\ UNCHANGED <<batch, flushing, docs, life, lost, history, bounds>>

\* BulkStore.Exists, second half: the query of the wrapped store, outside the
\* mutex.  Known: mark and return.  Unknown: mark, reserving the hash before
\* the paid gates.
ExistsInStore(w) ==
    LET h == hash[w] IN
    /\ At(w, "store_check")
    /\ ~ctxDone
    /\ seen' = seen \cup {h}
    /\ IF h \in docs
         THEN ReturnReleasing(w)
         ELSE Goto(w, "gates") /\ UNCHANGED inflight
    /\ UNCHANGED <<batch, flushing, docs, life, lost, history, bounds>>

\* Exists failed: reject with store_error, nothing reserved.
ExistsError(w) ==
    /\ At(w, "store_check")
    /\ ctxDone \/ faults < MaxFaults
    /\ faults' = IF ctxDone THEN faults ELSE faults + 1
    /\ ReturnReleasing(w)
    /\ UNCHANGED <<seen, batch, flushing, docs, life, lost, history, calls,
                   forgets, crashes>>

\* Semantic duplicate, geo, ICP, intent and MX checks, in that order: each
\* may reject; a reject leaves the reservation in place.
PaidGates(w) ==
    /\ At(w, "gates")
    /\ paid' = [paid EXCEPT ![hash[w]] = @ + 1]
    /\ \/ ReturnReleasing(w)
       \/ Goto(w, "upsert") /\ UNCHANGED inflight
    /\ UNCHANGED <<seen, batch, flushing, docs, life, lost, counted,
                   forgotten, bounds>>

\* Fault: a full batch is cleared and only the last lead is written.
UpsertDropsBatch(w) ==
    LET h == hash[w] IN
    /\ At(w, "upsert")
    /\ \/ /\ Goto(w, "flush")
          /\ flushing' = [flushing EXCEPT ![w] = <<h>>]
          /\ batch' = <<>>
       \/ /\ Len(batch) + 1 < BatchSize
          /\ Goto(w, "accept")
          /\ batch' = Append(batch, h)
          /\ UNCHANGED flushing
    /\ UNCHANGED <<seen, inflight, docs, life, lost, paid, counted, forgotten,
                   bounds>>

\* BulkStore.Upsert: append under the mutex; when the batch is full or the
\* flush interval has passed, take a copy and write it after unlocking.
Upsert(w) ==
    LET h == hash[w]
        full == Append(batch, h)
    IN
    /\ At(w, "upsert")
    /\ \/ /\ Goto(w, "flush")
          /\ flushing' = [flushing EXCEPT ![w] = full]
          /\ batch' = <<>>
       \/ /\ Len(full) < BatchSize
          /\ Goto(w, "accept")
          /\ batch' = full
          /\ UNCHANGED flushing
    /\ UNCHANGED <<seen, inflight, docs, life, lost, paid, counted, forgotten,
                   bounds>>

\* Fault: the hash is marked after the worker's task was cleared.
AcceptMarksCleared(w) ==
    /\ At(w, "accept")
    /\ counted' = counted \cup {hash[w]}
    /\ ReturnReleasing(w)
    /\ seen' = seen \cup {hash'[w]}
    /\ UNCHANGED <<batch, flushing, docs, life, lost, paid, forgotten,
                   bounds>>

\* Upsert returned nil: RecordLeadWritten, Seen.Mark, warm-path capture,
\* counters; then Process returns the accepted lead.
Accept(w) ==
    LET h == hash[w] IN
    /\ At(w, "accept")
    /\ counted' = counted \cup {h}
    /\ seen' = seen \cup {h}
    /\ ReturnReleasing(w)
    /\ UNCHANGED <<batch, flushing, docs, life, lost, paid, forgotten,
                   bounds>>

-----------------------------------------------------------------------------
(* flushBatch, run by the worker whose Upsert filled the batch, or by Main *)

\* How many leads one store call writes: a BulkWrite takes all of them, the
\* fallback loop upserts one at a time.
Chunk(s) == IF BulkInner THEN Elements(s) ELSE {Head(s)}

Rest(s) == IF BulkInner THEN <<>> ELSE Tail(s)

WriteChunk(a) ==
    /\ Up
    /\ flushing[a] # <<>>
    /\ ~ctxDone
    /\ docs' = docs \cup Chunk(flushing[a])
    /\ flushing' = [flushing EXCEPT ![a] = Rest(@)]

FlushWrite(w) ==
    /\ WriteChunk(w)
    /\ IF Rest(flushing[w]) = <<>> THEN Goto(w, "accept") ELSE UNCHANGED proc
    /\ UNCHANGED <<seen, inflight, batch, life, lost, history, bounds>>

\* The call fails: an unordered BulkWrite may have written some of the leads,
\* the fallback loop stops at the failing one; the rest of the copy is gone.
FailChunk(a) ==
    /\ Up
    /\ flushing[a] # <<>>
    /\ ctxDone \/ faults < MaxFaults
    /\ faults' = IF ctxDone THEN faults ELSE faults + 1
    /\ \E written \in SUBSET Elements(flushing[a]) :
          /\ ~BulkInner => written = {}
          /\ docs' = docs \cup written
          /\ lost' = lost \cup (Elements(flushing[a]) \ docs')
    /\ flushing' = [flushing EXCEPT ![a] = <<>>]

\* IsDuplicateKey looks into a BulkWrite's errors: it is true when another
\* writer stored one of the leads meanwhile and another lead failed for some
\* other reason.  (BulkUpsert itself swallows an error of duplicates alone,
\* and upsertDoc, which the fallback loop calls, any duplicate.)
DuplicateReported(s) == BulkInner /\ Elements(s) \cap docs # {}

\* "store upsert failed": Process returns without a reject reason; "mongo
\* duplicate key": a dedup outcome, which marks the hash of this call.
FlushFail(w) ==
    /\ FailChunk(w)
    /\ ReturnReleasing(w)
    /\ \/ UNCHANGED seen
       \/ DuplicateReported(flushing[w]) /\ seen' = seen \cup {hash[w]}
    /\ UNCHANGED <<batch, life, history, calls, forgets, crashes>>

-----------------------------------------------------------------------------
(* Process life cycle.                                                     *)

\* A signal cancels every context.
Signal ==
    /\ Up
    /\ ~ctxDone
    /\ ctx' = "done"
    /\ UNCHANGED <<seen, inflight, proc, batch, flushing, docs, main, lost,
                   history, bounds>>

\* Drain gave up on the workers after a signal, or the crawl ended and they
\* were joined.
Stop ==
    /\ main = "run"
    /\ ctxDone \/ \A w \in Workers : pc[w] = "idle"
    /\ main' = "stopping"
    /\ UNCHANGED <<seen, inflight, proc, batch, flushing, docs, ctx, lost,
                   history, bounds>>

\* flushStore: Flush takes the batch ...
MainFlush ==
    /\ main = "stopping"
    /\ main' = "flushed"
    /\ flushing' = [flushing EXCEPT ![Main] = batch]
    /\ batch' = <<>>
    /\ UNCHANGED <<seen, inflight, proc, docs, ctx, lost, history, bounds>>

\* ... and flushBatch writes it; an error is only logged.
MainFlushStep ==
    /\ \/ WriteChunk(Main) /\ UNCHANGED <<lost, faults>>
       \/ FailChunk(Main)
    /\ UNCHANGED <<seen, inflight, proc, batch, life, history, calls, forgets,
                   crashes>>

\* Run returned: the process is gone and with it whatever was not written.
Dropped == (Elements(batch) \cup UNION {Elements(flushing[a]) :
                                          a \in Workers \cup {Main}}) \ docs

\* The process ends.
Die ==
    /\ main' = "exited"
    /\ lost' = lost \cup Dropped
    /\ batch' = <<>>
    /\ flushing' = [a \in Workers \cup {Main} |-> <<>>]
    /\ pc' = [w \in Workers |-> "idle"]
    /\ hash' = [w \in Workers |-> NoHash]
    /\ inflight' = {}
    /\ UNCHANGED <<seen, docs, ctx, history, calls, faults, forgets>>

Exit ==
    /\ main = "flushed"
    /\ flushing[Main] = <<>>
    /\ Die
    /\ UNCHANGED crashes

Crash ==
    /\ Up
    /\ crashes < MaxCrashes
    /\ crashes' = crashes + 1
    /\ Die

\* The next process starts with an empty Seen cache.
Restart ==
    /\ main = "exited"
    /\ main' = "run"
    /\ ctx' = "live"
    /\ seen' = {}
    /\ forgotten' = forgotten \cup seen
    /\ UNCHANGED <<inflight, proc, batch, flushing, docs, lost, paid, counted,
                   bounds>>

\* TTL or capacity drops a hash from the Seen cache.
SeenForget(h) ==
    /\ Up
    /\ h \in seen
    /\ forgets < MaxForgets
    /\ forgets' = forgets + 1
    /\ seen' = seen \ {h}
    /\ forgotten' = forgotten \cup {h}
    /\ UNCHANGED <<inflight, proc, batch, flushing, docs, life, lost, paid,
                   counted, calls, faults, crashes>>

-----------------------------------------------------------------------------
WorkerStep(w) ==
    \/ \E h \in Hashes : Process(w, h)
    \/ SeenCheck(w)
    \/ AcquireHash(w)
    \/ ExistsInBatch(w)
    \/ ExistsInStore(w)
    \/ ExistsError(w)
    \/ PaidGates(w)
    \/ Upsert(w)
    \/ FlushWrite(w)
    \/ FlushFail(w)
    \/ Accept(w)

Next ==
    \/ \E w \in Workers : WorkerStep(w)
    \/ \E h \in Hashes : SeenForget(h)
    \/ Signal
    \/ Stop
    \/ MainFlush
    \/ MainFlushStep
    \/ Exit
    \/ Crash
    \/ Restart

Spec == Init /\ [][Next]_vars

-----------------------------------------------------------------------------
(* Properties.                                                             *)

\* Type correctness.
TypeOK ==
    /\ seen \subseteq Hashes
    /\ inflight \subseteq Hashes
    /\ pc \in [Workers -> Point]
    /\ hash \in [Workers -> Hashes \cup {NoHash}]
    /\ batch \in Seq(Hashes)
    /\ flushing \in [Workers \cup {Main} -> Seq(Hashes)]
    /\ docs \subseteq Hashes
    /\ ctx \in {"live", "done"}
    /\ main \in {"run", "stopping", "flushed", "exited"}
    /\ paid \in [Hashes -> Nat]
    /\ counted \subseteq Hashes
    /\ lost \subseteq Hashes
    /\ forgotten \subseteq Hashes
    /\ calls \in Nat /\ faults \in Nat /\ forgets \in Nat /\ crashes \in Nat

Holds(w, h) == pc[w] \in Critical /\ hash[w] = h

\* hashInflight is an exact lock table: a hash is in it just while one worker
\* is between acquireHash and releaseHash with it, on every return path.
InflightIsExclusive ==
    /\ \A h \in Hashes : h \in inflight <=> \E w \in Workers : Holds(w, h)
    /\ \A v, w \in Workers : \A h \in Hashes :
          Holds(v, h) /\ Holds(w, h) => v = w

\* mongo_bulk.go treats the "pending batch as written": however flushes and
\* workers interleave, one pending batch never holds the same hash twice.
BatchHoldsNoDuplicate ==
    \A i, j \in DOMAIN batch : batch[i] = batch[j] => i = j

InTransit == Elements(batch) \cup
             UNION {Elements(flushing[a]) : a \in Workers \cup {Main}}

\* A lead that was counted as written is in the batch, in a copy being
\* written, in MongoDB, or was dropped by a failing call or a dying process:
\* no interleaving of Upsert, Flush and exit makes it disappear otherwise.
CountedLeadsAreTracked == counted \subseteq docs \cup InTransit \cup lost

Window(h) == {w \in Workers : /\ hash[w] = h
                              /\ pc[w] \in {"missed", "pending_check",
                                                 "store_check", "gates"}}

\* The reservation bounds repeated paid work: as long as the Seen cache keeps
\* a hash, only workers that missed it before it was marked can still pay for
\* it, so a hash costs at most one pass per worker whatever the gates answer.
PaidAtMostOncePerWorker ==
    \A h \in Hashes \ forgotten : paid[h] <= Cardinality(Workers)

\* processor.go:647 says "Reserve hash before Gemini/MX so parallel workers
\* and MX rejects do not repeat API work": as long as the Seen cache keeps a
\* hash, the paid gates run for it once.
PaidAtMostOnce == \A h \in Hashes \ forgotten : paid[h] <= 1
=============================================================================
