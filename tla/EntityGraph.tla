----------------------------- MODULE EntityGraph ----------------------------
(***************************************************************************)
(* The entity graph: workers record sightings of leads with a compare-and- *)
(* swap on merge_generation (internal/entity/sighting_loop.go, merge.go,   *)
(* internal/sink/entity_store*.go), an operator splits a lead off a false  *)
(* merge with unconditional writes and a rollback (internal/crm/store/     *)
(* entity_split.go, internal/entity/split.go), and the warm path           *)
(* classifies entities with $set patches (internal/warmpath/               *)
(* entity_classify.go).                                                    *)
(*                                                                         *)
(* A lead is its hash_id with a known posting time; which identity keys    *)
(* ResolveKeys finds for it depends on what the caller passes.  Heat,      *)
(* sources and matched words are left out; what heat decides here, the     *)
(* canonical hash, is any row of the timeline.  A write that fails may     *)
(* have been applied.                                                      *)
(***************************************************************************)
EXTENDS Integers, FiniteSets

CONSTANTS
    Workers,       \* goroutines that call RecordSighting
    Hashes,        \* hash_ids of leads
    Keys,          \* identity keys; the id of an entity hashes its primary key
    KeysOf,        \* KeysOf[k][h]: the keys of h in a sighting of kind k
    Rank,          \* Rank[k]: place of a key in keyLess, strongest first
    Posted,        \* Posted[h]: rank of h by event time, then by hash_id
    MaxAttempts,   \* DefaultMergeMaxAttempts
    MaxSightings,  \* MaxEntitySightings
    Budgets,       \* bounds on calls and failures: each is explored
    NoDoc,         \* no document
    NoHash,        \* the empty hash_id
    NoEntity,      \* the empty entity_id
    NoLead         \* nothing stored, or nothing buffered

ASSUME EntityGraphAssumption ==
    /\ IsFiniteSet(Hashes)
    /\ KeysOf \in [{"accept", "dup", "split"} -> [Hashes -> SUBSET Keys]]
    /\ Rank \in [Keys -> Nat]
    /\ \A j, k \in Keys : Rank[j] = Rank[k] => j = k
    /\ Posted \in [Hashes -> Nat]
    /\ \A g, h \in Hashes : Posted[g] = Posted[h] => g = h
    /\ MaxAttempts \in Nat \ {0}
    /\ MaxSightings \in Nat \ {0, 1}
    /\ IsFiniteSet(Budgets)
    /\ Budgets \subseteq
         [records : Nat, splits : Nat, classifies : Nat, faults : Nat]

\* entityIDFromPrimary and, for a detached lead, entityIDFromPrimaryWithSuffix.
Ids == Keys \union (Keys \X Hashes)

\* The fields of an EntityDoc that the properties tell apart.  class stands for
\* the fields that clearEntityClassification clears and is the set of rows they
\* were computed from.
Docs ==
    [aliases : SUBSET Keys, hashes : SUBSET Hashes, rows : SUBSET Hashes,
     count : Nat, gen : Nat, canonical : Hashes \union {NoHash},
     class : SUBSET Hashes, force : {"yes", "no"}]

ASSUME NamesAssumption ==
    /\ {NoHash, NoEntity, NoLead} \intersect (Ids \union Hashes) = {}
    /\ NoEntity # NoLead
    /\ NoDoc \notin Docs

VARIABLES
    docs,      \* docs[e]: the stored EntityDoc of entity_id e, or NoDoc
    leads,     \* leads[h]: entity_id of the stored lead, NoEntity or NoLead
    buffered,  \* buffered[h]: the same of the lead that waits to be written
    accepted,  \* hashes whose lead has been accepted
    rec,       \* rec[w]: the RecordSighting call of worker w
    sp,        \* the SplitEntityHash call
    cl,        \* the classifyOne call
    unsafe,    \* history: entities a split wrote over another's write,
               \* truncated, or left half done
    overtaken, \* history: entities a split wrote under their classifier
    records, splits, classifies, faults   \* bounds

graph == <<docs, leads>>
bounds == <<records, splits, classifies, faults>>
history == <<unsafe, overtaken>>
vars == <<docs, leads, buffered, accepted, rec, sp, cl, history, bounds>>

Stored(d) == d # NoDoc
Linked(e) == IF Stored(docs[e]) THEN docs[e].hashes ELSE {}
\* trimEntitySightings: the MaxSightings newest rows.
Newest(rows) ==
    {h \in rows : Cardinality({g \in rows : Posted[g] > Posted[h]})
                    < MaxSightings}
\* first_seen of c is not before first_seen of d.
SeenNoLater(d, c) ==
    \E g \in d.hashes : \A h \in c.hashes : Posted[g] <= Posted[h]

PrimaryKey(keys) == CHOOSE k \in keys : \A j \in keys : Rank[k] <= Rank[j]
-----------------------------------------------------------------------------
(* Documents *)

NewDoc(h, keys) ==
    [aliases |-> keys, hashes |-> {h}, rows |-> {h}, count |-> 1,
     gen |-> 0, canonical |-> h, class |-> {}, force |-> "no"]

\* Fault: a re-sighting bumps sighting_count.
RefreshSightingCounts(d, h, c) ==
    [d EXCEPT !.rows = Newest(d.rows \union {h}),
              !.count = d.count + 1,
              !.gen = d.gen + 1,
              !.canonical = c]

\* A lead already linked: only the timeline is refreshed.
RefreshSighting(d, h, c) ==
    [d EXCEPT !.rows = Newest(d.rows \union {h}),
              !.gen = d.gen + 1,
              !.canonical = c]

MergeSighting(d, h, keys, c) ==
    IF h \in d.hashes
    THEN RefreshSighting(d, h, c)
    ELSE [d EXCEPT !.aliases = d.aliases \union keys,
                   !.hashes = d.hashes \union {h},
                   !.rows = Newest(d.rows \union {h}),
                   !.count = d.count + 1,
                   !.gen = d.gen + 1,
                   !.canonical = c]

\* Buyer role and heat may keep the canonical hash or move it to any row.
Canonicals(d, h) ==
    {d.canonical} \union ({h} \ d.hashes) \union Newest(d.rows \union {h})

\* Fault: the sighting that leaves is subtracted twice.
DetachedDocOffByOne(d, h, c) ==
    [d EXCEPT !.hashes = d.rows \ {h},
              !.rows = d.rows \ {h},
              !.count = Cardinality(d.rows \ {h}) - 1,
              !.gen = d.gen + 1,
              !.canonical = c,
              !.class = {}]

\* Fault: clearEntityClassification is not called.
DetachedDocKeepsClass(d, h, c) ==
    [d EXCEPT !.hashes = d.rows \ {h},
              !.rows = d.rows \ {h},
              !.count = Cardinality(d.rows \ {h}),
              !.gen = d.gen + 1,
              !.canonical = c]

\* What is left of d without h: links and counters are rebuilt from the rows,
\* the aliases stay, and so does semantic_cluster, which is not modelled; the
\* other fields of the classification are cleared.
DetachedDoc(d, h, c) ==
    [d EXCEPT !.hashes = d.rows \ {h},
              !.rows = d.rows \ {h},
              !.count = Cardinality(d.rows \ {h}),
              !.gen = d.gen + 1,
              !.canonical = c,
              !.class = {}]

DetachedCanonicals(d, h) ==
    IF d.rows = {h} THEN {NoHash}
    ELSE (d.rows \ {h}) \union ({d.canonical} \ {h})

EntityIDForSplit(keys, h, e) ==
    LET k == PrimaryKey(keys) IN IF k # e THEN k ELSE <<k, h>>
-----------------------------------------------------------------------------
(* Initial state *)

IdleRecord ==
    [pc |-> "idle", hash |-> NoHash, keys |-> {}, mode |-> "dup", pass |-> 1,
     attempt |-> 0, at |-> NoEntity, doc |-> NoDoc, foreign |-> 0]

IdleSplit ==
    [pc |-> "idle", src |-> NoEntity, new |-> NoEntity, hash |-> NoHash,
     backup |-> NoDoc, after |-> NoDoc, ctx |-> "live", clean |-> "yes",
     moved |-> "no"]

IdleClassify == [pc |-> "idle", at |-> NoEntity, hashes |-> {}]

Init ==
    /\ docs = [e \in Ids |-> NoDoc]
    /\ leads = [h \in Hashes |-> NoLead]
    /\ buffered = [h \in Hashes |-> NoLead]
    /\ accepted = {}
    /\ rec = [w \in Workers |-> IdleRecord]
    /\ sp = IdleSplit
    /\ cl = IdleClassify
    /\ unsafe = {} /\ overtaken = {}
    /\ records = 0 /\ splits = 0 /\ classifies = 0 /\ faults = 0

\* RecordSighting, SplitEntityHash and classifyOne calls, and failing calls or
\* killed operators, stay within one of the budgets.
WithinBudget(r, s, c, f) ==
    \E b \in Budgets : /\ r <= b.records /\ s <= b.splits
                       /\ c <= b.classifies /\ f <= b.faults

Fault ==
    /\ WithinBudget(records, splits, classifies, faults + 1)
    /\ faults' = faults + 1

\* The other calls learn that a generation or a document changed.
Counted(r) ==
    IF r.pc # "idle" /\ r.foreign < MaxAttempts
    THEN [r EXCEPT !.foreign = r.foreign + 1]
    ELSE r
Noticed(e) ==
    IF sp.pc # "idle" /\ e \in {sp.src, sp.new}
    THEN [sp EXCEPT !.clean = "no"]
    ELSE sp
-----------------------------------------------------------------------------
(* RecordSighting *)

\* Process records a sighting of a lead it is about to store, with the names
\* the enrichment found, and one each time a deduplication gate drops a lead:
\* without the names, or with them when the upsert met a duplicate key.
\* Without a key RecordSightingCore returns at once and links nothing.
RecordBegin(w, h, mode, kind) ==
    /\ rec[w].pc = "idle"
    /\ WithinBudget(records + 1, splits, classifies, faults)
    /\ \/ mode = "accept" /\ kind = "accept" /\ h \notin accepted
       \/ mode = "dup" /\ kind = "accept" /\ h \in accepted
       \/ mode = "dup" /\ kind = "dup"
    /\ accepted' = IF mode = "accept" THEN accepted \union {h} ELSE accepted
    /\ \/ /\ KeysOf[kind][h] # {}
          /\ rec' = [rec EXCEPT ![w] =
                       [IdleRecord EXCEPT !.pc = "find", !.hash = h,
                          !.keys = KeysOf[kind][h], !.mode = mode]]
          /\ UNCHANGED buffered
       \/ /\ KeysOf[kind][h] = {}
          /\ buffered' = IF mode = "accept"
                         THEN [buffered EXCEPT ![h] = NoEntity] ELSE buffered
          /\ UNCHANGED rec
    /\ records' = records + 1
    /\ UNCHANGED <<graph, sp, cl, history, splits, classifies, faults>>

\* FindExisting: the entity seen first among those with the candidate id or a
\* common alias.  The first pass is MergeSightingAtomic; when it finds nothing
\* or loses the compare-and-swap, recordSightingOnce looks again.
Candidates(keys) ==
    {e \in Ids : /\ Stored(docs[e])
                 /\ \/ e = PrimaryKey(keys)
                    \/ docs[e].aliases \intersect keys # {}}

FindExisting(w) ==
    LET r == rec[w] IN
    /\ r.pc = "find"
    /\ \/ \E e \in Candidates(r.keys) :
            /\ \A o \in Candidates(r.keys) : SeenNoLater(docs[e], docs[o])
            /\ rec' = [rec EXCEPT ![w].pc = "replace", ![w].at = e,
                                  ![w].doc = docs[e]]
       \/ /\ Candidates(r.keys) = {} /\ r.pass = 1
          /\ rec' = [rec EXCEPT ![w].pass = 2]
       \/ /\ Candidates(r.keys) = {} /\ r.pass = 2
          /\ rec' = [rec EXCEPT ![w].pc = "insert",
                                ![w].at = PrimaryKey(r.keys)]
    /\ UNCHANGED <<graph, buffered, accepted, sp, cl, history, bounds>>

\* The processor keeps the entity_id for the lead it stores next.
Returned(r, id) ==
    IF r.mode = "accept" THEN [buffered EXCEPT ![r.hash] = id] ELSE buffered

\* A store write by worker w to entity e.
Wrote(w, e, d) ==
    /\ docs' = [docs EXCEPT ![e] = d]
    /\ rec' = [v \in Workers |-> IF v = w THEN IdleRecord ELSE Counted(rec[v])]
    /\ buffered' = Returned(rec[w], e)
    /\ sp' = Noticed(e)

\* Fault: ReplaceOne filters on entity_id alone.
SameGenerationUnchecked(r) == Stored(docs[r.at])

\* Fault: the generation is taken after the merge has bumped it.
SameGenerationBumped(r) ==
    Stored(docs[r.at]) /\ docs[r.at].gen = r.doc.gen + 1

SameGeneration(r) == Stored(docs[r.at]) /\ docs[r.at].gen = r.doc.gen

ReplaceMerged(w) ==
    LET r == rec[w] IN
    /\ r.pc = "replace" /\ SameGeneration(r)
    /\ \E c \in Canonicals(r.doc, r.hash) :
         Wrote(w, r.at, MergeSighting(r.doc, r.hash, r.keys, c))
    /\ UNCHANGED <<leads, accepted, cl, history, bounds>>

\* Pass 1 goes on to pass 2; pass 2 ends the attempt.
TryAgain(r) ==
    IF r.pass = 1
    THEN [r EXCEPT !.pc = "find", !.pass = 2, !.at = NoEntity, !.doc = NoDoc]
    ELSE [r EXCEPT !.pc = IF r.attempt + 1 < MaxAttempts THEN "find"
                          ELSE "conflict",
                   !.pass = 1, !.attempt = r.attempt + 1,
                   !.at = NoEntity, !.doc = NoDoc]

ReplaceConflict(w) ==
    /\ rec[w].pc = "replace" /\ ~SameGeneration(rec[w])
    /\ rec' = [rec EXCEPT ![w] = TryAgain(rec[w])]
    /\ UNCHANGED <<graph, buffered, accepted, sp, cl, history, bounds>>

InsertNew(w) ==
    LET r == rec[w] IN
    /\ r.pc = "insert" /\ ~Stored(docs[r.at])
    /\ Wrote(w, r.at, NewDoc(r.hash, r.keys))
    /\ UNCHANGED <<leads, accepted, cl, history, bounds>>

InsertDuplicate(w) ==
    /\ rec[w].pc = "insert" /\ Stored(docs[rec[w].at])
    /\ rec' = [rec EXCEPT ![w] = TryAgain(rec[w])]
    /\ UNCHANGED <<graph, buffered, accepted, sp, cl, history, bounds>>

\* The last attempt lost, or a failing call: the lead is stored unlinked.
RecordError(w) ==
    /\ \/ rec[w].pc = "conflict" /\ UNCHANGED faults
       \/ rec[w].pc \in {"find", "replace", "insert"} /\ Fault
    /\ rec' = [rec EXCEPT ![w] = IdleRecord]
    /\ buffered' = Returned(rec[w], NoEntity)
    /\ UNCHANGED <<graph, accepted, sp, cl, history, records, splits,
                   classifies>>

\* A write that is reported as failed although it was applied.
RecordLostReply(w) ==
    LET r == rec[w] IN
    /\ Fault
    /\ \/ /\ r.pc = "replace" /\ SameGeneration(r)
          /\ \E c \in Canonicals(r.doc, r.hash) :
               docs' = [docs EXCEPT ![r.at] =
                          MergeSighting(r.doc, r.hash, r.keys, c)]
       \/ /\ r.pc = "insert" /\ ~Stored(docs[r.at])
          /\ docs' = [docs EXCEPT ![r.at] = NewDoc(r.hash, r.keys)]
    /\ rec' = [v \in Workers |-> IF v = w THEN IdleRecord ELSE Counted(rec[v])]
    /\ buffered' = Returned(r, NoEntity)
    /\ sp' = Noticed(r.at)
    /\ UNCHANGED <<leads, accepted, cl, history, records, splits, classifies>>

\* The store writes the accepted lead, now or with a later batch.
WriteLead(h) ==
    /\ buffered[h] # NoLead
    /\ leads' = [leads EXCEPT ![h] = buffered[h]]
    /\ buffered' = [buffered EXCEPT ![h] = NoLead]
    /\ UNCHANGED <<docs, accepted, rec, sp, cl, history, bounds>>
-----------------------------------------------------------------------------
(* SplitEntityHash *)

\* GetEntity, getLeadForSplit, entitySightingByHash and SplitHashFromEntity.
SplitRead(e, h) ==
    /\ sp.pc = "idle"
    /\ WithinBudget(records, splits + 1, classifies, faults)
    /\ leads[h] # NoLead /\ KeysOf["split"][h] # {}
    /\ Stored(docs[e]) /\ h \in docs[e].hashes /\ h \in docs[e].rows
    /\ \E c \in DetachedCanonicals(docs[e], h) :
         sp' = [IdleSplit EXCEPT
                  !.pc = "check", !.src = e,
                  !.new = EntityIDForSplit(KeysOf["split"][h], h, e),
                  !.hash = h, !.backup = docs[e],
                  !.after = DetachedDoc(docs[e], h, c)]
    /\ splits' = splits + 1
    /\ UNCHANGED <<graph, buffered, accepted, rec, cl, history, records,
                   classifies, faults>>

\* GetEntity to SplitHashFromEntity are one step; the calls after it run on
\* writeCtx and succeed only while it lives.
SplitAt(label) == sp.pc = label /\ sp.ctx = "live"
SplitWrote(e, d) ==
    /\ docs' = [docs EXCEPT ![e] = d]
    /\ rec' = [w \in Workers |-> Counted(rec[w])]

\* The new id must be free; a target that exists is for a manual merge.
SplitCheck ==
    /\ SplitAt("check")
    /\ sp' = IF Stored(docs[sp.new]) THEN IdleSplit
             ELSE [sp EXCEPT !.pc = "insert"]
    /\ UNCHANGED <<graph, buffered, accepted, rec, cl, history, bounds>>

SplitInsert ==
    /\ SplitAt("insert")
    /\ \/ /\ Stored(docs[sp.new])
          /\ sp' = IdleSplit
          /\ UNCHANGED <<docs, rec>>
       \/ /\ ~Stored(docs[sp.new])
          /\ SplitWrote(sp.new, NewDoc(sp.hash, KeysOf["split"][sp.hash]))
          /\ sp' = [sp EXCEPT !.pc = "source"]
    /\ UNCHANGED <<leads, buffered, accepted, cl, history, bounds>>

SourceDeleted == sp.after.hashes = {}
\* The unconditional write of the source loses what others linked since the
\* read, and links whose row was trimmed; a deleted id starts again at
\* generation 0.
SourceUnsafe ==
    \/ ~Stored(docs[sp.src]) \/ docs[sp.src].gen # sp.backup.gen
    \/ sp.backup.hashes # sp.backup.rows
    \/ SourceDeleted

\* ReplaceOne does not insert.
SourceWritten ==
    IF SourceDeleted \/ ~Stored(docs[sp.src]) THEN NoDoc ELSE sp.after

SplitSource ==
    /\ SplitAt("source")
    /\ SplitWrote(sp.src, SourceWritten)
    /\ sp' = [sp EXCEPT !.pc = "lead"]
    /\ unsafe' = IF SourceUnsafe THEN unsafe \union {sp.src} ELSE unsafe
    /\ overtaken' = IF cl.pc # "idle" /\ cl.at = sp.src
                    THEN overtaken \union {sp.src} ELSE overtaken
    /\ UNCHANGED <<leads, buffered, accepted, cl, bounds>>

SplitLead ==
    /\ SplitAt("lead")
    /\ leads' = [leads EXCEPT ![sp.hash] = sp.new]
    /\ sp' = [sp EXCEPT !.pc = "force_new"]
    /\ UNCHANGED <<docs, buffered, accepted, rec, cl, history, bounds>>

\* markClassifyForce is a $set: it leaves merge_generation alone.
MarkForce(e) ==
    docs' = IF Stored(docs[e]) THEN [docs EXCEPT ![e].force = "yes"] ELSE docs

SplitForceNew ==
    /\ SplitAt("force_new")
    /\ MarkForce(sp.new)
    /\ sp' = IF SourceDeleted THEN IdleSplit
             ELSE [sp EXCEPT !.pc = "force_source"]
    /\ UNCHANGED <<leads, buffered, accepted, rec, cl, history, bounds>>

SplitForceSource ==
    /\ SplitAt("force_source")
    /\ MarkForce(sp.src)
    /\ sp' = IdleSplit
    /\ UNCHANGED <<leads, buffered, accepted, rec, cl, history, bounds>>

\* A call of the split fails: it may have been applied, and the reason may be
\* that writeCtx has expired, after which the calls that are left fail without
\* being sent.
SplitCallFails(applied) ==
    /\ sp.pc \notin {"idle", "failed"}
    /\ \/ sp.ctx = "live" /\ Fault
       \/ sp.ctx = "expired" /\ ~applied /\ UNCHANGED faults

\* The context after it.
ContextAfter == IF sp.ctx = "live" THEN {"live", "expired"} ELSE {"expired"}

\* Before the source write, and behind the lead write, the error is returned
\* as it is.
SplitFail(applied) ==
    /\ SplitCallFails(applied)
    /\ sp.pc \in {"check", "insert", "force_new", "force_source"}
    /\ IF ~applied THEN UNCHANGED <<docs, rec>>
       ELSE \/ /\ sp.pc = "insert" /\ ~Stored(docs[sp.new])
               /\ SplitWrote(sp.new, NewDoc(sp.hash, KeysOf["split"][sp.hash]))
            \/ sp.pc = "force_new" /\ MarkForce(sp.new) /\ UNCHANGED rec
            \/ sp.pc = "force_source" /\ MarkForce(sp.src) /\ UNCHANGED rec
    /\ sp' = IdleSplit
    /\ UNCHANGED <<leads, buffered, accepted, cl, history, records, splits,
                   classifies>>

\* A failing source or lead write starts rollbackSplitEntity on the same
\* context.
SplitFailRollback(applied) ==
    /\ SplitCallFails(applied)
    /\ sp.pc \in {"source", "lead"}
    /\ IF applied /\ sp.pc = "source"
       THEN SplitWrote(sp.src, SourceWritten) ELSE UNCHANGED <<docs, rec>>
    /\ leads' = IF applied /\ sp.pc = "lead"
                THEN [leads EXCEPT ![sp.hash] = sp.new] ELSE leads
    /\ \E c \in ContextAfter :
         sp' = [sp EXCEPT !.pc = "delete", !.ctx = c,
                  !.moved = IF applied /\ sp.pc = "lead" THEN "yes" ELSE "no"]
    /\ unsafe' = unsafe \union {sp.src, sp.new}
    /\ UNCHANGED <<buffered, accepted, cl, overtaken, records, splits,
                   classifies>>

RollbackDelete ==
    /\ SplitAt("delete")
    /\ SplitWrote(sp.new, NoDoc)
    /\ sp' = [sp EXCEPT !.pc = "restore"]
    /\ UNCHANGED <<leads, buffered, accepted, cl, history, bounds>>

\* Fault: the rollback replaces the source also when it was deleted.
RestoredByReplace ==
    IF Stored(docs[sp.src]) THEN sp.backup ELSE NoDoc

\* InsertOne of a deleted source, ReplaceOne of one that was kept.
Restored ==
    IF SourceDeleted
    THEN IF Stored(docs[sp.src]) THEN docs[sp.src] ELSE sp.backup
    ELSE IF Stored(docs[sp.src]) THEN sp.backup ELSE NoDoc

RollbackRestore ==
    /\ SplitAt("restore")
    /\ SplitWrote(sp.src, Restored)
    /\ sp' = [sp EXCEPT !.pc = "failed"]
    /\ UNCHANGED <<leads, buffered, accepted, cl, history, bounds>>

\* The rollback ignores the errors of its own calls.
RollbackFail(applied) ==
    /\ SplitCallFails(applied)
    /\ sp.pc \in {"delete", "restore"}
    /\ IF ~applied THEN UNCHANGED <<docs, rec>>
       ELSE IF sp.pc = "delete" THEN SplitWrote(sp.new, NoDoc)
       ELSE SplitWrote(sp.src, Restored)
    /\ \E c \in ContextAfter :
         sp' = [sp EXCEPT !.ctx = c, !.clean = "no",
                  !.pc = IF sp.pc = "delete" THEN "restore" ELSE "failed"]
    /\ UNCHANGED <<leads, buffered, accepted, cl, history, records, splits,
                   classifies>>

SplitReturnError ==
    /\ sp.pc = "failed"
    /\ sp' = IdleSplit
    /\ UNCHANGED <<graph, buffered, accepted, rec, cl, history, bounds>>

SplitKilled ==
    /\ sp.pc \notin {"idle", "failed"} /\ Fault
    /\ sp' = IdleSplit
    /\ unsafe' = IF sp.pc = "lead" THEN unsafe \union {sp.src} ELSE unsafe
    /\ UNCHANGED <<graph, buffered, accepted, rec, cl, overtaken, records,
                   splits, classifies>>
-----------------------------------------------------------------------------
(* classifyOne *)

ClassifyRead(e) ==
    /\ cl.pc = "idle"
    /\ WithinBudget(records, splits, classifies + 1, faults)
    /\ Stored(docs[e])
    /\ cl' = [pc |-> "patch", at |-> e, hashes |-> docs[e].rows]
    /\ classifies' = classifies + 1
    /\ UNCHANGED <<graph, buffered, accepted, rec, sp, history, records,
                   splits, faults>>

\* PatchEntityClassification is a $set, after the Gemini call.
ClassifyPatch ==
    /\ cl.pc = "patch"
    /\ docs' = IF Stored(docs[cl.at])
               THEN [docs EXCEPT ![cl.at].class = cl.hashes] ELSE docs
    /\ sp' = Noticed(cl.at)
    /\ cl' = [cl EXCEPT !.pc = "clear"]
    /\ UNCHANGED <<leads, buffered, accepted, rec, history, bounds>>

ClassifyClear ==
    /\ cl.pc = "clear"
    /\ docs' = IF Stored(docs[cl.at])
               THEN [docs EXCEPT ![cl.at].force = "no"] ELSE docs
    /\ sp' = Noticed(cl.at)
    /\ cl' = IdleClassify
    /\ UNCHANGED <<leads, buffered, accepted, rec, history, bounds>>

\* The Gemini call, the patch or the clearing fails; a patch that fails ends
\* the call, and either write may have been applied.
ClassifyFail ==
    /\ cl.pc # "idle" /\ Fault
    /\ \/ UNCHANGED <<docs, sp>>
       \/ /\ Stored(docs[cl.at])
          /\ docs' = IF cl.pc = "patch"
                     THEN [docs EXCEPT ![cl.at].class = cl.hashes]
                     ELSE [docs EXCEPT ![cl.at].force = "no"]
          /\ sp' = Noticed(cl.at)
    /\ cl' = IdleClassify
    /\ UNCHANGED <<leads, buffered, accepted, rec, history, records, splits,
                   classifies>>
-----------------------------------------------------------------------------
RecordStep(w) ==
    \/ \E h \in Hashes, m, k \in {"accept", "dup"} : RecordBegin(w, h, m, k)
    \/ FindExisting(w)
    \/ ReplaceMerged(w)
    \/ ReplaceConflict(w)
    \/ InsertNew(w)
    \/ InsertDuplicate(w)
    \/ RecordError(w)
    \/ RecordLostReply(w)

SplitStep ==
    \/ \E e \in Ids, h \in Hashes : SplitRead(e, h)
    \/ SplitCheck
    \/ SplitInsert
    \/ SplitSource
    \/ SplitLead
    \/ SplitForceNew
    \/ SplitForceSource
    \/ \E applied \in BOOLEAN : \/ SplitFail(applied)
                               \/ SplitFailRollback(applied)
                               \/ RollbackFail(applied)
    \/ RollbackDelete
    \/ RollbackRestore
    \/ SplitReturnError
    \/ SplitKilled

ClassifyStep ==
    \/ \E e \in Ids : ClassifyRead(e)
    \/ ClassifyPatch
    \/ ClassifyClear
    \/ ClassifyFail

Next ==
    \/ \E w \in Workers : RecordStep(w)
    \/ \E h \in Hashes : WriteLead(h)
    \/ SplitStep
    \/ ClassifyStep

Spec == Init /\ [][Next]_vars
-----------------------------------------------------------------------------
(* Properties *)

\* Every variable holds a value the Go types admit.
TypeOK ==
    /\ docs \in [Ids -> Docs \union {NoDoc}]
    /\ leads \in [Hashes -> Ids \union {NoEntity, NoLead}]
    /\ buffered \in [Hashes -> Ids \union {NoEntity, NoLead}]
    /\ accepted \subseteq Hashes
    /\ rec \in [Workers ->
         [pc : {"idle", "find", "replace", "insert", "conflict"},
          hash : Hashes \union {NoHash}, keys : SUBSET Keys,
          mode : {"accept", "dup"},
          pass : {1, 2}, attempt : 0..MaxAttempts,
          at : Ids \union {NoEntity}, doc : Docs \union {NoDoc},
          foreign : 0..MaxAttempts]]
    /\ sp \in
         [pc : {"idle", "check", "insert", "source", "lead", "force_new",
                "force_source", "delete", "restore", "failed"},
          src : Ids \union {NoEntity}, new : Ids \union {NoEntity},
          hash : Hashes \union {NoHash}, backup : Docs \union {NoDoc},
          after : Docs \union {NoDoc}, ctx : {"live", "expired"},
          clean : {"yes", "no"}, moved : {"yes", "no"}]
    /\ cl \in [pc : {"idle", "patch", "clear"}, at : Ids \union {NoEntity},
               hashes : SUBSET Hashes]
    /\ unsafe \subseteq Ids /\ overtaken \subseteq Ids
    /\ records \in Nat /\ splits \in Nat
    /\ classifies \in Nat /\ faults \in Nat

\* A stored lead, or one on its way to the store, carries the entity_id of an
\* entity that links it back, whatever sightings, splits and classifications
\* run at the same time.  Excepted are the entities whose source write lost
\* links (SplitSource), and the lead between that write and its own patch.
LeadIsLinked ==
    \A h \in Hashes : \A e \in {leads[h], buffered[h]} :
      e \in Ids \ unsafe /\ ~(sp.pc = "lead" /\ sp.hash = h)
        => h \in Linked(e)

\* In every stored document sighting_count is the number of linked leads, the
\* timeline is the newest MaxEntitySightings of them, and the canonical lead
\* is one of them unless a split cut off links without a row.
DocumentsAreCoherent ==
    \A e \in Ids : Stored(docs[e]) =>
      /\ docs[e].count = Cardinality(docs[e].hashes)
      /\ docs[e].rows = Newest(docs[e].hashes)
      /\ docs[e].canonical \in docs[e].hashes \/ e \in unsafe

\* RecordSighting spends an attempt only on another call's write: "entity
\* merge conflict after retries" means that MaxAttempts writes interfered.
AttemptsNeedConflicts ==
    \A w \in Workers : rec[w].attempt <= rec[w].foreign

\* A split that fails at its source or its lead write, with no other writer in
\* between and no rollback call failing, leaves both entities as it found them;
\* the lead points to the deleted entity only if its failing patch had been
\* applied all the same.
RollbackRestores ==
    sp.pc = "failed" /\ sp.clean = "yes" =>
      /\ docs[sp.src] = sp.backup
      /\ docs[sp.new] = NoDoc
      /\ leads[sp.hash] = sp.new => sp.moved = "yes"

\* crm/store/entity_split.go: "Rolls back the new entity row if source update
\* or lead patch fails."
NewRowRolledBack == sp.pc = "failed" => docs[sp.new] = NoDoc

\* The classification a split clears (all of it but semantic_cluster) does not
\* come back unnoticed: where it covers a detached lead the entity is flagged
\* for another one, although workers write whole documents and patches are
\* $sets.  It does come back, unflagged, when a classifier read the entity
\* before the split wrote it and patches it afterwards, and after a split that
\* failed.
StaleClassIsForced ==
    \A e \in Ids : Stored(docs[e]) =>
      \/ docs[e].class \subseteq docs[e].hashes
      \/ docs[e].force = "yes"
      \/ sp.pc # "idle" /\ sp.src = e
      \/ e \in unsafe \union overtaken
=============================================================================
