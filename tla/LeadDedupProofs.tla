--------------------------- MODULE LeadDedupProofs --------------------------
(***************************************************************************)
(* Proofs about LeadDedup, for any number of workers and hashes, any batch *)
(* size and any bounds.                                                    *)
(***************************************************************************)
EXTENDS LeadDedup, FiniteSetTheorems, TLAPS

\* Appending to a sequence adds one element to its set of elements.
LEMMA ElementsAppend ==
    ASSUME NEW S, NEW s \in Seq(S), NEW h \in S
    PROVE  Elements(Append(s, h)) = Elements(s) \cup {h}
<1> DEFINE t == Append(s, h)
<1>1. Len(s) \in Nat /\ DOMAIN s = 1..Len(s) /\ DOMAIN t = 1..(Len(s) + 1)
  OBVIOUS
<1>2. t[Len(s) + 1] = h /\ \A i \in 1..Len(s) : t[i] = s[i]
  OBVIOUS
<1>3. 1..(Len(s) + 1) = (1..Len(s)) \cup {Len(s) + 1}
  BY <1>1
<1> HIDE DEF t
<1>4. {t[i] : i \in DOMAIN t} = {s[i] : i \in DOMAIN s} \cup {h}
  BY <1>1, <1>2, <1>3
<1> QED BY <1>4 DEF Elements, t

\* The elements of a nonempty sequence are its head and those of its tail.
LEMMA ElementsTail ==
    ASSUME NEW S, NEW s \in Seq(S), s # <<>>
    PROVE  /\ Tail(s) \in Seq(S)
           /\ Head(s) \in S
           /\ Elements(s) = {Head(s)} \cup Elements(Tail(s))
<1>1. Len(s) \in Nat /\ Len(s) > 0 /\ DOMAIN s = 1..Len(s)
  OBVIOUS
<1>2. Tail(s) \in Seq(S) /\ Head(s) \in S /\ Head(s) = s[1]
  OBVIOUS
<1>3. Len(Tail(s)) = Len(s) - 1 /\ DOMAIN Tail(s) = 1..(Len(s) - 1)
  BY <1>1
<1>4. \A i \in 1..(Len(s) - 1) : Tail(s)[i] = s[i + 1]
  BY <1>1
<1>5. Elements(s) \subseteq {Head(s)} \cup Elements(Tail(s))
  <2> SUFFICES ASSUME NEW i \in 1..Len(s), i # 1
               PROVE  s[i] \in Elements(Tail(s))
    BY <1>1, <1>2 DEF Elements
  <2>1. i - 1 \in 1..(Len(s) - 1) /\ Tail(s)[i - 1] = s[i]
    BY <1>1, <1>4
  <2> QED BY <2>1, <1>3 DEF Elements
<1>6. {Head(s)} \cup Elements(Tail(s)) \subseteq Elements(s)
  <2>1. Head(s) \in Elements(s)
    BY <1>1, <1>2 DEF Elements
  <2>2. ASSUME NEW i \in 1..(Len(s) - 1)
        PROVE  Tail(s)[i] \in Elements(s)
    <3>1. i + 1 \in 1..Len(s)
      BY <1>1
    <3> QED BY <3>1, <1>1, <1>4 DEF Elements
  <2> QED BY <2>1, <2>2, <1>3 DEF Elements
<1> QED BY <1>2, <1>5, <1>6

\* A sequence over S has its elements in S.
LEMMA ElementsType ==
    ASSUME NEW S, NEW s \in Seq(S)
    PROVE  Elements(s) \subseteq S
BY DEF Elements

\* The empty sequence has no elements.
LEMMA ElementsEmpty == Elements(<<>>) = {}
BY DEF Elements

\* It is a sequence over every set.
LEMMA EmptyIsSeq == <<>> \in Seq(Hashes)
OBVIOUS

-----------------------------------------------------------------------------
\* A worker holds a hash exactly while it is inside Process, and it holds a
\* batch copy exactly while it flushes, with its own lead last in the copy.
WorkerShape ==
    \A w \in Workers :
        /\ hash[w] = NoHash <=> pc[w] = "idle"
        /\ flushing[w] # <<>> <=> pc[w] = "flush"
        /\ pc[w] = "flush" =>
              flushing[w][Len(flushing[w])] = hash[w]

TypeInv == TypeOK /\ WorkerShape

\* Chunk and Rest split a batch copy.
LEMMA ChunkRest ==
    ASSUME NEW s \in Seq(Hashes), s # <<>>
    PROVE  /\ Chunk(s) \subseteq Hashes
           /\ Rest(s) \in Seq(Hashes)
           /\ Elements(s) = Chunk(s) \cup Elements(Rest(s))
           /\ Rest(s) # <<>> => Rest(s)[Len(Rest(s))] = s[Len(s)]
           /\ s[Len(s)] \in Chunk(s) \/ Rest(s) # <<>>
<1>1. Len(s) \in Nat /\ Len(s) > 0 /\ s[Len(s)] \in Elements(s)
  BY DEF Elements
<1>2. Elements(s) \subseteq Hashes
  BY ElementsType
<1>3. CASE BulkInner
  BY <1>1, <1>2, <1>3, ElementsEmpty DEF Chunk, Rest
<1>4. CASE ~BulkInner
  <2>1. Chunk(s) = {Head(s)} /\ Rest(s) = Tail(s)
    BY <1>4 DEF Chunk, Rest
  <2>2. /\ Tail(s) \in Seq(Hashes)
        /\ Len(Tail(s)) = Len(s) - 1
        /\ \A i \in 1..(Len(s) - 1) : Tail(s)[i] = s[i + 1]
    BY <1>1
  <2>3. Tail(s) # <<>> => Tail(s)[Len(Tail(s))] = s[Len(s)]
    <3> SUFFICES ASSUME Tail(s) # <<>>
                 PROVE  Tail(s)[Len(s) - 1] = s[Len(s)]
      BY <2>2
    <3>1. Len(s) - 1 \in 1..(Len(s) - 1)
      BY <1>1, <2>2
    <3> QED BY <1>1, <2>2, <3>1
  <2>4. Tail(s) = <<>> => s[Len(s)] = Head(s)
    <3>1. Tail(s) = <<>> => Len(Tail(s)) = 0
      BY Len(<<>>) = 0
    <3>2. Len(Tail(s)) = 0 => Len(s) = 1
      <4>1. \A m, n \in Nat : n > 0 /\ m = n - 1 /\ m = 0 => n = 1
        OBVIOUS
      <4>2. Len(Tail(s)) = Len(s) - 1
        BY <1>1
      <4>3. Len(s) > 0 /\ Len(s) \in Nat /\ Len(Tail(s)) \in Nat
        BY <1>1, <2>2
      <4> QED BY <4>1, <4>2, <4>3, Zenon
    <3>3. Len(s) = 1 => s[Len(s)] = Head(s)
      OBVIOUS
    <3> QED BY <3>1, <3>2, <3>3
  <2> QED BY <2>1, <2>3, <2>4, ElementsTail
<1> QED BY <1>3, <1>4

LEMMA TypeInit == Init => TypeInv
BY LeadDedupAssumption
   DEF Init, Boot, TypeInv, TypeOK, WorkerShape, Point

\* A worker that is not idle has a hash.
LEMMA HoldsHash ==
    ASSUME TypeInv, NEW w \in Workers, pc[w] # "idle"
    PROVE  hash[w] \in Hashes
BY DEF TypeInv, TypeOK, WorkerShape

\* Every step keeps types and the shape of the workers.
LEMMA TypeStep == TypeInv /\ [Next]_vars => TypeInv'
<1> SUFFICES ASSUME TypeInv, [Next]_vars PROVE TypeInv'
  OBVIOUS
<1> USE DEF TypeInv, life, history, bounds, proc
<1>1. ASSUME NEW w \in Workers, NEW h \in Hashes, Process(w, h)
      PROVE  TypeInv'
  <2>1. TypeOK'
    <3>1. pc' \in [Workers -> Point]
      BY <1>1 DEF Process, TypeOK, Point
    <3>2. hash' \in [Workers -> Hashes \cup {NoHash}]
      BY <1>1 DEF Process, TypeOK
    <3>3. calls' \in Nat
      BY <1>1 DEF Process, TypeOK
    <3> QED BY <1>1, <3>1, <3>2, <3>3 DEF Process, TypeOK
  <2>2. WorkerShape'
    BY <1>1, LeadDedupAssumption DEF Process, At, TypeOK, WorkerShape
  <2> QED BY <2>1, <2>2
<1>1a. ASSUME NEW w \in Workers, SeenCheck(w) PROVE TypeInv'
  <2>1. hash[w] \in Hashes /\ pc[w] = "called"
    BY <1>1a, HoldsHash DEF SeenCheck, At
  <2>2. TypeOK'
    BY <1>1a, <2>1 DEF SeenCheck, Goto, Return, TypeOK, Point
  <2>3. WorkerShape'
    BY <1>1a, <2>1, LeadDedupAssumption
       DEF SeenCheck, Goto, Return, TypeOK, WorkerShape
  <2> QED BY <2>2, <2>3
<1>2. ASSUME NEW w \in Workers, AcquireHash(w) PROVE TypeInv'
  <2>1. hash[w] \in Hashes
    BY <1>2, HoldsHash DEF AcquireHash, At
  <2>2. TypeOK'
    BY <1>2, <2>1 DEF AcquireHash, Goto, Return, TypeOK, Point
  <2>3. WorkerShape'
    BY <1>2, <2>1, LeadDedupAssumption
       DEF AcquireHash, At, Goto, Return, TypeOK, WorkerShape
  <2> QED BY <2>2, <2>3
<1>3. ASSUME NEW w \in Workers, ExistsInBatch(w) PROVE TypeInv'
  <2>1. hash[w] \in Hashes
    BY <1>3, HoldsHash DEF ExistsInBatch, At
  <2>2. TypeOK'
    BY <1>3, <2>1 DEF ExistsInBatch, Goto, ReturnReleasing, Return, TypeOK, Point
  <2>3. WorkerShape'
    BY <1>3, <2>1, LeadDedupAssumption
       DEF ExistsInBatch, At, Goto, ReturnReleasing, Return, TypeOK, WorkerShape
  <2> QED BY <2>2, <2>3
<1>4. ASSUME NEW w \in Workers, ExistsInStore(w) PROVE TypeInv'
  <2>1. hash[w] \in Hashes
    BY <1>4, HoldsHash DEF ExistsInStore, At
  <2>2. TypeOK'
    BY <1>4, <2>1 DEF ExistsInStore, Goto, ReturnReleasing, Return, TypeOK, Point
  <2>3. WorkerShape'
    BY <1>4, <2>1, LeadDedupAssumption
       DEF ExistsInStore, At, Goto, ReturnReleasing, Return, TypeOK, WorkerShape
  <2> QED BY <2>2, <2>3
<1>5. ASSUME NEW w \in Workers, ExistsError(w) PROVE TypeInv'
  <2>1. hash[w] \in Hashes
    BY <1>5, HoldsHash DEF ExistsError, At
  <2>2. TypeOK'
    BY <1>5, <2>1 DEF ExistsError, ReturnReleasing, Return, TypeOK, Point
  <2>3. WorkerShape'
    BY <1>5, <2>1, LeadDedupAssumption
       DEF ExistsError, At, ReturnReleasing, Return, TypeOK, WorkerShape
  <2> QED BY <2>2, <2>3
<1>6. ASSUME NEW w \in Workers, PaidGates(w) PROVE TypeInv'
  <2>1. hash[w] \in Hashes
    BY <1>6, HoldsHash DEF PaidGates, At
  <2>2. TypeOK'
    <3>1. pc' \in [Workers -> Point]
      BY <1>6 DEF PaidGates, Goto, ReturnReleasing, Return, TypeOK, Point
    <3>2. hash' \in [Workers -> Hashes \cup {NoHash}]
      BY <1>6 DEF PaidGates, Goto, ReturnReleasing, Return, TypeOK
    <3>3. paid' \in [Hashes -> Nat]
      BY <1>6, <2>1 DEF PaidGates, TypeOK
    <3>4. inflight' \subseteq Hashes
      BY <1>6 DEF PaidGates, ReturnReleasing, TypeOK
    <3> QED BY <1>6, <3>1, <3>2, <3>3, <3>4 DEF PaidGates, TypeOK
  <2>3. WorkerShape'
    BY <1>6, <2>1, LeadDedupAssumption
       DEF PaidGates, At, Goto, ReturnReleasing, Return, TypeOK, WorkerShape
  <2> QED BY <2>2, <2>3
<1>7. ASSUME NEW w \in Workers, Upsert(w) PROVE TypeInv'
  <2> DEFINE full == Append(batch, hash[w])
  <2>1. hash[w] \in Hashes
    BY <1>7, HoldsHash DEF Upsert, At
  <2>2. full \in Seq(Hashes) /\ full # <<>> /\ full[Len(full)] = hash[w]
    <3>1. batch \in Seq(Hashes)
      BY DEF TypeOK
    <3> HIDE DEF TypeInv
    <3>2. full \in Seq(Hashes)
      BY <2>1, <3>1
    <3>3. full # <<>>
      BY <2>1, <3>1
    <3>4. full[Len(full)] = hash[w]
      BY <2>1, <3>1
    <3> QED BY <3>2, <3>3, <3>4
  <2>3. /\ pc[w] = "upsert"
        /\ \/ /\ Goto(w, "flush")
              /\ flushing' = [flushing EXCEPT ![w] = full]
              /\ batch' = <<>>
           \/ /\ Goto(w, "accept")
              /\ batch' = full
              /\ UNCHANGED flushing
        /\ UNCHANGED <<seen, inflight, docs, life, lost, paid, counted,
                       forgotten, bounds>>
    BY <1>7 DEF Upsert, At
  <2> HIDE DEF full
  <2>4. TypeOK'
    <3>1. pc' \in [Workers -> Point] /\ UNCHANGED hash
      BY <2>3 DEF Goto, TypeOK, Point
    <3>2. batch' \in Seq(Hashes)
      BY <2>2, <2>3, EmptyIsSeq, Zenon
    <3>3. flushing' \in [Workers \cup {Main} -> Seq(Hashes)]
      BY <2>2, <2>3 DEF TypeOK
    <3> QED BY <2>3, <3>1, <3>2, <3>3 DEF TypeOK
  <2>5. WorkerShape'
    <3>1. CASE Goto(w, "flush") /\ flushing' = [flushing EXCEPT ![w] = full]
      BY <2>1, <2>2, <2>3, <3>1 DEF Goto, TypeOK, WorkerShape
    <3>2. CASE Goto(w, "accept") /\ UNCHANGED flushing
      BY <2>1, <2>3, <3>2 DEF Goto, TypeOK, WorkerShape
    <3> QED BY <2>3, <3>1, <3>2
  <2> QED BY <2>4, <2>5
<1>8. ASSUME NEW w \in Workers, FlushWrite(w) PROVE TypeInv'
  <2>1. /\ flushing[w] \in Seq(Hashes) /\ flushing[w] # <<>>
        /\ pc[w] = "flush"
    BY <1>8 DEF FlushWrite, WriteChunk, TypeOK, WorkerShape
  <2>2. /\ Chunk(flushing[w]) \subseteq Hashes
        /\ Rest(flushing[w]) \in Seq(Hashes)
        /\ Rest(flushing[w]) # <<>> =>
              Rest(flushing[w])[Len(Rest(flushing[w]))]
                = flushing[w][Len(flushing[w])]
    BY <2>1, ChunkRest
  <2>3. TypeOK'
    BY <1>8, <2>2 DEF FlushWrite, WriteChunk, Goto, TypeOK, Point
  <2>4. WorkerShape'
    BY <1>8, <2>1, <2>2
       DEF FlushWrite, WriteChunk, Goto, TypeOK, WorkerShape
  <2> QED BY <2>3, <2>4
<1>9. ASSUME NEW w \in Workers, FlushFail(w) PROVE TypeInv'
  <2>1. /\ Elements(flushing[w]) \subseteq Hashes
        /\ hash[w] \in Hashes
    BY <1>9, ElementsType, HoldsHash
       DEF FlushFail, FailChunk, TypeOK, WorkerShape
  <2>2. TypeOK'
    BY <1>9, <2>1
       DEF FlushFail, FailChunk, ReturnReleasing, Return, TypeOK, Point
  <2>3. WorkerShape'
    BY <1>9, LeadDedupAssumption
       DEF FlushFail, FailChunk, ReturnReleasing, Return, TypeOK, WorkerShape
  <2> QED BY <2>2, <2>3
<1>10. ASSUME NEW w \in Workers, Accept(w) PROVE TypeInv'
  <2>1. hash[w] \in Hashes
    BY <1>10, HoldsHash DEF Accept, At
  <2>2. TypeOK'
    BY <1>10, <2>1 DEF Accept, ReturnReleasing, Return, TypeOK, Point
  <2>3. WorkerShape'
    BY <1>10, <2>1, LeadDedupAssumption
       DEF Accept, At, ReturnReleasing, Return, TypeOK, WorkerShape
  <2> QED BY <2>2, <2>3
<1>11. ASSUME NEW h \in Hashes, SeenForget(h) PROVE TypeInv'
  BY <1>11 DEF SeenForget, TypeOK, WorkerShape
<1>12. CASE Signal \/ Stop
  BY <1>12 DEF Signal, Stop, TypeOK, WorkerShape
<1>13. CASE MainFlush
  BY <1>13, LeadDedupAssumption DEF MainFlush, TypeOK, WorkerShape
<1>14. CASE MainFlushStep
  <2>1. Elements(flushing[Main]) \subseteq Hashes
    BY ElementsType DEF TypeOK
  <2>2. flushing[Main] # <<>>
    BY <1>14 DEF MainFlushStep, WriteChunk, FailChunk
  <2>3. /\ Chunk(flushing[Main]) \subseteq Hashes
        /\ Rest(flushing[Main]) \in Seq(Hashes)
    BY <2>2, ChunkRest DEF TypeOK
  <2>4. TypeOK'
    <3>1. CASE WriteChunk(Main) /\ UNCHANGED <<lost, faults>>
      BY <1>14, <2>3, <3>1 DEF MainFlushStep, WriteChunk, TypeOK
    <3>2. CASE FailChunk(Main)
      BY <1>14, <2>1, <3>2 DEF MainFlushStep, FailChunk, TypeOK
    <3> QED BY <1>14, <3>1, <3>2 DEF MainFlushStep
  <2>5. \A w \in Workers : flushing'[w] = flushing[w]
    BY <1>14, LeadDedupAssumption
       DEF MainFlushStep, WriteChunk, FailChunk, TypeOK
  <2>6. WorkerShape'
    BY <1>14, <2>5 DEF MainFlushStep, WorkerShape
  <2> QED BY <2>4, <2>6
<1>15. CASE Exit \/ Crash
  <2>1. Dropped \subseteq Hashes
    BY ElementsType DEF Dropped, TypeOK
  <2>2. TypeOK'
    <3>1. pc' \in [Workers -> Point]
      BY <1>15 DEF Exit, Crash, Die, Point
    <3>2. hash' \in [Workers -> Hashes \cup {NoHash}]
      BY <1>15 DEF Exit, Crash, Die
    <3>3. flushing' \in [Workers \cup {Main} -> Seq(Hashes)]
      BY <1>15, EmptyIsSeq, Zenon DEF Exit, Crash, Die
    <3>4. batch' \in Seq(Hashes)
      BY <1>15, EmptyIsSeq, Zenon DEF Exit, Crash, Die
    <3>5. crashes' \in Nat
      BY <1>15 DEF Exit, Crash, Die, TypeOK
    <3>6. lost' \subseteq Hashes /\ inflight' \subseteq Hashes
      BY <1>15, <2>1 DEF Exit, Crash, Die, TypeOK
    <3> QED BY <1>15, <3>1, <3>2, <3>3, <3>4, <3>5, <3>6
            DEF Exit, Crash, Die, TypeOK
  <2>3. WorkerShape'
    BY <1>15 DEF Exit, Crash, Die, WorkerShape
  <2> QED BY <2>2, <2>3
<1>16. CASE Restart
  BY <1>16 DEF Restart, TypeOK, WorkerShape
<1>17. CASE UNCHANGED vars
  BY <1>17 DEF vars, TypeOK, WorkerShape
<1> QED
  BY <1>1, <1>1a, <1>2, <1>3, <1>4, <1>5, <1>6, <1>7, <1>8, <1>9, <1>10, <1>11,
     <1>12, <1>13, <1>14, <1>15, <1>16, <1>17
     DEF Next, WorkerStep

\* Type correctness of LeadDedup: every variable stays in its type through
\* all interleavings of Process, flushes, signals, crashes and restarts.
THEOREM TypeCorrect == Spec => []TypeOK
<1>1. TypeInv => TypeOK
  BY DEF TypeInv
<1> QED BY <1>1, TypeInit, TypeStep, PTL DEF Spec

-----------------------------------------------------------------------------
(* The lock table.                                                         *)

\* Steps of worker w that only move it inside its critical section, or do
\* not touch the workers at all.
LEMMA LocksMove ==
    ASSUME TypeInv, InflightIsExclusive, NEW w \in Workers,
           pc[w] \in Critical, NEW p \in Critical, Goto(w, p),
           UNCHANGED inflight
    PROVE  InflightIsExclusive'
<1>1. \A v \in Workers, h \in Hashes : Holds(v, h)' <=> Holds(v, h)
  BY DEF Goto, Holds, TypeInv, TypeOK
<1> QED BY <1>1, Zenon DEF InflightIsExclusive

\* A return path gives its hash back and nobody else's.
LEMMA LocksReturn ==
    ASSUME TypeInv, InflightIsExclusive, NEW w \in Workers,
           pc[w] \in Critical, ReturnReleasing(w)
    PROVE  InflightIsExclusive'
<1>1. hash[w] \in Hashes
  BY HoldsHash DEF Critical
<1>2. \A v \in Workers, h \in Hashes : Holds(v, h)' <=> v # w /\ Holds(v, h)
  BY DEF ReturnReleasing, Return, Holds, TypeInv, TypeOK, Critical
<1>3. inflight' = inflight \ {hash[w]}
  BY DEF ReturnReleasing
<1>4. Holds(w, hash[w])
  BY DEF Holds
<1>5. ASSUME NEW h \in Hashes
      PROVE  h \in inflight' <=> \E v \in Workers : Holds(v, h)'
  <2>1. CASE h = hash[w]
    BY <1>2, <1>3, <1>4, <2>1 DEF InflightIsExclusive
  <2>2. CASE h # hash[w]
    <3>1. ~Holds(w, h)
      BY <2>2 DEF Holds
    <3> QED BY <1>2, <1>3, <2>2, <3>1 DEF InflightIsExclusive
  <2> QED BY <2>1, <2>2
<1>6. \A v, u \in Workers : \A h \in Hashes :
        Holds(v, h)' /\ Holds(u, h)' => v = u
  BY <1>2, Zenon DEF InflightIsExclusive
<1> QED BY <1>5, <1>6 DEF InflightIsExclusive

\* Every step keeps the lock table exact.
LEMMA LocksStep ==
    TypeInv /\ InflightIsExclusive /\ [Next]_vars => InflightIsExclusive'
<1> SUFFICES ASSUME TypeInv, InflightIsExclusive, [Next]_vars
             PROVE  InflightIsExclusive'
  OBVIOUS
<1> USE DEF proc
<1>1. ASSUME UNCHANGED <<pc, hash, inflight>> PROVE InflightIsExclusive'
  <2>1. \A v \in Workers, h \in Hashes : Holds(v, h)' <=> Holds(v, h)
    BY <1>1 DEF Holds
  <2> QED BY <1>1, <2>1, Zenon DEF InflightIsExclusive
<1>2. ASSUME NEW w \in Workers, NEW h \in Hashes, Process(w, h)
      PROVE  InflightIsExclusive'
  <2>1. \A v \in Workers, g \in Hashes : Holds(v, g)' <=> Holds(v, g)
    BY <1>2 DEF Process, At, Holds, Critical, TypeInv, TypeOK
  <2> QED BY <1>2, <2>1, Zenon DEF Process, InflightIsExclusive
<1>2a. ASSUME NEW w \in Workers, SeenCheck(w) PROVE InflightIsExclusive'
  <2>1. \A v \in Workers, g \in Hashes : Holds(v, g)' <=> Holds(v, g)
    BY <1>2a DEF SeenCheck, At, Goto, Return, Holds, Critical, TypeInv, TypeOK
  <2> QED BY <1>2a, <2>1, Zenon DEF SeenCheck, InflightIsExclusive
<1>3. ASSUME NEW w \in Workers, AcquireHash(w) PROVE InflightIsExclusive'
  <2>1. hash[w] \in Hashes /\ pc[w] = "missed"
    BY <1>3, HoldsHash DEF AcquireHash, At
  <2>2. CASE hash[w] \in inflight
    <3>1. \A v \in Workers, g \in Hashes : Holds(v, g)' <=> Holds(v, g)
      BY <1>3, <2>1, <2>2
         DEF AcquireHash, Return, Holds, Critical, TypeInv, TypeOK
    <3> QED BY <1>3, <2>2, <3>1, Zenon DEF AcquireHash, InflightIsExclusive
  <2>3. CASE hash[w] \notin inflight
    <3>1. \A v \in Workers, g \in Hashes :
            Holds(v, g)' <=> Holds(v, g) \/ (v = w /\ g = hash[w])
      BY <1>3, <2>1, <2>3
         DEF AcquireHash, Goto, Holds, Critical, Point, TypeInv, TypeOK
    <3>2. inflight' = inflight \cup {hash[w]}
      BY <1>3, <2>3 DEF AcquireHash
    <3>3. \A v \in Workers : ~Holds(v, hash[w])
      BY <2>1, <2>3 DEF InflightIsExclusive
    <3>4. ~(\E g \in Hashes : Holds(w, g))
      BY <2>1 DEF Holds, Critical
    <3>5. \A g \in Hashes : g \in inflight' <=> \E v \in Workers : Holds(v, g)'
      BY <2>1, <3>1, <3>2 DEF InflightIsExclusive
    <3>6. \A v, u \in Workers : \A g \in Hashes :
            Holds(v, g)' /\ Holds(u, g)' => v = u
      BY <3>1, <3>3, <3>4 DEF InflightIsExclusive
    <3> QED BY <3>5, <3>6 DEF InflightIsExclusive
  <2> QED BY <2>2, <2>3
<1>4. ASSUME NEW w \in Workers, ExistsInBatch(w) PROVE InflightIsExclusive'
  BY <1>4, LocksMove, LocksReturn DEF ExistsInBatch, At, Critical, Point
<1>5. ASSUME NEW w \in Workers, ExistsInStore(w) PROVE InflightIsExclusive'
  BY <1>5, LocksMove, LocksReturn DEF ExistsInStore, At, Critical, Point
<1>6. ASSUME NEW w \in Workers, ExistsError(w) PROVE InflightIsExclusive'
  BY <1>6, LocksReturn DEF ExistsError, At, Critical, Point
<1>7. ASSUME NEW w \in Workers, PaidGates(w) PROVE InflightIsExclusive'
  BY <1>7, LocksMove, LocksReturn DEF PaidGates, At, Critical, Point
<1>8. ASSUME NEW w \in Workers, Upsert(w) PROVE InflightIsExclusive'
  BY <1>8, LocksMove DEF Upsert, At, Critical, Point
<1>9. ASSUME NEW w \in Workers, FlushWrite(w) PROVE InflightIsExclusive'
  <2>1. pc[w] = "flush"
    BY <1>9 DEF FlushWrite, WriteChunk, TypeInv, WorkerShape
  <2> QED BY <1>1, <1>9, <2>1, LocksMove DEF FlushWrite, Critical, Point
<1>10. ASSUME NEW w \in Workers, FlushFail(w) PROVE InflightIsExclusive'
  <2>1. pc[w] = "flush"
    BY <1>10 DEF FlushFail, FailChunk, TypeInv, WorkerShape
  <2> QED BY <1>10, <2>1, LocksReturn DEF FlushFail, Critical, Point
<1>11. ASSUME NEW w \in Workers, Accept(w) PROVE InflightIsExclusive'
  BY <1>11, LocksReturn DEF Accept, At, Critical, Point
<1>12. CASE Exit \/ Crash
  <2>1. \A v \in Workers, g \in Hashes : ~Holds(v, g)'
    BY <1>12 DEF Exit, Crash, Die, Holds, Critical
  <2>2. inflight' = {}
    BY <1>12 DEF Exit, Crash, Die
  <2> QED BY <2>1, <2>2 DEF InflightIsExclusive
<1>13. ASSUME NEW h \in Hashes, SeenForget(h) PROVE InflightIsExclusive'
  BY <1>1, <1>13 DEF SeenForget
<1>14. CASE Signal \/ Stop \/ MainFlush \/ MainFlushStep \/ Restart
  BY <1>1, <1>14 DEF Signal, Stop, MainFlush, MainFlushStep, Restart
<1>15. CASE UNCHANGED vars
  BY <1>1, <1>15 DEF vars
<1> QED
  BY <1>2, <1>2a, <1>3, <1>4, <1>5, <1>6, <1>7, <1>8, <1>9, <1>10, <1>11, <1>12,
     <1>13, <1>14, <1>15 DEF Next, WorkerStep

LEMMA LocksInit == Init => InflightIsExclusive
BY DEF Init, Boot, InflightIsExclusive, Holds, Critical

\* The in-flight map is an exact lock table: a hash is in it just while one
\* worker is between acquireHash and releaseHash with it.
THEOREM Locks == Spec => []InflightIsExclusive
BY TypeInit, TypeStep, LocksInit, LocksStep, PTL DEF Spec

-----------------------------------------------------------------------------
(* The pending batch.                                                      *)

\* Past the first half of Exists a worker's hash is not in the batch; the lock
\* table keeps others from putting it there.
NotBatched ==
    \A w \in Workers : pc[w] \in {"store_check", "gates", "upsert"}
                         => hash[w] \notin Elements(batch)

BatchInv == BatchHoldsNoDuplicate /\ NotBatched

\* Appending a new element keeps a sequence free of duplicates.
LEMMA AppendNoDuplicate ==
    ASSUME NEW s \in Seq(Hashes), NEW h \in Hashes, h \notin Elements(s),
           \A i, j \in DOMAIN s : s[i] = s[j] => i = j
    PROVE  \A i, j \in DOMAIN Append(s, h) :
              Append(s, h)[i] = Append(s, h)[j] => i = j
<1> DEFINE t == Append(s, h)
<1>1. Len(s) \in Nat /\ DOMAIN s = 1..Len(s) /\ DOMAIN t = 1..(Len(s) + 1)
  OBVIOUS
<1>2. t[Len(s) + 1] = h /\ \A i \in 1..Len(s) : t[i] = s[i]
  OBVIOUS
<1>3. 1..(Len(s) + 1) = (1..Len(s)) \cup {Len(s) + 1}
  BY <1>1
<1>4. \A i \in 1..Len(s) : s[i] # h
  BY <1>1 DEF Elements
<1> HIDE DEF t
<1>5. \A i, j \in DOMAIN t : t[i] = t[j] => i = j
  <2> SUFFICES ASSUME NEW i \in (1..Len(s)) \cup {Len(s) + 1},
                      NEW j \in (1..Len(s)) \cup {Len(s) + 1}, t[i] = t[j]
               PROVE  i = j
    BY <1>1, <1>3, Zenon
  <2>1. CASE i \in 1..Len(s) /\ j \in 1..Len(s)
    <3>1. s[i] = s[j]
      BY <1>2, <2>1
    <3> QED BY <1>1, <2>1, <3>1, Zenon
  <2>2. CASE i = Len(s) + 1 \/ j = Len(s) + 1
    BY <1>2, <1>4, <2>2, Zenon
  <2> QED BY <2>1, <2>2, Zenon
<1> QED BY <1>5 DEF t

\* Every step keeps the batch free of duplicates.
LEMMA BatchStep ==
    TypeInv /\ InflightIsExclusive /\ BatchInv /\ [Next]_vars => BatchInv'
<1> SUFFICES ASSUME TypeInv, InflightIsExclusive, BatchInv, [Next]_vars
             PROVE  BatchInv'
  OBVIOUS
<1> USE DEF proc
<1> DEFINE Past == {"store_check", "gates", "upsert"}
<1>1. ASSUME UNCHANGED batch,
             \A w \in Workers : /\ pc'[w] \in Past
                               => /\ hash'[w] = hash[w]
                                  /\ \/ pc[w] \in Past
                                     \/ hash[w] \notin Elements(batch)
      PROVE  BatchInv'
  BY <1>1 DEF BatchInv, BatchHoldsNoDuplicate, NotBatched, Elements
<1>2. ASSUME batch' = <<>> PROVE BatchInv'
  <2>1. Elements(batch') = {} /\ DOMAIN batch' = {}
    BY <1>2, ElementsEmpty
  <2>2. NotBatched'
    BY <2>1 DEF NotBatched, Elements
  <2>3. BatchHoldsNoDuplicate'
    BY <2>1 DEF BatchHoldsNoDuplicate
  <2> QED BY <2>2, <2>3 DEF BatchInv
<1>3. ASSUME NEW w \in Workers, NEW h \in Hashes, Process(w, h)
      PROVE  BatchInv'
  BY <1>1, <1>3 DEF Process, TypeInv, TypeOK
<1>3a. ASSUME NEW w \in Workers, SeenCheck(w) PROVE BatchInv'
  BY <1>1, <1>3a DEF SeenCheck, Goto, Return, TypeInv, TypeOK
<1>4. ASSUME NEW w \in Workers, AcquireHash(w) PROVE BatchInv'
  BY <1>1, <1>4 DEF AcquireHash, Goto, Return, TypeInv, TypeOK
<1>5. ASSUME NEW w \in Workers, ExistsInBatch(w) PROVE BatchInv'
  BY <1>1, <1>5
     DEF ExistsInBatch, Goto, ReturnReleasing, Return, TypeInv, TypeOK
<1>6. ASSUME NEW w \in Workers, ExistsInStore(w) PROVE BatchInv'
  BY <1>1, <1>6
     DEF ExistsInStore, At, Goto, ReturnReleasing, Return, TypeInv, TypeOK
<1>7. ASSUME NEW w \in Workers, ExistsError(w) PROVE BatchInv'
  BY <1>1, <1>7 DEF ExistsError, ReturnReleasing, Return, TypeInv, TypeOK
<1>8. ASSUME NEW w \in Workers, PaidGates(w) PROVE BatchInv'
  BY <1>1, <1>8
     DEF PaidGates, At, Goto, ReturnReleasing, Return, TypeInv, TypeOK
<1>9. ASSUME NEW w \in Workers, Upsert(w) PROVE BatchInv'
  <2>1. CASE batch' = <<>>
    BY <1>2, <2>1
  <2>2. CASE batch' = Append(batch, hash[w]) /\ Goto(w, "accept")
    <3>1. hash[w] \in Hashes /\ batch \in Seq(Hashes)
      BY <1>9, HoldsHash DEF Upsert, At, TypeInv, TypeOK
    <3>2. hash[w] \notin Elements(batch)
      BY <1>9 DEF Upsert, At, BatchInv, NotBatched
    <3>3. BatchHoldsNoDuplicate'
      BY <2>2, <3>1, <3>2, AppendNoDuplicate DEF BatchInv, BatchHoldsNoDuplicate
    <3>4. Elements(batch)' = Elements(batch) \cup {hash[w]}
      BY <2>2, <3>1, ElementsAppend DEF Elements
    <3>5. ASSUME NEW v \in Workers, pc'[v] \in Past
          PROVE  hash'[v] \notin Elements(batch)'
      <4>1. v # w /\ pc'[v] = pc[v] /\ hash'[v] = hash[v]
        BY <2>2, <3>5 DEF Goto, TypeInv, TypeOK
      <4>2. hash[v] \in Hashes
        BY <3>5, <4>1, HoldsHash
      <4>3. hash[v] # hash[w]
        BY <1>9, <3>1, <3>5, <4>1
           DEF Upsert, At, InflightIsExclusive, Holds, Critical, Point
      <4>4. hash[v] \notin Elements(batch)
        BY <3>5, <4>1 DEF BatchInv, NotBatched
      <4> QED BY <3>4, <4>1, <4>3, <4>4
    <3> QED BY <3>3, <3>5 DEF BatchInv, NotBatched
  <2> QED BY <1>9, <2>1, <2>2 DEF Upsert
<1>10. ASSUME NEW w \in Workers, FlushWrite(w) PROVE BatchInv'
  BY <1>1, <1>10 DEF FlushWrite, Goto, TypeInv, TypeOK
<1>11. ASSUME NEW w \in Workers, FlushFail(w) PROVE BatchInv'
  BY <1>1, <1>11 DEF FlushFail, ReturnReleasing, Return, TypeInv, TypeOK
<1>12. ASSUME NEW w \in Workers, Accept(w) PROVE BatchInv'
  BY <1>1, <1>12 DEF Accept, ReturnReleasing, Return, TypeInv, TypeOK
<1>13. CASE Exit \/ Crash \/ MainFlush
  BY <1>2, <1>13 DEF Exit, Crash, Die, MainFlush
<1>14. ASSUME NEW h \in Hashes, SeenForget(h) PROVE BatchInv'
  BY <1>1, <1>14 DEF SeenForget
<1>15. CASE Signal \/ Stop \/ MainFlushStep \/ Restart
  BY <1>1, <1>15 DEF Signal, Stop, MainFlushStep, Restart
<1>16. CASE UNCHANGED vars
  BY <1>1, <1>16 DEF vars
<1> QED
  BY <1>3, <1>3a, <1>4, <1>5, <1>6, <1>7, <1>8, <1>9, <1>10, <1>11, <1>12, <1>13,
     <1>14, <1>15, <1>16 DEF Next, WorkerStep

LEMMA BatchInit == Init => BatchInv
BY DEF Init, Boot, BatchInv, BatchHoldsNoDuplicate, NotBatched

\* However workers and flushes interleave, the pending batch of the BulkStore
\* never holds one hash twice.
THEOREM BatchUnique == Spec => []BatchHoldsNoDuplicate
<1>1. BatchInv => BatchHoldsNoDuplicate
  BY DEF BatchInv
<1> QED BY <1>1, TypeInit, TypeStep, LocksInit, LocksStep, BatchInit,
           BatchStep, PTL DEF Spec

-----------------------------------------------------------------------------
(* Where the counted leads are.                                            *)

Tracked == docs \cup InTransit \cup lost

\* A worker about to accept has its lead tracked; Main holds a batch copy only
\* between flushStore and exit.
TrackInv ==
    /\ CountedLeadsAreTracked
    /\ \A w \in Workers : pc[w] = "accept" => hash[w] \in Tracked
    /\ main # "flushed" => flushing[Main] = <<>>

\* What is tracked, element by element.
LEMMA TrackedElements ==
    \A h : h \in Tracked <=> \/ h \in docs
                             \/ h \in lost
                             \/ h \in Elements(batch)
                             \/ \E a \in Workers \cup {Main} :
                                   h \in Elements(flushing[a])
BY DEF Tracked, InTransit

\* Writing a chunk moves leads from the copy to the store.
LEMMA WriteChunkTracks ==
    ASSUME TypeInv, NEW a \in Workers \cup {Main}, WriteChunk(a),
           UNCHANGED <<batch, lost>>
    PROVE  /\ Tracked \subseteq Tracked'
           /\ Elements(flushing[a]) \subseteq docs' \cup Elements(flushing'[a])
<1>1. flushing[a] \in Seq(Hashes) /\ flushing[a] # <<>>
  BY DEF WriteChunk, TypeInv, TypeOK
<1>2. Elements(flushing[a]) = Chunk(flushing[a]) \cup Elements(Rest(flushing[a]))
  BY <1>1, ChunkRest
<1>3. /\ flushing'[a] = Rest(flushing[a])
      /\ \A b \in Workers \cup {Main} : b # a => flushing'[b] = flushing[b]
      /\ docs' = docs \cup Chunk(flushing[a])
  BY DEF WriteChunk, TypeInv, TypeOK
<1>4. Elements(flushing[a]) \subseteq docs' \cup Elements(flushing'[a])
  BY <1>2, <1>3
<1>5. ASSUME NEW h \in Tracked PROVE h \in Tracked'
  <2>1. /\ Elements(batch)' = Elements(batch)
        /\ \A b \in Workers \cup {Main} :
              Elements(flushing[b])' = Elements(flushing'[b])
    BY DEF Elements
  <2>2. CASE h \in docs \/ h \in lost \/ h \in Elements(batch)
    BY <1>3, <2>1, <2>2 DEF Tracked, InTransit
  <2>3. ASSUME NEW b \in Workers \cup {Main}, h \in Elements(flushing[b])
        PROVE  h \in Tracked'
    <3>1. h \in docs' \/ h \in Elements(flushing'[b])
      BY <1>3, <1>4, <2>3
    <3> QED BY <2>1, <3>1 DEF Tracked, InTransit
  <2> QED BY <1>5, <2>2, <2>3, TrackedElements
<1> QED BY <1>4, <1>5

\* A failing call moves what it did not write to lost.
LEMMA FailChunkTracks ==
    ASSUME TypeInv, NEW a \in Workers \cup {Main}, FailChunk(a),
           UNCHANGED batch
    PROVE  Tracked \subseteq Tracked'
<1>1. /\ \A b \in Workers \cup {Main} : b # a => flushing'[b] = flushing[b]
      /\ Elements(flushing[a]) \subseteq docs' \cup lost'
      /\ docs \subseteq docs' /\ lost \subseteq lost'
  BY DEF FailChunk, TypeInv, TypeOK
<1> SUFFICES ASSUME NEW h \in Tracked PROVE h \in Tracked'
  OBVIOUS
<1>2. /\ Elements(batch)' = Elements(batch)
      /\ \A b \in Workers \cup {Main} :
            Elements(flushing[b])' = Elements(flushing'[b])
  BY DEF Elements
<1>3. CASE h \in docs \/ h \in lost \/ h \in Elements(batch)
  BY <1>1, <1>2, <1>3 DEF Tracked, InTransit
<1>4. ASSUME NEW b \in Workers \cup {Main}, h \in Elements(flushing[b])
      PROVE  h \in Tracked'
  <2>1. h \in docs' \/ h \in lost' \/ h \in Elements(flushing'[b])
    BY <1>1, <1>4
  <2> QED BY <1>2, <2>1 DEF Tracked, InTransit
<1> QED BY <1>3, <1>4, TrackedElements

\* Every step keeps the counted leads tracked.
LEMMA TrackStep == TypeInv /\ TrackInv /\ [Next]_vars => TrackInv'
<1> SUFFICES ASSUME TypeInv, TrackInv, [Next]_vars PROVE TrackInv'
  OBVIOUS
<1> USE DEF proc, life, history, bounds
<1>1. counted \subseteq Tracked
  BY DEF TrackInv, CountedLeadsAreTracked, Tracked
<1>2. ASSUME Tracked \subseteq Tracked', UNCHANGED counted,
             \A w \in Workers : pc'[w] = "accept"
                => hash'[w] = hash[w] /\ (pc[w] = "accept" \/ hash[w] \in Tracked'),
             main' # "flushed" => flushing'[Main] = <<>>
      PROVE  TrackInv'
  <2>1. counted' \subseteq Tracked'
    BY <1>1, <1>2
  <2>2. CountedLeadsAreTracked'
    BY <2>1 DEF CountedLeadsAreTracked, Tracked
  <2>3. \A w \in Workers : pc'[w] = "accept" => hash'[w] \in Tracked'
    BY <1>2 DEF TrackInv
  <2> QED BY <1>2, <2>2, <2>3 DEF TrackInv
<1>3. ASSUME UNCHANGED <<docs, batch, flushing, lost>>
      PROVE  Tracked' = Tracked
  BY <1>3 DEF Tracked, InTransit, Elements
<1>4. ASSUME UNCHANGED <<docs, batch, flushing, lost, counted, main>>,
             \A w \in Workers : pc'[w] = "accept" =>
                hash'[w] = hash[w] /\ pc[w] = "accept"
      PROVE  TrackInv'
  <2>1. Tracked' = Tracked
    BY <1>3, <1>4
  <2>2. main' # "flushed" => flushing'[Main] = <<>>
    BY <1>4 DEF TrackInv
  <2> QED BY <1>2, <1>4, <2>1, <2>2
<1>5. ASSUME NEW w \in Workers, NEW h \in Hashes, Process(w, h)
      PROVE  TrackInv'
  BY <1>4, <1>5 DEF Process, TypeInv, TypeOK
<1>5a. ASSUME NEW w \in Workers, SeenCheck(w) PROVE TrackInv'
  BY <1>4, <1>5a DEF SeenCheck, Goto, Return, TypeInv, TypeOK
<1>6. ASSUME NEW w \in Workers, AcquireHash(w) PROVE TrackInv'
  BY <1>4, <1>6 DEF AcquireHash, Goto, Return, TypeInv, TypeOK
<1>7. ASSUME NEW w \in Workers, ExistsInBatch(w) PROVE TrackInv'
  BY <1>4, <1>7
     DEF ExistsInBatch, Goto, ReturnReleasing, Return, TypeInv, TypeOK
<1>8. ASSUME NEW w \in Workers, ExistsInStore(w) PROVE TrackInv'
  BY <1>4, <1>8
     DEF ExistsInStore, Goto, ReturnReleasing, Return, TypeInv, TypeOK
<1>9. ASSUME NEW w \in Workers, ExistsError(w) PROVE TrackInv'
  BY <1>4, <1>9 DEF ExistsError, ReturnReleasing, Return, TypeInv, TypeOK
<1>10. ASSUME NEW w \in Workers, PaidGates(w) PROVE TrackInv'
  BY <1>4, <1>10
     DEF PaidGates, Goto, ReturnReleasing, Return, TypeInv, TypeOK
<1>11. ASSUME NEW w \in Workers, Upsert(w) PROVE TrackInv'
  <2>1. hash[w] \in Hashes /\ batch \in Seq(Hashes) /\ pc[w] = "upsert"
    BY <1>11, HoldsHash DEF Upsert, At, TypeInv, TypeOK
  <2>2. Elements(Append(batch, hash[w])) = Elements(batch) \cup {hash[w]}
    BY <2>1, ElementsAppend
  <2>3. flushing[w] = <<>>
    BY <2>1 DEF TypeInv, WorkerShape
  <2>4. Tracked \subseteq Tracked' /\ hash[w] \in Tracked'
    <3>1. CASE flushing' = [flushing EXCEPT ![w] = Append(batch, hash[w])]
      <4>1. /\ flushing'[w] = Append(batch, hash[w])
            /\ \A a \in Workers \cup {Main} : a # w => flushing'[a] = flushing[a]
        BY <3>1 DEF TypeInv, TypeOK
      <4>2. \A a \in Workers \cup {Main} :
              Elements(flushing[a])' = Elements(flushing'[a])
        BY DEF Elements
      <4>3. Elements(batch) \cup {hash[w]} \subseteq Tracked'
        BY <2>2, <4>1, <4>2 DEF Tracked, InTransit
      <4>4. docs \cup lost \subseteq Tracked'
        BY <1>11 DEF Upsert, Tracked
      <4>5. ASSUME NEW a \in Workers \cup {Main}
            PROVE  Elements(flushing[a]) \subseteq Tracked'
        BY <2>3, <4>1, <4>2, ElementsEmpty DEF Tracked, InTransit
      <4> QED BY <4>3, <4>4, <4>5, TrackedElements
    <3>2. CASE batch' = Append(batch, hash[w]) /\ UNCHANGED flushing
      <4>1. Elements(batch)' = Elements(batch) \cup {hash[w]}
        BY <2>2, <3>2 DEF Elements
      <4>2. UNCHANGED <<docs, lost>>
        BY <1>11 DEF Upsert
      <4>3. \A a \in Workers \cup {Main} :
              Elements(flushing[a])' = Elements(flushing[a])
        BY <3>2 DEF Elements
      <4> QED BY <4>1, <4>2, <4>3 DEF Tracked, InTransit
    <3> QED BY <1>11, <3>1, <3>2 DEF Upsert
  <2>5. main' # "flushed" => flushing'[Main] = <<>>
    BY <1>11, LeadDedupAssumption DEF Upsert, TrackInv, TypeInv, TypeOK
  <2>6. ASSUME NEW v \in Workers, pc'[v] = "accept"
        PROVE  hash'[v] = hash[v] /\ (v = w \/ pc[v] = "accept")
    BY <1>11, <2>6 DEF Upsert, Goto, TypeInv, TypeOK
  <2>7. UNCHANGED counted
    BY <1>11 DEF Upsert
  <2> QED BY <1>2, <2>4, <2>5, <2>6, <2>7
<1>12. ASSUME NEW w \in Workers, FlushWrite(w) PROVE TrackInv'
  <2>1. /\ Tracked \subseteq Tracked'
        /\ Elements(flushing[w]) \subseteq docs' \cup Elements(flushing'[w])
    BY <1>12, WriteChunkTracks DEF FlushWrite
  <2>2. flushing[w] \in Seq(Hashes) /\ flushing[w] # <<>> /\ pc[w] = "flush"
    BY <1>12 DEF FlushWrite, WriteChunk, TypeInv, TypeOK, WorkerShape
  <2>3. hash[w] = flushing[w][Len(flushing[w])]
    BY <2>2 DEF TypeInv, WorkerShape
  <2>4. flushing[w][Len(flushing[w])] \in Elements(flushing[w])
    BY <2>2 DEF Elements
  <2>5. hash[w] \in Tracked'
    <3>1. Elements(flushing'[w]) = Elements(flushing[w])'
      BY DEF Elements
    <3> QED BY <2>1, <2>3, <2>4, <3>1 DEF Tracked, InTransit
  <2>6. main' # "flushed" => flushing'[Main] = <<>>
    BY <1>12, LeadDedupAssumption
       DEF FlushWrite, WriteChunk, TrackInv, TypeInv, TypeOK
  <2>7. ASSUME NEW v \in Workers, pc'[v] = "accept"
        PROVE  hash'[v] = hash[v] /\ (v = w \/ pc[v] = "accept")
    BY <1>12, <2>7 DEF FlushWrite, Goto, TypeInv, TypeOK
  <2>8. UNCHANGED counted
    BY <1>12 DEF FlushWrite
  <2> QED BY <1>2, <2>1, <2>5, <2>6, <2>7, <2>8
<1>13. ASSUME NEW w \in Workers, FlushFail(w) PROVE TrackInv'
  <2>1. Tracked \subseteq Tracked'
    BY <1>13, FailChunkTracks DEF FlushFail
  <2>2. main' # "flushed" => flushing'[Main] = <<>>
    BY <1>13, LeadDedupAssumption
       DEF FlushFail, FailChunk, TrackInv, TypeInv, TypeOK
  <2>3. ASSUME NEW v \in Workers, pc'[v] = "accept"
        PROVE  hash'[v] = hash[v] /\ pc[v] = "accept"
    BY <1>13, <2>3 DEF FlushFail, ReturnReleasing, Return, TypeInv, TypeOK
  <2>4. UNCHANGED counted
    BY <1>13 DEF FlushFail
  <2> QED BY <1>2, <2>1, <2>2, <2>3, <2>4
<1>14. ASSUME NEW w \in Workers, Accept(w) PROVE TrackInv'
  <2>1. Tracked' = Tracked
    BY <1>3, <1>14 DEF Accept
  <2>2. counted' \subseteq Tracked
    BY <1>1, <1>14 DEF Accept, At, TrackInv
  <2>3. CountedLeadsAreTracked'
    BY <2>1, <2>2 DEF CountedLeadsAreTracked, Tracked
  <2>4. \A v \in Workers : pc'[v] = "accept" => hash'[v] \in Tracked
    BY <1>14 DEF Accept, ReturnReleasing, Return, TrackInv, TypeInv, TypeOK
  <2>5. main' # "flushed" => flushing'[Main] = <<>>
    BY <1>14 DEF Accept, TrackInv
  <2> QED BY <2>1, <2>3, <2>4, <2>5 DEF TrackInv
<1>15. CASE Exit \/ Crash
  <2>1. Tracked \subseteq docs \cup lost'
    BY <1>15 DEF Exit, Crash, Die, Dropped, Tracked, InTransit
  <2>2. Tracked \subseteq Tracked'
    BY <1>15, <2>1 DEF Exit, Crash, Die, Tracked
  <2>3. \A w \in Workers : pc'[w] # "accept"
    BY <1>15 DEF Exit, Crash, Die
  <2>4. flushing'[Main] = <<>> /\ UNCHANGED counted
    BY <1>15 DEF Exit, Crash, Die
  <2> QED BY <1>2, <2>2, <2>3, <2>4
<1>16. CASE MainFlush
  <2>1. flushing[Main] = <<>>
    BY <1>16 DEF MainFlush, TrackInv
  <2>2. /\ flushing'[Main] = batch /\ main' = "flushed"
        /\ \A w \in Workers : flushing'[w] = flushing[w]
        /\ UNCHANGED <<docs, lost, counted, pc, hash>>
    BY <1>16, LeadDedupAssumption DEF MainFlush, TypeInv, TypeOK
  <2>3. \A a \in Workers \cup {Main} :
          Elements(flushing[a])' = Elements(flushing'[a])
    BY DEF Elements
  <2>4. Tracked \subseteq Tracked'
    <3>1. Elements(batch) \subseteq Tracked'
      BY <2>2, <2>3 DEF Tracked, InTransit
    <3>2. ASSUME NEW a \in Workers \cup {Main}
          PROVE  Elements(flushing[a]) \subseteq Tracked'
      BY <2>1, <2>2, <2>3, ElementsEmpty DEF Tracked, InTransit
    <3>3. docs \cup lost \subseteq Tracked'
      BY <2>2 DEF Tracked
    <3> QED BY <3>1, <3>2, <3>3, TrackedElements
  <2> QED BY <1>2, <2>2, <2>4
<1>17. CASE MainFlushStep
  <2>1. Tracked \subseteq Tracked'
    BY <1>17, WriteChunkTracks, FailChunkTracks DEF MainFlushStep
  <2>2. main' = "flushed"
    BY <1>17 DEF MainFlushStep, WriteChunk, FailChunk, TrackInv
  <2>3. UNCHANGED <<counted, pc, hash>>
    BY <1>17 DEF MainFlushStep
  <2> QED BY <1>2, <2>1, <2>2, <2>3
<1>18. ASSUME NEW h \in Hashes, SeenForget(h) PROVE TrackInv'
  BY <1>4, <1>18 DEF SeenForget
<1>19. CASE Signal \/ Stop \/ Restart
  <2>1. Tracked' = Tracked
    BY <1>3, <1>19 DEF Signal, Stop, Restart
  <2>2. main' # "flushed" => flushing'[Main] = <<>>
    BY <1>19 DEF Signal, Stop, Restart, TrackInv
  <2> QED BY <1>2, <1>19, <2>1, <2>2 DEF Signal, Stop, Restart
<1>20. CASE UNCHANGED vars
  BY <1>4, <1>20 DEF vars
<1> QED
  BY <1>5, <1>5a, <1>6, <1>7, <1>8, <1>9, <1>10, <1>11, <1>12, <1>13, <1>14, <1>15,
     <1>16, <1>17, <1>18, <1>19, <1>20 DEF Next, WorkerStep

LEMMA TrackInit == Init => TrackInv
BY DEF Init, Boot, TrackInv, CountedLeadsAreTracked

\* A lead counted as written is pending, being written, in MongoDB, or was
\* dropped by a failing write or a dying process.
THEOREM CountedTracked == Spec => []CountedLeadsAreTracked
<1>1. TrackInv => CountedLeadsAreTracked
  BY DEF TrackInv
<1> QED BY <1>1, TypeInit, TypeStep, TrackInit, TrackStep, PTL DEF Spec

-----------------------------------------------------------------------------
(* Paid work per hash.                                                     *)

\* Nothing is paid for a hash the cache never held; once it is held, what was
\* paid plus the workers that can still pay is bounded by the workers.
PaidBound(h) ==
    /\ h \notin seen => paid[h] = 0
    /\ h \in seen => paid[h] + Cardinality(Window(h)) <= Cardinality(Workers)

PaidInv ==
    /\ \A h \in Hashes \ forgotten : PaidBound(h)
    /\ \A w \in Workers : pc[w] = "gates" => hash[w] \in seen \cup forgotten

\* Every window is a finite set no larger than the set of workers.
LEMMA WindowFinite ==
    ASSUME NEW h
    PROVE  /\ IsFiniteSet(Window(h)) /\ Cardinality(Window(h)) \in Nat
           /\ Cardinality(Window(h)) <= Cardinality(Workers)
           /\ Cardinality(Workers) \in Nat
<1>1. Window(h) \subseteq Workers
  BY DEF Window
<1> QED BY <1>1, LeadDedupAssumption, FS_Subset, FS_CardinalityType

\* A step that adds nothing to the window of a cached hash and charges nothing
\* keeps its bound.
LEMMA PaidBoundKept ==
    ASSUME TypeInv, TypeInv', NEW h \in Hashes, PaidBound(h),
           paid'[h] = paid[h], seen \subseteq seen',
           h \in seen => Window(h)' \subseteq Window(h)
    PROVE  PaidBound(h)'
<1>1. paid[h] \in Nat
  BY DEF TypeInv, TypeOK
<1>2. /\ Cardinality(Window(h)') \in Nat
      /\ Cardinality(Window(h)') <= Cardinality(Workers)
      /\ Cardinality(Workers) \in Nat
  <2>1. Window(h)' \subseteq Workers
    BY DEF Window
  <2> QED BY <2>1, LeadDedupAssumption, FS_Subset, FS_CardinalityType
<1>3. CASE h \notin seen
  BY <1>1, <1>2, <1>3 DEF PaidBound
<1>4. CASE h \in seen
  <2>1. /\ Cardinality(Window(h)') <= Cardinality(Window(h))
        /\ Cardinality(Window(h)) \in Nat
    BY <1>4, WindowFinite, FS_Subset
  <2>2. paid[h] + Cardinality(Window(h)) <= Cardinality(Workers) /\ h \in seen'
    BY <1>4 DEF PaidBound
  <2>3. paid'[h] + Cardinality(Window(h)') <= Cardinality(Workers)
    BY <1>1, <1>2, <2>1, <2>2
  <2> QED BY <2>2, <2>3 DEF PaidBound
<1> QED BY <1>3, <1>4

\* Every step keeps the bound on paid work.
LEMMA PaidStep == TypeInv /\ TypeInv' /\ PaidInv /\ [Next]_vars => PaidInv'
<1> SUFFICES ASSUME TypeInv, TypeInv', PaidInv, [Next]_vars PROVE PaidInv'
  OBVIOUS
<1> USE DEF proc, life, history, bounds
<1> DEFINE Early == {"missed", "pending_check", "store_check", "gates"}
<1>1. ASSUME UNCHANGED <<paid, forgotten>>, seen \subseteq seen',
             \A w \in Workers : pc'[w] \in Early =>
                \/ pc[w] \in Early /\ hash'[w] = hash[w]
                \/ hash'[w] \notin seen,
             \A w \in Workers : pc'[w] = "gates" =>
                \/ pc[w] = "gates" /\ hash'[w] = hash[w]
                \/ hash'[w] \in seen'
      PROVE  PaidInv'
  <2>1. ASSUME NEW h \in Hashes \ forgotten PROVE PaidBound(h)'
    <3>1. h \in seen => Window(h)' \subseteq Window(h)
      BY <1>1 DEF Window
    <3> QED BY <1>1, <3>1, PaidBoundKept DEF PaidInv
  <2>2. \A w \in Workers :
          pc'[w] = "gates" => hash'[w] \in seen' \cup forgotten'
    BY <1>1 DEF PaidInv
  <2> QED BY <1>1, <2>1, <2>2 DEF PaidInv
<1>2. ASSUME NEW w \in Workers, NEW h \in Hashes, Process(w, h)
      PROVE  PaidInv'
  BY <1>1, <1>2 DEF Process, TypeInv, TypeOK
<1>2a. ASSUME NEW w \in Workers, SeenCheck(w) PROVE PaidInv'
  BY <1>1, <1>2a DEF SeenCheck, At, Goto, Return, TypeInv, TypeOK
<1>3. ASSUME NEW w \in Workers, AcquireHash(w) PROVE PaidInv'
  BY <1>1, <1>3 DEF AcquireHash, At, Goto, Return, TypeInv, TypeOK
<1>4. ASSUME NEW w \in Workers, ExistsInBatch(w) PROVE PaidInv'
  BY <1>1, <1>4
     DEF ExistsInBatch, At, Goto, ReturnReleasing, Return, TypeInv, TypeOK
<1>5. ASSUME NEW w \in Workers, ExistsInStore(w) PROVE PaidInv'
  BY <1>1, <1>5
     DEF ExistsInStore, At, Goto, ReturnReleasing, Return, TypeInv, TypeOK
<1>6. ASSUME NEW w \in Workers, ExistsError(w) PROVE PaidInv'
  BY <1>1, <1>6 DEF ExistsError, ReturnReleasing, Return, TypeInv, TypeOK
<1>7. ASSUME NEW w \in Workers, PaidGates(w) PROVE PaidInv'
  <2>1. hash[w] \in Hashes /\ pc[w] = "gates"
    BY <1>7, HoldsHash DEF PaidGates, At
  <2>2. /\ pc'[w] \notin Early
        /\ \A v \in Workers : v # w => pc'[v] = pc[v] /\ hash'[v] = hash[v]
        /\ UNCHANGED <<seen, forgotten>>
    BY <1>7 DEF PaidGates, Goto, ReturnReleasing, Return, TypeInv, TypeOK
  <2>3. ASSUME NEW h \in Hashes \ forgotten PROVE PaidBound(h)'
    <3>1. Window(h)' \subseteq Window(h)
      BY <2>2 DEF Window
    <3>2. CASE h # hash[w]
      <4>1. paid'[h] = paid[h]
        BY <1>7, <2>1, <3>2 DEF PaidGates, TypeInv, TypeOK
      <4> QED BY <2>2, <3>1, <4>1, PaidBoundKept DEF PaidInv
    <3>3. CASE h = hash[w]
      <4>1. h \in seen
        BY <2>1, <3>3 DEF PaidInv
      <4>2. w \in Window(h)
        BY <2>1, <3>3 DEF Window
      <4>3. Window(h)' = Window(h) \ {w}
        BY <2>2 DEF Window
      <4>4. Cardinality(Window(h)') = Cardinality(Window(h)) - 1
        BY <4>2, <4>3, WindowFinite, FS_RemoveElement
      <4>5. paid'[h] = paid[h] + 1 /\ paid[h] \in Nat
        BY <1>7, <3>3 DEF PaidGates, TypeInv, TypeOK
      <4>6. Cardinality(Window(h)) \in Nat /\ Cardinality(Workers) \in Nat
        BY WindowFinite
      <4>7. paid[h] + Cardinality(Window(h)) <= Cardinality(Workers)
        BY <4>1 DEF PaidInv, PaidBound
      <4>8. paid'[h] + Cardinality(Window(h)') <= Cardinality(Workers)
        BY <4>4, <4>5, <4>6, <4>7
      <4> QED BY <2>2, <4>1, <4>8 DEF PaidBound
    <3> QED BY <3>2, <3>3
  <2>4. \A v \in Workers :
          pc'[v] = "gates" => hash'[v] \in seen' \cup forgotten'
    BY <2>2 DEF PaidInv
  <2> QED BY <2>2, <2>3, <2>4 DEF PaidInv
<1>8. ASSUME NEW w \in Workers, Upsert(w) PROVE PaidInv'
  BY <1>1, <1>8 DEF Upsert, Goto, TypeInv, TypeOK
<1>9. ASSUME NEW w \in Workers, FlushWrite(w) PROVE PaidInv'
  BY <1>1, <1>9 DEF FlushWrite, Goto, TypeInv, TypeOK
<1>10. ASSUME NEW w \in Workers, FlushFail(w) PROVE PaidInv'
  BY <1>1, <1>10 DEF FlushFail, ReturnReleasing, Return, TypeInv, TypeOK
<1>11. ASSUME NEW w \in Workers, Accept(w) PROVE PaidInv'
  BY <1>1, <1>11 DEF Accept, ReturnReleasing, Return, TypeInv, TypeOK
<1>12. CASE Exit \/ Crash
  BY <1>1, <1>12 DEF Exit, Crash, Die
<1>13. ASSUME UNCHANGED <<paid, pc, hash>>, seen' \subseteq seen,
              forgotten' = forgotten \cup (seen \ seen')
       PROVE  PaidInv'
  <2>1. \A h : Window(h)' = Window(h)
    BY <1>13 DEF Window
  <2>2. ASSUME NEW h \in Hashes \ forgotten' PROVE PaidBound(h)'
    BY <1>13, <2>1 DEF PaidInv, PaidBound
  <2> QED BY <1>13, <2>2 DEF PaidInv
<1>14. ASSUME NEW h \in Hashes, SeenForget(h) PROVE PaidInv'
  BY <1>13, <1>14 DEF SeenForget
<1>15. CASE Restart
  BY <1>13, <1>15 DEF Restart
<1>16. CASE Signal \/ Stop \/ MainFlush \/ MainFlushStep
  BY <1>1, <1>16 DEF Signal, Stop, MainFlush, MainFlushStep
<1>17. CASE UNCHANGED vars
  BY <1>1, <1>17 DEF vars
<1> QED
  BY <1>2, <1>2a, <1>3, <1>4, <1>5, <1>6, <1>7, <1>8, <1>9, <1>10, <1>11, <1>12,
     <1>14, <1>15, <1>16, <1>17 DEF Next, WorkerStep

LEMMA PaidInit == Init => PaidInv
BY DEF Init, Boot, PaidInv, PaidBound

\* While the Seen cache keeps a hash, the paid gates run for it at most once
\* per worker, for any number of workers, calls and store failures.
THEOREM PaidBounded == Spec => []PaidAtMostOncePerWorker
<1>1. TypeInv /\ PaidInv => PaidAtMostOncePerWorker
  <2> SUFFICES ASSUME TypeInv, PaidInv, NEW h \in Hashes \ forgotten
               PROVE  paid[h] <= Cardinality(Workers)
    BY DEF PaidAtMostOncePerWorker
  <2>1. PaidBound(h)
    BY DEF PaidInv
  <2>2. paid[h] \in Nat
    BY DEF TypeInv, TypeOK
  <2>3. Cardinality(Window(h)) \in Nat /\ Cardinality(Workers) \in Nat
    BY WindowFinite
  <2> QED BY <2>1, <2>2, <2>3 DEF PaidBound
<1> QED BY <1>1, TypeInit, TypeStep, PaidInit, PaidStep, PTL DEF Spec
=============================================================================
