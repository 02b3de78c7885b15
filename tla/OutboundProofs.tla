--------------------------- MODULE OutboundProofs ---------------------------
(***************************************************************************)
(* Safety of Outbound for any number of Gets and proxies and any           *)
(* thresholds: the breaker's maps agree, the recorded overshoot of the day *)
(* is bounded, and a restart forgets only what a failed save left behind.  *)
(***************************************************************************)
EXTENDS Outbound, FiniteSetTheorems, TLAPS

USE DEF Closed, NoProxy

GetType ==
    /\ pc \in [Gets -> Labels]
    /\ attempt \in [Gets -> 0..(Attempts - 1)]
    /\ picked \in [Gets -> Proxies \union {NoProxy}]
    /\ via \in [Gets -> Proxies \union {NoProxy}]
    /\ resp \in [Gets -> Answers \union Errors]
    /\ hops \in [Gets -> 0..MaxHops]

PoolType ==
    /\ current \in Proxies \union {NoProxy}
    /\ cooling \in [Proxies -> 0..Cooldown]

BreakerType ==
    /\ failures \in Nat
    /\ openLeft \in -1..Max2(OpenTimeout, RetryAfter)

GovernorType ==
    /\ govDay \in Days /\ govBytes \in Nat
    /\ diskDay \in Days \union {"torn"} /\ diskBytes \in Nat
    /\ stale \in BOOLEAN

\* The breaker keeps its type and its two maps agree whatever a Get reports.
LEMMA CountFailureKeeps ==
    ASSUME BreakerType, CircuitMatchesCount,
           NEW t \in {FailThreshold, CloudflareThreshold},
           NEW o \in {OpenTimeout, Max2(OpenTimeout, RetryAfter)},
           CountFailure(t, o)
    PROVE  BreakerType' /\ CircuitMatchesCount'
BY OutboundAssumption DEF BreakerType, CircuitMatchesCount, CountFailure, Max2

LEMMA RecordSuccessKeeps ==
    ASSUME RecordSuccess
    PROVE  BreakerType' /\ CircuitMatchesCount'
BY OutboundAssumption DEF BreakerType, CircuitMatchesCount, RecordSuccess, Max2

LEMMA ExpireKeeps ==
    ASSUME BreakerType, CircuitMatchesCount, ExpireCircuit
    PROVE  BreakerType' /\ CircuitMatchesCount'
<1>1. CASE openLeft = 0
  BY <1>1, RecordSuccessKeeps DEF ExpireCircuit
<1>2. CASE openLeft # 0
  BY <1>2 DEF ExpireCircuit, breakerVars, BreakerType, CircuitMatchesCount
<1> QED BY <1>1, <1>2

LEMMA BreakerFrame ==
    ASSUME BreakerType, CircuitMatchesCount, UNCHANGED breakerVars
    PROVE  BreakerType' /\ CircuitMatchesCount'
BY DEF breakerVars, BreakerType, CircuitMatchesCount

LEMMA RecordAnswerKeeps ==
    ASSUME BreakerType, CircuitMatchesCount, NEW a, RecordAnswer(a)
    PROVE  BreakerType' /\ CircuitMatchesCount'
<1>1. CASE RecordSuccess
  BY <1>1, RecordSuccessKeeps
<1>2. CASE CountFailure(CloudflareThreshold, OpenTimeout)
  BY <1>2, CountFailureKeeps
<1>3. CASE CountFailure(FailThreshold, OpenTimeout)
  BY <1>3, CountFailureKeeps
<1>4. CASE CountFailure(FailThreshold, Max2(OpenTimeout, RetryAfter))
  BY <1>4, CountFailureKeeps
<1>5. CASE UNCHANGED breakerVars
  BY <1>5, BreakerFrame
<1> QED BY <1>1, <1>2, <1>3, <1>4, <1>5 DEF RecordAnswer

LEMMA RecordErrorKeeps ==
    ASSUME BreakerType, CircuitMatchesCount, NEW a, RecordError(a)
    PROVE  BreakerType' /\ CircuitMatchesCount'
<1>1. CASE CountFailure(CloudflareThreshold, OpenTimeout)
  BY <1>1, CountFailureKeeps
<1>2. CASE CountFailure(FailThreshold, OpenTimeout)
  BY <1>2, CountFailureKeeps
<1>3. CASE UNCHANGED breakerVars
  BY <1>3, BreakerFrame
<1> QED BY <1>1, <1>2, <1>3 DEF RecordError

\* Breaker: every step keeps its type and the agreement of its maps.
LEMMA BreakerStep ==
    ASSUME BreakerType, CircuitMatchesCount, [Next]_vars
    PROVE  BreakerType' /\ CircuitMatchesCount'
<1>1. ASSUME NEW g \in Gets, BeginGet(g)
      PROVE  BreakerType' /\ CircuitMatchesCount'
  BY <1>1, ExpireKeeps DEF BeginGet
<1>2. ASSUME NEW g \in Gets, Report(g)
      PROVE  BreakerType' /\ CircuitMatchesCount'
  BY <1>2, RecordErrorKeeps, RecordAnswerKeeps DEF Report
<1>3. ASSUME NEW g \in Gets, GetStep(g), ~BeginGet(g), ~Report(g)
      PROVE  UNCHANGED breakerVars
  BY <1>3 DEF GetStep, GetCancelled, BudgetAllow, BudgetRefuse, PickEndpoint,
    AcquireTimeout, StoreProxy, Connect, Fail, Answer, RecordEgress,
    SkipEgress, Truncate, Persist
<1>4. CASE Tick
  BY <1>4, OutboundAssumption
  DEF Tick, Left, BreakerType, CircuitMatchesCount, Max2
<1>5. CASE NewDay
  BY <1>5, BreakerFrame DEF NewDay
<1>6. CASE Restart
  BY <1>6, RecordSuccessKeeps DEF Restart, RecordSuccess
<1>7. CASE UNCHANGED vars
  BY <1>7, BreakerFrame DEF vars, breakerVars
<1> QED
  BY <1>1, <1>2, <1>3, <1>4, <1>5, <1>6, <1>7, BreakerFrame DEF Next

\* A step that touches neither the governor nor its file and ends no save.
LEMMA GovernorFrame ==
    ASSUME GovernorType, RestartKeepsTotal,
           UNCHANGED <<stateVars, diskVars>>, GovernorFree' => GovernorFree
    PROVE  GovernorType' /\ RestartKeepsTotal'
BY DEF stateVars, diskVars, GovernorType, RestartKeepsTotal, BytesToday

\* A Get that is not saving moves elsewhere: the lock stays as it was, or is
\* taken.
LEMMA StillSaving ==
    ASSUME GetType, NEW g \in Gets, pc[g] \notin {"persist", "writing"},
           NEW l, Goto(g, l)
    PROVE  GovernorFree' => GovernorFree
BY DEF GetType, Goto, GovernorFree

\* The governor, its file and what a restart would make of them.
LEMMA GovernorStep ==
    ASSUME GetType, GovernorType, RestartKeepsTotal, [Next]_vars
    PROVE  GovernorType' /\ RestartKeepsTotal'
<1>1. ASSUME NEW g \in Gets, BudgetAllow(g) \/ BudgetRefuse(g)
      PROVE  GovernorType' /\ RestartKeepsTotal'
  <2>1. GovernorFree /\ GovernorAdd(0) /\ UNCHANGED diskVars
    BY <1>1 DEF BudgetAllow, BudgetRefuse
  <2> QED BY <2>1 DEF GovernorType, RestartKeepsTotal, BytesToday, Days,
    GovernorAdd, diskVars
<1>2. ASSUME NEW g \in Gets, RecordEgress(g)
      PROVE  GovernorType' /\ RestartKeepsTotal'
  <2>1. ~GovernorFree'
    BY <1>2 DEF RecordEgress, Goto, GetType, GovernorFree
  <2>2. PICK n \in 1..MaxBytes : GovernorAdd(n)
    BY <1>2 DEF RecordEgress
  <2>3. n \in Nat
    BY <2>2, OutboundAssumption
  <2>4. UNCHANGED diskVars
    BY <1>2 DEF RecordEgress
  <2> QED BY <2>1, <2>2, <2>3, <2>4 DEF GovernorType, RestartKeepsTotal,
    BytesToday, Days, GovernorAdd, diskVars
<1>3. ASSUME NEW g \in Gets, Truncate(g)
      PROVE  GovernorType' /\ RestartKeepsTotal'
  <2>1. ~GovernorFree'
    BY <1>3 DEF Truncate, Goto, GetType, GovernorFree
  <2>2. /\ diskDay' = "torn" /\ diskBytes' = 0
        /\ UNCHANGED <<govDay, govBytes, stale>>
    BY <1>3 DEF Truncate, stateVars
  <2> QED BY <2>1, <2>2 DEF GovernorType, RestartKeepsTotal, BytesToday, Days
<1>4. ASSUME NEW g \in Gets, Persist(g)
      PROVE  GovernorType' /\ RestartKeepsTotal'
  <2>1. UNCHANGED <<govDay, govBytes>> /\ stale' \in BOOLEAN
    BY <1>4 DEF Persist, stateVars
  <2>2. CASE stale' /\ UNCHANGED <<diskDay, diskBytes>>
    BY <2>1, <2>2 DEF GovernorType, RestartKeepsTotal, BytesToday
  <2>3. CASE diskDay' = govDay /\ diskBytes' = govBytes
    BY <2>1, <2>3 DEF GovernorType, RestartKeepsTotal, BytesToday
  <2> QED BY <1>4, <2>2, <2>3 DEF Persist
<1>5. ASSUME NEW g \in Gets, GetStep(g), ~BudgetAllow(g), ~BudgetRefuse(g),
             ~RecordEgress(g), ~Truncate(g), ~Persist(g)
      PROVE  GovernorType' /\ RestartKeepsTotal'
  <2>1. UNCHANGED <<stateVars, diskVars>>
    BY <1>5 DEF GetStep, BeginGet, GetCancelled, PickEndpoint,
      AcquireTimeout, StoreProxy, Connect, Fail, Answer, SkipEgress, Report
  <2>2. /\ pc[g] \notin {"persist", "writing"}
        /\ \E l \in Labels : Goto(g, l)
    BY <1>5 DEF GetStep, BeginGet, GetCancelled, PickEndpoint,
      AcquireTimeout, StoreProxy, Connect, Fail, Answer, SkipEgress,
      EndRoundTrip, Report, Return, Labels
  <2> QED BY <2>1, <2>2, StillSaving, GovernorFrame
<1>6. CASE Tick \/ UNCHANGED vars
  <2>1. UNCHANGED <<stateVars, diskVars, pc>>
    BY <1>6 DEF Tick, vars, getVars, stateVars, diskVars
  <2> QED BY <2>1, GovernorFrame DEF GovernorFree
<1>7. CASE NewDay
  BY <1>7 DEF NewDay, GovernorType, RestartKeepsTotal, BytesToday, Days
<1>8. CASE Restart
  <2>1. stale' \in BOOLEAN
    BY <1>8 DEF Restart
  <2>2. /\ govDay' = "today" /\ govBytes' = BytesToday(diskDay, diskBytes)
        /\ UNCHANGED <<diskDay, diskBytes>>
    BY <1>8 DEF Restart, LoadState
  <2> QED BY <2>1, <2>2 DEF GovernorType, RestartKeepsTotal, BytesToday, Days
<1> QED
  BY <1>1, <1>2, <1>3, <1>4, <1>5, <1>6, <1>7, <1>8 DEF Next

-----------------------------------------------------------------------------
(* Gets and the pool.                                                      *)

\* Moving one Get, ending its RoundTrip and returning from it keep the types.
LEMMA GotoType ==
    ASSUME GetType, NEW g \in Gets, NEW l \in Labels, Goto(g, l)
    PROVE  pc' \in [Gets -> Labels]
BY DEF GetType, Goto

LEMMA ReleaseType ==
    ASSUME GetType, NEW g \in Gets, Release(g)
    PROVE  /\ picked' \in [Gets -> Proxies \union {NoProxy}]
           /\ via' \in [Gets -> Proxies \union {NoProxy}]
BY DEF GetType, Release

LEMMA ReturnType ==
    ASSUME GetType, NEW g \in Gets, Return(g)
    PROVE  /\ pc' \in [Gets -> Labels]
           /\ attempt' \in [Gets -> 0..(Attempts - 1)]
           /\ resp' \in [Gets -> Answers \union Errors]
           /\ hops' \in [Gets -> 0..MaxHops]
<1>1. pc' \in [Gets -> Labels]
  BY DEF GetType, Return, Goto, Labels
<1>2. attempt' \in [Gets -> 0..(Attempts - 1)]
  BY OutboundAssumption DEF GetType, Return
<1>3. resp' \in [Gets -> Answers \union Errors]
  BY DEF GetType, Return, Answers
<1>4. hops' \in [Gets -> 0..MaxHops]
  BY OutboundAssumption DEF GetType, Return
<1> QED BY <1>1, <1>2, <1>3, <1>4

\* So does the end of a RoundTrip, with a redirect to follow or without.
LEMMA EndRoundTripType ==
    ASSUME GetType, NEW g \in Gets, EndRoundTrip(g)
    PROVE  /\ pc' \in [Gets -> Labels]
           /\ resp' \in [Gets -> Answers \union Errors]
           /\ hops' \in [Gets -> 0..MaxHops]
<1>1. pc' \in [Gets -> Labels]
  BY GotoType DEF EndRoundTrip, Labels
<1>2. resp' \in [Gets -> Answers \union Errors]
  BY DEF EndRoundTrip, GetType, Answers, Errors
<1>3. hops' \in [Gets -> 0..MaxHops]
  BY OutboundAssumption DEF EndRoundTrip, GetType
<1> QED BY <1>1, <1>2, <1>3

\* Every step of a Get keeps the types of the Gets and of the pool.
LEMMA GetStepType ==
    ASSUME GetType, PoolType, NEW g \in Gets, GetStep(g)
    PROVE  GetType' /\ PoolType'
<1> USE DEF Labels
<1>1. CASE BeginGet(g)
  BY <1>1, GotoType DEF BeginGet, GetType, PoolType, poolVars
<1>2. CASE GetCancelled(g)
  BY <1>2, ReturnType DEF GetCancelled, GetType, PoolType, poolVars
<1>3. CASE BudgetAllow(g)
  BY <1>3, GotoType DEF BudgetAllow, GetType, PoolType, poolVars
<1>4. CASE BudgetRefuse(g)
  <2>1. resp' \in [Gets -> Answers \union Errors]
    BY <1>4 DEF BudgetRefuse, GetType, Errors
  <2> QED BY <1>4, <2>1, GotoType DEF BudgetRefuse, GetType, PoolType, poolVars
<1>5. CASE PickEndpoint(g)
  <2>1. picked' \in [Gets -> Proxies \union {NoProxy}]
    BY <1>5 DEF PickEndpoint, Available, GetType
  <2> QED BY <1>5, <2>1, GotoType DEF PickEndpoint, GetType, PoolType, poolVars
<1>6. CASE AcquireTimeout(g)
  <2>1. resp' \in [Gets -> Answers \union Errors]
    <3>1. PICK e \in Errors : resp' = [resp EXCEPT ![g] = e]
      BY <1>6 DEF AcquireTimeout
    <3> QED BY <3>1 DEF GetType
  <2>2. /\ Goto(g, "report") /\ Release(g)
        /\ UNCHANGED <<attempt, hops, current, cooling>>
    BY <1>6 DEF AcquireTimeout, poolVars
  <2> QED BY <2>1, <2>2, GotoType, ReleaseType DEF GetType, PoolType
<1>7. CASE StoreProxy(g)
  <2>1. current' \in Proxies \union {NoProxy}
    BY <1>7 DEF StoreProxy, GetType
  <2> QED BY <1>7, <2>1, GotoType DEF StoreProxy, GetType, PoolType
<1>8. CASE Connect(g)
  <2>1. via' \in [Gets -> Proxies \union {NoProxy}]
    BY <1>8 DEF Connect, GetType, PoolType
  <2> QED BY <1>8, <2>1, GotoType DEF Connect, GetType, PoolType, poolVars
<1>9. CASE Fail(g)
  <2>1. resp' \in [Gets -> Answers \union Errors]
    BY <1>9 DEF Fail, GetType, Errors
  <2> QED
    BY <1>9, <2>1, GotoType, ReleaseType DEF Fail, GetType, PoolType, poolVars
<1>10. CASE Answer(g)
  <2>1. resp' \in [Gets -> Answers \union Errors]
    BY <1>10 DEF Answer, GetType
  <2>2. cooling' \in [Proxies -> 0..Cooldown]
    <3>1. PICK a \in Answers : CoolDown(g, a)
      BY <1>10 DEF Answer
    <3>2. Cooldown \in 0..Cooldown
      BY OutboundAssumption
    <3> QED BY <3>1, <3>2 DEF CoolDown, PoolType
  <2> QED
    BY <1>10, <2>1, <2>2, GotoType, ReleaseType DEF Answer, GetType, PoolType
<1>11. CASE RecordEgress(g)
  BY <1>11, GotoType DEF RecordEgress, GetType, PoolType, poolVars
<1>12. CASE SkipEgress(g)
  BY <1>12, EndRoundTripType DEF SkipEgress, GetType, PoolType, poolVars
<1>13. CASE Persist(g)
  BY <1>13, EndRoundTripType DEF Persist, GetType, PoolType, poolVars
<1>15. CASE Truncate(g)
  BY <1>15, GotoType DEF Truncate, GetType, PoolType, poolVars
<1>14. CASE Report(g)
  <2>1. ASSUME RetriesLeft(g), attempt' = [attempt EXCEPT ![g] = @ + 1]
        PROVE  attempt' \in [Gets -> 0..(Attempts - 1)]
    BY <2>1, OutboundAssumption DEF GetType, RetriesLeft
  <2>2. ASSUME resp' = [resp EXCEPT ![g] = "ok"]
        PROVE  resp' \in [Gets -> Answers \union Errors]
    BY <2>2 DEF GetType, Answers
  <2>3. ASSUME hops' = [hops EXCEPT ![g] = 0]
        PROVE  hops' \in [Gets -> 0..MaxHops]
    BY <2>3, OutboundAssumption DEF GetType
  <2>5. /\ pc' \in [Gets -> Labels]
        /\ attempt' \in [Gets -> 0..(Attempts - 1)]
        /\ resp' \in [Gets -> Answers \union Errors]
        /\ hops' \in [Gets -> 0..MaxHops]
    BY <1>14, <2>1, <2>2, <2>3, GotoType, ReturnType DEF Report
  <2> QED BY <1>14, <2>5 DEF Report, GetType, PoolType, poolVars
<1> QED
  BY <1>1, <1>2, <1>3, <1>4, <1>5, <1>6, <1>7, <1>8, <1>9, <1>10, <1>11,
     <1>12, <1>13, <1>14, <1>15 DEF GetStep

LEMMA GetsStep ==
    ASSUME GetType, PoolType, [Next]_vars
    PROVE  GetType' /\ PoolType'
<1>1. CASE Tick
  <2>1. cooling' \in [Proxies -> 0..Cooldown]
    BY <1>1, OutboundAssumption DEF Tick, Left, PoolType
  <2> QED BY <1>1, <2>1 DEF Tick, getVars, GetType, PoolType
<1>2. CASE NewDay
  BY <1>2 DEF NewDay, getVars, poolVars, GetType, PoolType
<1>3. CASE Restart
  <2>1. GetType'
    BY <1>3, OutboundAssumption DEF Restart, GetType, Labels, Answers
  <2>2. PoolType'
    BY <1>3, OutboundAssumption DEF Restart, PoolType
  <2> QED BY <2>1, <2>2
<1>4. CASE UNCHANGED vars
  BY <1>4 DEF vars, GetType, PoolType
<1> QED BY <1>1, <1>2, <1>3, <1>4, GetStepType DEF Next

-----------------------------------------------------------------------------
(* The excess over the daily cap.                                          *)

\* Products with the largest response.
LEMMA Product ==
    ASSUME NEW a \in Nat, NEW b \in Nat, a <= b
    PROVE  /\ a * MaxBytes \in Nat /\ b * MaxBytes \in Nat
           /\ a * MaxBytes <= b * MaxBytes
           /\ (b + 1) * MaxBytes = b * MaxBytes + MaxBytes
BY OutboundAssumption

LEMMA AdmittedCount ==
    /\ IsFiniteSet(Admitted) /\ Cardinality(Admitted) \in Nat
    /\ Cardinality(Gets) \in Nat
    /\ Cardinality(Admitted) <= Cardinality(Gets)
BY OutboundAssumption, FS_Subset, FS_CardinalityType DEF Admitted

\* Adding a Get to those admitted, or taking one from them.
LEMMA AdmittedShrinks ==
    ASSUME NEW S \in SUBSET Admitted
    PROVE  /\ Cardinality(S) \in Nat
           /\ Cardinality(S) * MaxBytes <= Cardinality(Admitted) * MaxBytes
           /\ \A g \in Admitted \ S :
                Cardinality(S) * MaxBytes + MaxBytes
                  <= Cardinality(Admitted) * MaxBytes
<1>1. /\ Cardinality(S) \in Nat /\ IsFiniteSet(S)
      /\ Cardinality(S) <= Cardinality(Admitted)
  BY AdmittedCount, FS_Subset, FS_CardinalityType
<1>2. ASSUME NEW g \in Admitted \ S
      PROVE  Cardinality(S) + 1 <= Cardinality(Admitted)
  <2>1. Cardinality(S \union {g}) = Cardinality(S) + 1
    BY <1>1, FS_AddElement
  <2>2. Cardinality(S \union {g}) <= Cardinality(Admitted)
    BY AdmittedCount, FS_Subset
  <2> QED BY <2>1, <2>2
<1>3. ASSUME NEW g \in Admitted \ S
      PROVE  Cardinality(S) * MaxBytes + MaxBytes
               <= Cardinality(Admitted) * MaxBytes
  <2>1. Cardinality(S) + 1 \in Nat
    BY <1>1
  <2>2. (Cardinality(S) + 1) * MaxBytes <= Cardinality(Admitted) * MaxBytes
    BY <1>2, <2>1, AdmittedCount, Product
  <2>3. (Cardinality(S) + 1) * MaxBytes = Cardinality(S) * MaxBytes + MaxBytes
    BY <1>1, Product
  <2> QED BY <2>2, <2>3
<1> QED BY <1>1, <1>3, AdmittedCount, Product

\* A step that adds nothing to today's total and admits nobody.
LEMMA OvershootFrame ==
    ASSUME GovernorType, OvershootIsBounded, GovernorType',
           BytesToday(govDay', govBytes') <= BytesToday(govDay, govBytes),
           Admitted' \subseteq Admitted
    PROVE  OvershootIsBounded'
<1>1. /\ Cardinality(Admitted') \in Nat
      /\ Cardinality(Admitted') * MaxBytes <= Cardinality(Admitted) * MaxBytes
  BY AdmittedShrinks
<1>2. /\ Cardinality(Admitted') * MaxBytes \in Nat
      /\ Cardinality(Admitted) * MaxBytes \in Nat
      /\ Cardinality(Gets) * MaxBytes \in Nat
  BY <1>1, AdmittedCount, Product
<1>3. BytesToday(govDay, govBytes) \in Nat /\ BytesToday(govDay', govBytes') \in Nat
  BY DEF GovernorType, BytesToday
<1> QED
  BY <1>1, <1>2, <1>3, OutboundAssumption DEF OvershootIsBounded

\* BudgetAllow may admit one more Get: all of them together still fit.
LEMMA OvershootAdmit ==
    ASSUME GovernorType, NEW g \in Gets, BudgetAllow(g)
    PROVE  OvershootIsBounded'
<1>1. /\ BytesToday(govDay', govBytes') \in Nat
      /\ BytesToday(govDay', govBytes') < CapBytes
  BY OutboundAssumption
  DEF BudgetAllow, Admits, GovernorAdd, GovernorType, BytesToday
<1>2. Admitted' \subseteq Gets
  BY DEF Admitted
<1>3. /\ Cardinality(Admitted') \in Nat /\ Cardinality(Gets) \in Nat
      /\ Cardinality(Admitted') <= Cardinality(Gets)
  BY <1>2, OutboundAssumption, FS_Subset, FS_CardinalityType
<1>4. /\ Cardinality(Admitted') * MaxBytes \in Nat
      /\ Cardinality(Gets) * MaxBytes \in Nat
      /\ Cardinality(Admitted') * MaxBytes <= Cardinality(Gets) * MaxBytes
  BY <1>3, Product
<1> QED
  BY <1>1, <1>4, OutboundAssumption DEF OvershootIsBounded

\* RecordEgress adds one response and takes its Get off those admitted.
LEMMA OvershootRecord ==
    ASSUME GetType, GovernorType, OvershootIsBounded,
           NEW g \in Gets, RecordEgress(g)
    PROVE  OvershootIsBounded'
<1>1. g \in Admitted /\ Admitted' \subseteq Admitted /\ g \notin Admitted'
  BY DEF RecordEgress, Goto, Admitted, GetType
<1>2. Cardinality(Admitted') * MaxBytes + MaxBytes
        <= Cardinality(Admitted) * MaxBytes
  BY <1>1, AdmittedShrinks
<1>3. Cardinality(Admitted') \in Nat
  BY <1>1, AdmittedShrinks
<1>4. /\ Cardinality(Admitted') * MaxBytes \in Nat
      /\ Cardinality(Admitted) * MaxBytes \in Nat
      /\ Cardinality(Gets) * MaxBytes \in Nat
  BY <1>3, AdmittedCount, Product
<1>5. PICK n \in 1..MaxBytes : GovernorAdd(n)
  BY DEF RecordEgress
<1>6. /\ BytesToday(govDay, govBytes) \in Nat
      /\ BytesToday(govDay', govBytes') = BytesToday(govDay, govBytes) + n
  BY <1>5 DEF GovernorAdd, BytesToday, GovernorType
<1> QED
  BY <1>2, <1>4, <1>5, <1>6, OutboundAssumption DEF OvershootIsBounded

\* A restart loads no more than the governor had counted.
LEMMA LoadedTotal ==
    ASSUME GovernorType, RestartKeepsTotal, Restart
    PROVE  BytesToday(govDay', govBytes') <= BytesToday(govDay, govBytes)
BY DEF GovernorType, RestartKeepsTotal, Restart, LoadState, BytesToday, Days

LEMMA OvershootStep ==
    ASSUME GetType, GovernorType, GovernorType', RestartKeepsTotal,
           OvershootIsBounded, [Next]_vars
    PROVE  OvershootIsBounded'
<1>1. ASSUME NEW g \in Gets, BudgetAllow(g) PROVE OvershootIsBounded'
  BY <1>1, OvershootAdmit
<1>2. ASSUME NEW g \in Gets, RecordEgress(g) PROVE OvershootIsBounded'
  BY <1>2, OvershootRecord
<1>3. ASSUME NEW g \in Gets, BudgetRefuse(g) PROVE OvershootIsBounded'
  <2>1. BytesToday(govDay', govBytes') <= BytesToday(govDay, govBytes)
    BY <1>3 DEF BudgetRefuse, GovernorAdd, BytesToday, GovernorType
  <2>2. Admitted' \subseteq Admitted
    BY <1>3 DEF BudgetRefuse, Goto, Admitted, GetType
  <2> QED BY <2>1, <2>2, OvershootFrame
<1>4. ASSUME NEW g \in Gets, GetStep(g), ~BudgetAllow(g), ~BudgetRefuse(g),
             ~RecordEgress(g)
      PROVE  OvershootIsBounded'
  <2>1. UNCHANGED stateVars
    BY <1>4 DEF GetStep, BeginGet, GetCancelled, PickEndpoint, AcquireTimeout,
      StoreProxy, Connect, Fail, Answer, SkipEgress, Truncate, Persist,
      Report
  <2>2. BytesToday(govDay', govBytes') <= BytesToday(govDay, govBytes)
    BY <2>1 DEF stateVars, BytesToday, GovernorType
  <2>3. Admitted' \subseteq Admitted
    <3>1. \/ pc[g] \in {"pick", "wait", "stored", "wire", "egress"}
          \/ \E l \in {"gate", "idle", "report", "writing"} : Goto(g, l)
      BY <1>4 DEF GetStep, BeginGet, GetCancelled, PickEndpoint,
        AcquireTimeout, StoreProxy, Connect, Fail, Answer, SkipEgress,
        EndRoundTrip, Truncate, Persist, Report, Return
    <3>2. \E l \in Labels : Goto(g, l)
      BY <1>4 DEF GetStep, BeginGet, GetCancelled, PickEndpoint,
        AcquireTimeout, StoreProxy, Connect, Fail, Answer, SkipEgress,
        EndRoundTrip, Truncate, Persist, Report, Return, Labels
    <3> QED BY <3>1, <3>2 DEF Admitted, Goto, GetType
  <2> QED BY <2>2, <2>3, OvershootFrame
<1>5. CASE Tick \/ NewDay \/ UNCHANGED vars
  <2>1. BytesToday(govDay', govBytes') <= BytesToday(govDay, govBytes)
    BY <1>5 DEF Tick, NewDay, vars, stateVars, BytesToday, GovernorType
  <2>2. pc' = pc
    BY <1>5 DEF Tick, NewDay, vars, getVars
  <2> QED BY <2>1, <2>2, OvershootFrame DEF Admitted
<1>6. CASE Restart
  <2>1. Admitted' \subseteq Admitted
    BY <1>6 DEF Restart, Admitted
  <2> QED BY <1>6, <2>1, LoadedTotal, OvershootFrame
<1> QED
  BY <1>1, <1>2, <1>3, <1>4, <1>5, <1>6 DEF Next

-----------------------------------------------------------------------------
(* The inductive invariant and the theorems.                               *)

IInv ==
    /\ kind \in Kinds
    /\ GetType /\ PoolType /\ BreakerType /\ GovernorType
    /\ CircuitMatchesCount
    /\ RestartKeepsTotal
    /\ OvershootIsBounded

LEMMA InitIInv == Init => IInv
<1> SUFFICES ASSUME Init PROVE IInv
  OBVIOUS
<1>1. GetType
  BY OutboundAssumption DEF Init, GetType, Labels, Answers
<1>2. PoolType
  BY OutboundAssumption DEF Init, PoolType
<1>3. BreakerType /\ CircuitMatchesCount
  BY OutboundAssumption DEF Init, BreakerType, CircuitMatchesCount, Max2
<1>4. GovernorType /\ RestartKeepsTotal
  <2>1. stale \in BOOLEAN
    BY DEF Init
  <2>2. /\ govDay = "today" /\ govBytes = 0
        /\ diskDay = "earlier" /\ diskBytes = 0
    BY DEF Init
  <2> QED BY <2>1, <2>2 DEF GovernorType, RestartKeepsTotal, BytesToday, Days
<1>5. OvershootIsBounded
  <2>1. Admitted = {}
    BY DEF Init, Admitted
  <2>2. Cardinality(Admitted) = 0
    BY <2>1, FS_EmptySet
  <2>3. Cardinality(Gets) * MaxBytes \in Nat
    BY AdmittedCount, Product
  <2>4. BytesToday(govDay, govBytes) = 0
    BY DEF Init, BytesToday
  <2> QED BY <2>2, <2>3, <2>4, OutboundAssumption DEF OvershootIsBounded
<1> QED BY <1>1, <1>2, <1>3, <1>4, <1>5 DEF Init, IInv

LEMMA NextIInv == IInv /\ [Next]_vars => IInv'
<1> SUFFICES ASSUME IInv, [Next]_vars PROVE IInv'
  OBVIOUS
<1>1. kind' \in Kinds
  BY DEF IInv, Next, GetStep, BeginGet, GetCancelled, BudgetAllow,
    BudgetRefuse, PickEndpoint, AcquireTimeout, StoreProxy, Connect, Fail,
    Answer, RecordEgress, SkipEgress, Truncate, Persist, Report, Tick, NewDay,
    Restart, vars
<1>2. GetType' /\ PoolType'
  BY GetsStep DEF IInv
<1>3. BreakerType' /\ CircuitMatchesCount'
  BY BreakerStep DEF IInv
<1>4. GovernorType' /\ RestartKeepsTotal'
  BY GovernorStep DEF IInv
<1>5. OvershootIsBounded'
  BY <1>4, OvershootStep DEF IInv
<1> QED BY <1>1, <1>2, <1>3, <1>4, <1>5 DEF IInv

\* The invariant is inductive.
THEOREM Inductive == Spec => []IInv
BY InitIInv, NextIInv, PTL DEF Spec

\* Type correctness of the outbound path.
THEOREM TypeCorrect == Spec => []TypeOK
<1>1. IInv => TypeOK
  BY DEF IInv, TypeOK, GetType, PoolType, BreakerType, GovernorType
<1> QED BY <1>1, Inductive, PTL

\* The breaker's failure count and its open entry agree, for any thresholds
\* and any number of concurrent Gets.
THEOREM BreakerCoherent == Spec => []CircuitMatchesCount
<1>1. IInv => CircuitMatchesCount
  BY DEF IInv
<1> QED BY <1>1, Inductive, PTL

\* The recorded total exceeds the daily cap by at most one response for each
\* concurrent Get, redirects, midnights and restarts included.
THEOREM OvershootBounded == Spec => []OvershootIsBounded
<1>1. IInv => OvershootIsBounded
  BY DEF IInv
<1> QED BY <1>1, Inductive, PTL

\* A restart never loads more than was counted today, and all of it unless
\* Record is saving or its last save failed, before or after the truncation.
THEOREM TotalSurvivesRestart == Spec => []RestartKeepsTotal
<1>1. IInv => RestartKeepsTotal
  BY DEF IInv
<1> QED BY <1>1, Inductive, PTL
=============================================================================
