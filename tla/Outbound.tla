------------------------------ MODULE Outbound ------------------------------
(***************************************************************************)
(* What stands between a crawl source and the network: the Fetcher.Get of  *)
(* the forum, supply and lander sources, with the circuit breaker of the   *)
(* source (internal/breaker), the rotating proxy transport and its pool    *)
(* (internal/httpclient) and the daily egress governor with its state file *)
(* (internal/proxybudget).                                                 *)
(*                                                                         *)
(* Several Gets of one source run at once.  They share the breaker, the    *)
(* proxy pool, the transport's currentProxy pointer and the governor, each *)
(* behind a lock or an atomic of its own and none behind all.              *)
(*                                                                         *)
(* Deadlines are kept as the time that is left, so that the model needs no *)
(* bound on the clock: Tick lets one unit pass for all of them and NewDay  *)
(* turns "today" into "earlier".  The state file is "torn" between the     *)
(* truncation and the write of os.WriteFile, and after a write that fails. *)
(***************************************************************************)
EXTENDS Integers, FiniteSets

CONSTANTS Gets,          \* goroutines that call Fetcher.Get of the source
          Proxies,       \* endpoints of the pool
          Kinds,         \* which fetchers are instantiated
          Attempts,      \* maxAttempts of the forum fetcher
          FailThreshold, CloudflareThreshold,  \* of the breaker
          OpenTimeout, RetryAfter,             \* how long a circuit stays open
          Cooldown,      \* CooldownDuration of the pool
          MaxHops,       \* redirects that http.Client follows in one Do
          CapBytes,      \* daily cap of the governor
          MaxBytes       \* largest ContentLength of a response

ASSUME OutboundAssumption ==
    /\ IsFiniteSet(Gets)
    /\ Kinds \subseteq {"forum", "supply", "lander"}
    /\ Attempts \in Nat \ {0}
    /\ FailThreshold \in Nat /\ CloudflareThreshold \in Nat
    /\ 0 < CloudflareThreshold /\ CloudflareThreshold <= FailThreshold
    /\ OpenTimeout \in Nat \ {0} /\ RetryAfter \in Nat
    /\ Cooldown \in Nat \ {0} /\ MaxHops \in Nat
    /\ CapBytes \in Nat \ {0} /\ MaxBytes \in Nat

VARIABLES kind,          \* the fetcher this behaviour is about
          pc, attempt,   \* where each Get is, and its attempt counter
          picked,        \* proxy that acquire returned to the Get
          via,           \* proxy that proxyFunc handed to its connection
          resp,          \* what the last RoundTrip brought
          hops,          \* redirects followed in the current Do
          current,       \* RotatingProxyTransport.currentProxy
          cooling,       \* time left of each endpoint's cooldown
          failures,      \* SourceBreaker.failures of the source
          openLeft,      \* time left of openUntil, Closed without an entry
          govDay, govBytes,    \* Governor.state
          diskDay, diskBytes,  \* the state file
          stale          \* history: the last save of this process failed

getVars == <<pc, attempt, picked, via, resp, hops>>
poolVars == <<current, cooling>>
breakerVars == <<failures, openLeft>>
stateVars == <<govDay, govBytes>>
diskVars == <<diskDay, diskBytes, stale>>
vars == <<kind, pc, attempt, picked, via, resp, hops, current, cooling,
          failures, openLeft, govDay, govBytes, diskDay, diskBytes, stale>>

Closed == -1
NoProxy == "none"

(***************************************************************************)
(* The answers the code tells apart.  "body403" and "page503" are blocks   *)
(* recognised by isProxyBlock, "cf403" carries a CF-Ray header;            *)
(* "redirect" is a 3xx with a Location, which http.Client follows itself;  *)
(* "cooldown" stands for ErrProxyCooldown, "transport" for every other     *)
(* error of client.Do.                                                     *)
(***************************************************************************)
Answers == {"ok", "r429", "cf403", "body403", "plain403", "page503",
            "plain503", "err500", "missing", "redirect"}
Errors == {"transport", "cooldown"}

Blocks(a) == a \in {"r429", "cf403", "body403", "page503"}
Retries(a) == a \in {"cf403", "body403", "plain403", "page503", "plain503"}

Max2(a, b) == IF a >= b THEN a ELSE b
Left(t) == IF t > 0 THEN t - 1 ELSE t

-----------------------------------------------------------------------------
(* Governor: Bytes counts for the day of the state and for no other.       *)

BytesToday(day, bytes) == IF day = "today" THEN bytes ELSE 0

\* resetIfNewDayLocked followed by the addition of n bytes.
GovernorAdd(n) ==
    /\ govDay' = "today"
    /\ govBytes' = BytesToday(govDay, govBytes) + n

\* Record persists while it holds the lock: Allow and Record wait for it.
GovernorFree == \A g \in Gets : pc[g] \notin {"persist", "writing"}

-----------------------------------------------------------------------------
(* Breaker.                                                                *)

CircuitAllows == openLeft \in {Closed, 0}

\* Fault: a success forgets the failures and leaves the circuit open.
RecordSuccessKeepsOpen ==
    failures' = 0 /\ UNCHANGED openLeft

RecordSuccess ==
    /\ failures' = 0
    /\ openLeft' = Closed

\* Fault: Allow forgets the failures and leaves the expired entry.
ExpireCircuitKeeps ==
    /\ failures' = IF openLeft = 0 THEN 0 ELSE failures
    /\ UNCHANGED openLeft

\* Allow removes an opening that has expired, and the failures with it.
ExpireCircuit == IF openLeft = 0 THEN RecordSuccess ELSE UNCHANGED breakerVars

\* recordFailure and RecordCloudflareBlock: count, and open for openFor once
\* the threshold is reached, whatever was left of an earlier opening.
CountFailure(threshold, openFor) ==
    /\ failures' = failures + 1
    /\ openLeft' = IF failures + 1 < threshold THEN openLeft ELSE openFor

\* The Retry-After header may be absent, so both openings are possible.
RecordAnswer(a) ==
    \/ a = "ok" /\ RecordSuccess
    \/ a = "cf403" /\ CountFailure(CloudflareThreshold, OpenTimeout)
    \/ /\ a \in {"r429", "page503", "plain503", "err500"}
       /\ \/ CountFailure(FailThreshold, OpenTimeout)
          \/ CountFailure(FailThreshold, Max2(OpenTimeout, RetryAfter))
    \/ a \in {"body403", "plain403", "missing"} /\ UNCHANGED breakerVars

\* Only the forum fetcher tells ErrProxyCooldown from other errors, and the
\* lander fetcher reports no error of client.Do at all.
RecordError(a) ==
    \/ /\ kind = "forum" /\ a = "cooldown"
       /\ CountFailure(CloudflareThreshold, OpenTimeout)
    \/ /\ kind = "supply" \/ (kind = "forum" /\ a = "transport")
       /\ CountFailure(FailThreshold, OpenTimeout)
    \/ kind = "lander" /\ UNCHANGED breakerVars

-----------------------------------------------------------------------------
Init ==
    /\ kind \in Kinds
    /\ pc = [g \in Gets |-> "idle"]
    /\ attempt = [g \in Gets |-> 0]
    /\ picked = [g \in Gets |-> NoProxy]
    /\ via = [g \in Gets |-> NoProxy]
    /\ resp = [g \in Gets |-> "ok"]
    /\ hops = [g \in Gets |-> 0]
    /\ current = NoProxy
    /\ cooling = [p \in Proxies |-> 0]
    /\ failures = 0
    /\ openLeft = Closed
    /\ govDay = "today" /\ govBytes = 0
    /\ diskDay = "earlier" /\ diskBytes = 0
    /\ stale = FALSE

Goto(g, label) == pc' = [pc EXCEPT ![g] = label]

\* The locals of a Get are dead once it returns, those of RoundTrip once the
\* response has been inspected.
Return(g) ==
    /\ Goto(g, "idle")
    /\ attempt' = [attempt EXCEPT ![g] = 0]
    /\ resp' = [resp EXCEPT ![g] = "ok"]
    /\ hops' = [hops EXCEPT ![g] = 0]

Release(g) ==
    /\ picked' = [picked EXCEPT ![g] = NoProxy]
    /\ via' = [via EXCEPT ![g] = NoProxy]

\* Fetcher.Get begins.  A Get that Allow refuses returns at once and changes
\* nothing; one that finds an expired opening removes it with the failures.
BeginGet(g) ==
    /\ pc[g] = "idle"
    /\ CircuitAllows
    /\ ExpireCircuit
    /\ Goto(g, "gate")
    /\ UNCHANGED <<kind, attempt, picked, via, resp, hops, poolVars,
                   stateVars, diskVars>>

\* The context of the caller ends in HostLimiters.Wait or in the pause
\* between two attempts, before Do: Get returns and the breaker hears nothing.
GetCancelled(g) ==
    /\ pc[g] = "gate" /\ hops[g] = 0
    /\ Return(g)
    /\ UNCHANGED <<kind, picked, via, poolVars, breakerVars, stateVars,
                   diskVars>>

\* Fault: the cap itself is still admitted.
AdmitsAtCap == BytesToday(govDay, govBytes) <= CapBytes

\* Allow: below the cap of today.
Admits == BytesToday(govDay, govBytes) < CapBytes

\* RoundTrip asks the governor first.
BudgetAllow(g) ==
    /\ pc[g] = "gate" /\ GovernorFree
    /\ Admits
    /\ GovernorAdd(0)
    /\ Goto(g, "pick")
    /\ UNCHANGED <<kind, attempt, picked, via, resp, hops, poolVars,
                   breakerVars, diskVars>>

\* ErrProxyBudgetExceeded reaches the fetcher as an error of client.Do.
BudgetRefuse(g) ==
    /\ pc[g] = "gate" /\ GovernorFree
    /\ ~Admits
    /\ GovernorAdd(0)
    /\ Goto(g, "report")
    /\ resp' = [resp EXCEPT ![g] = "transport"]
    /\ UNCHANGED <<kind, attempt, picked, via, hops, poolVars, breakerVars,
                   diskVars>>

Available == {p \in Proxies : cooling[p] = 0}

\* pickEndpoint.  The shared round-robin counter, taken modulo the number of
\* endpoints that happen to be available, makes any of them the next one.
PickEndpoint(g) ==
    /\ pc[g] = "pick"
    /\ \E p \in Available : picked' = [picked EXCEPT ![g] = p]
    /\ Goto(g, "wait")
    /\ UNCHANGED <<kind, attempt, via, resp, hops, poolVars, breakerVars,
                   stateVars, diskVars>>

\* Fault: acquire sleeps through its context while every proxy cools down.
AcquireTimeoutDeaf(g) ==
    /\ pc[g] = "wait"
    /\ resp' = [resp EXCEPT ![g] = "transport"]
    /\ Goto(g, "report") /\ Release(g)
    /\ UNCHANGED <<kind, attempt, hops, poolVars, breakerVars, stateVars,
                   diskVars>>

\* http.Client.Timeout or the caller's context ends while acquire waits for a
\* cooldown or for the endpoint's limiter.  ErrProxyCooldown is what acquire
\* returns in the first case; client.Do replaces it by its own timeout error
\* when it was the client's timeout that fired.
AcquireTimeout(g) ==
    /\ pc[g] \in {"pick", "wait"}
    /\ \E e \in Errors :
         /\ e = "cooldown" => pc[g] = "pick" /\ Available = {}
         /\ resp' = [resp EXCEPT ![g] = e]
    /\ Goto(g, "report") /\ Release(g)
    /\ UNCHANGED <<kind, attempt, hops, poolVars, breakerVars, stateVars,
                   diskVars>>

\* The limiter lets the Get through and RoundTrip stores its proxy where
\* proxyFunc will look for it.
StoreProxy(g) ==
    /\ pc[g] = "wait"
    /\ current' = picked[g]
    /\ Goto(g, "stored")
    /\ UNCHANGED <<kind, attempt, picked, via, resp, hops, cooling,
                   breakerVars, stateVars, diskVars>>

\* The transport opens the connection and calls proxyFunc.
Connect(g) ==
    /\ pc[g] = "stored"
    /\ via' = [via EXCEPT ![g] = current]
    /\ Goto(g, "wire")
    /\ UNCHANGED <<kind, attempt, picked, resp, hops, poolVars, breakerVars,
                   stateVars, diskVars>>

\* An error of the connection: no response to inspect or to count.
Fail(g) ==
    /\ pc[g] = "wire"
    /\ resp' = [resp EXCEPT ![g] = "transport"]
    /\ Goto(g, "report") /\ Release(g)
    /\ UNCHANGED <<kind, attempt, hops, poolVars, breakerVars, stateVars,
                   diskVars>>

\* checkProxyBlockCooldown blames the proxy the Get had picked.
CoolDown(g, a) ==
    cooling' = IF Blocks(a) THEN [cooling EXCEPT ![picked[g]] = Cooldown]
               ELSE cooling

Answer(g) ==
    /\ pc[g] = "wire"
    /\ \E a \in Answers :
         /\ resp' = [resp EXCEPT ![g] = a]
         /\ CoolDown(g, a)
    /\ Goto(g, "egress") /\ Release(g)
    /\ UNCHANGED <<kind, attempt, hops, current, breakerVars, stateVars,
                   diskVars>>

\* RoundTrip has returned.  http.Client sends the next request of a redirect
\* through the transport again, up to its limit, and gives up with an error of
\* client.Do beyond it; every other response goes to the fetcher.
EndRoundTrip(g) ==
    \/ /\ resp[g] # "redirect"
       /\ Goto(g, "report")
       /\ UNCHANGED <<resp, hops>>
    \/ /\ resp[g] = "redirect" /\ hops[g] < MaxHops
       /\ Goto(g, "gate")
       /\ resp' = [resp EXCEPT ![g] = "ok"]
       /\ hops' = [hops EXCEPT ![g] = @ + 1]
    \/ /\ resp[g] = "redirect" /\ hops[g] = MaxHops
       /\ Goto(g, "report")
       /\ resp' = [resp EXCEPT ![g] = "transport"]
       /\ UNCHANGED hops

\* recordEgress of a response with a positive ContentLength: Record adds the
\* bytes under the lock, which it keeps while it saves the state.
RecordEgress(g) ==
    /\ pc[g] = "egress" /\ GovernorFree
    /\ \E n \in 1..MaxBytes : GovernorAdd(n)
    /\ Goto(g, "persist")
    /\ UNCHANGED <<kind, attempt, picked, via, resp, hops, poolVars,
                   breakerVars, diskVars>>

\* An empty, chunked or transparently decompressed response has no positive
\* ContentLength and is not counted.
SkipEgress(g) ==
    /\ pc[g] = "egress"
    /\ EndRoundTrip(g)
    /\ UNCHANGED <<kind, attempt, picked, via, poolVars, breakerVars,
                   stateVars, diskVars>>

\* os.WriteFile has opened the file, which truncates it.
Truncate(g) ==
    /\ pc[g] = "persist"
    /\ diskDay' = "torn" /\ diskBytes' = 0
    /\ Goto(g, "writing")
    /\ UNCHANGED <<kind, attempt, picked, via, resp, hops, poolVars,
                   breakerVars, stateVars, stale>>

\* persistLocked ends: MkdirAll or the opening failed and the earlier file is
\* as it was, the state was written, or the write failed and the file stays
\* torn.  Record ignores the error.
Persist(g) ==
    /\ \/ /\ pc[g] \in {"persist", "writing"} /\ stale' = TRUE
          /\ UNCHANGED <<diskDay, diskBytes>>
       \/ /\ pc[g] = "writing" /\ stale' = FALSE
          /\ diskDay' = govDay /\ diskBytes' = govBytes
    /\ EndRoundTrip(g)
    /\ UNCHANGED <<kind, attempt, picked, via, poolVars, breakerVars,
                   stateVars>>

\* Fault: one attempt too many.
RetriesLeftOffByOne(g) == kind = "forum" /\ attempt[g] < Attempts

RetriesLeft(g) == kind = "forum" /\ attempt[g] + 1 < Attempts

\* The fetcher reports to the breaker.  Then it tries again after a 403 or a
\* 503, without asking the breaker a second time, or it returns: with the
\* answer, or because the body could not be read.
Report(g) ==
    /\ pc[g] = "report"
    /\ IF resp[g] \in Errors THEN RecordError(resp[g])
       ELSE RecordAnswer(resp[g])
    /\ \/ /\ Retries(resp[g]) /\ RetriesLeft(g)
          /\ Goto(g, "gate")
          /\ attempt' = [attempt EXCEPT ![g] = @ + 1]
          /\ resp' = [resp EXCEPT ![g] = "ok"]
          /\ hops' = [hops EXCEPT ![g] = 0]
       \/ Return(g)
    /\ UNCHANGED <<kind, picked, via, poolVars, stateVars, diskVars>>

-----------------------------------------------------------------------------
(* The environment.                                                        *)

\* One unit of time passes.
Tick ==
    /\ openLeft' = Left(openLeft)
    /\ cooling' = [p \in Proxies |-> Left(cooling[p])]
    /\ UNCHANGED <<kind, getVars, current, failures, stateVars, diskVars>>

\* Midnight UTC.
NewDay ==
    /\ govDay' = "earlier"
    /\ diskDay' = IF diskDay = "today" THEN "earlier" ELSE diskDay
    /\ UNCHANGED <<kind, getVars, poolVars, breakerVars, govBytes, diskBytes,
                   stale>>

\* Fault: the day of the state file is not compared.
LoadStateAnyDay ==
    /\ govDay' = "today"
    /\ govBytes' = diskBytes

\* loadState of Configure: another day, no file and a torn file start at 0.
LoadState ==
    /\ govDay' = "today"
    /\ govBytes' = BytesToday(diskDay, diskBytes)

\* The process dies at any point and is started again.
Restart ==
    /\ pc' = [g \in Gets |-> "idle"]
    /\ attempt' = [g \in Gets |-> 0]
    /\ picked' = [g \in Gets |-> NoProxy]
    /\ via' = [g \in Gets |-> NoProxy]
    /\ resp' = [g \in Gets |-> "ok"]
    /\ hops' = [g \in Gets |-> 0]
    /\ current' = NoProxy
    /\ cooling' = [p \in Proxies |-> 0]
    /\ failures' = 0 /\ openLeft' = Closed
    /\ LoadState
    /\ stale' = FALSE
    /\ UNCHANGED <<kind, diskDay, diskBytes>>

GetStep(g) ==
    \/ BeginGet(g) \/ GetCancelled(g)
    \/ BudgetAllow(g) \/ BudgetRefuse(g)
    \/ PickEndpoint(g) \/ AcquireTimeout(g)
    \/ StoreProxy(g) \/ Connect(g)
    \/ Fail(g) \/ Answer(g)
    \/ RecordEgress(g) \/ SkipEgress(g)
    \/ Truncate(g) \/ Persist(g)
    \/ Report(g)

Next ==
    \/ \E g \in Gets : GetStep(g)
    \/ Tick \/ NewDay \/ Restart

Spec == Init /\ [][Next]_vars

(***************************************************************************)
(* Fairness.  A running goroutine goes on; sync.Mutex hands a contended    *)
(* lock over, so a Get that waits for the governor gets it in the end;     *)
(* time passes; the source keeps fetching.  No answer is promised, and     *)
(* neither is a cancellation, a new day or a restart.                      *)
(***************************************************************************)
Fairness ==
    /\ WF_vars(Tick)
    /\ \A g \in Gets :
         /\ WF_vars(BeginGet(g))
         /\ SF_vars(BudgetAllow(g) \/ BudgetRefuse(g))
         /\ WF_vars(AcquireTimeout(g))
         /\ WF_vars(Connect(g))
         /\ WF_vars(Fail(g) \/ Answer(g))
         /\ SF_vars(RecordEgress(g) \/ SkipEgress(g))
         /\ WF_vars(Persist(g) \/ Truncate(g))
         /\ WF_vars(Report(g))

FairSpec == Spec /\ Fairness

-----------------------------------------------------------------------------
(* Properties.                                                             *)

Days == {"today", "earlier"}
Labels == {"idle", "gate", "pick", "wait", "stored", "wire", "egress",
           "persist", "writing", "report"}

\* Every variable has its type; the governor's count is never negative.
TypeOK ==
    /\ kind \in Kinds
    /\ pc \in [Gets -> Labels]
    /\ attempt \in [Gets -> 0..(Attempts - 1)]
    /\ picked \in [Gets -> Proxies \union {NoProxy}]
    /\ via \in [Gets -> Proxies \union {NoProxy}]
    /\ resp \in [Gets -> Answers \union Errors]
    /\ hops \in [Gets -> 0..MaxHops]
    /\ current \in Proxies \union {NoProxy}
    /\ cooling \in [Proxies -> 0..Cooldown]
    /\ failures \in Nat
    /\ openLeft \in -1..Max2(OpenTimeout, RetryAfter)
    /\ govDay \in Days /\ govBytes \in Nat
    /\ diskDay \in Days \union {"torn"} /\ diskBytes \in Nat
    /\ stale \in BOOLEAN

\* The breaker's two maps agree whatever the order in which concurrent Gets
\* report: a circuit is open only after enough failures to trip it, and a
\* closed circuit has fewer failures than trip it (RecordSuccess and the
\* expiry in Allow clear both maps together).
CircuitMatchesCount ==
    IF openLeft = Closed THEN failures < FailThreshold
    ELSE failures >= CloudflareThreshold

Admitted == {g \in Gets :
               pc[g] \in {"pick", "wait", "stored", "wire", "egress"}}

\* Allow and Record are two critical sections, so Gets admitted below the cap
\* may carry the recorded total of the day over it.  The excess is at most one
\* recorded response for each Get that runs, over midnight and over restarts,
\* redirects included.  It is about what Record counts: a response without a
\* ContentLength is not counted, and a restart may forget what was.
OvershootIsBounded ==
    BytesToday(govDay, govBytes) + Cardinality(Admitted) * MaxBytes
      < CapBytes + Cardinality(Gets) * MaxBytes

\* What a restart makes of the state file.  It never loads more than the
\* running governor has counted today: nothing of an earlier day comes back.
\* It loads less only when Record is still saving, or when the last save that
\* ended had failed: one that completes makes up for all that failed before.
RestartKeepsTotal ==
    /\ BytesToday(diskDay, diskBytes) <= BytesToday(govDay, govBytes)
    /\ GovernorFree /\ ~stale =>
         BytesToday(diskDay, diskBytes) = BytesToday(govDay, govBytes)

\* Every Get returns: cooldowns, limiters and retries keep none for ever.
GetReturns == \A g \in Gets : pc[g] # "idle" ~> pc[g] = "idle"

\* An open circuit closes again: expiry is noticed by the next Get, and Gets
\* in flight cannot keep reopening it for ever.
CircuitRecovers == openLeft # Closed ~> openLeft = Closed
=============================================================================
