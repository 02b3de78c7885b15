----------------------------- MODULE MCProgress -----------------------------
(***************************************************************************)
(* Small instances, under fairness, of the drivers of the task pool: the   *)
(* one-shot drivers (OneShot) and the resident parser (ScanRounds).  They  *)
(* share no state: a behaviour is about one of them (part), and the other  *)
(* stays switched off, in a state where no step of it is enabled.          *)
(***************************************************************************)
EXTENDS OneShot

CONSTANTS w1, s1

VARIABLES
    part,     \* "oneshot" or "rounds"
    q1, q2, q3, q4, q5, q6, q7, q8, q9, q10, q11, q12, q13, q14, q15, q16, q17,
    q18, q19, q20, q21, q22

scanVars == <<q1, q2, q3, q4, q5, q6, q7, q8, q9, q10, q11, q12, q13, q14, q15,
              q16, q17, q18, q19, q20, q21, q22>>

\* One worker and one source, a scan of one round and a loop of two.
Scan == INSTANCE ScanRounds WITH
    Workers <- {w1}, Sources <- {s1}, Rounds <- {1, 2}, TaskBuffer <- 1,
    MaxEmits <- 1, ScanModes <- {"once", "loop"}, SourceConcurrency <- 0,
    StatsBuffer <- 1,
    taskCh <- q1, closed <- q2, ctxDone <- q3, emitter <- q4, worker <- q5,
    wg <- q6, stats <- q7, emitted <- q8, skipped <- q9, panic <- q10,
    scanCh <- q11, scheduler <- q12, coordinator <- q13, round <- q14,
    roundCancelled <- q15, activeRound <- q16, statsCh <- q17, reported <- q18,
    reporter <- q19, mode <- q20, onceDone <- q21, main <- q22

\* panic is what every step of ScanRounds asks for first.
RoundsOff ==
    /\ q1 = 0 /\ q2 = 0 /\ q3 = FALSE /\ q4 = 0 /\ q5 = 0 /\ q6 = 0 /\ q7 = 0
    /\ q8 = 0 /\ q9 = 0 /\ q10 = "off" /\ q11 = 0 /\ q12 = 0 /\ q13 = 0
    /\ q14 = [r \in {1, 2} |-> "unused"] /\ q15 = 0 /\ q16 = 0 /\ q17 = 0
    /\ q18 = 0 /\ q19 = 0 /\ q20 = "off" /\ q21 = 0 /\ q22 = "off"

\* A driver that had nothing to do and returned.
OneShotOff ==
    /\ taskCh = [r \in Rounds |-> 0]
    /\ closed = TRUE
    /\ ctxDone = TRUE
    /\ emitter = [r \in Rounds |-> [s \in Sources |-> "done"]]
    /\ worker = [w \in Workers |-> [at |-> "exit", of |-> NoRound]]
    /\ wg = [r \in Rounds |-> 0]
    /\ stats = [r \in Rounds |-> [c \in Counter |-> 0]]
    /\ emitted = [r \in Rounds |-> 0]
    /\ skipped = [r \in Rounds |-> 0]
    /\ panic = "none"
    /\ driver = "collect"
    /\ main = "returned"

ProgressInit ==
    \/ part = "oneshot" /\ Init /\ RoundsOff
    \/ part = "rounds" /\ Scan!Init /\ OneShotOff

OneShotNext == part = "oneshot" /\ Next /\ UNCHANGED <<part, scanVars>>
RoundsNext == part = "rounds" /\ Scan!Next /\ UNCHANGED <<part, vars>>
ProgressNext == OneShotNext \/ RoundsNext

ProgressSpec ==
    /\ ProgressInit
    /\ [][ProgressNext]_<<part, vars, scanVars>>
    /\ Fairness
    /\ Scan!Fairness

\* See ScanRounds: a round that was spawned reports and returns unless the
\* process is shut down or panics.
RoundsComplete == Scan!RoundsComplete

\* See ScanRounds: Run returns once its context is cancelled.
ShutdownReturns == Scan!ShutdownReturns

\* See ScanRounds: a ScanOnce process terminates by itself.
OnceExits == Scan!OnceExits
=============================================================================
