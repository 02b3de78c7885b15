----------------------------- MODULE MCWarmPath -----------------------------
(* Instances of WarmPath for model checking.                               *)
EXTENDS WarmPath

CONSTANTS l1, l2

OneLead == {l1}
TwoLeads == {l1, l2}
\* Two leads meet in the sync path; the batch path has one of them.
TwoAndOne == [sync |-> {l1, l2}, batch |-> {l1}]
SyncTwo == [m \in {"sync"} |-> {l1, l2}]
\* Two failing analyses lead to the dead-letter row.
TwoAndOneFaults == [sync |-> 2, batch |-> 1]
NoFaults == [m \in {"sync"} |-> 0]
OneFault == [m \in {"batch"} |-> 1]
BatchOne == [m \in {"batch"} |-> {l1}]
=============================================================================
