---------------------------- MODULE MCScanRounds ----------------------------
(* Instances of ScanRounds for model checking.                             *)
EXTENDS ScanRounds, TLC

WorkerSymmetry == Permutations(Workers)
=============================================================================
