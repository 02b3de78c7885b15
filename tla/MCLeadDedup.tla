----------------------------- MODULE MCLeadDedup ----------------------------
(* Instances of LeadDedup for model checking.                              *)
EXTENDS LeadDedup, TLC

WorkerSymmetry == Permutations(Workers)
=============================================================================
