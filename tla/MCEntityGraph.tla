---------------------------- MODULE MCEntityGraph ---------------------------
(* Instances of EntityGraph for TLC. *)
EXTENDS EntityGraph, TLC

CONSTANTS w1, w2, h1, h2, h3, site, firm

\* One lead known by a site, one by its company's name, and one with both,
\* which merges the two: the false merges an operator splits off.  A lead that
\* a gate drops is known without the name.
Named == (h1 :> {site}) @@ (h2 :> {site, firm}) @@ (h3 :> {firm})
Nameless == (h1 :> {site}) @@ (h2 :> {site}) @@ (h3 :> {})
SharedKeys == [accept |-> Named, dup |-> Nameless, split |-> Named]
CompanyFirst == (firm :> 1) @@ (site :> 2)
InOrder == (h1 :> 1) @@ (h2 :> 2) @@ (h3 :> 3)

\* Three leads fill the timeline; two are enough for the classifier.
Budget(r, s, c, f) ==
    [records |-> r, splits |-> s, classifies |-> c, faults |-> f]
RecordsAndSplit == {Budget(3, 1, 0, 1), Budget(2, 1, 1, 1)}
SplitOfPair == {Budget(2, 1, 0, 1)}

WorkerSymmetry == Permutations({w1, w2})
=============================================================================
