----------------------------- MODULE MCOutbound -----------------------------
(***************************************************************************)
(* Model values for Outbound: two concurrent Gets over two proxies.        *)
(***************************************************************************)
EXTENDS Outbound, TLC

CONSTANTS g1, g2, p1, p2

TwoGets == {g1, g2}
TwoProxies == {p1, p2}
OneProxy == {p1}
AllKinds == {"forum", "supply", "lander"}
ForumOnly == {"forum"}
Alike == Permutations(TwoGets) \union Permutations(TwoProxies)
=============================================================================
