---------------------------- MODULE MCEventFeed ----------------------------
(* Two publishers, two browsers and channels of one event: an overtaking    *)
(* publisher, a full channel and a browser that leaves during a fan-out.    *)
EXTENDS EventFeed, TLC

Symmetry == Permutations(Publishers) \cup Permutations(Clients) \cup Permutations(Events)
=============================================================================
