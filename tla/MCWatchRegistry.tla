-------------------------- MODULE MCWatchRegistry --------------------------
(* Two daemons on two hosts, one project that can be followed and one whose  *)
(* root derives another id by now.                                           *)
EXTENDS WatchRegistry

CONSTANTS d1, d2, p1, p2

TwoDaemons == {d1, d2}
TwoHosts == [d \in TwoDaemons |-> IF d = d1 THEN "laptop" ELSE "desk"]
TwoProjects == {p1, p2}
One == {p2}
=============================================================================
