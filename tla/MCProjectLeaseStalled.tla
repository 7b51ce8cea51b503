------------------------ MODULE MCProjectLeaseStalled -----------------------
(* The lease with an event loop that may stand still for longer than a TTL:  *)
(* parsing, call resolution and the synchronous embedding requests of an     *)
(* index run are executed on the loop that also runs the heartbeat.          *)
EXTENDS ProjectLease

CONSTANTS a, b

TwoInstances == {a, b}

NoSkew == [p \in Instance |-> 0]

LongPatience == [p \in Instance |-> 12]
=============================================================================
