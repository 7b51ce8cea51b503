--------------------------- MODULE MCProjectLease ---------------------------
(* Values for the lease: the unit of time is 15 seconds, so the constants of *)
(* db/lease.py are TTL = 8 and Heartbeat = 2.                               *)
EXTENDS ProjectLease, TLC

CONSTANTS a, b

TwoInstances == {a, b}

\* One clock for everybody: one machine, or NTP.
NoSkew == [p \in Instance |-> 0]

\* b is the watch daemon or the janitor, which ask once (timeout 0); the other
\* waits longer than a TTL.
OneImpatient == [p \in Instance |-> IF p = b THEN 0 ELSE 12]

ASSUME TimingIsPunctual == Punctual
=============================================================================
