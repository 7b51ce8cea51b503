---------------------------- MODULE ProjectMutex ----------------------------
(***************************************************************************)
(* What the index lock promises its callers (INV-4 of the README: "one     *)
(* mutation per project at a time"): the runs that mutate one project enter *)
(* one by one.  The lease of db/lease.py is shown to implement it.         *)
(***************************************************************************)
CONSTANT Instance       \* the index runs that ever ask for this project's lock

VARIABLE inside         \* the runs that are mutating the project now

Init == inside = {}

Enter(p) == /\ inside = {}
            /\ inside' = {p}

\* A run finishes or its process dies; both end its mutation.
Exit(p) == /\ inside = {p}
           /\ inside' = {}

Next == \E p \in Instance : Enter(p) \/ Exit(p)

Spec == Init /\ [][Next]_inside
=============================================================================
