---------------------------- MODULE ProjectLease ----------------------------
(***************************************************************************)
(* The cross-process lock on one project: db/lease.py.  One :IndexLock node *)
(* in Memgraph carries a holder token and an expiry; ProjectLease objects   *)
(* (each used once, each with its own token) take it by compare-and-set,    *)
(* keep it alive with a heartbeat task and hand it back on exit.           *)
(*                                                                         *)
(* Time.  The code compares absolute timestamps.  Here every one is kept as *)
(* its distance from the present, and Tick moves them all: `ttl' is         *)
(* expires_at - now, `timer[p]' the time since p last attended to its       *)
(* lease, `left[p]' what remains of its acquire timeout.  A clock that     *)
(* runs ahead of the reference by Skew[p] reads expires_at - (now+Skew[p]). *)
(* A request may also reach the database up to MaxDelay after its timestamp *)
(* was taken.                                                              *)
(***************************************************************************)
EXTENDS Integers

CONSTANTS
  Instance,    \* the ProjectLease objects that ask for this key
  NoHolder,    \* l.holder = NULL
  TTL,         \* LEASE_TTL_S
  Heartbeat,   \* HEARTBEAT_INTERVAL_S
  MaxDelay,    \* the longest a request takes from its timestamp to its commit
  MaxStall,    \* the longest an event loop is late for a wake-up or a reply
  MaxMissed,   \* renewals that may fail in a row
  Skew,        \* how far each instance's clock is ahead of the slowest one
  Patience     \* timeout_s of each instance; 0 is the single attempt

ASSUME LeaseAssumption ==
  /\ NoHolder \notin Instance
  /\ TTL \in Nat \ {0}
  /\ Heartbeat \in Nat \ {0}
  /\ MaxDelay \in Nat
  /\ MaxStall \in Nat
  /\ MaxMissed \in Nat
  /\ Skew \in [Instance -> Nat]
  /\ Patience \in [Instance -> Nat]

VARIABLES
  holder,      \* l.holder
  ttl,         \* l.expires_at, relative to the reference clock
  pc,          \* where each instance is
  timer,       \* time since the CAS landed, or since the last heartbeat woke
  missed,      \* renewals that failed since the last one that reached the database
  left         \* time left before __aenter__ gives up

vars == <<holder, ttl, pc, timer, missed, left>>

\* Below Floor every clock, whatever its lag, sees the lease expired, so time
\* need not be told apart any further.
Floor == -(MaxDelay + 1)

States == {"fresh", "polling", "acquired", "held", "releasing",
           "done", "timedout", "failed", "crashed"}

\* Types; the timers and the patience never run below zero.
TypeOK ==
  /\ holder \in Instance \cup {NoHolder}
  /\ ttl \in Int
  /\ pc \in [Instance -> States]
  /\ timer \in [Instance -> Nat]
  /\ missed \in [Instance -> Nat]
  /\ left \in [Instance -> Nat]

Init ==
  /\ holder = NoHolder
  /\ ttl = Floor
  /\ pc = [p \in Instance |-> "fresh"]
  /\ timer = [p \in Instance |-> 0]
  /\ missed = [p \in Instance |-> 0]
  /\ left = Patience

Goto(p, state) == pc' = [pc EXCEPT ![p] = state]
Restart(p) == timer' = [timer EXCEPT ![p] = 0]

-----------------------------------------------------------------------------
(* Acquiring.                                                              *)

\* p calls __aenter__.
Begin(p) ==
  /\ pc[p] = "fresh"
  /\ Goto(p, "polling")
  /\ UNCHANGED <<holder, ttl, timer, missed, left>>

\* Mutant: a lease is taken over in the instant it expires.
FreeAtExpiry(p, d) == holder = NoHolder \/ ttl <= Skew[p] - d \/ holder = p

\* Mutant: an expired lease is not taken over.
FreeUnlessHeld(p, d) == holder = NoHolder \/ holder = p

\* The condition of the CASE in _ACQUIRE, for a request stamped d ago.
Free(p, d) ==
  \/ holder = NoHolder
  \/ ttl < Skew[p] - d
  \/ holder = p

\* Mutant: the lease is stamped with the length of a beat.
OneBeatLease(p, d) == Heartbeat + Skew[p] - d

\* expires_at of a request stamped d ago, seen from the reference clock.
Expiry(p, d) == TTL + Skew[p] - d

\* The compare-and-set commits with p as holder.
TryAcquire(p) ==
  /\ pc[p] = "polling"
  /\ \E d \in 0..MaxDelay :
       /\ Free(p, d)
       /\ ttl' = Expiry(p, d)
  /\ holder' = p
  /\ Goto(p, "acquired")
  /\ Restart(p)
  /\ UNCHANGED <<missed, left>>

\* Mutant: the deadline is not looked at.
KeepPolling(p) ==
  /\ pc[p] = "polling"
  /\ \E d \in 0..MaxDelay : ~Free(p, d)
  /\ UNCHANGED vars

\* It commits with somebody else as holder, or trips the uniqueness
\* constraint; past its deadline p raises ProjectLockTimeoutError instead of
\* sleeping and polling again.
TryRefused(p) ==
  /\ pc[p] = "polling"
  /\ \E d \in 0..MaxDelay : ~Free(p, d)
  /\ left[p] = 0
  /\ Goto(p, "timedout")
  /\ UNCHANGED <<holder, ttl, timer, missed, left>>

\* The reply arrives: __aenter__ starts the heartbeat task and the body runs.
Enter(p) ==
  /\ pc[p] = "acquired"
  /\ Goto(p, "held")
  /\ Restart(p)
  /\ missed' = [missed EXCEPT ![p] = 0]
  /\ UNCHANGED <<holder, ttl, left>>

\* Any exception but ClientError leaves __aenter__, before the compare-and-set
\* or after it landed: no heartbeat was started and no release will follow.
AcquireFails(p) ==
  /\ pc[p] \in {"polling", "acquired"}
  /\ Goto(p, "failed")
  /\ UNCHANGED <<holder, ttl, timer, missed, left>>

-----------------------------------------------------------------------------
(* The heartbeat task.                                                     *)

\* _RENEW: the new expiry was computed d ago, at the earliest when the sleep
\* ended; the WHERE leaves another holder's lease alone.
Renew(p) ==
  /\ pc[p] = "held"
  /\ timer[p] >= Heartbeat
  /\ IF holder = p
       THEN \E d \in 0..MaxDelay : d <= timer[p] - Heartbeat /\ ttl' = Expiry(p, d)
       ELSE ttl' = ttl
  /\ Restart(p)
  /\ missed' = [missed EXCEPT ![p] = 0]
  /\ UNCHANGED <<holder, pc, left>>

\* The renewal raises; the loop logs it and sleeps again.
MissBeat(p) ==
  /\ pc[p] = "held"
  /\ timer[p] >= Heartbeat
  /\ missed[p] < MaxMissed
  /\ Restart(p)
  /\ missed' = [missed EXCEPT ![p] = @ + 1]
  /\ UNCHANGED <<holder, ttl, pc, left>>

-----------------------------------------------------------------------------
(* Leaving.                                                                *)

\* __aexit__ cancels the heartbeat task.
Leave(p) ==
  /\ pc[p] = "held"
  /\ Goto(p, "releasing")
  /\ Restart(p)
  /\ UNCHANGED <<holder, ttl, missed, left>>

\* Mutant: no guard on the token.
ReleaseUnguarded(p) ==
  /\ pc[p] = "releasing"
  /\ Goto(p, "done")
  /\ holder' = NoHolder /\ ttl' = Floor
  /\ UNCHANGED <<timer, missed, left>>

\* _RELEASE, guarded by the token.
Release(p) ==
  /\ pc[p] = "releasing"
  /\ Goto(p, "done")
  /\ IF holder = p
       THEN /\ holder' = NoHolder
            /\ ttl' = Floor
       ELSE UNCHANGED <<holder, ttl>>
  /\ UNCHANGED <<timer, missed, left>>

\* The release raises and is only logged.
ReleaseFails(p) ==
  /\ pc[p] = "releasing"
  /\ Goto(p, "done")
  /\ UNCHANGED <<holder, ttl, timer, missed, left>>

\* The process is killed.
Crash(p) ==
  /\ pc[p] \in {"polling", "acquired", "held", "releasing"}
  /\ Goto(p, "crashed")
  /\ UNCHANGED <<holder, ttl, timer, missed, left>>

-----------------------------------------------------------------------------
\* How late p may be for what it has to do next.
Deadline(p) ==
  CASE pc[p] = "acquired" -> MaxStall
    [] pc[p] = "held" -> Heartbeat + MaxStall

Timed(p) == pc[p] \in {"acquired", "held"}

\* deadline - now, down to the moment __aenter__ gives up.
Remaining(p) == IF pc[p] = "polling" /\ left[p] > 0 THEN left[p] - 1 ELSE left[p]

\* One unit of time passes; nobody that is alive is later than its deadline.
Tick ==
  /\ \A p \in Instance : Timed(p) => timer[p] < Deadline(p)
  /\ ttl' = IF ttl > Floor THEN ttl - 1 ELSE Floor
  /\ timer' = [p \in Instance |-> IF Timed(p) THEN timer[p] + 1 ELSE timer[p]]
  /\ left' = [p \in Instance |-> Remaining(p)]
  /\ UNCHANGED <<holder, pc, missed>>

Next ==
  \/ Tick
  \/ \E p \in Instance :
       \/ Begin(p) \/ TryAcquire(p) \/ TryRefused(p) \/ Enter(p) \/ AcquireFails(p)
       \/ Renew(p) \/ MissBeat(p)
       \/ Leave(p) \/ Release(p) \/ ReleaseFails(p)
       \/ Crash(p)

Spec == Init /\ [][Next]_vars

\* Time passes, and the tasks of a live event loop are eventually run.  No
\* fairness on Begin, on Leave (a run may take for ever) or on any failure.
Fairness ==
  /\ WF_vars(Tick)
  /\ \A p \in Instance :
       /\ WF_vars(TryAcquire(p) \/ TryRefused(p))
       /\ WF_vars(Enter(p))
       /\ WF_vars(Renew(p) \/ MissBeat(p))

FairSpec == Spec /\ Fairness

-----------------------------------------------------------------------------
(* Properties.                                                             *)

\* The regime in which the timing constants of lease.py work: between two
\* renewals that land there are at most MaxMissed failed ones, each beat late by
\* at most MaxStall, and no clock is so far ahead that it sees that gap as a TTL.
Punctual ==
  \A p, q \in Instance :
    TTL + Skew[p] >= Skew[q] + MaxDelay + MaxStall + (MaxMissed + 1) * (Heartbeat + MaxStall)

Inside == {p \in Instance : pc[p] = "held"}

\* lease.py:16, INV-4: two runs never mutate the project at the same time,
\* whoever crashed, timed out or lost a reply before.
MutualExclusion == \A p, q \in Inside : p = q

\* lease.py:42-45: a live holder never lets its lease lapse, on anybody's clock,
\* and a single missed beat does not expire it.
LiveHolderNeverLapses ==
  \A p \in Inside : holder = p /\ \A q \in Instance : ttl >= Skew[q]

\* Why the two above hold: what is left of a lease, told from what its holder has
\* been doing.  From the compare-and-set on, an owner has used up no more of the
\* TTL than the request's delay, the late reply, one late beat for every missed
\* renewal, and the time since it last woke.
LeaseInv ==
  /\ TypeOK
  /\ \A p \in Instance : pc[p] = "acquired" =>
       /\ holder = p
       /\ timer[p] <= MaxStall
       /\ ttl >= TTL + Skew[p] - MaxDelay - timer[p]
  /\ \A p \in Instance : pc[p] = "held" =>
       /\ holder = p
       /\ timer[p] <= Heartbeat + MaxStall
       /\ missed[p] <= MaxMissed
       /\ ttl >= TTL + Skew[p] - MaxDelay - MaxStall
                  - missed[p] * (Heartbeat + MaxStall) - timer[p]

\* lease.py:71 and 85, also when Punctual fails: an instance that lost its lease
\* (it stalled, crashed, or releases late) never takes it from its successor.
\* A holder is displaced by its own release, or by a waiter whose clock has
\* passed the expiry.
SuccessorUndisturbed ==
  [][\A q \in Instance :
       holder = q /\ holder' # q =>
         \/ holder' = NoHolder /\ pc[q] = "releasing" /\ pc'[q] = "done"
         \/ holder' \in Instance /\ ttl < Skew[holder'] /\ pc'[holder'] = "acquired"]_vars

\* What db/lease.py is for: it implements the abstract mutex.
Mutex == INSTANCE ProjectMutex WITH inside <- Inside
ImplementsMutex == Mutex!Spec

\* lease.py:18-21, INV-8: a lease whose owner died is taken over by a waiter that
\* is willing to wait for a TTL, unless that waiter dies as well.
Dead(p) == pc[p] \in {"crashed", "failed", "done"}
LongestExpiry == CHOOSE t \in {TTL + Skew[p] : p \in Instance} :
                   \A q \in Instance : TTL + Skew[q] <= t
PatientTakeover ==
  \A h, q \in Instance :
    (/\ holder = h /\ Dead(h)
     /\ pc[q] = "polling" /\ left[q] > LongestExpiry + MaxDelay)
    ~> (holder \notin {h, NoHolder} \/ pc[q] \in {"crashed", "failed"})

\* lease.py:184-188: without a dead holder a waiter is never left hanging either:
\* it gets the lease, gives up with ProjectLockTimeoutError, or dies.
WaiterAnswered ==
  \A q \in Instance : pc[q] = "polling" ~> pc[q] # "polling"

=============================================================================
