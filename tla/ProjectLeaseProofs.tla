-------------------------- MODULE ProjectLeaseProofs ------------------------
(***************************************************************************)
(* The lease of db/lease.py, for any number of instances, any constants and *)
(* any clocks: types, the timing argument behind mutual exclusion, the      *)
(* guarantee that survives when timing fails, and the refinement.          *)
(***************************************************************************)
EXTENDS ProjectLease, TLAPS

(* One lemma per fact about numbers that the steps below rest on.           *)

\* A renewal missed once more costs one more late beat.
LEMMA OneMoreBeat ==
  ASSUME NEW m \in Nat, NEW beat \in Nat
  PROVE  (m + 1) * beat = m * beat + beat
  OBVIOUS

\* Missing fewer renewals costs less.
LEMMA FewerBeats ==
  ASSUME NEW m \in Nat, NEW n \in Nat, NEW beat \in Nat, m <= n
  PROVE  m * beat <= n * beat
<1>1. PICK k \in Nat : n = m + k
  <2>1. n - m \in Nat /\ n = m + (n - m)
    OBVIOUS
  <2> QED BY <2>1
<1>2. n * beat = m * beat + k * beat
  BY <1>1
<1>3. k * beat \in Nat
  OBVIOUS
<1>4. m * beat \in Int /\ n * beat \in Int
  OBVIOUS
<1> QED BY <1>2, <1>3, <1>4

-----------------------------------------------------------------------------
(* Types.                                                                  *)

\* Every instance starts fresh, with its own patience.
LEMMA TypeOKInitially == Init => TypeOK
  BY LeaseAssumption DEF Init, TypeOK, States, Floor

\* No step of any instance, and no tick, leaves the types.
LEMMA TypeOKInductive ==
  ASSUME TypeOK, [Next]_vars
  PROVE  TypeOK'
<1> USE LeaseAssumption DEF TypeOK, States, Goto, Restart, Expiry, Remaining
<1>1. CASE UNCHANGED vars
  BY <1>1 DEF vars
<1>2. CASE Tick
  BY <1>2 DEF Tick, Floor
<1>3. ASSUME NEW p \in Instance, Begin(p) PROVE TypeOK'
  BY <1>3 DEF Begin
<1>4. ASSUME NEW p \in Instance, TryAcquire(p) PROVE TypeOK'
  BY <1>4 DEF TryAcquire
<1>5. ASSUME NEW p \in Instance, TryRefused(p) PROVE TypeOK'
  BY <1>5 DEF TryRefused
<1>6. ASSUME NEW p \in Instance, Enter(p) PROVE TypeOK'
  BY <1>6 DEF Enter
<1>7. ASSUME NEW p \in Instance, AcquireFails(p) PROVE TypeOK'
  BY <1>7 DEF AcquireFails
<1>8. ASSUME NEW p \in Instance, Renew(p) PROVE TypeOK'
  BY <1>8 DEF Renew
<1>9. ASSUME NEW p \in Instance, MissBeat(p) PROVE TypeOK'
  BY <1>9 DEF MissBeat
<1>10. ASSUME NEW p \in Instance, Leave(p) PROVE TypeOK'
  BY <1>10 DEF Leave
<1>11. ASSUME NEW p \in Instance, Release(p) PROVE TypeOK'
  BY <1>11 DEF Release, Floor
<1>12. ASSUME NEW p \in Instance, ReleaseFails(p) PROVE TypeOK'
  BY <1>12 DEF ReleaseFails
<1>13. ASSUME NEW p \in Instance, Crash(p) PROVE TypeOK'
  BY <1>13 DEF Crash
<1> QED
  BY <1>1, <1>2, <1>3, <1>4, <1>5, <1>6, <1>7, <1>8, <1>9, <1>10, <1>11,
     <1>12, <1>13 DEF Next

\* Every variable of the lease keeps its type, whatever the constants are.
THEOREM TypeCorrect == Spec => []TypeOK
  BY TypeOKInitially, TypeOKInductive, PTL DEF Spec

-----------------------------------------------------------------------------
(* The timing argument.  LeaseInv says how much of its TTL a live owner can *)
(* have used up; Punctual says that is less than any clock needs to see it  *)
(* expired.                                                                *)

USE DEF Goto, Restart, Expiry

\* What LeaseInv says of one instance, so that a step can be taken apart.
AcquiredOK(p) ==
  /\ holder = p
  /\ timer[p] <= MaxStall
  /\ ttl >= TTL + Skew[p] - MaxDelay - timer[p]

HeldOK(p) ==
  /\ holder = p
  /\ timer[p] <= Heartbeat + MaxStall
  /\ missed[p] <= MaxMissed
  /\ ttl >= TTL + Skew[p] - MaxDelay - MaxStall
             - missed[p] * (Heartbeat + MaxStall) - timer[p]

OwnerOK(p) == /\ pc[p] = "acquired" => AcquiredOK(p)
              /\ pc[p] = "held" => HeldOK(p)

\* LeaseInv, instance by instance.
LEMMA LeaseInvPerInstance ==
  LeaseInv <=> TypeOK /\ \A p \in Instance : OwnerOK(p)
  BY DEF LeaseInv, OwnerOK, AcquiredOK, HeldOK

\* Nobody's compare-and-set finds the lease of a live owner free.
LEMMA LiveOwnerNotFree ==
  ASSUME Punctual, TypeOK, NEW p \in Instance, OwnerOK(p), Timed(p)
  PROVE  holder = p /\ \A q \in Instance : ttl >= Skew[q]
<1> DEFINE beat == Heartbeat + MaxStall
<1> USE LeaseAssumption DEF TypeOK
<1>0. beat \in Nat /\ beat >= 0 /\ missed[p] \in Nat /\ timer[p] \in Nat /\ MaxMissed \in Nat
  OBVIOUS
<1>1. holder = p
  BY DEF OwnerOK, AcquiredOK, HeldOK, Timed
<1>2. ASSUME NEW q \in Instance PROVE ttl >= Skew[q]
  <2>0. TTL + Skew[p] >= Skew[q] + MaxDelay + MaxStall + (MaxMissed * beat + beat)
    <3>1. TTL + Skew[p] >= Skew[q] + MaxDelay + MaxStall + (MaxMissed + 1) * beat
      BY DEF Punctual
    <3>2. (MaxMissed + 1) * beat = MaxMissed * beat + beat
      BY OneMoreBeat, <1>0
    <3> QED BY <3>1, <3>2
  <2>1. MaxMissed * beat \in Nat
    BY <1>0
  <2>2. CASE pc[p] = "acquired"
    <3>1. ttl >= TTL + Skew[p] - MaxDelay - timer[p] /\ timer[p] <= MaxStall
      BY <2>2 DEF OwnerOK, AcquiredOK
    <3> HIDE DEF beat
    <3> QED BY <3>1, <2>0, <2>1, <1>0
  <2>3. CASE pc[p] = "held"
    <3>1. /\ ttl >= TTL + Skew[p] - MaxDelay - MaxStall - missed[p] * beat - timer[p]
          /\ timer[p] <= beat
          /\ missed[p] <= MaxMissed
      BY <2>3 DEF OwnerOK, HeldOK
    <3>2. missed[p] * beat <= MaxMissed * beat
      BY <3>1, <1>0, FewerBeats
    <3>3. missed[p] * beat \in Nat
      BY <1>0
    <3> HIDE DEF beat
    <3> QED BY <3>1, <3>2, <3>3, <2>0, <2>1, <1>0
  <2> QED BY <2>2, <2>3 DEF Timed
<1> QED BY <1>1, <1>2

\* A step that leaves the lock node alone keeps the promises of every instance
\* whose own bookkeeping it does not touch.
LEMMA OthersUndisturbed ==
  ASSUME NEW p \in Instance, OwnerOK(p), pc'[p] = pc[p], timer'[p] = timer[p],
         missed'[p] = missed[p], Timed(p) => holder' = holder /\ ttl' = ttl
  PROVE  OwnerOK(p)'
  BY DEF OwnerOK, AcquiredOK, HeldOK, Timed

\* One unit of time uses up one unit of everybody's TTL.
LEMMA TickKeepsOwners ==
  ASSUME TypeOK, Tick, NEW p \in Instance, OwnerOK(p)
  PROVE  OwnerOK(p)'
<1> USE LeaseAssumption DEF TypeOK
<1>1. pc' = pc /\ holder' = holder /\ missed' = missed /\ ttl' >= ttl - 1 /\ ttl' \in Int
  BY DEF Tick, Floor
<1>2. Timed(p) => timer'[p] = timer[p] + 1 /\ timer[p] < Deadline(p)
  BY DEF Tick
<1>3. CASE pc[p] = "acquired"
  BY <1>1, <1>2, <1>3 DEF OwnerOK, AcquiredOK, Timed, Deadline
<1>4. CASE pc[p] = "held"
  <2> DEFINE lost == missed[p] * (Heartbeat + MaxStall)
  <2>1. lost' = lost /\ lost \in Nat
    BY <1>1
  <2>2. /\ holder = p /\ timer[p] <= Heartbeat + MaxStall /\ missed[p] <= MaxMissed
        /\ ttl >= TTL + Skew[p] - MaxDelay - MaxStall - lost - timer[p]
    BY <1>4 DEF OwnerOK, HeldOK
  <2>3. timer'[p] = timer[p] + 1 /\ timer[p] < Heartbeat + MaxStall
    BY <1>2, <1>4 DEF Timed, Deadline
  <2>4. ttl' >= TTL + Skew[p] - MaxDelay - MaxStall - lost - timer'[p]
    <3> HIDE DEF lost
    <3> QED BY <1>1, <2>1, <2>2, <2>3
  <2>5. HeldOK(p)'
    BY <1>1, <2>1, <2>2, <2>3, <2>4 DEF HeldOK
  <2> QED BY <1>1, <1>4, <2>5 DEF OwnerOK
<1>5. CASE ~Timed(p)
  BY <1>1, <1>5 DEF OwnerOK, Timed
<1> QED BY <1>3, <1>4, <1>5 DEF Timed

\* The compare-and-set: the new owner starts with a TTL less the delay of its
\* request; it found the lease free, so no live owner is displaced.
LEMMA TryAcquireKeepsOwners ==
  ASSUME Punctual, TypeOK, NEW q \in Instance, TryAcquire(q),
         NEW p \in Instance, OwnerOK(p)
  PROVE  OwnerOK(p)'
<1> USE LeaseAssumption DEF TypeOK
<1>1. PICK d \in 0..MaxDelay : Free(q, d) /\ ttl' = TTL + Skew[q] - d
  BY DEF TryAcquire
<1>2. CASE p = q
  <2>1. pc'[p] = "acquired" /\ holder' = p /\ timer'[p] = 0
    BY <1>2 DEF TryAcquire
  <2>2. d \in Int /\ d <= MaxDelay
    OBVIOUS
  <2> QED BY <1>1, <1>2, <2>1, <2>2 DEF OwnerOK, AcquiredOK
<1>3. CASE p # q
  <2>1. pc'[p] = pc[p] /\ timer'[p] = timer[p] /\ missed'[p] = missed[p]
    BY <1>3 DEF TryAcquire
  <2>2. ~Timed(p)
    <3> SUFFICES ASSUME Timed(p) PROVE FALSE
      OBVIOUS
    <3>1. holder = p /\ ttl >= Skew[q]
      BY LiveOwnerNotFree
    <3> QED BY <1>1, <1>3, <3>1 DEF Free
  <2> QED BY <2>1, <2>2, OthersUndisturbed
<1> QED BY <1>2, <1>3

\* A renewal that lands restores the TTL less the delay of its request; one of an
\* instance that is no longer the holder changes nothing.
LEMMA RenewKeepsOwners ==
  ASSUME TypeOK, NEW q \in Instance, Renew(q), NEW p \in Instance, OwnerOK(p)
  PROVE  OwnerOK(p)'
<1> USE LeaseAssumption DEF TypeOK
<1>1. CASE p = q
  <2>1. pc'[q] = "held" /\ holder' = q /\ timer'[q] = 0 /\ missed'[q] = 0
    BY <1>1 DEF Renew, OwnerOK, HeldOK
  <2>2. PICK d \in 0..MaxDelay : ttl' = TTL + Skew[q] - d
    BY <1>1 DEF Renew, OwnerOK, HeldOK
  <2>3. missed'[q] * (Heartbeat + MaxStall) = 0
    BY <2>1
  <2> QED BY <1>1, <2>1, <2>2, <2>3 DEF OwnerOK, HeldOK
<1>2. CASE p # q
  BY <1>2, OthersUndisturbed DEF Renew, OwnerOK, AcquiredOK, HeldOK, Timed
<1> QED BY <1>1, <1>2

\* A missed beat is paid for: what the timer had counted is at most one late beat.
LEMMA MissBeatKeepsOwners ==
  ASSUME TypeOK, NEW q \in Instance, MissBeat(q), NEW p \in Instance, OwnerOK(p)
  PROVE  OwnerOK(p)'
<1> USE LeaseAssumption DEF TypeOK
<1>1. CASE p = q
  <2> DEFINE beat == Heartbeat + MaxStall
  <2>1. /\ pc[q] = "held" /\ pc' = pc /\ holder' = holder /\ ttl' = ttl
        /\ timer'[q] = 0 /\ missed'[q] = missed[q] + 1 /\ missed[q] < MaxMissed
    BY DEF MissBeat
  <2>2. /\ holder = q /\ timer[q] <= beat
        /\ ttl >= TTL + Skew[q] - MaxDelay - MaxStall - missed[q] * beat - timer[q]
    BY <1>1, <2>1 DEF OwnerOK, HeldOK
  <2>3. missed'[q] * beat = missed[q] * beat + beat
    BY <2>1, OneMoreBeat
  <2>4. missed[q] * beat \in Nat /\ beat \in Nat
    OBVIOUS
  <2>5. ttl >= TTL + Skew[q] - MaxDelay - MaxStall - missed'[q] * beat - timer'[q]
    <3> HIDE DEF beat
    <3> QED BY <2>1, <2>2, <2>3, <2>4
  <2>6. HeldOK(q)'
    BY <2>1, <2>2, <2>5 DEF HeldOK
  <2> QED BY <1>1, <2>1, <2>6 DEF OwnerOK
<1>2. CASE p # q
  BY <1>2, OthersUndisturbed DEF MissBeat
<1> QED BY <1>1, <1>2

\* LeaseInv is inductive when the constants are punctual.
LEMMA LeaseInvInductive ==
  ASSUME Punctual, LeaseInv, [Next]_vars
  PROVE  LeaseInv'
<1> USE LeaseAssumption
<1>1. TypeOK /\ \A p \in Instance : OwnerOK(p)
  BY LeaseInvPerInstance
<1>2. TypeOK'
  BY <1>1, TypeOKInductive
<1>3. ASSUME NEW p \in Instance PROVE OwnerOK(p)'
  <2>1. OwnerOK(p)
    BY <1>1
  <2>2. CASE UNCHANGED vars
    BY <2>1, <2>2 DEF vars, OwnerOK, AcquiredOK, HeldOK
  <2>3. CASE Tick
    BY <1>1, <2>1, <2>3, TickKeepsOwners
  <2>4. ASSUME NEW q \in Instance, TryAcquire(q) PROVE OwnerOK(p)'
    BY <1>1, <2>1, <2>4, TryAcquireKeepsOwners
  <2>5. ASSUME NEW q \in Instance, Enter(q) PROVE OwnerOK(p)'
    <3>1. CASE p = q
      <4>1. /\ pc[q] = "acquired" /\ pc'[q] = "held" /\ holder' = holder /\ ttl' = ttl
            /\ timer'[q] = 0 /\ missed'[q] = 0
        BY <1>1, <2>5 DEF Enter, TypeOK
      <4>2. missed'[q] * (Heartbeat + MaxStall) = 0
        BY <4>1
      <4> QED BY <1>1, <2>1, <3>1, <4>1, <4>2 DEF TypeOK, OwnerOK, AcquiredOK, HeldOK
    <3>2. CASE p # q
      BY <1>1, <2>1, <2>5, <3>2, OthersUndisturbed DEF Enter, TypeOK
    <3> QED BY <3>1, <3>2
  <2>6. ASSUME NEW q \in Instance, Renew(q) PROVE OwnerOK(p)'
    BY <1>1, <2>1, <2>6, RenewKeepsOwners
  <2>7. ASSUME NEW q \in Instance, MissBeat(q) PROVE OwnerOK(p)'
    BY <1>1, <2>1, <2>7, MissBeatKeepsOwners
  <2>8. ASSUME NEW q \in Instance, Release(q) PROVE OwnerOK(p)'
    <3>1. CASE p = q
      BY <1>1, <2>8, <3>1 DEF Release, TypeOK, OwnerOK
    <3>2. CASE p # q
      <4>1. Timed(p) => holder = p
        BY <2>1 DEF OwnerOK, AcquiredOK, HeldOK, Timed
      <4> QED BY <1>1, <2>1, <2>8, <3>2, <4>1, OthersUndisturbed DEF Release, TypeOK
    <3> QED BY <3>1, <3>2
  <2>9. ASSUME NEW q \in Instance,
               Begin(q) \/ TryRefused(q) \/ AcquireFails(q) \/ Leave(q) \/ ReleaseFails(q) \/ Crash(q)
        PROVE  OwnerOK(p)'
    <3>1. holder' = holder /\ ttl' = ttl /\ missed' = missed
      BY <2>9 DEF Begin, TryRefused, AcquireFails, Leave, ReleaseFails, Crash
    <3>2. CASE p = q
      <4>1. pc'[p] \notin {"acquired", "held"}
        BY <1>1, <2>9, <3>2 DEF Begin, TryRefused, AcquireFails, Leave, ReleaseFails, Crash, TypeOK
      <4> QED BY <4>1 DEF OwnerOK
    <3>3. CASE p # q
      <4>1. pc'[p] = pc[p] /\ timer'[p] = timer[p]
        BY <1>1, <2>9, <3>3 DEF Begin, TryRefused, AcquireFails, Leave, ReleaseFails, Crash, TypeOK
      <4> QED BY <2>1, <3>1, <4>1, OthersUndisturbed
    <3> QED BY <3>2, <3>3
  <2> QED
    BY <2>2, <2>3, <2>4, <2>5, <2>6, <2>7, <2>8, <2>9 DEF Next
<1>4. (\A p \in Instance : OwnerOK(p))'
  BY <1>3
<1> QED BY <1>2, <1>4 DEF LeaseInv, OwnerOK, AcquiredOK, HeldOK

\* How much of its TTL a live owner can have used up, at every moment.
THEOREM LeaseInvariant ==
  ASSUME Punctual
  PROVE  Spec => []LeaseInv
<1>1. Init => LeaseInv
  BY TypeOKInitially DEF Init, LeaseInv
<1>2. LeaseInv /\ [Next]_vars => LeaseInv'
  BY LeaseInvInductive
<1> QED BY <1>1, <1>2, PTL DEF Spec

\* A live holder's lease is expired on nobody's clock (lease.py:42-45).
THEOREM NeverLapses ==
  ASSUME Punctual
  PROVE  Spec => []LiveHolderNeverLapses
<1>1. LeaseInv => LiveHolderNeverLapses
  BY LeaseInvPerInstance, LiveOwnerNotFree DEF LiveHolderNeverLapses, Inside, Timed
<1> QED BY <1>1, LeaseInvariant, PTL

\* Two runs never mutate one project at the same time (INV-4).
THEOREM Exclusive ==
  ASSUME Punctual
  PROVE  Spec => []MutualExclusion
<1>1. LeaseInv => MutualExclusion
  BY DEF LeaseInv, MutualExclusion, Inside
<1> QED BY <1>1, LeaseInvariant, PTL

-----------------------------------------------------------------------------
(* Without Punctual.                                                       *)

\* However long anybody stalls, an instance that lost its lease never takes it
\* from its successor (the token guards of _RENEW and _RELEASE).
THEOREM ZombiesAreHarmless == Spec => SuccessorUndisturbed
<1> DEFINE Undisturbed(q) ==
      holder = q /\ holder' # q =>
        \/ holder' = NoHolder /\ pc[q] = "releasing" /\ pc'[q] = "done"
        \/ holder' \in Instance /\ ttl < Skew[holder'] /\ pc'[holder'] = "acquired"
<1>1. ASSUME TypeOK, [Next]_vars, NEW q \in Instance PROVE Undisturbed(q)
  <2> USE <1>1, LeaseAssumption DEF TypeOK
  <2>1. ASSUME NEW p \in Instance, TryAcquire(p) PROVE Undisturbed(q)
    <3>1. PICK d \in 0..MaxDelay : Free(p, d)
      BY <2>1 DEF TryAcquire
    <3>2. d \in Nat
      OBVIOUS
    <3>3. holder' = p /\ pc'[p] = "acquired"
      BY <2>1 DEF TryAcquire
    <3> QED BY <3>1, <3>2, <3>3 DEF Free
  <2>2. ASSUME NEW p \in Instance, Release(p) PROVE Undisturbed(q)
    BY <2>2 DEF Release
  <2>3. CASE UNCHANGED holder
    BY <2>3
  <2> QED
    BY <2>1, <2>2, <2>3
    DEF Next, vars, Tick, Begin, TryRefused, Enter, AcquireFails, Renew, MissBeat,
        Leave, ReleaseFails, Crash
<1>2. TypeOK /\ [Next]_vars => [\A q \in Instance : Undisturbed(q)]_vars
  BY <1>1
<1> QED BY <1>2, TypeCorrect, PTL DEF Spec, SuccessorUndisturbed

-----------------------------------------------------------------------------
(* Refinement.                                                             *)

\* The lease implements the abstract project mutex: a run is inside from the
\* reply to its compare-and-set until its heartbeat is cancelled or it dies.
THEOREM Refinement ==
  ASSUME Punctual
  PROVE  Spec => ImplementsMutex
<1>1. Init => Mutex!Init
  BY DEF Init, Mutex!Init, Inside
<1>2. LeaseInv /\ LeaseInv' /\ [Next]_vars => [Mutex!Next]_Inside
  <2> SUFFICES ASSUME LeaseInv, LeaseInv', [Next]_vars
               PROVE  Mutex!Next \/ Inside' = Inside
    OBVIOUS
  <2>1. pc \in [Instance -> States] /\ pc' \in [Instance -> States]
    BY DEF LeaseInv, TypeOK
  <2>2. \A p \in Inside : holder = p
    BY DEF LeaseInv, Inside
  <2>3. \A p \in Inside' : holder' = p
    BY DEF LeaseInv, Inside
  <2>4. ASSUME NEW p \in Instance, Enter(p) PROVE Mutex!Enter(p)
    <3>1. Inside' = Inside \cup {p} /\ p \in Inside' /\ p \notin Inside
      BY <2>1, <2>4 DEF Enter, Inside
    <3> QED BY <2>3, <3>1 DEF Mutex!Enter
  <2>5. ASSUME NEW p \in Instance, pc[p] = "held", Leave(p) \/ Crash(p)
        PROVE  Mutex!Exit(p)
    <3>1. Inside' = Inside \ {p} /\ p \in Inside
      BY <2>1, <2>5 DEF Leave, Crash, Inside
    <3> QED BY <2>2, <3>1 DEF Mutex!Exit
  <2>6. ASSUME NEW p \in Instance, pc[p] # "held",
               \/ Begin(p) \/ TryAcquire(p) \/ TryRefused(p) \/ AcquireFails(p)
               \/ Release(p) \/ ReleaseFails(p) \/ Crash(p)
        PROVE  Inside' = Inside
    BY <2>1, <2>6
    DEF Begin, TryAcquire, TryRefused, AcquireFails, Release, ReleaseFails, Crash, Inside
  <2>7. CASE UNCHANGED pc
    BY <2>7 DEF Inside
  <2> QED
    BY <2>4, <2>5, <2>6, <2>7
    DEF Next, vars, Mutex!Next, Tick, Begin, TryAcquire, TryRefused, AcquireFails,
        Renew, MissBeat, Leave, Release, ReleaseFails, Crash
<1> QED BY <1>1, <1>2, LeaseInvariant, PTL DEF Spec, ImplementsMutex, Mutex!Spec
=============================================================================
