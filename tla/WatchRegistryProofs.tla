----------------------- MODULE WatchRegistryProofs -----------------------
(***************************************************************************)
(* The claims of watch_daemon.py for any number of projects, daemons and    *)
(* hosts, and any number of kills and failures: a project has one follower, *)
(* and what is followed is caught up and said to be followed.               *)
(***************************************************************************)
EXTENDS WatchRegistry, FiniteSetTheorems, TLAPS

-----------------------------------------------------------------------------
(* The invariant.                                                            *)

Claims == [by : Daemons \cup {Nobody}, renewed : BOOLEAN]
Steps == {"off", "boot", "pass", "drop", "release", "adopt", "start", "reconcile",
          "settle", "sleep"}
Processes ==
  [pc : Steps, stop : BOOLEAN, ending : BOOLEAN, desired : SUBSET Projects,
   todo : SUBSET Projects, current : Projects \cup {Nobody}, held : SUBSET Projects,
   watching : SUBSET Projects, caughtUp : SUBSET Projects]

TypeOK ==
  /\ registered \in SUBSET Projects /\ onDisk \in SUBSET Projects
  /\ claim \in [Projects -> Claims]
  /\ single \in [Hosts -> Claims]
  /\ daemon \in [Daemons -> Processes]
  /\ unseen \in SUBSET Projects
  /\ ops \in Nat /\ edits \in Nat /\ faults \in Nat

\* What a daemon follows it has claimed, and holds.
ClaimStands(d) ==
  /\ daemon[d].held = daemon[d].watching
  /\ \A p \in daemon[d].watching : claim[p] = Held(d)

\* The project a daemon is busy with is claimed too, and is watched between the
\* start of its observer and the end of its adoption.
AtWork(d) ==
  LET c == daemon[d].current IN
  \/ /\ daemon[d].pc \in {"start", "release"}
     /\ c \in Projects /\ claim[c] = Held(d) /\ c \notin daemon[d].watching
  \/ /\ daemon[d].pc \in {"reconcile", "settle"}
     /\ c \in daemon[d].watching
  \/ /\ daemon[d].pc \in {"off", "boot", "pass", "drop", "adopt", "sleep"}
     /\ c = Nobody

\* A process that is gone follows nothing; one that runs has its host's claim.
Alive(d) ==
  IF Running(d) THEN single[Host[d]] = Held(d) ELSE daemon[d].watching = {}

\* Nothing is behind a catch-up that went through.
UpToDate(d) ==
  daemon[d].caughtUp \subseteq daemon[d].watching /\ daemon[d].caughtUp \cap unseen = {}

\* Only a process past its preflight renews a claim, and only a failure leaves a
\* renewed claim that nobody follows.
Renewed(p) ==
  /\ claim[p].renewed => /\ claim[p].by \in Daemons
                         /\ daemon[claim[p].by].pc \notin {"off", "boot"}
  /\ Leaked(p) => faults > 0

RegistryInv ==
  /\ TypeOK
  /\ \A d \in Daemons : ClaimStands(d) /\ AtWork(d) /\ Alive(d) /\ UpToDate(d)
  /\ \A p \in Projects : Renewed(p)

-----------------------------------------------------------------------------
(* It holds initially, and every action keeps it.                            *)

USE WatchRegistryAssumption

\* Nothing runs, nothing is claimed.
LEMMA InvInitially == Init => RegistryInv
<1> SUFFICES ASSUME Init
             PROVE  RegistryInv
  OBVIOUS
<1>1. TypeOK
  <2>1. /\ Off \in Processes /\ Free \in Claims
    BY DEF Off, Free, Processes, Steps, Claims
  <2> QED
    BY <2>1 DEF Init, TypeOK
<1>2. ASSUME NEW d \in Daemons
      PROVE  ClaimStands(d) /\ AtWork(d) /\ Alive(d) /\ UpToDate(d)
  <2>1. daemon[d] = Off
    BY DEF Init
  <2> QED
    BY <2>1 DEF ClaimStands, AtWork, Alive, UpToDate, Running, Off
<1>3. ASSUME NEW p \in Projects
      PROVE  Renewed(p)
  BY DEF Init, Renewed, Leaked, Running, Off, Free
<1> QED
  BY <1>1, <1>2, <1>3 DEF RegistryInv

\* A claim names its daemon, so it is not free.
LEMMA HeldIsNotFree ==
  ASSUME NEW d \in Daemons
  PROVE  Held(d) # Free
  BY DEF Held, Free

-----------------------------------------------------------------------------
(* What a daemon must keep in its step for the others to be left alone.      *)

\* A claim it may touch: its own, or one nobody renews.
Touchable(d, c) == ~c.renewed \/ c.by = d

MayTouch(d) ==
  /\ \A p \in Projects : \/ claim'[p] = claim[p]
                         \/ Touchable(d, claim[p]) /\ Touchable(d, claim'[p])
  /\ \A h \in Hosts : \/ single'[h] = single[h]
                      \/ Touchable(d, single[h]) /\ Touchable(d, single'[h])

\* What it renews it renews while it runs, and leaks by failing.
Renews(d) ==
  \A p \in Projects :
    /\ claim'[p].renewed /\ claim'[p].by = d => daemon'[d].pc \notin {"off", "boot"}
    /\ /\ Running(d)' /\ claim'[p] = Held(d)
       /\ p \notin daemon'[d].watching /\ daemon'[d].current # p
       => faults' > 0

Own(d) == ClaimStands(d) /\ AtWork(d) /\ Alive(d) /\ UpToDate(d)

Stored ==
  /\ registered \in SUBSET Projects /\ onDisk \in SUBSET Projects
  /\ claim \in [Projects -> Claims] /\ single \in [Hosts -> Claims]
  /\ unseen \in SUBSET Projects /\ ops \in Nat /\ edits \in Nat /\ faults \in Nat

\* The frame: a step of d that writes no claim another process renews, frees nobody's
\* edits and keeps d's own parts keeps the invariant of every daemon.
LEMMA StepKeepsInv ==
  ASSUME RegistryInv, NEW d \in Daemons, NEW to \in Processes, Step(d, to),
         Stored', MayTouch(d), Renews(d), Own(d)',
         unseen' \subseteq unseen, faults' >= faults
  PROVE  RegistryInv'
<1>1. /\ daemon' \in [Daemons -> Processes]
      /\ \A e \in Daemons \ {d} : daemon'[e] = daemon[e]
  BY DEF Step, RegistryInv, TypeOK
<1>2. TypeOK'
  BY <1>1 DEF Stored, TypeOK
<1>3. ASSUME NEW e \in Daemons \ {d}
      PROVE  /\ \A p \in Projects : claim[p] = Held(e) <=> claim'[p] = Held(e)
             /\ \A h \in Hosts : single[h] = Held(e) <=> single'[h] = Held(e)
  BY DEF MayTouch, Touchable, Held
<1>4. ASSUME NEW e \in Daemons
      PROVE  Own(e)'
  <2>1. CASE e = d
    BY <2>1
  <2>2. CASE e # d
    <3>1. /\ daemon'[e] = daemon[e] /\ Host[e] \in Hosts
          /\ daemon[e].watching \subseteq Projects
      BY <1>1, <2>2 DEF RegistryInv, TypeOK, Processes, Hosts
    <3>2. ClaimStands(e)' /\ AtWork(e)'
      BY <3>1, <1>3, <2>2 DEF RegistryInv, ClaimStands, AtWork
    <3>3. Alive(e)' /\ UpToDate(e)'
      BY <3>1, <1>3, <2>2 DEF RegistryInv, Alive, Running, UpToDate
    <3> QED
      BY <3>2, <3>3 DEF Own
  <2> QED
    BY <2>1, <2>2
<1>5. ASSUME NEW p \in Projects
      PROVE  Renewed(p)'
  <2>1. ASSUME claim'[p].renewed
        PROVE  claim'[p].by \in Daemons /\ daemon'[claim'[p].by].pc \notin {"off", "boot"}
    <3>1. CASE claim'[p].by = d
      BY <2>1, <3>1 DEF Renews, Running
    <3>2. CASE claim'[p].by # d
      <4>1. claim'[p] = claim[p]
        BY <2>1, <3>2 DEF MayTouch, Touchable
      <4> QED
        BY <2>1, <3>2, <4>1, <1>1 DEF RegistryInv, Renewed, Running
    <3> QED
      BY <3>1, <3>2
  <2>2. ASSUME Leaked(p)'
        PROVE  faults' > 0
    <3>1. PICK e \in Daemons : /\ Running(e)' /\ claim'[p] = Held(e)
                               /\ p \notin daemon'[e].watching /\ daemon'[e].current # p
      BY <2>2 DEF Leaked, Held
    <3>2. CASE e = d
      BY <3>1, <3>2 DEF Renews
    <3>3. CASE e # d
      <4>1. Leaked(p)
        BY <3>1, <3>3, <1>1, <1>3 DEF Leaked, Running
      <4> QED
        BY <4>1 DEF RegistryInv, Renewed, TypeOK, Stored
    <3> QED
      BY <3>2, <3>3
  <2> QED
    BY <2>1, <2>2 DEF Renewed, Running
<1> QED
  BY <1>2, <1>4, <1>5 DEF RegistryInv, Own

-----------------------------------------------------------------------------
(* Steps that leave the claims and what is followed alone.                   *)

Idle == {"pass", "drop", "adopt", "sleep"}
Adopting == {"reconcile", "settle"}

\* The daemon goes on with what it is at, or is done with it: adopted or failed.
Quiet(d, to) ==
  /\ to \in Processes /\ Step(d, to) /\ Running(d) /\ to.pc \notin {"off", "boot"}
  /\ to.watching = daemon[d].watching /\ to.held = daemon[d].held
  /\ to.caughtUp = daemon[d].caughtUp
  /\ \/ /\ to.current = daemon[d].current
        /\ \/ to.pc = daemon[d].pc
           \/ daemon[d].pc \in Idle \cup {"boot"} /\ to.pc \in Idle
           \/ daemon[d].pc \in Adopting /\ to.pc \in Adopting
     \/ /\ to.current = Nobody /\ to.pc \in Idle
        /\ daemon[d].pc \in Adopting \/ faults' > 0
  /\ UNCHANGED <<registered, onDisk, claim, single, unseen>>
  /\ ops' \in Nat /\ edits' \in Nat /\ faults' \in Nat /\ faults' >= faults

\* A quiet step keeps the invariant, unless a failure has it leak the claim it was at.
LEMMA QuietStepKeepsInv ==
  ASSUME RegistryInv, NEW d \in Daemons, NEW to, Quiet(d, to)
  PROVE  RegistryInv'
<1>1. daemon'[d] = to
  BY DEF Quiet, Step, RegistryInv, TypeOK
<1>2. Stored' /\ MayTouch(d)
  BY DEF RegistryInv, TypeOK, Stored, MayTouch, Quiet
<1>3. Renews(d)
  BY <1>1 DEF RegistryInv, TypeOK, Renewed, Leaked, Renews, AtWork, Running, Quiet, Adopting
<1>4. Own(d)'
  <2>1. ClaimStands(d)' /\ UpToDate(d)'
    BY <1>1 DEF RegistryInv, ClaimStands, UpToDate, Quiet
  <2>2. AtWork(d)' /\ Alive(d)'
    BY <1>1 DEF RegistryInv, AtWork, Alive, Running, Quiet, Adopting, Idle
  <2> QED
    BY <2>1, <2>2 DEF Own
<1> QED
  BY <1>2, <1>3, <1>4, StepKeepsInv DEF Quiet

\* Ten of the actions are quiet.
LEMMA QuietKeepsInv ==
  ASSUME RegistryInv, NEW d \in Daemons,
         \/ Preflight(d) \/ ReadRegistry(d) \/ Dropped(d) \/ StartFails(d) \/ ReconcileFails(d)
         \/ ScopeFails(d) \/ Settle(d) \/ PassDone(d) \/ Wake(d) \/ RequestStop(d)
  PROVE  RegistryInv'
<1>1. /\ daemon[d] \in Processes /\ AtWork(d)
      /\ registered \subseteq Projects /\ ops \in Nat /\ edits \in Nat /\ faults \in Nat
  BY DEF RegistryInv, TypeOK
<1>2. CASE Preflight(d)
  <2> DEFINE to == [daemon[d] EXCEPT !.pc = "pass"]
  <2>1. to \in Processes
    BY <1>1, <1>2 DEF Preflight, AtWork, Processes, Steps
  <2>2. /\ to.watching = daemon[d].watching /\ to.held = daemon[d].held
        /\ to.caughtUp = daemon[d].caughtUp
        /\ to.pc = "pass" /\ to.current = daemon[d].current
    BY <1>1, <1>2 DEF Preflight, AtWork, Processes
  <2>3. /\ Step(d, to) /\ Running(d) /\ UNCHANGED <<registered, onDisk, claim, single, unseen>>
        /\ ops' \in Nat /\ edits' \in Nat /\ faults' \in Nat /\ faults' >= faults
    BY <1>1, <1>2 DEF Preflight, Running, registry, claims, bounds
  <2> QED
    BY <1>2, <2>1, <2>2, <2>3, QuietStepKeepsInv DEF Quiet, Preflight, Idle, Adopting
<1>3. CASE ReadRegistry(d)
  <2> DEFINE to == [daemon[d] EXCEPT !.pc = "drop", !.desired = registered \cap onDisk]
  <2>1. to \in Processes
    BY <1>1, <1>3 DEF ReadRegistry, AtWork, Processes, Steps
  <2>2. /\ to.watching = daemon[d].watching /\ to.held = daemon[d].held
        /\ to.caughtUp = daemon[d].caughtUp
        /\ to.pc = "drop" /\ to.current = daemon[d].current
    BY <1>1, <1>3 DEF ReadRegistry, AtWork, Processes
  <2>3. /\ Step(d, to) /\ Running(d) /\ UNCHANGED <<registered, onDisk, claim, single, unseen>>
        /\ ops' \in Nat /\ edits' \in Nat /\ faults' \in Nat /\ faults' >= faults
    BY <1>1, <1>3 DEF ReadRegistry, Running, registry, claims, bounds
  <2> QED
    BY <1>3, <2>1, <2>2, <2>3, QuietStepKeepsInv DEF Quiet, ReadRegistry, Idle, Adopting
<1>4. CASE Dropped(d)
  <2> DEFINE to == [daemon[d] EXCEPT !.pc = "adopt", !.todo = daemon[d].desired \ daemon[d].held]
  <2>1. to \in Processes
    BY <1>1, <1>4 DEF Dropped, AtWork, Processes, Steps
  <2>2. /\ to.watching = daemon[d].watching /\ to.held = daemon[d].held
        /\ to.caughtUp = daemon[d].caughtUp
        /\ to.pc = "adopt" /\ to.current = daemon[d].current
    BY <1>1, <1>4 DEF Dropped, AtWork, Processes
  <2>3. /\ Step(d, to) /\ Running(d) /\ UNCHANGED <<registered, onDisk, claim, single, unseen>>
        /\ ops' \in Nat /\ edits' \in Nat /\ faults' \in Nat /\ faults' >= faults
    BY <1>1, <1>4 DEF Dropped, Running, registry, claims, bounds
  <2> QED
    BY <1>4, <2>1, <2>2, <2>3, QuietStepKeepsInv DEF Quiet, Dropped, Idle, Adopting
<1>5. CASE StartFails(d)
  <2> DEFINE to == [daemon[d] EXCEPT !.pc = "sleep", !.todo = {}, !.current = Nobody]
  <2>1. to \in Processes
    BY <1>1, <1>5 DEF StartFails, AtWork, Processes, Steps
  <2>2. /\ to.watching = daemon[d].watching /\ to.held = daemon[d].held
        /\ to.caughtUp = daemon[d].caughtUp
        /\ to.pc = "sleep" /\ to.current = Nobody
    BY <1>1, <1>5 DEF StartFails, AtWork, Processes
  <2>3. /\ Step(d, to) /\ Running(d) /\ UNCHANGED <<registered, onDisk, claim, single, unseen>>
        /\ ops' \in Nat /\ edits' \in Nat /\ faults' \in Nat /\ faults' >= faults /\ faults' > 0
    BY <1>1, <1>5 DEF StartFails, Fault, Running, registry, claims, bounds
  <2> QED
    BY <1>5, <2>1, <2>2, <2>3, QuietStepKeepsInv DEF Quiet, StartFails, Idle, Adopting
<1>6. CASE ReconcileFails(d)
  <2> DEFINE to == [daemon[d] EXCEPT !.pc = "settle"]
  <2>1. to \in Processes
    BY <1>1, <1>6 DEF ReconcileFails, AtWork, Processes, Steps
  <2>2. /\ to.watching = daemon[d].watching /\ to.held = daemon[d].held
        /\ to.caughtUp = daemon[d].caughtUp
        /\ to.pc = "settle" /\ to.current = daemon[d].current
    BY <1>1, <1>6 DEF ReconcileFails, AtWork, Processes
  <2>3. /\ Step(d, to) /\ Running(d) /\ UNCHANGED <<registered, onDisk, claim, single, unseen>>
        /\ ops' \in Nat /\ edits' \in Nat /\ faults' \in Nat /\ faults' >= faults /\ faults' > 0
    BY <1>1, <1>6 DEF ReconcileFails, Fault, Running, registry, claims, bounds
  <2> QED
    BY <1>6, <2>1, <2>2, <2>3, QuietStepKeepsInv DEF Quiet, ReconcileFails, Idle, Adopting
<1>7. CASE ScopeFails(d)
  <2> DEFINE to == [daemon[d] EXCEPT !.pc = "sleep", !.todo = {}, !.current = Nobody]
  <2>1. to \in Processes
    BY <1>1, <1>7 DEF ScopeFails, AtWork, Processes, Steps
  <2>2. /\ to.watching = daemon[d].watching /\ to.held = daemon[d].held
        /\ to.caughtUp = daemon[d].caughtUp
        /\ to.pc = "sleep" /\ to.current = Nobody
    BY <1>1, <1>7 DEF ScopeFails, AtWork, Processes
  <2>3. /\ Step(d, to) /\ Running(d) /\ UNCHANGED <<registered, onDisk, claim, single, unseen>>
        /\ ops' \in Nat /\ edits' \in Nat /\ faults' \in Nat /\ faults' >= faults /\ faults' > 0
    BY <1>1, <1>7 DEF ScopeFails, Fault, Running, registry, claims, bounds
  <2> QED
    BY <1>7, <2>1, <2>2, <2>3, QuietStepKeepsInv DEF Quiet, ScopeFails, Idle, Adopting
<1>8. CASE Settle(d)
  <2> DEFINE to == [daemon[d] EXCEPT !.pc = "adopt", !.todo = @ \ {daemon[d].current},
                      !.watching = @ \cup {daemon[d].current}, !.current = Nobody]
  <2>1. to \in Processes
    BY <1>1, <1>8 DEF Settle, AtWork, Processes, Steps
  <2>2. /\ to.watching = daemon[d].watching /\ to.held = daemon[d].held
        /\ to.caughtUp = daemon[d].caughtUp
        /\ to.pc = "adopt" /\ to.current = Nobody
    BY <1>1, <1>8 DEF Settle, AtWork, Processes
  <2>3. /\ Step(d, to) /\ Running(d) /\ UNCHANGED <<registered, onDisk, claim, single, unseen>>
        /\ ops' \in Nat /\ edits' \in Nat /\ faults' \in Nat /\ faults' >= faults
    BY <1>1, <1>8 DEF Settle, Running, registry, claims, bounds
  <2> QED
    BY <1>8, <2>1, <2>2, <2>3, QuietStepKeepsInv DEF Quiet, Settle, Idle, Adopting
<1>9. CASE PassDone(d)
  <2> DEFINE to == [daemon[d] EXCEPT !.pc = "sleep", !.desired = {}]
  <2>1. to \in Processes
    BY <1>1, <1>9 DEF PassDone, AtWork, Processes, Steps
  <2>2. /\ to.watching = daemon[d].watching /\ to.held = daemon[d].held
        /\ to.caughtUp = daemon[d].caughtUp
        /\ to.pc = "sleep" /\ to.current = daemon[d].current
    BY <1>1, <1>9 DEF PassDone, AtWork, Processes
  <2>3. /\ Step(d, to) /\ Running(d) /\ UNCHANGED <<registered, onDisk, claim, single, unseen>>
        /\ ops' \in Nat /\ edits' \in Nat /\ faults' \in Nat /\ faults' >= faults
    BY <1>1, <1>9 DEF PassDone, Running, registry, claims, bounds
  <2> QED
    BY <1>9, <2>1, <2>2, <2>3, QuietStepKeepsInv DEF Quiet, PassDone, Idle, Adopting
<1>10. CASE Wake(d)
  <2> DEFINE to == [daemon[d] EXCEPT !.pc = IF daemon[d].stop THEN "drop" ELSE "pass",
                                   !.ending = daemon[d].stop, !.desired = {}]
  <2>1. to \in Processes
    BY <1>1, <1>10 DEF Wake, AtWork, Processes, Steps
  <2>2. /\ to.watching = daemon[d].watching /\ to.held = daemon[d].held
        /\ to.caughtUp = daemon[d].caughtUp
        /\ to.pc \in {"pass", "drop"} /\ to.current = daemon[d].current
    BY <1>1, <1>10 DEF Wake, AtWork, Processes
  <2>3. /\ Step(d, to) /\ Running(d) /\ UNCHANGED <<registered, onDisk, claim, single, unseen>>
        /\ ops' \in Nat /\ edits' \in Nat /\ faults' \in Nat /\ faults' >= faults
    BY <1>1, <1>10 DEF Wake, Running, registry, claims, bounds
  <2> QED
    BY <1>10, <2>1, <2>2, <2>3, QuietStepKeepsInv DEF Quiet, Wake, Idle, Adopting
<1>11. CASE RequestStop(d)
  <2> DEFINE to == [daemon[d] EXCEPT !.stop = TRUE]
  <2>1. to \in Processes
    BY <1>1, <1>11 DEF RequestStop, AtWork, Processes, Steps
  <2>2. /\ to.watching = daemon[d].watching /\ to.held = daemon[d].held
        /\ to.caughtUp = daemon[d].caughtUp
        /\ to.pc = daemon[d].pc /\ to.current = daemon[d].current
    BY <1>1, <1>11 DEF RequestStop, AtWork, Processes
  <2>3. /\ Step(d, to) /\ Running(d) /\ UNCHANGED <<registered, onDisk, claim, single, unseen>>
        /\ ops' \in Nat /\ edits' \in Nat /\ faults' \in Nat /\ faults' >= faults
    BY <1>1, <1>11 DEF RequestStop, Running, registry, claims, bounds
  <2> QED
    BY <1>11, <2>1, <2>2, <2>3, QuietStepKeepsInv DEF Quiet, RequestStop, Running, Idle, Adopting
<1> QED
  BY <1>2, <1>3, <1>4, <1>5, <1>6, <1>7, <1>8, <1>9, <1>10, <1>11

-----------------------------------------------------------------------------
(* Steps that give claims back.                                              *)

\* The project a daemon lets go of: its claim is free, or nobody renews it any more.
LEMMA GivingBackKeepsInv ==
  ASSUME RegistryInv, NEW d \in Daemons, NEW to \in Processes, Step(d, to),
         daemon[d].pc \in {"release", "start"}, to.pc \in Idle, to.current = Nobody,
         to.watching = daemon[d].watching, to.held = daemon[d].held,
         to.caughtUp = daemon[d].caughtUp,
         NEW c \in Claims, ~c.renewed, claim' = [claim EXCEPT ![daemon[d].current] = c],
         UNCHANGED <<registered, onDisk, single, unseen, ops, edits>>,
         faults' \in Nat, faults' >= faults
  PROVE  RegistryInv'
<1>1. daemon'[d] = to
  BY DEF Step, RegistryInv, TypeOK
<1>2. /\ daemon[d].current \in Projects /\ claim[daemon[d].current] = Held(d)
      /\ daemon[d].current \notin daemon[d].watching /\ daemon[d].watching \subseteq Projects
  BY DEF RegistryInv, TypeOK, AtWork, Processes
<1>3. /\ claim'[daemon[d].current] = c
      /\ \A p \in Projects : p # daemon[d].current => claim'[p] = claim[p]
  BY <1>2 DEF RegistryInv, TypeOK
<1>4. Stored'
  BY <1>2 DEF RegistryInv, TypeOK, Stored
<1>5. MayTouch(d)
  BY <1>2, <1>3 DEF MayTouch, Touchable, Held
<1>6. Renews(d)
  BY <1>1, <1>2, <1>3 DEF RegistryInv, TypeOK, Renewed, Leaked, Renews, Running, Held, Idle
<1>7. Own(d)'
  <2>1. ClaimStands(d)' /\ UpToDate(d)'
    BY <1>1, <1>2, <1>3 DEF RegistryInv, ClaimStands, UpToDate
  <2>2. AtWork(d)' /\ Alive(d)'
    BY <1>1 DEF RegistryInv, AtWork, Alive, Running, Idle
  <2> QED
    BY <2>1, <2>2 DEF Own
<1> QED
  BY <1>4, <1>5, <1>6, <1>7, StepKeepsInv

\* The three ways to let a claim go: given back, failed to be given back, refused.
LEMMA ReleasingKeepsInv ==
  ASSUME RegistryInv, NEW d \in Daemons, Release(d) \/ ReleaseFails(d) \/ Refuse(d)
  PROVE  RegistryInv'
<1>1. daemon[d] \in Processes /\ faults \in Nat /\ Free \in Claims /\ ~Free.renewed
  BY DEF RegistryInv, TypeOK, Free, Claims
<1>2. CASE Release(d)
  <2> DEFINE to == [daemon[d] EXCEPT !.pc = "drop", !.current = Nobody]
  <2>1. to \in Processes /\ Step(d, to) /\ claim' = [claim EXCEPT ![daemon[d].current] = Free]
    BY <1>1, <1>2 DEF Release, Released, Processes, Steps
  <2>2. /\ to.watching = daemon[d].watching /\ to.held = daemon[d].held
        /\ to.caughtUp = daemon[d].caughtUp /\ to.pc \in Idle /\ to.current = Nobody
    BY <1>1 DEF Processes, Idle
  <2>3. /\ daemon[d].pc \in {"release", "start"} /\ faults' \in Nat /\ faults' >= faults
        /\ UNCHANGED <<registered, onDisk, single, unseen, ops, edits>>
    BY <1>1, <1>2 DEF Release, registry, bounds
  <2> HIDE DEF to
  <2> QED
    BY <1>1, <2>1, <2>2, <2>3, GivingBackKeepsInv
<1>3. CASE ReleaseFails(d)
  <2> DEFINE to == [daemon[d] EXCEPT !.pc = "drop", !.current = Nobody]
             c == [claim[daemon[d].current] EXCEPT !.renewed = FALSE]
  <2>1. to \in Processes /\ Step(d, to) /\ claim' = [claim EXCEPT ![daemon[d].current] = c]
    BY <1>1, <1>3 DEF ReleaseFails, Processes, Steps
  <2>2. c \in Claims /\ ~c.renewed
    <3>1. claim[daemon[d].current] \in Claims
      BY <1>3 DEF RegistryInv, TypeOK, AtWork, ReleaseFails
    <3> QED
      BY <3>1 DEF Claims
  <2>3. /\ to.watching = daemon[d].watching /\ to.held = daemon[d].held
        /\ to.caughtUp = daemon[d].caughtUp /\ to.pc \in Idle /\ to.current = Nobody
    BY <1>1 DEF Processes, Idle
  <2>4. /\ daemon[d].pc \in {"release", "start"} /\ faults' \in Nat /\ faults' >= faults
        /\ UNCHANGED <<registered, onDisk, single, unseen, ops, edits>>
    BY <1>1, <1>3 DEF ReleaseFails, Fault, registry
  <2> HIDE DEF to, c
  <2> QED
    BY <2>1, <2>2, <2>3, <2>4, GivingBackKeepsInv
<1>4. CASE Refuse(d)
  <2> DEFINE to == [daemon[d] EXCEPT !.pc = "adopt", !.todo = @ \ {daemon[d].current},
                                     !.current = Nobody]
  <2>1. to \in Processes /\ Step(d, to) /\ claim' = [claim EXCEPT ![daemon[d].current] = Free]
    BY <1>1, <1>4 DEF Refuse, Processes, Steps
  <2>2. /\ to.watching = daemon[d].watching /\ to.held = daemon[d].held
        /\ to.caughtUp = daemon[d].caughtUp /\ to.pc \in Idle /\ to.current = Nobody
    BY <1>1 DEF Processes, Idle
  <2>3. /\ daemon[d].pc \in {"release", "start"} /\ faults' \in Nat /\ faults' >= faults
        /\ UNCHANGED <<registered, onDisk, single, unseen, ops, edits>>
    BY <1>1, <1>4 DEF Refuse, registry, bounds
  <2> HIDE DEF to
  <2> QED
    BY <1>1, <2>1, <2>2, <2>3, GivingBackKeepsInv
<1> QED
  BY <1>2, <1>3, <1>4

\* A process that ends renews nothing, and follows nothing.
LEMMA EndingKeepsInv ==
  ASSUME RegistryInv, NEW d \in Daemons, PreflightFails(d) \/ Exit(d) \/ Kill(d)
  PROVE  RegistryInv'
<1>1. Off \in Processes /\ Step(d, Off) /\ daemon'[d] = Off
  BY DEF PreflightFails, Exit, Kill, Step, RegistryInv, TypeOK, Off, Processes, Steps
<1>2. /\ Running(d) /\ single[Host[d]] = Held(d) /\ Host[d] \in Hosts
      /\ Free \in Claims /\ \A c \in Claims : [c EXCEPT !.renewed = FALSE] \in Claims
  BY DEF PreflightFails, Exit, Kill, RegistryInv, Alive, Running, Hosts, Free, Claims
<1>3. /\ claim' \in [Projects -> Claims]
      /\ \A p \in Projects : \/ claim'[p] = claim[p] /\ ~(claim[p].renewed /\ claim[p].by = d)
                             \/ claim[p].by = d /\ ~claim'[p].renewed
  <2>1. CASE claim' = claim /\ daemon[d].pc = "boot"
    BY <2>1 DEF RegistryInv, TypeOK, Renewed
  <2>2. CASE claim' = Orphaned(d)
    BY <1>2, <2>2 DEF RegistryInv, TypeOK, Orphaned, Claims
  <2> QED
    BY <2>1, <2>2 DEF PreflightFails, Exit, Kill
<1>4. /\ single' \in [Hosts -> Claims]
      /\ ~single'[Host[d]].renewed /\ \A h \in Hosts : h # Host[d] => single'[h] = single[h]
  <2>1. CASE single' = [single EXCEPT ![Host[d]] = Free]
    BY <1>2, <2>1 DEF RegistryInv, TypeOK, Free
  <2>2. CASE single' = [single EXCEPT ![Host[d]].renewed = FALSE]
    BY <1>2, <2>2 DEF RegistryInv, TypeOK, Claims
  <2> QED
    BY <2>1, <2>2 DEF PreflightFails, Exit, Kill
<1>5. Stored' /\ faults' >= faults /\ unseen' = unseen
  BY <1>3, <1>4 DEF RegistryInv, TypeOK, Stored, PreflightFails, Exit, Kill, Fault, registry, bounds
<1>6. MayTouch(d)
  BY <1>2, <1>3, <1>4 DEF MayTouch, Touchable, Held
<1>7. Renews(d)
  BY <1>1, <1>3 DEF Renews, Running, Off
<1>8. Own(d)'
  BY <1>1 DEF Own, ClaimStands, AtWork, Alive, UpToDate, Running, Off
<1> QED
  BY <1>1, <1>5, <1>6, <1>7, <1>8, StepKeepsInv

-----------------------------------------------------------------------------
(* Steps that claim, watch and catch up.                                     *)

\* A host's claim that was free goes to the process that starts.
LEMMA BootKeepsInv ==
  ASSUME RegistryInv, NEW d \in Daemons, Boot(d)
  PROVE  RegistryInv'
<1> DEFINE to == [Off EXCEPT !.pc = "boot"]
<1>1. to \in Processes /\ Step(d, to) /\ daemon'[d] = to
  BY DEF Boot, Step, RegistryInv, TypeOK, Off, Processes, Steps
<1>2. /\ Host[d] \in Hosts /\ Held(d) \in Claims
      /\ single' = [single EXCEPT ![Host[d]] = Held(d)] /\ claim' = claim
  BY DEF Boot, Hosts, Held, Claims
<1>3. Stored' /\ MayTouch(d)
  BY <1>2 DEF RegistryInv, TypeOK, Stored, MayTouch, Touchable, Boot, Free, Held, registry, bounds
<1>4. Renews(d)
  BY <1>1, <1>2 DEF RegistryInv, Renewed, Renews, Boot, Running, Held
<1>5. Own(d)'
  BY <1>1, <1>2 DEF RegistryInv, TypeOK, Own, ClaimStands, AtWork, Alive, UpToDate, Running, Off
<1> QED
  BY <1>1, <1>3, <1>4, <1>5, StepKeepsInv DEF RegistryInv, TypeOK, Boot, bounds

\* The observer is started on a project the daemon has claimed.
LEMMA StartKeepsInv ==
  ASSUME RegistryInv, NEW d \in Daemons, Start(d)
  PROVE  RegistryInv'
<1> DEFINE p == daemon[d].current
           to == [daemon[d] EXCEPT !.pc = "reconcile", !.watching = WatchedFirst(d),
                                   !.held = @ \cup {p}]
<1>1. /\ daemon[d] \in Processes /\ daemon[d].pc = "start"
      /\ p \in Projects /\ claim[p] = Held(d)
      /\ claim' = claim /\ single' = single /\ unseen' = unseen /\ faults' = faults
  BY DEF Start, RegistryInv, TypeOK, AtWork, claims, bounds
<1>2. to \in Processes /\ Step(d, to) /\ daemon'[d] = to
  BY <1>1 DEF Start, WatchedFirst, Step, RegistryInv, TypeOK, Processes, Steps
<1>3. /\ to.pc = "reconcile" /\ to.current = p /\ to.caughtUp = daemon[d].caughtUp
      /\ to.watching = daemon[d].watching \cup {p} /\ to.held = daemon[d].held \cup {p}
  BY <1>1 DEF WatchedFirst, Processes
<1>4. Stored' /\ MayTouch(d)
  BY <1>1 DEF RegistryInv, TypeOK, Stored, MayTouch, Start, registry, bounds
<1>5. Renews(d)
  BY <1>1, <1>2, <1>3 DEF RegistryInv, TypeOK, Renewed, Leaked, Renews, Running
<1>6. Own(d)'
  <2>1. ClaimStands(d)' /\ AtWork(d)'
    BY <1>1, <1>2, <1>3 DEF RegistryInv, ClaimStands, AtWork
  <2>2. Alive(d)' /\ UpToDate(d)'
    BY <1>1, <1>2, <1>3 DEF RegistryInv, Alive, Running, UpToDate
  <2> QED
    BY <2>1, <2>2 DEF Own
<1> QED
  BY <1>1, <1>2, <1>4, <1>5, <1>6, StepKeepsInv DEF RegistryInv, TypeOK

\* The catch-up leaves no edit of its project behind, and the project is watched by then.
LEMMA ReconcileKeepsInv ==
  ASSUME RegistryInv, NEW d \in Daemons, Reconcile(d)
  PROVE  RegistryInv'
<1> DEFINE p == daemon[d].current
           to == [daemon[d] EXCEPT !.pc = "settle", !.caughtUp = @ \cup {p}]
<1>1. /\ daemon[d] \in Processes /\ daemon[d].pc = "reconcile" /\ p \in daemon[d].watching
      /\ claim' = claim /\ single' = single /\ unseen' = unseen \ {p} /\ faults' = faults
  BY DEF Reconcile, RegistryInv, TypeOK, AtWork, claims, bounds
<1>2. to \in Processes /\ Step(d, to) /\ daemon'[d] = to
  BY <1>1 DEF Reconcile, Step, RegistryInv, TypeOK, Processes, Steps
<1>3. /\ to.pc = "settle" /\ to.current = p /\ to.caughtUp = daemon[d].caughtUp \cup {p}
      /\ to.watching = daemon[d].watching /\ to.held = daemon[d].held
  BY <1>1 DEF Processes
<1>4. Stored' /\ MayTouch(d)
  BY <1>1 DEF RegistryInv, TypeOK, Stored, MayTouch, Reconcile, registry, bounds
<1>5. Renews(d)
  BY <1>1, <1>2, <1>3 DEF RegistryInv, TypeOK, Renewed, Leaked, Renews, Running
<1>6. Own(d)'
  <2>1. ClaimStands(d)' /\ AtWork(d)'
    BY <1>1, <1>2, <1>3 DEF RegistryInv, ClaimStands, AtWork
  <2>2. Alive(d)' /\ UpToDate(d)'
    BY <1>1, <1>2, <1>3 DEF RegistryInv, Alive, Running, UpToDate
  <2> QED
    BY <2>1, <2>2 DEF Own
<1> QED
  BY <1>1, <1>2, <1>4, <1>5, <1>6, StepKeepsInv DEF RegistryInv, TypeOK

\* The watcher is stopped while the claim is still held.
LEMMA StopWatchingKeepsInv ==
  ASSUME RegistryInv, NEW d \in Daemons, StopWatching(d)
  PROVE  RegistryInv'
<1>1. PICK p \in daemon[d].held \ daemon[d].desired :
        Step(d, [daemon[d] EXCEPT !.pc = "release", !.current = p,
                   !.held = @ \ {p}, !.watching = @ \ {p}, !.caughtUp = @ \ {p}])
  BY DEF StopWatching
<1> DEFINE to == [daemon[d] EXCEPT !.pc = "release", !.current = p,
                    !.held = @ \ {p}, !.watching = @ \ {p}, !.caughtUp = @ \ {p}]
<1>2. /\ daemon[d] \in Processes /\ Own(d) /\ Stored
      /\ UNCHANGED <<registry, claims, unseen, bounds>>
  BY DEF RegistryInv, TypeOK, Own, Stored, StopWatching
<1>3. p \in Projects /\ p \in daemon[d].watching /\ claim[p] = Held(d)
  BY <1>2 DEF Own, ClaimStands, Processes
<1>4. to \in Processes /\ daemon'[d] = to
  BY <1>1, <1>2, <1>3 DEF Step, RegistryInv, TypeOK, Processes, Steps
<1>5. /\ daemon'[d].watching = daemon[d].watching \ {p}
      /\ daemon'[d].held = daemon[d].held \ {p}
      /\ daemon'[d].caughtUp = daemon[d].caughtUp \ {p}
      /\ daemon'[d].current = p /\ daemon'[d].pc = "release"
  BY <1>2, <1>4 DEF Processes
<1>6. Stored' /\ MayTouch(d)
  BY <1>2 DEF Stored, MayTouch, registry, claims, bounds
<1>7. Renews(d)
  BY <1>2, <1>3, <1>5 DEF Renews, RegistryInv, Renewed, Leaked, Running, StopWatching, Held,
                          AtWork, Own, claims, bounds, Stored
<1>8. Own(d)'
  <2>1. ClaimStands(d)' /\ AtWork(d)'
    BY <1>2, <1>3, <1>5 DEF Own, ClaimStands, AtWork, claims
  <2>2. Alive(d)' /\ UpToDate(d)'
    BY <1>2, <1>5 DEF Own, Alive, Running, UpToDate, StopWatching, claims
  <2> QED
    BY <2>1, <2>2 DEF Own
<1> QED
  BY <1>1, <1>2, <1>4, <1>6, <1>7, <1>8, StepKeepsInv DEF bounds, Stored

\* The claim is taken when it is free; another daemon's is left alone.
LEMMA AdoptKeepsInv ==
  ASSUME RegistryInv, NEW d \in Daemons, Adopt(d)
  PROVE  RegistryInv'
<1>1. PICK p \in daemon[d].todo :
        IF claim[p] = Free
        THEN /\ claim' = Claimed(d, p)
             /\ Step(d, [daemon[d] EXCEPT !.pc = "start", !.current = p])
        ELSE /\ claim' = claim
             /\ Step(d, [daemon[d] EXCEPT !.todo = @ \ {p}])
  BY DEF Adopt
<1>2. /\ daemon[d] \in Processes /\ Own(d) /\ Stored
      /\ daemon[d].pc = "adopt" /\ daemon[d].current = Nobody
      /\ UNCHANGED <<registry, single, unseen, bounds>>
  BY DEF RegistryInv, TypeOK, Own, AtWork, Stored, Adopt
<1>3. p \in Projects
  BY <1>2 DEF Processes
<1>4. CASE claim[p] = Free
  <2> DEFINE to == [daemon[d] EXCEPT !.pc = "start", !.current = p]
  <2>1. claim' = [claim EXCEPT ![p] = Held(d)] /\ Step(d, to)
    BY <1>1, <1>4 DEF Claimed
  <2>2. to \in Processes /\ daemon'[d] = to
    BY <2>1, <1>2, <1>3 DEF Step, RegistryInv, TypeOK, Processes, Steps
  <2>3. /\ daemon'[d].watching = daemon[d].watching /\ daemon'[d].held = daemon[d].held
        /\ daemon'[d].caughtUp = daemon[d].caughtUp
        /\ daemon'[d].current = p /\ daemon'[d].pc = "start"
    BY <1>2, <2>2 DEF Processes
  <2>4. claim'[p] = Held(d) /\ \A q \in Projects \ {p} : claim'[q] = claim[q]
    BY <1>2, <1>3, <2>1 DEF Stored
  <2>5. p \notin daemon[d].watching
    BY <1>2, <1>4, HeldIsNotFree DEF Own, ClaimStands
  <2>6. Stored' /\ MayTouch(d)
    BY <1>2, <1>3, <1>4, <2>1, <2>4
    DEF Stored, MayTouch, Touchable, Claims, Held, Free, registry, bounds
  <2>7. Renews(d)
    BY <1>2, <1>3, <2>3, <2>4 DEF Renews, RegistryInv, Renewed, Leaked, Running, bounds, Stored
  <2>8. Own(d)'
    <3>1. ClaimStands(d)' /\ AtWork(d)'
      BY <1>2, <1>3, <2>3, <2>4, <2>5 DEF Own, ClaimStands, AtWork, Processes
    <3>2. Alive(d)' /\ UpToDate(d)'
      BY <1>2, <2>3 DEF Own, Alive, Running, UpToDate
    <3> QED
      BY <3>1, <3>2 DEF Own
  <2> QED
    BY <1>2, <2>1, <2>2, <2>6, <2>7, <2>8, StepKeepsInv DEF bounds, Stored
<1>5. CASE claim[p] # Free
  <2> DEFINE to == [daemon[d] EXCEPT !.todo = @ \ {p}]
  <2>1. claim' = claim /\ Step(d, to)
    BY <1>1, <1>5
  <2>2. to \in Processes /\ daemon'[d] = to
    BY <2>1, <1>2 DEF Step, RegistryInv, TypeOK, Processes
  <2>3. /\ daemon'[d].watching = daemon[d].watching /\ daemon'[d].held = daemon[d].held
        /\ daemon'[d].caughtUp = daemon[d].caughtUp
        /\ daemon'[d].current = daemon[d].current /\ daemon'[d].pc = daemon[d].pc
    BY <1>2, <2>2 DEF Processes
  <2>4. Stored' /\ MayTouch(d)
    BY <1>2, <2>1 DEF Stored, MayTouch, registry, bounds
  <2>5. Renews(d)
    BY <1>2, <2>1, <2>3 DEF Renews, RegistryInv, Renewed, Leaked, Running, bounds, Stored
  <2>6. Own(d)'
    BY <1>2, <2>1, <2>3 DEF Own, ClaimStands, AtWork, Alive, Running, UpToDate
  <2> QED
    BY <1>2, <2>1, <2>2, <2>4, <2>5, <2>6, StepKeepsInv DEF bounds, Stored
<1> QED
  BY <1>4, <1>5

-----------------------------------------------------------------------------
\* The world moves: the registry, the disk, and claims that run out.
LEMMA WorldKeepsInv ==
  ASSUME RegistryInv,
         \/ \E p \in Projects : Register(p) \/ MoveRoot(p) \/ Edit(p) \/ ExpireClaim(p)
         \/ \E h \in Hosts : ExpireSingleton(h)
  PROVE  RegistryInv'
<1>1. daemon' = daemon
  BY DEF Register, MoveRoot, Edit, ExpireClaim, ExpireSingleton
<1>2. Stored /\ Free \in Claims
  BY DEF RegistryInv, TypeOK, Stored, Free, Claims
<1>3. /\ faults' = faults
      /\ \A p \in Projects : claim'[p] = claim[p] \/ (~claim[p].renewed /\ claim'[p] = Free)
      /\ \A h \in Hosts : single'[h] = single[h] \/ (~single[h].renewed /\ single'[h] = Free)
  <2>1. faults' = faults
    BY DEF Register, MoveRoot, Edit, ExpireClaim, ExpireSingleton, bounds
  <2>2. ASSUME NEW q \in Projects, ExpireClaim(q)
        PROVE  /\ \A p \in Projects : claim'[p] = claim[p] \/ (~claim[p].renewed /\ claim'[p] = Free)
               /\ single' = single
    <3>1. claim' = [claim EXCEPT ![q] = Free] /\ ~claim[q].renewed /\ single' = single
      BY <2>2 DEF ExpireClaim
    <3>2. claim \in [Projects -> Claims]
      BY <1>2 DEF Stored
    <3> QED
      BY <3>1, <3>2
  <2>3. ASSUME NEW g \in Hosts, ExpireSingleton(g)
        PROVE  /\ \A h \in Hosts : single'[h] = single[h] \/ (~single[h].renewed /\ single'[h] = Free)
               /\ claim' = claim
    <3>1. single' = [single EXCEPT ![g] = Free] /\ ~single[g].renewed /\ claim' = claim
      BY <2>3 DEF ExpireSingleton
    <3>2. single \in [Hosts -> Claims]
      BY <1>2 DEF Stored
    <3> QED
      BY <3>1, <3>2
  <2>4. ASSUME NEW q \in Projects, Register(q) \/ MoveRoot(q) \/ Edit(q)
        PROVE  claim' = claim /\ single' = single
    BY <2>4 DEF Register, MoveRoot, Edit, claims
  <2>5. CASE \E q \in Projects : Register(q) \/ MoveRoot(q) \/ Edit(q) \/ ExpireClaim(q)
    BY <2>1, <2>2, <2>4, <2>5
  <2>6. CASE \E g \in Hosts : ExpireSingleton(g)
    BY <2>1, <2>3, <2>6
  <2> QED
    BY <2>5, <2>6
<1>4. TypeOK'
  <2>1. claim' \in [Projects -> Claims] /\ single' \in [Hosts -> Claims]
    BY <1>2 DEF Stored, Register, MoveRoot, Edit, ExpireClaim, ExpireSingleton, claims
  <2>2. registered' \subseteq Projects /\ onDisk' \subseteq Projects /\ unseen' \subseteq Projects
    BY <1>2 DEF Stored, Register, MoveRoot, Edit, ExpireClaim, ExpireSingleton, registry
  <2>3. ops' \in Nat /\ edits' \in Nat
    BY <1>2 DEF Stored, Register, MoveRoot, Edit, ExpireClaim, ExpireSingleton, bounds
  <2> QED
    BY <1>1, <1>3, <2>1, <2>2, <2>3 DEF RegistryInv, TypeOK
<1>5. ASSUME NEW d \in Daemons
      PROVE  Own(d)'
  <2>1. \A p \in Projects : claim[p] = Held(d) => claim'[p] = Held(d)
    BY <1>3 DEF Held
  <2>2. \A h \in Hosts : single[h] = Held(d) => single'[h] = Held(d)
    BY <1>3 DEF Held
  <2>3. ClaimStands(d)' /\ AtWork(d)'
    BY <1>1, <2>1 DEF RegistryInv, TypeOK, ClaimStands, AtWork, Processes
  <2>4. Alive(d)'
    BY <1>1, <2>2 DEF RegistryInv, Alive, Running, Hosts
  <2>5. UpToDate(d)'
    <3>1. \A p \in daemon[d].watching : p \in unseen' => p \in unseen
      BY DEF Register, MoveRoot, Edit, ExpireClaim, ExpireSingleton, Followed
    <3> QED
      BY <1>1, <3>1 DEF RegistryInv, UpToDate
  <2> QED
    BY <2>3, <2>4, <2>5 DEF Own
<1>6. ASSUME NEW p \in Projects
      PROVE  Renewed(p)'
  <2>1. claim'[p] = claim[p] \/ ~claim'[p].renewed
    BY <1>3 DEF Free
  <2>2. Leaked(p)' => Leaked(p)
    <3>1. \A d \in Daemons : claim'[p] = Held(d) => claim[p] = Held(d)
      BY <2>1 DEF Held
    <3> QED
      BY <1>1, <3>1 DEF Leaked, Running
  <2> QED
    BY <1>1, <1>3, <2>1, <2>2 DEF RegistryInv, Renewed
<1> QED
  BY <1>4, <1>5, <1>6 DEF RegistryInv, Own

\* Every step keeps the invariant.
LEMMA InvInductive == RegistryInv /\ [Next]_vars => RegistryInv'
<1> SUFFICES ASSUME RegistryInv, [Next]_vars
             PROVE  RegistryInv'
  OBVIOUS
<1>1. CASE UNCHANGED vars
  BY <1>1 DEF vars, registry, claims, bounds, RegistryInv, TypeOK, ClaimStands, AtWork, Alive,
              UpToDate, Renewed, Leaked, Running
<1>2. CASE \/ \E p \in Projects : Register(p) \/ MoveRoot(p) \/ Edit(p) \/ ExpireClaim(p)
           \/ \E h \in Hosts : ExpireSingleton(h)
  BY <1>2, WorldKeepsInv
<1>3. ASSUME NEW d \in Daemons,
             \/ Boot(d) \/ DaemonStep(d) \/ RequestStop(d) \/ Kill(d)
             \/ PreflightFails(d) \/ ReleaseFails(d) \/ StartFails(d)
             \/ ReconcileFails(d) \/ ScopeFails(d)
      PROVE  RegistryInv'
  BY <1>3, BootKeepsInv, QuietKeepsInv, StopWatchingKeepsInv, ReleasingKeepsInv,
     AdoptKeepsInv, StartKeepsInv, ReconcileKeepsInv, EndingKeepsInv
  DEF DaemonStep
<1> QED
  BY <1>1, <1>2, <1>3 DEF Next

-----------------------------------------------------------------------------
(* What the invariant means.                                                 *)

\* One claim, one follower.
LEMMA InvMeansOneFollower == RegistryInv => OneFollower
<1> SUFFICES ASSUME RegistryInv, NEW p \in Projects
             PROVE  Cardinality({d \in Daemons : p \in daemon[d].watching}) <= 1
  BY DEF OneFollower
<1> DEFINE F == {d \in Daemons : p \in daemon[d].watching}
<1>1. ASSUME NEW d \in F
      PROVE  d = claim[p].by
  <2>1. claim[p] = Held(d)
    BY DEF RegistryInv, ClaimStands
  <2> QED
    BY <2>1 DEF Held
<1>2. IsFiniteSet({claim[p].by}) /\ Cardinality({claim[p].by}) = 1
  BY FS_Singleton
<1>3. Cardinality(F) <= Cardinality({claim[p].by})
  BY <1>1, <1>2, F \subseteq {claim[p].by}, FS_Subset
<1> QED
  BY <1>2, <1>3

\* What is caught up has nothing behind it, and the notice reads the claim.
LEMMA InvMeansCurrent == RegistryInv => FollowedIsCurrent
<1> SUFFICES ASSUME RegistryInv
             PROVE  FollowedIsCurrent
  OBVIOUS
<1>1. AdoptedIsCaughtUp
  BY DEF RegistryInv, UpToDate, AdoptedIsCaughtUp
<1>2. ASSUME NEW p \in Projects, NEW h \in Hosts
      PROVE  /\ Notice(h, p) = "live" /\ claim[p].renewed /\ ~Leaked(p) =>
                  LET d == claim[p].by IN Running(d) /\ (p \in daemon[d].watching \/ p = daemon[d].current)
             /\ Leaked(p) => faults > 0
             /\ Notice(h, p) = "registered but no daemon is running" =>
                  \A d \in Daemons : Host[d] = h => ~Running(d)
             /\ Followed(p) => Notice(h, p) = "live"
  <2>1. claim[p] \in Claims
    BY DEF RegistryInv, TypeOK
  <2>2. ASSUME claim[p].renewed, ~Leaked(p)
        PROVE  LET d == claim[p].by IN Running(d) /\ (p \in daemon[d].watching \/ p = daemon[d].current)
    <3>1. claim[p].by \in Daemons /\ Running(claim[p].by)
      BY <2>2 DEF RegistryInv, Renewed, Running
    <3>2. claim[p] = Held(claim[p].by)
      BY <2>1, <2>2 DEF Claims, Held
    <3> QED
      BY <2>2, <3>1, <3>2 DEF Leaked
  <2>3. Leaked(p) => faults > 0
    BY DEF RegistryInv, Renewed
  <2>4. ASSUME Notice(h, p) = "registered but no daemon is running", NEW d \in Daemons, Host[d] = h
        PROVE  ~Running(d)
    <3>1. single[h] = Free
      BY <2>4 DEF Notice
    <3>2. Running(d) => single[h] = Held(d)
      BY <2>4 DEF RegistryInv, Alive
    <3> QED
      BY <3>1, <3>2, HeldIsNotFree
  <2>5. Followed(p) => Notice(h, p) = "live"
    BY HeldIsNotFree DEF Followed, RegistryInv, ClaimStands, Notice
  <2> QED
    BY <2>2, <2>3, <2>4, <2>5
<1>3. NoticeIsTrue
  BY <1>2 DEF NoticeIsTrue
<1> QED
  BY <1>1, <1>3 DEF FollowedIsCurrent

-----------------------------------------------------------------------------
(* Theorems.                                                                 *)

\* The inductive invariant: who follows a project holds its claim, and nobody renews a
\* claim but a process that follows the project, is about to, or failed to.
THEOREM RegistryInvariant == Spec => []RegistryInv
  BY InvInitially, InvInductive, PTL DEF Spec

\* No project is ever followed by two daemons, whatever dies or fails.
THEOREM AtMostOneFollower == Spec => []OneFollower
  BY RegistryInvariant, InvMeansOneFollower, PTL

\* A followed project whose catch-up went through has no unheard edit behind it, and the
\* watcher line of an answer says what is so.
THEOREM FollowedStaysCurrent == Spec => []FollowedIsCurrent
  BY RegistryInvariant, InvMeansCurrent, PTL
=============================================================================
