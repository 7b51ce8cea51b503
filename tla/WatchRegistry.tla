--------------------------- MODULE WatchRegistry ---------------------------
(* The registry of followed projects and the daemons that follow them:       *)
(* watch_daemon.py, the `watch' commands of __main__.py, the watch state of  *)
(* db/repository.py and what tools/freshness.py says of it.                  *)
(*                                                                           *)
(* A claim is a ProjectLease that is tried once and held for hours.  Module  *)
(* ProjectLease has its clock; here a claim that is renewed stands, and one  *)
(* nobody renews may expire.  What a followed project's watcher does with an *)
(* event is module Watcher's: here an edit is heard or it is not.            *)
EXTENDS Integers, FiniteSets

CONSTANTS
  Projects,
  Daemons,      \* processes that run `watch run'
  Host,         \* [Daemons -> Hosts]
  Renamed,      \* projects whose root path derives another id by now
  Nobody,
  MaxOps,       \* bound on `watch add', `watch rm' and lost or found roots
  MaxEdits,     \* bound on edits
  MaxFaults     \* bound on kills and failing calls

Hosts == {Host[d] : d \in Daemons}

ASSUME WatchRegistryAssumption ==
  /\ IsFiniteSet(Projects) /\ IsFiniteSet(Daemons)
  /\ Renamed \subseteq Projects /\ Nobody \notin Daemons \cup Projects
  /\ {MaxOps, MaxEdits, MaxFaults} \subseteq Nat

VARIABLES
  registered,  \* n.watched of the project root nodes
  onDisk,      \* projects whose root is a directory
  claim,       \* [Projects -> claim]: the watch claims
  single,      \* [Hosts -> claim]: the daemon claims
  daemon,      \* [Daemons -> the process]
  unseen,      \* projects with an edit no watcher heard of and no run has indexed
  ops, edits, faults

registry == <<registered, onDisk>>
claims == <<claim, single>>
bounds == <<ops, edits, faults>>
vars == <<registry, claims, daemon, unseen, bounds>>

Free == [by |-> Nobody, renewed |-> FALSE]
Held(d) == [by |-> d, renewed |-> TRUE]

\* desired, todo and current are the locals of a pass; held is _held with its
\* catch_up; watching is what the FileWatcher observes.
Off == [pc |-> "off", stop |-> FALSE, ending |-> FALSE, desired |-> {}, todo |-> {}, current |-> Nobody,
        held |-> {}, watching |-> {}, caughtUp |-> {}]

Running(d) == daemon[d].pc # "off"
Followed(p) == \E d \in Daemons : p \in daemon[d].watching

\* A claim its daemon renews without following the project or being about to.
Leaked(p) == \E d \in Daemons : /\ Running(d) /\ claim[p] = Held(d)
                                /\ p \notin daemon[d].watching /\ daemon[d].current # p

Init ==
  /\ registered = {} /\ onDisk = Projects
  /\ claim = [p \in Projects |-> Free]
  /\ single = [h \in Hosts |-> Free]
  /\ daemon = [d \in Daemons |-> Off]
  /\ unseen = {}
  /\ ops = 0 /\ edits = 0 /\ faults = 0

Step(d, to) == daemon' = [daemon EXCEPT ![d] = to]
Fault == faults < MaxFaults /\ faults' = faults + 1 /\ UNCHANGED <<ops, edits>>

-----------------------------------------------------------------------------
(* The user and the disk.                                                    *)

\* _watch_register: `watch add' and `watch rm'.  (An unindexed path is refused;
\* every project here has its index.)
Register(p) ==
  /\ ops < MaxOps /\ ops' = ops + 1
  /\ registered' = IF p \in registered THEN registered \ {p} ELSE registered \cup {p}
  /\ UNCHANGED <<onDisk, claims, daemon, unseen, edits, faults>>

\* A root goes, or comes back.
MoveRoot(p) ==
  /\ ops < MaxOps /\ ops' = ops + 1
  /\ onDisk' = IF p \in onDisk THEN onDisk \ {p} ELSE onDisk \cup {p}
  /\ UNCHANGED <<registered, claims, daemon, unseen, edits, faults>>

Edit(p) ==
  /\ edits < MaxEdits /\ edits' = edits + 1
  /\ unseen' = IF Followed(p) THEN unseen ELSE unseen \cup {p}
  /\ UNCHANGED <<registry, claims, daemon, ops, faults>>

\* A claim nobody renews runs out.
ExpireClaim(p) ==
  /\ claim[p].by # Nobody /\ ~claim[p].renewed
  /\ claim' = [claim EXCEPT ![p] = Free]
  /\ UNCHANGED <<registry, single, daemon, unseen, bounds>>

ExpireSingleton(h) ==
  /\ single[h].by # Nobody /\ ~single[h].renewed
  /\ single' = [single EXCEPT ![h] = Free]
  /\ UNCHANGED <<registry, claim, daemon, unseen, bounds>>

-----------------------------------------------------------------------------
(* A daemon.                                                                 *)

\* claim_singleton: a daemon that finds the claim taken exits.
Boot(d) ==
  /\ ~Running(d) /\ single[Host[d]] = Free
  /\ single' = [single EXCEPT ![Host[d]] = Held(d)]
  /\ Step(d, [Off EXCEPT !.pc = "boot"])
  /\ UNCHANGED <<registry, claim, unseen, bounds>>

Preflight(d) ==
  /\ daemon[d].pc = "boot"
  /\ Step(d, [daemon[d] EXCEPT !.pc = "pass"])
  /\ UNCHANGED <<registry, claims, unseen, bounds>>

\* No key or no service: the daemon gives its claim back and exits.
PreflightFails(d) ==
  /\ daemon[d].pc = "boot" /\ Fault
  /\ single' = [single EXCEPT ![Host[d]] = Free]
  /\ Step(d, Off)
  /\ UNCHANGED <<registry, claim, unseen>>

\* refresh: the registry is read, and which roots are directories.
ReadRegistry(d) ==
  /\ daemon[d].pc = "pass"
  /\ Step(d, [daemon[d] EXCEPT !.pc = "drop", !.desired = registered \cap onDisk])
  /\ UNCHANGED <<registry, claims, unseen, bounds>>

\* _drop: the watcher stops first,
StopWatching(d) ==
  /\ daemon[d].pc = "drop"
  /\ \E p \in daemon[d].held \ daemon[d].desired :
       Step(d, [daemon[d] EXCEPT !.pc = "release", !.current = p,
                  !.held = @ \ {p}, !.watching = @ \ {p}, !.caughtUp = @ \ {p}])
  /\ UNCHANGED <<registry, claims, unseen, bounds>>

\* then the claim is given back.
Released(p) == [claim EXCEPT ![p] = Free]

Release(d) ==
  /\ daemon[d].pc = "release"
  /\ claim' = Released(daemon[d].current)
  /\ Step(d, [daemon[d] EXCEPT !.pc = "drop", !.current = Nobody])
  /\ UNCHANGED <<registry, single, unseen, bounds>>

\* _release suppresses every exception: the heartbeat is over, the node stays.
ReleaseFails(d) ==
  /\ daemon[d].pc = "release" /\ Fault
  /\ claim' = [claim EXCEPT ![daemon[d].current].renewed = FALSE]
  /\ Step(d, [daemon[d] EXCEPT !.pc = "drop", !.current = Nobody])
  /\ UNCHANGED <<registry, single, unseen>>

Dropped(d) ==
  /\ daemon[d].pc = "drop" /\ daemon[d].held \subseteq daemon[d].desired /\ ~daemon[d].ending
  /\ Step(d, [daemon[d] EXCEPT !.pc = "adopt", !.todo = daemon[d].desired \ daemon[d].held])
  /\ UNCHANGED <<registry, claims, unseen, bounds>>

\* Mutant: the claim is looked at and not taken.
Unclaimed(d, p) == claim

\* The claim of an adopted project.
Claimed(d, p) == [claim EXCEPT ![p] = Held(d)]

\* _adopt: one try for the claim; a project another daemon follows is skipped.
Adopt(d) ==
  /\ daemon[d].pc = "adopt"
  /\ \E p \in daemon[d].todo :
       IF claim[p] = Free
       THEN /\ claim' = Claimed(d, p)
            /\ Step(d, [daemon[d] EXCEPT !.pc = "start", !.current = p])
       ELSE /\ claim' = claim
            /\ Step(d, [daemon[d] EXCEPT !.todo = @ \ {p}])
  /\ UNCHANGED <<registry, single, unseen, bounds>>

\* A root that now derives another project gives the claim back.
Refuse(d) ==
  /\ daemon[d].pc = "start" /\ daemon[d].current \in Renamed
  /\ claim' = [claim EXCEPT ![daemon[d].current] = Free]
  /\ Step(d, [daemon[d] EXCEPT !.pc = "adopt", !.todo = @ \ {daemon[d].current},
                               !.current = Nobody])
  /\ UNCHANGED <<registry, single, unseen, bounds>>

\* Mutant: the observer is started when the catch-up is done.
WatchedLate(d) == daemon[d].watching

\* What the FileWatcher observes when the catch-up begins.
WatchedFirst(d) == daemon[d].watching \cup {daemon[d].current}

Start(d) ==
  /\ daemon[d].pc = "start" /\ daemon[d].current \notin Renamed
  /\ Step(d, [daemon[d] EXCEPT !.pc = "reconcile", !.watching = WatchedFirst(d),
                               !.held = @ \cup {daemon[d].current}])
  /\ UNCHANGED <<registry, claims, unseen, bounds>>

\* The observer cannot be started: the exception leaves the pass, and the claim
\* with its heartbeat stays behind.
StartFails(d) ==
  /\ daemon[d].pc = "start" /\ daemon[d].current \notin Renamed /\ Fault
  /\ Step(d, [daemon[d] EXCEPT !.pc = "sleep", !.todo = {}, !.current = Nobody])
  /\ UNCHANGED <<registry, claims, unseen>>

\* _reconcile: an ordinary re-index.
Reconcile(d) ==
  /\ daemon[d].pc = "reconcile"
  /\ unseen' = unseen \ {daemon[d].current}
  /\ Step(d, [daemon[d] EXCEPT !.pc = "settle", !.caughtUp = @ \cup {daemon[d].current}])
  /\ UNCHANGED <<registry, claims, bounds>>

\* It is refused by the cost cap or fails, and is not tried again.
ReconcileFails(d) ==
  /\ daemon[d].pc = "reconcile" /\ Fault
  /\ Step(d, [daemon[d] EXCEPT !.pc = "settle"])
  /\ UNCHANGED <<registry, claims, unseen>>

\* The project's scope cannot be read: that exception ends the pass.
ScopeFails(d) ==
  /\ daemon[d].pc = "reconcile" /\ Fault
  /\ Step(d, [daemon[d] EXCEPT !.pc = "sleep", !.todo = {}, !.current = Nobody])
  /\ UNCHANGED <<registry, claims, unseen>>

Settle(d) ==
  /\ daemon[d].pc = "settle"
  /\ Step(d, [daemon[d] EXCEPT !.pc = "adopt", !.todo = @ \ {daemon[d].current},
                               !.watching = @ \cup {daemon[d].current}, !.current = Nobody])
  /\ UNCHANGED <<registry, claims, unseen, bounds>>

PassDone(d) ==
  /\ daemon[d].pc = "adopt" /\ daemon[d].todo = {}
  /\ Step(d, [daemon[d] EXCEPT !.pc = "sleep", !.desired = {}])
  /\ UNCHANGED <<registry, claims, unseen, bounds>>

\* The next pass, or the end: a stop waits for the pass to end, and shutdown drops
\* every project.
Wake(d) ==
  /\ daemon[d].pc = "sleep"
  /\ Step(d, [daemon[d] EXCEPT !.pc = IF daemon[d].stop THEN "drop" ELSE "pass",
                               !.ending = daemon[d].stop, !.desired = {}])
  /\ UNCHANGED <<registry, claims, unseen, bounds>>

RequestStop(d) ==
  /\ Running(d) /\ daemon[d].pc # "boot" /\ ~daemon[d].stop
  /\ ops < MaxOps /\ ops' = ops + 1
  /\ Step(d, [daemon[d] EXCEPT !.stop = TRUE])
  /\ UNCHANGED <<registry, claims, unseen, edits, faults>>

\* Mutant: a claim outlives its process.
Wedged(d) == claim

\* A process that is gone renews nothing.
Orphaned(d) == [p \in Projects |-> IF claim[p].by = d THEN [claim[p] EXCEPT !.renewed = FALSE]
                                                      ELSE claim[p]]

\* The daemon's claim goes last; what it leaked runs out.
Exit(d) ==
  /\ daemon[d].pc = "drop" /\ daemon[d].ending /\ daemon[d].held = {}
  /\ single' = [single EXCEPT ![Host[d]] = Free]
  /\ claim' = Orphaned(d)
  /\ Step(d, Off)
  /\ UNCHANGED <<registry, unseen, bounds>>

Kill(d) ==
  /\ Running(d) /\ Fault
  /\ single' = [single EXCEPT ![Host[d]].renewed = FALSE]
  /\ claim' = Orphaned(d)
  /\ Step(d, Off)
  /\ UNCHANGED <<registry, unseen>>

DaemonStep(d) ==
  \/ Preflight(d) \/ ReadRegistry(d) \/ StopWatching(d) \/ Release(d) \/ Dropped(d)
  \/ Adopt(d) \/ Refuse(d) \/ Start(d) \/ Reconcile(d) \/ Settle(d) \/ PassDone(d)
  \/ Wake(d) \/ Exit(d)

Next ==
  \/ \E p \in Projects : Register(p) \/ MoveRoot(p) \/ Edit(p) \/ ExpireClaim(p)
  \/ \E h \in Hosts : ExpireSingleton(h)
  \/ \E d \in Daemons :
       \/ Boot(d) \/ DaemonStep(d) \/ RequestStop(d) \/ Kill(d)
       \/ PreflightFails(d) \/ ReleaseFails(d) \/ StartFails(d)
       \/ ReconcileFails(d) \/ ScopeFails(d)

Spec == Init /\ [][Next]_vars

\* A daemon that runs goes on, and claims nobody renews run out.
FairSpec ==
  /\ Spec
  /\ \A d \in Daemons : WF_vars(DaemonStep(d))
  /\ \A p \in Projects : WF_vars(ExpireClaim(p))
  /\ \A h \in Hosts : WF_vars(ExpireSingleton(h))
-----------------------------------------------------------------------------
\* _watcher_notice over get_watch_state, for a reader on host h.
Notice(h, p) ==
  IF claim[p] # Free THEN "live"
  ELSE IF p \notin registered THEN "none"
  ELSE IF single[h] # Free THEN "registered but not yet followed"
  ELSE "registered but no daemon is running"
-----------------------------------------------------------------------------
(* Properties.                                                               *)

\* Two daemons never follow one project: on one host or two, through kills,
\* failing releases and claims that expire.
OneFollower ==
  \A p \in Projects : Cardinality({d \in Daemons : p \in daemon[d].watching}) <= 1

\* The freshness block's watcher line: `live' is said while somebody follows the
\* project, adopts it or lets go of it, until a dead daemon's claim expires, and
\* by a claim leaked when an observer could not be started; advice to start a
\* daemon is only given where none runs; and a followed project is said to be.
NoticeIsTrue ==
  \A p \in Projects : \A h \in Hosts :
    /\ Notice(h, p) = "live" /\ claim[p].renewed /\ ~Leaked(p) =>
         LET d == claim[p].by IN Running(d) /\ (p \in daemon[d].watching \/ p = daemon[d].current)
    /\ Leaked(p) => faults > 0
    /\ Notice(h, p) = "registered but no daemon is running" =>
         \A d \in Daemons : Host[d] = h => ~Running(d)
    /\ Followed(p) => Notice(h, p) = "live"

\* Adoption reconciles: a followed project whose catch-up went through has no
\* edit behind it that nobody heard of, whenever the edit was made.
AdoptedIsCaughtUp ==
  \A d \in Daemons : \A p \in Projects :
    p \in daemon[d].caughtUp /\ daemon[d].current # p => p \notin unseen

\* Both: what a followed project's index and its freshness line say is so.
FollowedIsCurrent == AdoptedIsCaughtUp /\ NoticeIsTrue

\* A registered project whose root is there is followed again and again, as long
\* as there is a daemon that is not about to stop, or its claim is leaked.
RegisteredIsFollowed ==
  \A p \in Projects \ Renamed :
    []<>(\/ Followed(p) \/ Leaked(p)
         \/ p \notin registered \/ p \notin onDisk
         \/ \A d \in Daemons : ~Running(d) \/ daemon[d].stop)
=============================================================================
