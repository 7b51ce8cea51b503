---------------------------- MODULE WatcherProofs ----------------------------
(***************************************************************************)
(* watcher.py and its two callers, for any number of files, timer threads,  *)
(* edits, restarts and failed runs: no interleaving of the observer, the    *)
(* timers, the runs and stop() loses a path that the daemon follows.        *)
(***************************************************************************)
EXTENDS Watcher, TLAPS

-----------------------------------------------------------------------------
(* The invariant.                                                            *)

\* A thread that is not done belongs to a handler.
ThreadsAreOwned == \A t \in Timers : thread[t] # "free" => owner[t] \in Handler

\* A handler remembers a timer only while it holds paths: the early return of
\* _flush, which keeps the timer, finds none to keep.
TimersHavePaths == \A h \in Handler : timer[h] # NoTimer => changed[h] # {}

\* Handlers that were never started hold nothing.
FreshHandlers ==
  /\ observer \in 0..starts
  /\ \A h \in Handler : changed[h] # {} => h \in 1..starts

\* Between two runs nothing is left of the last.
RunIsWhole == ~run.on => run = NoRun

\* Whoever follows the tree has an observer; the daemon asks for one index at a
\* time, only while it catches up.
CallersWatch ==
  /\ life \in {"catching up", "watching"} => observer # 0
  /\ caller = "daemon" =>
       /\ life \in {"out", "catching up", "watching", "stopping"}
       /\ indexing => life = "catching up" /\ ~run.explicit
       /\ run.explicit => life = "catching up"

\* Where a file whose index is behind may be.
Kept(f) ==
  \/ f \in notes
  \/ f \in changed[observer] /\ WillFlush(observer)
  \/ f \in UNION queue
  \/ f \in run.seen
  \/ f \in dropped

\* While the daemon catches up every file is, once its index has begun.
CatchUpMissesNone ==
  caller = "daemon" /\ life \in {"catching up", "watching"} /\ ~indexing =>
    \A f \in stale : Kept(f)

WatcherInv ==
  /\ TypeOK
  /\ ThreadsAreOwned
  /\ TimersHavePaths
  /\ FreshHandlers
  /\ RunIsWhole
  /\ CallersWatch
  /\ CatchUpMissesNone
  /\ NothingStranded

\* An edit leaves a notice with the observer, if there is one; every follower has one.
LEMMA EditKeeps ==
  ASSUME WatcherInv, NEW f \in Files, Edit(f)
  PROVE  WatcherInv'
<1> USE WatcherAssumption DEF WatcherInv
<1>1. TypeOK'
  <2>1. run' \in Run
    BY DEF Edit, TypeOK, Run
  <2>2. edits' \in 0..MaxEdits
    <3>1. edits \in 0..MaxEdits /\ edits < MaxEdits /\ edits' = edits + 1
      BY DEF Edit, TypeOK
    <3>2. QED
      BY <3>1
  <2>3. QED
    BY <2>1, <2>2 DEF Edit, TypeOK, handlers
<1>2. ThreadsAreOwned'
  BY DEF Edit, handlers, ThreadsAreOwned
<1>3. TimersHavePaths'
  BY DEF Edit, handlers, TimersHavePaths
<1>4. FreshHandlers'
  BY DEF Edit, handlers, FreshHandlers
<1>5. RunIsWhole'
  <2>1. [NoRun EXCEPT !.seen = @ \ {f}] = NoRun
    BY DEF NoRun
  <2>2. run'.on = run.on
    BY DEF Edit
  <2>3. QED
    BY <2>1 DEF Edit, RunIsWhole
<1>6. CallersWatch'
  BY DEF Edit, Run, TypeOK, CallersWatch
<1>7. CatchUpMissesNone'
  BY DEF Edit, handlers, Run, TypeOK, CatchUpMissesNone, Kept, WillFlush, CallersWatch
<1>8. NothingStranded'
  BY DEF Edit, handlers, NothingStranded, WillFlush
<1>9. QED
  BY <1>1, <1>2, <1>3, <1>4, <1>5, <1>6, <1>7, <1>8

\* on_any_event: the path joins the current handler's, under a timer that will flush it.
LEMMA HandleKeeps ==
  ASSUME WatcherInv, NEW f \in Files, Handle(f)
  PROVE  WatcherInv'
<1> USE WatcherAssumption DEF WatcherInv
<1>p. PICK t \in Timers :
        /\ Cancelled(observer)[t] = "free"
        /\ timer' = [timer EXCEPT ![observer] = t]
        /\ thread' = [Cancelled(observer) EXCEPT ![t] = "armed"]
        /\ owner' = [owner EXCEPT ![t] = observer]
  BY DEF Handle
<1>o. observer \in Handler
  BY DEF Handle, TypeOK
<1>1. TypeOK'
  <2>1. thread' \in [Timers -> {"free", "armed", "fired"}]
    BY <1>p DEF Cancelled, TypeOK
  <2>2. timer' \in [Handler -> Timers \cup {NoTimer}] /\ owner' \in [Timers -> Handler \cup {0}]
    BY <1>p DEF TypeOK
  <2>3. ASSUME NEW h \in Handler, timer'[h] # NoTimer
        PROVE  owner'[timer'[h]] = h /\ thread'[timer'[h]] # "free"
    <3>1. CASE h = observer
      BY <3>1, <1>p DEF Cancelled, TypeOK
    <3>2. CASE h # observer
      <4>1. timer'[h] = timer[h] /\ timer[h] \in Timers /\ owner[timer[h]] = h /\ thread[timer[h]] # "free"
        BY <3>2, <2>3, <1>p DEF TypeOK
      <4>2. timer[h] # timer[observer]
        <5>1. timer[observer] # NoTimer => owner[timer[observer]] = observer
          BY <1>o DEF TypeOK
        <5>2. QED
          BY <5>1, <4>1, <3>2
      <4>3. Cancelled(observer)[timer[h]] # "free"
        BY <4>1, <4>2 DEF Cancelled
      <4>4. timer[h] # t /\ thread'[timer[h]] = Cancelled(observer)[timer[h]] /\ owner'[timer[h]] = owner[timer[h]]
        BY <4>3, <1>p DEF Cancelled
      <4>5. QED
        BY <4>1, <4>3, <4>4
    <3>3. QED
      BY <3>1, <3>2
  <2>4. changed' \in [Handler -> SUBSET Files]
    BY DEF Handle, TypeOK
  <2>5. QED
    BY <2>1, <2>2, <2>3 DEF Handle, TypeOK, tree, runs, counters
<1>2. ThreadsAreOwned'
  BY DEF Handle, counters, Handler, Cancelled, TypeOK, ThreadsAreOwned
<1>3. TimersHavePaths'
  BY DEF Handle, TypeOK, TimersHavePaths
<1>4. FreshHandlers'
  <2>1. ASSUME NEW h \in Handler, changed'[h] # {}
        PROVE  h \in 1..starts
    <3>1. CASE h = observer
      BY <3>1 DEF FreshHandlers, Handler
    <3>2. CASE h # observer
      BY <2>1 DEF FreshHandlers, Handle
    <3>3. QED
      BY <3>1, <3>2
  <2>2. QED
    BY DEF FreshHandlers, Handle, counters
<1>5. RunIsWhole'
  BY DEF Handle, runs, RunIsWhole
<1>6. CallersWatch'
  BY DEF Handle, runs, CallersWatch
<1>7. CatchUpMissesNone'
  <2>1. WillFlush(observer)' /\ changed'[observer] = changed[observer] \cup {f} /\ observer' = observer
    BY DEF Handle, WillFlush, Cancelled, TypeOK
  <2>2. ASSUME NEW g \in stale, Kept(g)
        PROVE  Kept(g)'
    BY <2>1, <2>2 DEF Kept, Handle, tree, runs
  <2>3. QED
    BY <2>2 DEF CatchUpMissesNone, Handle, tree, runs
<1>8. NothingStranded'
  BY DEF Handle, Cancelled, TypeOK, NothingStranded, WillFlush
<1>9. QED
  BY <1>1, <1>2, <1>3, <1>4, <1>5, <1>6, <1>7, <1>8

\* A timer that fires is still its handler's.
LEMMA ExpireKeeps ==
  ASSUME WatcherInv, NEW t \in Timers, Expire(t)
  PROVE  WatcherInv'
<1> USE WatcherAssumption DEF WatcherInv
<1>1. TypeOK'
  <2>1. thread' \in [Timers -> {"free", "armed", "fired"}]
    BY DEF Expire, TypeOK
  <2>2. \A h \in Handler :
          timer'[h] # NoTimer => owner'[timer'[h]] = h /\ thread'[timer'[h]] # "free"
    <3> SUFFICES ASSUME NEW h \in Handler, timer[h] # NoTimer
                 PROVE  owner[timer[h]] = h /\ thread'[timer[h]] # "free"
      BY DEF Expire
    <3>1. owner[timer[h]] = h /\ thread[timer[h]] # "free" /\ timer[h] \in Timers
      BY DEF TypeOK
    <3>2. QED
      BY <3>1 DEF Expire, TypeOK
  <2>3. QED
    BY <2>1, <2>2 DEF Expire, counters, runs, tree, TypeOK
<1>2. ThreadsAreOwned'
  BY DEF Expire, TypeOK, ThreadsAreOwned
<1>3. TimersHavePaths'
  BY DEF Expire, TimersHavePaths
<1>4. FreshHandlers'
  BY DEF Expire, counters, FreshHandlers
<1>5. RunIsWhole'
  BY DEF Expire, runs, RunIsWhole
<1>6. CallersWatch'
  BY DEF Expire, runs, CallersWatch
<1>7. CatchUpMissesNone'
  BY DEF Expire, runs, tree, TypeOK, CatchUpMissesNone, Kept, WillFlush
<1>8. NothingStranded'
  BY DEF Expire, NothingStranded, WillFlush
<1>9. QED
  BY <1>1, <1>2, <1>3, <1>4, <1>5, <1>6, <1>7, <1>8

\* _flush: the paths of the handler go to the queue whole, or wait for a later timer.
LEMMA FlushKeeps ==
  ASSUME WatcherInv, NEW t \in Timers, Flush(t)
  PROVE  WatcherInv'
<1> USE WatcherAssumption DEF WatcherInv
<1>o. owner[t] \in Handler
  BY DEF Flush, ThreadsAreOwned
<1>1. TypeOK'
  <2>1. thread' \in [Timers -> {"free", "armed", "fired"}]
    BY DEF Flush, TypeOK
  <2>2. changed' \in [Handler -> SUBSET Files]
    BY DEF Flush, Cleared, TypeOK
  <2>6. queue' \subseteq SUBSET Files
    <3>1. changed[owner[t]] \in SUBSET Files
      BY <1>o DEF TypeOK
    <3>3. Flushed(owner[t]) \subseteq SUBSET Files
      BY <3>1 DEF Flushed
    <3>2. QED
      BY <3>3 DEF Flush, TypeOK
  <2>3. timer' \in [Handler -> Timers \cup {NoTimer}]
    BY DEF Flush, TimerAfterFlush, TypeOK
  <2>4. ASSUME NEW h \in Handler, timer'[h] # NoTimer
        PROVE  owner'[timer'[h]] = h /\ thread'[timer'[h]] # "free"
    <3>1. h # owner[t]
      BY <2>4 DEF Flush, TimerAfterFlush, TimersHavePaths, TypeOK
    <3>2. timer'[h] = timer[h] /\ owner[timer[h]] = h /\ thread[timer[h]] # "free" /\ timer[h] \in Timers
      BY <3>1, <2>4 DEF Flush, TypeOK
    <3>3. QED
      BY <3>1, <3>2 DEF Flush
  <2>5. QED
    BY <2>2, <2>3, <2>4, <2>6 DEF Flush, TypeOK, tree, counters
<1>2. ThreadsAreOwned'
  BY DEF Flush, TypeOK, ThreadsAreOwned
<1>3. TimersHavePaths'
  BY DEF Flush, TimerAfterFlush, TypeOK, TimersHavePaths
<1>4. FreshHandlers'
  BY DEF Flush, counters, Cleared, TypeOK, FreshHandlers
<1>5. RunIsWhole'
  BY DEF Flush, RunIsWhole
<1>6. CallersWatch'
  BY DEF Flush, CallersWatch
<1>7. CatchUpMissesNone'
  <2>1. ASSUME NEW g \in stale, Kept(g)
        PROVE  Kept(g)'
    <3>1. CASE g \in changed[observer] /\ WillFlush(observer) /\ observer = owner[t]
      BY <3>1 DEF Kept, Flush, Flushed
    <3>2. CASE g \in changed[observer] /\ WillFlush(observer) /\ observer # owner[t]
      <4>1. WillFlush(observer)'
        BY <3>2 DEF Flush, WillFlush
      <4>2. changed'[observer] = changed[observer]
        <5>1. changed = [h \in Handler |-> changed[h]]
          BY DEF TypeOK
        <5>2. observer \in Handler \cup {0} /\ observer # owner[t]
          BY <3>2 DEF TypeOK
        <5>3. QED
          BY <5>2 DEF Flush
      <4>3. QED
        BY <4>1, <3>2 DEF Kept, Flush
    <3>3. CASE g \in notes \/ g \in UNION queue \/ g \in run.seen \/ g \in dropped
      BY <3>3 DEF Kept, Flush, tree
    <3>4. QED
      BY <3>1, <3>2, <3>3, <2>1 DEF Kept
  <2>2. QED
    BY <2>1 DEF CatchUpMissesNone, Flush, tree
<1>8. NothingStranded'
  BY DEF Flush, Cleared, TypeOK, NothingStranded, WillFlush
<1>9. QED
  BY <1>1, <1>2, <1>3, <1>4, <1>5, <1>6, <1>7, <1>8

\* A flushed batch leaves the queue for the run that takes it.
LEMMA BeginUpdateKeeps ==
  ASSUME WatcherInv, NEW paths \in SUBSET Files, BeginUpdate(paths)
  PROVE  WatcherInv'
<1> USE WatcherAssumption DEF WatcherInv
<1>1. TypeOK'
  BY DEF BeginUpdate, handlers, counters, tree, Run, TypeOK, TimersHavePaths, RunIsWhole
<1>2. ThreadsAreOwned'
  BY DEF BeginUpdate, handlers, ThreadsAreOwned
<1>3. TimersHavePaths'
  BY DEF BeginUpdate, handlers, TimersHavePaths
<1>4. FreshHandlers'
  BY DEF BeginUpdate, handlers, counters, FreshHandlers
<1>5. RunIsWhole'
  BY DEF BeginUpdate, RunIsWhole
<1>6. CallersWatch'
  BY DEF BeginUpdate, CallersWatch, RunIsWhole
<1>7. CatchUpMissesNone'
  <2>1. ASSUME NEW g \in stale, Kept(g)
        PROVE  Kept(g)'
    <3>1. CASE HasPendingChanges(paths)
      BY <3>1 DEF Kept, BeginUpdate
    <3>2. CASE ~HasPendingChanges(paths)
      <4>1. g \notin paths
        BY <3>2 DEF HasPendingChanges
      <4>2. g \notin run.seen
        BY DEF BeginUpdate, RunIsWhole, NoRun
      <4>3. QED
        BY <4>1, <4>2, <2>1 DEF Kept, WillFlush, BeginUpdate, tree, handlers
    <3>3. QED
      BY <3>1, <3>2
  <2>2. QED
    BY <2>1 DEF CatchUpMissesNone, BeginUpdate, tree
<1>8. NothingStranded'
  BY DEF BeginUpdate, handlers, NothingStranded, WillFlush
<1>9. QED
  BY <1>1, <1>2, <1>3, <1>4, <1>5, <1>6, <1>7, <1>8

\* An index sees every file as it is when it begins.
LEMMA BeginIndexKeeps ==
  ASSUME WatcherInv, BeginIndex
  PROVE  WatcherInv'
<1> USE WatcherAssumption DEF WatcherInv
<1>1. TypeOK'
  BY DEF BeginIndex, handlers, counters, tree, Run, TypeOK
<1>2. ThreadsAreOwned'
  BY DEF BeginIndex, handlers, ThreadsAreOwned
<1>3. TimersHavePaths'
  BY DEF BeginIndex, handlers, TimersHavePaths
<1>4. FreshHandlers'
  BY DEF BeginIndex, handlers, counters, FreshHandlers
<1>5. RunIsWhole'
  BY DEF BeginIndex, RunIsWhole
<1>6. CallersWatch'
  BY DEF BeginIndex, CallersWatch
<1>7. CatchUpMissesNone'
  BY DEF BeginIndex, tree, CatchUpMissesNone, Kept
<1>8. NothingStranded'
  BY DEF BeginIndex, handlers, NothingStranded, WillFlush
<1>9. QED
  BY <1>1, <1>2, <1>3, <1>4, <1>5, <1>6, <1>7, <1>8

\* A run that ends leaves behind only what was edited after it looked.
LEMMA EndRunKeeps ==
  ASSUME WatcherInv, EndRun
  PROVE  WatcherInv'
<1> USE WatcherAssumption DEF WatcherInv
<1>1. TypeOK'
  BY DEF EndRun, handlers, counters, Continue, Run, NoRun, TypeOK
<1>2. ThreadsAreOwned'
  BY DEF EndRun, handlers, ThreadsAreOwned
<1>3. TimersHavePaths'
  BY DEF EndRun, handlers, TimersHavePaths
<1>4. FreshHandlers'
  BY DEF EndRun, handlers, counters, FreshHandlers
<1>5. RunIsWhole'
  BY DEF EndRun, RunIsWhole
<1>6. CallersWatch'
  <2>1. run' = NoRun /\ ~NoRun.explicit
    BY DEF EndRun, NoRun
  <2>2. (run.explicit /\ caller = "daemon" => life' = "watching") /\ indexing' = indexing /\ caller' = caller /\ observer' = observer
    BY DEF EndRun, Continue, CallersWatch
  <2>3. ~run.explicit => life' = life
    BY DEF EndRun, Continue
  <2>4. life' \in {"catching up", "watching"} => observer' # 0
    BY DEF EndRun, Continue, CallersWatch
  <2>5. caller = "daemon" /\ indexing => life' = "catching up"
    BY <2>3 DEF CallersWatch
  <2>8. caller = "daemon" => life' \in {"out", "catching up", "watching", "stopping"}
    BY <2>2, <2>3 DEF CallersWatch
  <2>6. QED
    BY <2>1, <2>2, <2>4, <2>5, <2>8 DEF CallersWatch
<1>7. CatchUpMissesNone'
  BY DEF EndRun, handlers, Continue, CatchUpMissesNone, Kept, WillFlush
<1>8. NothingStranded'
  BY DEF EndRun, handlers, Continue, NothingStranded, WillFlush
<1>9. QED
  BY <1>1, <1>2, <1>3, <1>4, <1>5, <1>6, <1>7, <1>8

\* A run that fails drops its batch, and that is what dropped records.
LEMMA RunFailsKeeps ==
  ASSUME WatcherInv, RunFails
  PROVE  WatcherInv'
<1> USE WatcherAssumption DEF WatcherInv
<1>1. TypeOK'
  <2>1. life' \in {"out", "catching up", "indexing", "starting", "watching", "stopping"}
    BY DEF RunFails, Continue, TypeOK
  <2>2. run' \in Run /\ dropped' \subseteq Files
    BY DEF RunFails, NoRun, Run, TypeOK
  <2>3. failures' \in 0..MaxFailures
    <3>1. failures \in 0..MaxFailures /\ failures < MaxFailures /\ failures' = failures + 1
      BY DEF RunFails, TypeOK
    <3>2. QED
      BY <3>1
  <2>4. QED
    BY <2>1, <2>2, <2>3 DEF RunFails, TypeOK, handlers
<1>2. ThreadsAreOwned'
  BY DEF RunFails, handlers, ThreadsAreOwned
<1>3. TimersHavePaths'
  BY DEF RunFails, handlers, TimersHavePaths
<1>4. FreshHandlers'
  BY DEF RunFails, handlers, FreshHandlers
<1>5. RunIsWhole'
  BY DEF RunFails, RunIsWhole
<1>6. CallersWatch'
  <2>1. run' = NoRun /\ ~NoRun.explicit
    BY DEF RunFails, NoRun
  <2>0. caller = "daemon" => Continue
    BY DEF RunFails, CallersWatch
  <2>2. (run.explicit /\ caller = "daemon" => life' = "watching") /\ indexing' = indexing /\ caller' = caller /\ observer' = observer
    BY DEF RunFails, Continue, CallersWatch
  <2>3. ~run.explicit /\ caller = "daemon" => life' = life
    BY <2>0 DEF Continue
  <2>7. life' = "watching" => observer # 0
    BY DEF RunFails, Continue, CallersWatch
  <2>4. life' \in {"catching up", "watching"} => observer' # 0
    BY DEF RunFails, Continue, CallersWatch
  <2>5. caller = "daemon" /\ indexing => life' = "catching up"
    BY <2>3 DEF CallersWatch
  <2>8. caller = "daemon" => life' \in {"out", "catching up", "watching", "stopping"}
    BY <2>2, <2>3 DEF CallersWatch
  <2>6. QED
    BY <2>1, <2>2, <2>4, <2>5, <2>8 DEF CallersWatch
<1>7. CatchUpMissesNone'
  BY DEF RunFails, handlers, Continue, CatchUpMissesNone, Kept, WillFlush, CallersWatch
<1>8. NothingStranded'
  BY DEF RunFails, handlers, Continue, NothingStranded, WillFlush
<1>9. QED
  BY <1>1, <1>2, <1>3, <1>4, <1>5, <1>6, <1>7, <1>8

\* The daemon watches first and asks for the catch-up index second.
LEMMA AdoptKeeps ==
  ASSUME WatcherInv, Adopt
  PROVE  WatcherInv'
<1> USE WatcherAssumption DEF WatcherInv
<1>n. starts \in 0..MaxStarts /\ starts < MaxStarts /\ starts' = starts + 1 /\ observer' = starts + 1
  BY DEF Adopt, StartObserver, TypeOK
<1>m. starts' \in 0..MaxStarts /\ observer' \in 1..MaxStarts /\ observer' \notin 1..starts /\ observer' \in 0..starts' /\ 1..starts \subseteq 1..starts'
  BY <1>n
<1>o. observer' \in Handler /\ changed' = changed /\ changed'[observer'] = {}
  BY <1>m DEF Adopt, FreshHandlers, Handler, handlers
<1>1. TypeOK'
  BY <1>m, <1>o DEF Adopt, StartObserver, TypeOK, handlers, tree
<1>2. ThreadsAreOwned'
  BY DEF Adopt, handlers, ThreadsAreOwned
<1>3. TimersHavePaths'
  BY DEF Adopt, handlers, TimersHavePaths
<1>4. FreshHandlers'
  BY <1>m, <1>o DEF FreshHandlers
<1>5. RunIsWhole'
  BY DEF Adopt, RunIsWhole
<1>6. CallersWatch'
  <2>4. observer' # 0
    BY <1>m
  <2>1. life' = "catching up" /\ run' = run /\ life = "out"
    BY DEF Adopt
  <2>2. caller = "daemon" => ~run.explicit
    BY <2>1 DEF CallersWatch
  <2>3. QED
    BY <2>4 DEF Adopt, CallersWatch
<1>7. CatchUpMissesNone'
  BY DEF Adopt, CatchUpMissesNone
<1>8. NothingStranded'
  BY <1>o DEF NothingStranded
<1>9. QED
  BY <1>1, <1>2, <1>3, <1>4, <1>5, <1>6, <1>7, <1>8

\* The tool asks for its index; it follows nothing until that has ended.
LEMMA CallIndexKeeps ==
  ASSUME WatcherInv, CallIndex
  PROVE  WatcherInv'
<1> USE WatcherAssumption DEF WatcherInv
<1>1. TypeOK'
  BY DEF CallIndex, handlers, counters, tree, TypeOK
<1>2. ThreadsAreOwned'
  BY DEF CallIndex, handlers, ThreadsAreOwned
<1>3. TimersHavePaths'
  BY DEF CallIndex, handlers, TimersHavePaths
<1>4. FreshHandlers'
  BY DEF CallIndex, handlers, counters, FreshHandlers
<1>5. RunIsWhole'
  BY DEF CallIndex, RunIsWhole
<1>6. CallersWatch'
  BY DEF CallIndex, CallersWatch
<1>7. CatchUpMissesNone'
  BY DEF CallIndex, CatchUpMissesNone
<1>8. NothingStranded'
  BY DEF CallIndex, handlers, NothingStranded, WillFlush
<1>9. QED
  BY <1>1, <1>2, <1>3, <1>4, <1>5, <1>6, <1>7, <1>8

\* start(): a fresh handler, whose predecessors hold nothing.
LEMMA StartWatchingKeeps ==
  ASSUME WatcherInv, StartWatching
  PROVE  WatcherInv'
<1> USE WatcherAssumption DEF WatcherInv
<1>n. starts \in 0..MaxStarts /\ starts < MaxStarts /\ starts' = starts + 1 /\ observer' = starts + 1
  BY DEF StartWatching, StartObserver, TypeOK
<1>m. starts' \in 0..MaxStarts /\ observer' \in 1..MaxStarts /\ observer' \notin 1..starts /\ observer' \in 0..starts' /\ 1..starts \subseteq 1..starts'
  BY <1>n
<1>o. observer' \in Handler /\ changed' = changed /\ changed'[observer'] = {}
  BY <1>m DEF StartWatching, FreshHandlers, Handler, handlers
<1>1. TypeOK'
  BY <1>o DEF StartWatching, StartObserver, TypeOK, handlers, tree, runs
<1>2. ThreadsAreOwned'
  BY DEF StartWatching, handlers, ThreadsAreOwned
<1>3. TimersHavePaths'
  BY DEF StartWatching, handlers, TimersHavePaths
<1>4. FreshHandlers'
  BY <1>m, <1>o DEF FreshHandlers
<1>5. RunIsWhole'
  BY DEF StartWatching, runs, RunIsWhole
<1>6. CallersWatch'
  BY DEF StartWatching, StartObserver, TypeOK, CallersWatch
<1>7. CatchUpMissesNone'
  BY DEF StartWatching, CatchUpMissesNone, CallersWatch
<1>8. NothingStranded'
  BY <1>o DEF NothingStranded
<1>9. QED
  BY <1>1, <1>2, <1>3, <1>4, <1>5, <1>6, <1>7, <1>8

\* stop() cancels a timer, and from then on its caller no longer follows.
LEMMA StopKeeps ==
  ASSUME WatcherInv, Stop
  PROVE  WatcherInv'
<1> USE WatcherAssumption DEF WatcherInv
<1>1. TypeOK'
  <2>1. thread' \in [Timers -> {"free", "armed", "fired"}]
    BY DEF Stop, CancelTimer, Cancelled, TypeOK
  <2>2. timer' \in [Handler -> Timers \cup {NoTimer}]
    BY DEF Stop, CancelTimer, TypeOK
  <2>3. ASSUME NEW h \in Handler, timer'[h] # NoTimer
        PROVE  owner'[timer'[h]] = h /\ thread'[timer'[h]] # "free"
    <3>1. observer \in Handler => h # observer
      BY <2>3 DEF Stop, CancelTimer, TypeOK
    <3>2. h # observer
      BY <3>1
    <3>3. timer'[h] = timer[h] /\ owner' = owner /\ timer[h] \in Timers /\ owner[timer[h]] = h /\ thread[timer[h]] # "free"
      BY <2>3 DEF Stop, CancelTimer, TypeOK
    <3>4. timer[h] # timer[observer]
      <4>1. timer[observer] # NoTimer => owner[timer[observer]] = observer
        BY DEF Stop, CallersWatch, TypeOK
      <4>2. QED
        BY <4>1, <3>2, <3>3
    <3>5. QED
      BY <3>3, <3>4 DEF Stop, CancelTimer, Cancelled
  <2>4. QED
    BY <2>1, <2>3 DEF Stop, CancelTimer, TypeOK, tree, runs, counters
<1>2. ThreadsAreOwned'
  BY DEF Stop, CancelTimer, Cancelled, ThreadsAreOwned
<1>3. TimersHavePaths'
  BY DEF Stop, CancelTimer, TimersHavePaths
<1>4. FreshHandlers'
  BY DEF Stop, counters, CancelTimer, FreshHandlers
<1>5. RunIsWhole'
  BY DEF Stop, runs, RunIsWhole
<1>6. CallersWatch'
  BY DEF Stop, runs, CallersWatch
<1>7. CatchUpMissesNone'
  BY DEF Stop, CatchUpMissesNone
<1>8. NothingStranded'
  BY DEF Stop, NothingStranded
<1>9. QED
  BY <1>1, <1>2, <1>3, <1>4, <1>5, <1>6, <1>7, <1>8

\* The tool's start() stops the watcher an earlier call left.
LEMMA RestartKeeps ==
  ASSUME WatcherInv, Restart
  PROVE  WatcherInv'
<1> USE WatcherAssumption DEF WatcherInv
<1>1. TypeOK'
  BY DEF Restart, counters, runs, tree, CancelTimer, Cancelled, TypeOK
<1>2. ThreadsAreOwned'
  BY DEF Restart, CancelTimer, Cancelled, ThreadsAreOwned
<1>3. TimersHavePaths'
  BY DEF Restart, CancelTimer, TimersHavePaths
<1>4. FreshHandlers'
  BY DEF Restart, counters, CancelTimer, TypeOK, FreshHandlers
<1>5. RunIsWhole'
  BY DEF Restart, runs, RunIsWhole
<1>6. CallersWatch'
  BY DEF Restart, CallersWatch
<1>7. CatchUpMissesNone'
  BY DEF Restart, CatchUpMissesNone
<1>8. NothingStranded'
  BY DEF Restart, NothingStranded
<1>9. QED
  BY <1>1, <1>2, <1>3, <1>4, <1>5, <1>6, <1>7, <1>8

\* The observer goes once its caller has let go of the tree.
LEMMA StopObserverKeeps ==
  ASSUME WatcherInv, StopObserver
  PROVE  WatcherInv'
<1> USE WatcherAssumption DEF WatcherInv
<1>1. TypeOK'
  BY DEF StopObserver, handlers, counters, runs, tree, TypeOK
<1>2. ThreadsAreOwned'
  BY DEF StopObserver, handlers, ThreadsAreOwned
<1>3. TimersHavePaths'
  BY DEF StopObserver, handlers, TimersHavePaths
<1>4. FreshHandlers'
  BY DEF StopObserver, handlers, counters, TypeOK, FreshHandlers
<1>5. RunIsWhole'
  BY DEF StopObserver, runs, RunIsWhole
<1>6. CallersWatch'
  BY DEF StopObserver, runs, CallersWatch
<1>7. CatchUpMissesNone'
  BY DEF StopObserver, CatchUpMissesNone
<1>8. NothingStranded'
  BY DEF StopObserver, NothingStranded
<1>9. QED
  BY <1>1, <1>2, <1>3, <1>4, <1>5, <1>6, <1>7, <1>8

\* A crash takes everything, and nobody follows after it.
LEMMA CrashKeeps ==
  ASSUME WatcherInv, Crash
  PROVE  WatcherInv'
<1> USE WatcherAssumption DEF WatcherInv
<1>1. TypeOK'
  BY DEF Crash, counters, tree, Run, NoRun, TypeOK
<1>2. ThreadsAreOwned'
  BY DEF Crash, ThreadsAreOwned
<1>3. TimersHavePaths'
  BY DEF Crash, TimersHavePaths
<1>4. FreshHandlers'
  <2>1. starts' = starts /\ observer' = 0
    BY DEF Crash, counters
  <2>5. starts \in 0..MaxStarts
    BY DEF TypeOK
  <2>4. 0 \in 0..starts
    BY <2>5
  <2>2. \A h \in Handler : changed'[h] = {}
    BY DEF Crash
  <2>3. QED
    BY <2>1, <2>2, <2>4 DEF FreshHandlers
<1>5. RunIsWhole'
  BY DEF Crash, RunIsWhole
<1>6. CallersWatch'
  BY DEF Crash, NoRun, CallersWatch
<1>7. CatchUpMissesNone'
  BY DEF Crash, CatchUpMissesNone
<1>8. NothingStranded'
  BY DEF Crash, NothingStranded
<1>9. QED
  BY <1>1, <1>2, <1>3, <1>4, <1>5, <1>6, <1>7, <1>8

\* Nothing is indexed, watched or queued in the beginning.
LEMMA InitInv == Init => WatcherInv
<1> SUFFICES ASSUME Init PROVE WatcherInv
  OBVIOUS
<1> USE WatcherAssumption DEF Init, WatcherInv
<1>1. TypeOK
  <2>1. run \in Run
    BY DEF Run, NoRun
  <2>2. starts \in 0..MaxStarts /\ edits \in 0..MaxEdits /\ failures \in 0..MaxFailures
    OBVIOUS
  <2>3. QED
    BY <2>1, <2>2 DEF TypeOK
<1>2. ThreadsAreOwned /\ TimersHavePaths /\ FreshHandlers
  BY DEF ThreadsAreOwned, TimersHavePaths, FreshHandlers
<1>3. RunIsWhole /\ CallersWatch /\ CatchUpMissesNone /\ NothingStranded
  BY DEF RunIsWhole, CallersWatch, CatchUpMissesNone, NothingStranded, NoRun
<1>4. QED
  BY <1>1, <1>2, <1>3

\* Every step of any thread keeps the invariant.
LEMMA StepKeeps == WatcherInv /\ [Next]_vars => WatcherInv'
<1> SUFFICES ASSUME WatcherInv, [Next]_vars PROVE WatcherInv'
  OBVIOUS
<1>1. CASE UNCHANGED vars
  BY <1>1 DEF vars, tree, handlers, runs, counters, WatcherInv, TypeOK, ThreadsAreOwned,
     TimersHavePaths, FreshHandlers, RunIsWhole, CallersWatch, CatchUpMissesNone, Kept,
     NothingStranded, WillFlush
<1>2. CASE Next
  BY <1>2, EditKeeps, HandleKeeps, ExpireKeeps, FlushKeeps, BeginUpdateKeeps,
     BeginIndexKeeps, EndRunKeeps, RunFailsKeeps, AdoptKeeps, CallIndexKeeps,
     StartWatchingKeeps, StopKeeps, RestartKeeps, StopObserverKeeps, CrashKeeps DEF Next,
     Threads
<1>3. QED
  BY <1>1, <1>2

\* For any number of files, threads, edits and restarts: while the daemon
\* follows a project, every file whose index is behind is on its way to a run
\* (a notice, a handler with a live timer, the queue, the run itself) or in a
\* batch whose run failed; and no handler is left with paths and no timer.
THEOREM WatcherLosesNothing == Spec => []NothingIsLost
<1>1. WatcherInv => NothingIsLost
  BY DEF WatcherInv, NothingIsLost, NoEditLost, CatchUpMissesNone, CallersWatch, Kept
<1>2. QED
  BY InitInv, StepKeeps, <1>1, PTL DEF Spec
=============================================================================
