------------------------------ MODULE Watcher ------------------------------
(***************************************************************************)
(* How one tree is followed: the debouncing handler and its timers           *)
(* (watcher.py), the updates they queue on the project's lock               *)
(* (ProjectManager), and the two callers that start and stop a watcher: the *)
(* watch daemon, which watches and then reconciles (watch_daemon.py), and    *)
(* the MCP tool, which indexes and then watches (tools/indexing.py).        *)
(*                                                                         *)
(* Three kinds of thread meet here: watchdog's observer delivers events,     *)
(* each debounce window is a timer thread of its own, and start, stop and    *)
(* the updates run on the event loop.  The handler's lock makes _handle,    *)
(* _flush and the cancellation in stop() atomic.                            *)
(*                                                                         *)
(* What a run does to the index (module IndexRun) is reduced to the files it *)
(* brings up to date: those that were stale when it scanned, and that did    *)
(* not change again before it ended.                                        *)
(***************************************************************************)
EXTENDS Integers, FiniteSets

CONSTANTS
  Files,         \* the files both the watcher and the scan cover
  Timers,        \* identities of the timer threads alive at one time
  NoTimer,       \* self._timer = None
  Callers,       \* who may follow the tree: subset of {"daemon", "tool"}
  MaxEdits, MaxStarts, MaxFailures   \* bounds

ASSUME WatcherAssumption ==
  /\ NoTimer \notin Timers
  /\ Callers \subseteq {"daemon", "tool"}
  /\ MaxEdits \in Nat /\ MaxStarts \in Nat /\ MaxFailures \in Nat

VARIABLES
  stale,      \* files whose index is not that of the file on disk
  dropped,    \* those a failed run would have brought up to date (history)
  notes,      \* events the observer has not delivered yet
  changed,    \* _changed_files of each handler
  timer,      \* _timer of each handler
  thread,     \* each timer thread: free, armed (cancellable) or fired
  owner,      \* the handler each timer thread flushes
  queue,      \* updates that wait for the project's lock
  indexing,   \* an index_directory call that waits for it
  run,        \* the run that holds it
  observer,   \* the handler whose observer thread runs, 0 if none does
  caller,     \* who follows the tree in this behaviour
  life,       \* where it is
  starts, edits, failures   \* counters

counters == <<starts, edits, failures>>
handlers == <<changed, timer, thread, owner>>
runs == <<queue, indexing, run>>
tree == <<stale, dropped>>
vars == <<tree, notes, handlers, runs, observer, caller, life, counters>>

Handler == 1..MaxStarts

\* A run in progress: is it an explicit index, and which files will be up to
\* date when it ends?
Run == [on : BOOLEAN, explicit : BOOLEAN, seen : SUBSET Files]
NoRun == [on |-> FALSE, explicit |-> FALSE, seen |-> {}]

\* Types; and a handler's timer is one of its own threads, not yet done.
TypeOK ==
  /\ stale \subseteq Files /\ dropped \subseteq Files /\ notes \subseteq Files
  /\ changed \in [Handler -> SUBSET Files]
  /\ timer \in [Handler -> Timers \cup {NoTimer}]
  /\ thread \in [Timers -> {"free", "armed", "fired"}]
  /\ owner \in [Timers -> Handler \cup {0}]
  /\ \A h \in Handler :
       timer[h] # NoTimer => owner[timer[h]] = h /\ thread[timer[h]] # "free"
  /\ queue \subseteq SUBSET Files /\ indexing \in BOOLEAN /\ run \in Run
  /\ observer \in Handler \cup {0}
  /\ caller \in Callers
  /\ life \in {"out", "catching up", "indexing", "starting", "watching", "stopping"}
  /\ starts \in 0..MaxStarts /\ edits \in 0..MaxEdits /\ failures \in 0..MaxFailures

Init ==
  /\ stale = Files /\ dropped = {} /\ notes = {}
  /\ changed = [h \in Handler |-> {}]
  /\ timer = [h \in Handler |-> NoTimer]
  /\ thread = [t \in Timers |-> "free"] /\ owner = [t \in Timers |-> 0]
  /\ queue = {} /\ indexing = FALSE /\ run = NoRun
  /\ observer = 0 /\ caller \in Callers /\ life = "out"
  /\ starts = 0 /\ edits = 0 /\ failures = 0

-----------------------------------------------------------------------------
(* The tree and the observer thread.                                       *)

\* A file is saved; a running observer will hear of it.
Edit(f) ==
  /\ edits < MaxEdits
  /\ edits' = edits + 1
  /\ stale' = stale \cup {f} /\ dropped' = dropped \ {f}
  /\ notes' = IF observer = 0 THEN notes ELSE notes \cup {f}
  /\ run' = [run EXCEPT !.seen = @ \ {f}]
  /\ UNCHANGED <<caller, handlers, queue, indexing, observer, life, starts, failures>>

\* The timer threads still running after h has cancelled its own: only one that
\* has not fired can be.
Cancelled(h) ==
  [t \in Timers |-> IF t = timer[h] /\ thread[t] = "armed" THEN "free" ELSE thread[t]]

\* _handle: the path is noted, and _reset_timer starts a fresh window.
Handle(f) ==
  /\ observer # 0 /\ f \in notes
  /\ notes' = notes \ {f}
  /\ changed' = [changed EXCEPT ![observer] = @ \cup {f}]
  /\ \E t \in Timers :
       /\ Cancelled(observer)[t] = "free"
       /\ t = CHOOSE u \in Timers : Cancelled(observer)[u] = "free"
       /\ timer' = [timer EXCEPT ![observer] = t]
       /\ thread' = [Cancelled(observer) EXCEPT ![t] = "armed"]
       /\ owner' = [owner EXCEPT ![t] = observer]
  /\ UNCHANGED <<caller, tree, runs, observer, life, counters>>

-----------------------------------------------------------------------------
(* The timer threads.                                                      *)

\* The debounce window ends; from here on cancel() comes too late.
Expire(t) ==
  /\ thread[t] = "armed"
  /\ thread' = [thread EXCEPT ![t] = "fired"]
  /\ UNCHANGED <<caller, tree, notes, changed, timer, owner, runs, observer, life, counters>>

\* Mutant: an update already waits, so this one is left out.
Coalesced(h) == IF changed[h] = {} \/ queue # {} THEN {} ELSE {changed[h]}

\* The paths a flush hands to update_project.
Flushed(h) == IF changed[h] = {} THEN {} ELSE {changed[h]}

\* _changed_files after a flush.
Cleared(h) == {}

\* _timer after a flush, which returns early when it finds no paths.
TimerAfterFlush(h) == IF changed[h] = {} THEN timer[h] ELSE NoTimer

\* _flush, under the lock: the paths collected so far become one update, and
\* whatever timer the handler had is forgotten.
Flush(t) ==
  /\ thread[t] = "fired"
  /\ thread' = [thread EXCEPT ![t] = "free"]
  /\ queue' = queue \cup Flushed(owner[t])
  /\ changed' = [changed EXCEPT ![owner[t]] = Cleared(owner[t])]
  /\ timer' = [timer EXCEPT ![owner[t]] = TimerAfterFlush(owner[t])]
  /\ UNCHANGED <<caller, tree, notes, owner, indexing, run, observer, life, counters>>

-----------------------------------------------------------------------------
(* The runs, one at a time under the project's lock.                       *)

\* Mutant: one path that is up to date already makes the flush a no-op.
AllPending(paths) == paths \subseteq stale

\* has_pending_changes, and the diff update() takes after it.
HasPendingChanges(paths) == paths \cap stale # {}

\* update_project: without a pending change among its paths it returns; with
\* one it re-builds whatever is stale.
BeginUpdate(paths) ==
  /\ paths \in queue /\ ~run.on
  /\ queue' = queue \ {paths}
  /\ run' = IF ~HasPendingChanges(paths) THEN NoRun
            ELSE [on |-> TRUE, explicit |-> FALSE, seen |-> stale]
  /\ UNCHANGED <<caller, tree, notes, handlers, indexing, observer, life, counters>>

\* index_directory gets the lock.
BeginIndex ==
  /\ indexing /\ ~run.on
  /\ indexing' = FALSE
  /\ run' = [on |-> TRUE, explicit |-> TRUE, seen |-> stale]
  /\ UNCHANGED <<caller, tree, notes, handlers, queue, observer, life, counters>>

\* The caller of an explicit index goes on.
Continue ==
  life' = IF run.explicit /\ life = "catching up" THEN "watching"
          ELSE IF run.explicit /\ life = "indexing" THEN "starting"
          ELSE life

EndRun ==
  /\ run.on
  /\ stale' = stale \ run.seen /\ dropped' = dropped \ run.seen
  /\ run' = NoRun
  /\ Continue
  /\ UNCHANGED <<caller, notes, handlers, queue, indexing, observer, counters>>

\* It raises: the cost cap, a dead dependency.  _log_outcome and _reconcile log
\* it; the paths are not put back.  The tool answers with the error and starts
\* no watcher.
RunFails ==
  /\ run.on /\ failures < MaxFailures
  /\ failures' = failures + 1
  /\ stale' = stale /\ dropped' = dropped \cup run.seen
  /\ run' = NoRun
  /\ IF life = "indexing" /\ run.explicit
       THEN life' = IF observer = 0 THEN "out" ELSE "watching"
       ELSE Continue
  /\ UNCHANGED <<caller, notes, handlers, queue, indexing, observer, starts, edits>>

-----------------------------------------------------------------------------
(* Starting and stopping.                                                  *)

\* FileWatcher.start: a new handler and its observer.
StartObserver ==
  /\ starts < MaxStarts
  /\ starts' = starts + 1
  /\ observer' = starts + 1
  /\ notes' = {}

\* WatchDaemon._adopt: watch first, reconcile second.
Adopt ==
  /\ caller = "daemon" /\ life = "out"
  /\ StartObserver
  /\ indexing' = TRUE
  /\ life' = "catching up"
  /\ UNCHANGED <<caller, tree, handlers, queue, run, edits, failures>>

\* The tool index_directory: the index comes first, with whatever watcher an
\* earlier call left.
CallIndex ==
  /\ caller = "tool" /\ life \in {"out", "watching"}
  /\ starts < MaxStarts
  /\ indexing' = TRUE
  /\ life' = "indexing"
  /\ UNCHANGED <<caller, tree, notes, handlers, queue, run, observer, counters>>

\* _start_watching.
StartWatching ==
  /\ life = "starting" /\ observer = 0
  /\ StartObserver
  /\ life' = "watching"
  /\ UNCHANGED <<caller, tree, handlers, runs, edits, failures>>

\* stop(), called on shutdown, on dropping a project, and by start() when a
\* watcher is already there: first the pending timer is cancelled ...
CancelTimer ==
  /\ thread' = Cancelled(observer)
  /\ timer' = [timer EXCEPT ![observer] = NoTimer]
  /\ UNCHANGED <<changed, owner>>

Stop ==
  /\ life = "watching"
  /\ CancelTimer
  /\ life' = "stopping"
  /\ UNCHANGED <<caller, tree, notes, runs, observer, counters>>

Restart ==
  /\ life = "starting" /\ observer # 0
  /\ CancelTimer
  /\ observer' = 0 /\ notes' = {}
  /\ UNCHANGED <<caller, tree, runs, life, counters>>

\* ... and then the observer is stopped, with the events it holds.
StopObserver ==
  /\ life = "stopping"
  /\ observer' = 0 /\ notes' = {}
  /\ life' = "out"
  /\ UNCHANGED <<caller, tree, handlers, runs, counters>>

\* The process is killed, and nothing of it remains.
Crash ==
  /\ life # "out"
  /\ notes' = {}
  /\ changed' = [h \in Handler |-> {}] /\ timer' = [h \in Handler |-> NoTimer]
  /\ thread' = [t \in Timers |-> "free"] /\ owner' = [t \in Timers |-> 0]
  /\ queue' = {} /\ indexing' = FALSE /\ run' = NoRun
  /\ observer' = 0 /\ life' = "out"
  /\ UNCHANGED <<caller, tree, counters>>

-----------------------------------------------------------------------------
Threads ==
  \/ \E f \in Files : Handle(f)
  \/ \E t \in Timers : Expire(t) \/ Flush(t)
  \/ \E paths \in SUBSET Files : BeginUpdate(paths)
  \/ BeginIndex \/ EndRun
  \/ StartWatching \/ Restart \/ StopObserver

Next ==
  \/ \E f \in Files : Edit(f)
  \/ Threads
  \/ RunFails
  \/ Adopt \/ CallIndex \/ Stop \/ Crash

Spec == Init /\ [][Next]_vars

\* Threads that can run do, and the lock is handed on.
FairSpec ==
  /\ Spec
  /\ \A f \in Files : WF_vars(Handle(f))
  /\ \A t \in Timers : WF_vars(Expire(t)) /\ WF_vars(Flush(t))
  /\ \A paths \in SUBSET Files : SF_vars(BeginUpdate(paths))
  /\ SF_vars(BeginIndex) /\ WF_vars(EndRun)
  /\ WF_vars(StartWatching) /\ WF_vars(Restart) /\ WF_vars(StopObserver)

-----------------------------------------------------------------------------
(* Properties.                                                             *)

\* Some thread will flush h.
WillFlush(h) == \E t \in Timers : owner[t] = h /\ thread[t] # "free"

\* While the daemon follows a tree no edit falls into a gap: a file whose index
\* is behind is with the observer, in a handler some timer will flush, in an
\* update that waits for the lock, in the run that holds it, or was lost with a
\* run that failed.
NoEditLost ==
  caller = "daemon" /\ life = "watching" =>
    \A f \in stale : \/ f \in notes
                     \/ f \in changed[observer] /\ WillFlush(observer)
                     \/ f \in UNION queue
                     \/ f \in run.seen
                     \/ f \in dropped

\* Paths never wait in a handler that no timer will flush, however often a
\* window is reset under a timer that has already fired: only stop() strands
\* them.
NothingStranded ==
  observer # 0 /\ life # "stopping" /\ changed[observer] # {} => WillFlush(observer)

\* Whatever the threads do to each other loses no path, nor a timer: all of the
\* above.
NothingIsLost == TypeOK /\ NoEditLost /\ NothingStranded

\* So a tree the daemon goes on following is, in the end, indexed as it is, but
\* for what went down with a run that failed.  It is false of the MCP tool, which
\* indexes first and watches second (README.md, Known deviations).
DaemonCatchesUp ==
  caller = "daemon" /\ <>[](life = "watching") => <>[](stale \subseteq dropped)
=============================================================================
