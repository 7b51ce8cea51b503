----------------------------- MODULE MCWatcher -----------------------------
(* Instances of Watcher for TLC.                                           *)
EXTENDS Watcher, TLC

CONSTANTS f, g, t, u, v

TwoFiles == {f, g}
ThreeTimers == {t, u, v}
=============================================================================
