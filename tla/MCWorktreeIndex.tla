--------------------------- MODULE MCWorktreeIndex --------------------------
(* Instances of WorktreeIndex for TLC.                                     *)
EXTENDS WorktreeIndex

CONSTANTS f, g

TwoFiles == {f, g}
OneFile == {f}
=============================================================================
