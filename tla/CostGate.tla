------------------------------ MODULE CostGate ------------------------------
(***************************************************************************)
(* What a run may spend and what it spends: the gates of                   *)
(* ProjectManager (_gate_update_cost, _gate_reindex_cost, _summary_gate,   *)
(* the first index) over the prices of cost.py.                            *)
(*                                                                         *)
(* A run is priced twice.  Before the parse, by the size of the files it   *)
(* expects to touch; after the parse, by the summaries it will really      *)
(* regenerate, added to the price of the chunks settled by the first gate. *)
(* What is then spent follows from the disk, the parser and the chunk      *)
(* format the run finds, which are not what the first gate looked at when  *)
(* a file changes in between or changed without being reported.            *)
(***************************************************************************)
EXTENDS Naturals, FiniteSets, FiniteSetsExt

CONSTANTS Files,
          Size,         \* [Files -> price of embedding a file's chunks]
          Guess,        \* [Files -> price the preview expects its summaries to have]
          SummaryPrice, \* one summary: prompt, output and embedding
          Caps,         \* the caps a run may be given: max_cost_usd
          Cap,          \* max_index_cost_usd, the cap of a flush and the default
          MaxEdits,     \* bound: edits of the tree
          MaxUpgrades,  \* bound: releases that read or chunk files differently
          MaxRuns,      \* bound: runs
          MaxFaults     \* bound: summaries that fail, runs that die

VARIABLES disk,         \* [Files -> version]
          parser, format, \* what the installed release reads and how it chunks
          reported,     \* paths the watcher holds for its next flush
          known,        \* [Files -> version]: stored checksums, 0 if none
          leaf,         \* [Files -> <<version, parser>>]: input of a stored summary
          top,          \* input of the container's stored summary
          marker,       \* [Files -> <<version, format>>]: coverage marker of the chunks
          pc, run,      \* the run: [kind, changed, chunkPrice, ...]
          spent,        \* what the run has spent so far
          blind,        \* history: something the run pays for was hidden from its first gate
          edits, upgrades, runs, faults

stored == <<known, leaf, top, marker>>
counters == <<edits, upgrades, runs, faults>>
vars == <<disk, parser, format, reported, stored, pc, run, spent, blind, counters>>

None == <<0, 0>>
Total(price, S) == MapThenSumSet(LAMBDA f : price[f], S)
-----------------------------------------------------------------------------
Current(f) == <<disk[f], parser>>
Changed == {f \in Files : disk[f] # known[f]}
FirstIndex == \A f \in Files : known[f] = 0 /\ leaf[f] = None

\* get_files_with_stale_chunks: against the stored checksum, not the disk.
StaleChunks == {f \in Files : known[f] # 0 /\ marker[f] # <<known[f], format>>}

\* Mutant: what is to be cut again is not in the price.
NoBacklog(priced) == {}

\* _rechunk_backlog: unchanged files whose chunks the run will cut again.
Backlog(priced) == StaleChunks \ priced

\* What the file-level gate of each kind of run looks at.
Priced(kind) ==
  IF kind = "flush" THEN reported ELSE Changed

Estimate(priced) == Total(Size, priced) + Total(Guess, priced) + Total(Size, Backlog(priced))
ChunkPrice(priced) == Total(Size, priced) + Total(Size, Backlog(priced))

\* plan_summaries: hash misses on the parsed graph, whatever file they are in, and the
\* container above them.
DueLeaves == {f \in Files : leaf[f] # Current(f)}
Due == DueLeaves \cup (IF top # [f \in Files |-> Current(f)] THEN {"top"} ELSE {})
PlanPrice == SummaryPrice * Cardinality(Due)

\* get_nodes_missing_summaries
Missing == {f \in Files : leaf[f] = None} \cup (IF top = [f \in Files |-> None] THEN {"top"} ELSE {})

\* index_code: the files whose chunks are not those of their bytes in today's format.
ToEmbed == {f \in Files : marker[f] # <<disk[f], format>>}

NoRun == [kind |-> "none", cap |-> Cap, chunkPrice |-> 0, todo |-> {}]

Init ==
  /\ disk = [f \in Files |-> 1] /\ parser = 1 /\ format = 1 /\ reported = {}
  /\ known = [f \in Files |-> 0] /\ leaf = [f \in Files |-> None]
  /\ top = [f \in Files |-> None] /\ marker = [f \in Files |-> None]
  /\ pc = "idle" /\ run = NoRun /\ spent = 0 /\ blind = FALSE
  /\ edits = 0 /\ upgrades = 0 /\ runs = 0 /\ faults = 0

\* A save; the watcher may not hear of it (it was not running, the event was dropped).
Edit ==
  /\ pc \in {"idle", "priced"} /\ edits < MaxEdits
  /\ edits' = edits + 1
  /\ \E f \in Files, heard \in BOOLEAN :
       /\ disk' = [disk EXCEPT ![f] = @ + 1]
       /\ reported' = IF heard THEN reported \cup {f} ELSE reported
  /\ blind' = (blind \/ pc = "priced")
  /\ UNCHANGED <<parser, format, stored, pc, run, spent, upgrades, runs, faults>>

\* A touch: an event without new bytes.
Touch ==
  /\ pc = "idle" /\ edits < MaxEdits
  /\ edits' = edits + 1
  /\ \E f \in Files : reported' = reported \cup {f}
  /\ UNCHANGED <<disk, parser, format, stored, pc, run, spent, blind, upgrades, runs, faults>>

\* A new release recognizes more in the same files, or cuts them differently.
Upgrade ==
  /\ pc = "idle" /\ upgrades < MaxUpgrades
  /\ upgrades' = upgrades + 1
  /\ \/ parser' = parser + 1 /\ UNCHANGED format
     \/ format' = format + 1 /\ UNCHANGED parser
  /\ UNCHANGED <<disk, reported, stored, pc, run, spent, blind, edits, runs, faults>>

\* index_directory and update_project up to the file-level gate.  A flush of nothing that
\* changed is a no-op; a flush needs an indexed project.
Gate ==
  /\ pc = "idle" /\ runs < MaxRuns
  /\ \E kind \in {"index", "force", "flush"}, cap \in Caps :
       /\ kind = "flush" => cap = Cap
       /\ kind = "flush" => reported \cap Changed # {} /\ ~FirstIndex
       /\ kind = "force" => ~FirstIndex
       /\ IF Estimate(Priced(kind)) > cap
            THEN run' = NoRun /\ pc' = "idle" /\ blind' = FALSE
            ELSE /\ run' = [kind |-> kind, cap |-> cap,
                             chunkPrice |-> ChunkPrice(Priced(kind)), todo |-> {}]
                 /\ pc' = "priced"
                 /\ blind' = (kind = "flush" /\ ~ Changed \subseteq reported)
       /\ reported' = IF kind = "flush" THEN {} ELSE reported
  /\ spent' = 0 /\ runs' = runs + 1
  /\ UNCHANGED <<disk, parser, format, stored, edits, upgrades, faults>>

\* GraphBuilder.build up to _summary_gate; without changes, the repair instead.
Plan ==
  /\ pc = "priced"
  /\ IF Changed = {} /\ run.kind # "force"
       THEN pc' = "summarize" /\ run' = [run EXCEPT !.kind = "repair", !.todo = Missing]
       ELSE IF run.chunkPrice + PlanPrice > run.cap
              THEN pc' = "idle" /\ run' = NoRun
              ELSE pc' = "summarize" /\ run' = [run EXCEPT !.todo = Due]
  /\ UNCHANGED <<disk, parser, format, reported, stored, spent, blind, counters>>

\* One summary of the plan; a failed one is kept as it was.  A repair writes the
\* summaries that are missing, through the same calls and past no gate.
Pay(n) ==
  /\ spent' = spent + SummaryPrice
  /\ run' = [run EXCEPT !.todo = @ \ {n}]
  /\ \/ /\ IF n = "top" THEN top' = [f \in Files |-> leaf[f]] /\ UNCHANGED leaf
                        ELSE leaf' = [leaf EXCEPT ![n] = Current(n)] /\ UNCHANGED top
        /\ UNCHANGED faults
     \/ /\ faults < MaxFaults /\ faults' = faults + 1
        /\ UNCHANGED <<leaf, top>>
  /\ UNCHANGED <<disk, parser, format, reported, known, marker, pc, blind, edits, upgrades, runs>>

Summarize ==
  /\ pc = "summarize"
  /\ \E n \in run.todo : (n = "top" => run.todo = {"top"}) /\ Pay(n)

\* update_checksums, after the summaries.
Stamp ==
  /\ pc = "summarize" /\ run.todo = {}
  /\ pc' = "embed"
  /\ known' = IF run.kind = "repair" THEN known ELSE disk
  /\ run' = [run EXCEPT !.todo = IF run.kind = "repair" THEN StaleChunks ELSE ToEmbed]
  /\ UNCHANGED <<disk, parser, format, reported, leaf, top, marker, spent, blind, counters>>

Embed ==
  /\ pc = "embed" /\ run.todo # {}
  /\ \E f \in run.todo :
       /\ spent' = spent + Size[f]
       /\ marker' = [marker EXCEPT ![f] = <<known[f], format>>]
       /\ run' = [run EXCEPT !.todo = @ \ {f}]
  /\ UNCHANGED <<disk, parser, format, reported, known, leaf, top, pc, blind, counters>>

Finish ==
  /\ pc = "embed" /\ run.todo = {}
  /\ pc' = "idle"
  /\ UNCHANGED <<disk, parser, format, reported, stored, run, spent, blind, counters>>

Die ==
  /\ pc # "idle" /\ faults < MaxFaults
  /\ faults' = faults + 1
  /\ pc' = "idle"
  /\ UNCHANGED <<disk, parser, format, reported, stored, run, spent, blind, edits, upgrades, runs>>

Next == Edit \/ Touch \/ Upgrade \/ Gate \/ Plan \/ Summarize \/ Stamp \/ Embed \/ Finish \/ Die

Spec == Init /\ [][Next]_vars
-----------------------------------------------------------------------------
\* A run that saw what it would pay for spends no more than the cap, whatever an upgrade,
\* a failure or a run that died before it has left to do (project_manager.py, the gates).
WithinCap == ~blind /\ run.kind # "repair" => spent <= run.cap
=============================================================================
