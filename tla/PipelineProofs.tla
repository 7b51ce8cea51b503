--------------------------- MODULE PipelineProofs ---------------------------
(***************************************************************************)
(* Three stages of a run, for any tree, any texts the LLM may answer, any  *)
(* prices and caps, any files with the nodes a parser may leave of them,   *)
(* any windows and batches, and any number of edits, faults and runs: what *)
(* it does with the summaries, what it may spend, and that a file it has   *)
(* marked can be searched whole.  The instance of MCPipeline has five      *)
(* nodes, two priced files and two files of up to ten lines.               *)
(***************************************************************************)
EXTENDS Pipeline, FiniteSetTheorems, SequenceTheorems, TLAPS

\* No two definitions share an id.
UniqueIds == \A n, m \in TreeNodes : Id[n] = Id[m] => n = m

\* No directory holds both files and folders, so that its children have one order.
OneOrder == Reorders = {}

-----------------------------------------------------------------------------
(* SummaryTree: the invariant.                                             *)

Summarizing == sPc \in {"leaves", "drain", "batch", "containers", "stamp"}

\* What the run has settled, and what waits for an answer.
Settling == sAttempted \ sGen
Waiting == sQueue \cup sGen

KnownTexts == [i \in T!Ids |-> sKnown[i].text]

\* A row: with a text it is one that is there, and its hash is what it was made from.
GoodRow(r) ==
  /\ r = [text |-> r.text, hash |-> r.hash, from |-> r.from, here |-> r.here]
  /\ r.text \in Texts \cup {T!Empty}
  /\ r.text # T!Empty => r.here = TRUE
  /\ r.text # T!Empty /\ r.hash # T!None => r.from = r.hash

TreeTypes ==
  /\ sSource \in [TreeNodes \ Dirs -> 0..MaxVersion]
  /\ sPc \in {"idle", "leaves", "drain", "batch", "containers", "stamp", "repair"}
  /\ sStamped \in BOOLEAN
  /\ sEdits \in 0..TreeEdits /\ sFaults \in 0..TreeFaults
  /\ sDue \subseteq TreeNodes /\ sLoose \subseteq TreeNodes
  /\ sAttempted \cup sQueue \cup sGen \cup sPlan \subseteq T!Tree

Rows ==
  /\ sStored = [i \in T!Ids |-> sStored[i]]
  /\ sKnown = [i \in T!Ids |-> sKnown[i]]
  /\ sDraft = [n \in TreeNodes |-> sDraft[n]]
  /\ \A i \in T!Ids : GoodRow(sStored[i]) /\ GoodRow(sKnown[i])
  /\ \A n \in TreeNodes : GoodRow(sDraft[n])

\* A directory's files stay in it.
FilesStay == \A c \in TreeNodes \ Dirs : Parent[c] \in Dirs => sSource[c] > 0

\* What each phase has left behind and what it finds.
Phases ==
  /\ sPc \in {"idle", "leaves", "repair"} => sAttempted = {}
  /\ sPc \in {"idle", "leaves"} => sQueue = {}
  /\ sPc = "idle" => sPlan = {}
  /\ sPc \notin {"containers", "repair"} => sGen = {}
  /\ sPc = "repair" => sStamped
  /\ Summarizing => /\ ~sStamped /\ sLoose = {}
                 /\ sGen \subseteq sAttempted
                 /\ sQueue \subseteq T!Leaves \ sAttempted
  /\ Summarizing /\ sPc # "leaves" => T!Leaves \subseteq sAttempted \cup sQueue
  /\ sPc = "stamp" => sAttempted = T!Tree

\* Before a node is settled, what is stored for it is what the run found there.
AsFound(n) ==
  /\ sStored[Id[n]].text = sKnown[Id[n]].text
  /\ sKnown[Id[n]].text # T!Empty => sStored[Id[n]] = sKnown[Id[n]]

\* Afterwards it is what the run holds in memory, made from the texts below it.
AsDrafted(n) ==
  /\ sStored[Id[n]].text = sDraft[n].text
  /\ sDraft[n].text # T!Empty => sStored[Id[n]] = sDraft[n]
  /\ sDraft[n].text # T!Empty /\ sDraft[n].hash # T!None => sDraft[n].hash = T!Wanted(n)

\* The row a node waits with.
Asks(n) == sDraft[n] = T!Unanswered(T!Wanted(n))

Cascade ==
  Summarizing =>
    /\ \A n \in T!Tree \ Settling : AsFound(n)
    /\ \A n \in Settling : AsDrafted(n) /\ T!Kids(n) \subseteq Settling
    /\ \A n \in Waiting : Asks(n) /\ T!Kids(n) \subseteq Settling

\* A node's text is made from the texts that are stored below it.
MadeFromBelow(n) ==
  LET row == sStored[Id[n]] IN
    row.text # T!Empty /\ row.hash # T!None =>
      \E listed \in BOOLEAN : row.hash = T!Input(n, T!StoredTexts, listed)

StampedIsSettled ==
  sPc \in {"idle", "repair"} /\ sStamped => \A n \in T!Tree \ sLoose : MadeFromBelow(n)

\* What the plan leaves out will be found as it is wanted, down to the leaves.
Unplanned(n) ==
  /\ sKnown[Id[n]].text # T!Empty
  /\ sKnown[Id[n]].hash = T!Input(n, KnownTexts, FALSE)
  /\ T!Kids(n) \cap sPlan = {}
  /\ n \in sAttempted => sDraft[n] = sKnown[Id[n]]

PlanHolds ==
  Summarizing => Waiting \subseteq sPlan /\ \A n \in T!Tree \ sPlan : Unplanned(n)

\* What has no reason to be paid for is stored as it would be asked for.
UpToDate(n) ==
  /\ sStored[Id[n]].text # T!Empty
  /\ sStored[Id[n]].hash = T!Input(n, T!StoredTexts, FALSE)

DueHolds ==
  /\ \A n \in T!Tree \ sDue : UpToDate(n)
  /\ Summarizing => Waiting \subseteq sDue

SettledInv ==
  TreeTypes /\ Rows /\ FilesStay /\ Phases /\ Cascade /\ StampedIsSettled
TreeInv == SettledInv /\ PlanHolds /\ (OneOrder => DueHolds)

-----------------------------------------------------------------------------
(* The tree.                                                               *)

\* The operators of the standard modules are those of the instance.
LEMMA TreeCardinality == \A S : T!Cardinality(S) = Cardinality(S)
BY DEF T!Cardinality, Cardinality

\* With one object to an id, node_map leads back to it.
LEMMA MappedBack ==
  ASSUME UniqueIds, NEW n \in T!Tree
  PROVE T!Mapped(Id[n]) = n
<1>1. n \in TreeNodes /\ T!Exists(n)
  BY DEF T!Tree
<1>2. {m \in TreeNodes : Id[m] = Id[n] /\ T!Exists(m)} = {n}
  BY <1>1 DEF UniqueIds
<1> QED
  BY <1>1, <1>2, TreeAssumption DEF T!Mapped

LEMMA KidsInTree ==
  ASSUME NEW n, NEW c \in T!Kids(n)
  PROVE c \in T!Tree /\ c \in TreeNodes /\ Parent[c] = n /\ Id[c] \in T!Ids
BY DEF T!Kids, T!Tree, T!Ids

LEMMA TreeIds ==
  ASSUME NEW n \in T!Tree
  PROVE n \in TreeNodes /\ Id[n] \in T!Ids
BY DEF T!Tree, T!Ids

\* A node is above itself, and so is what contains it.
LEMMA AboveItself ==
  ASSUME NEW n \in TreeNodes
  PROVE /\ n \in T!Above[n]
        /\ Parent[n] # 0 => Parent[n] \in TreeNodes /\ Parent[n] \in T!Above[n]
<1>1. T!Above[n] = {m \in TreeNodes : n # 0 /\ \A S \in SUBSET TreeNodes :
                                    n \in S /\ T!Upward(S) => m \in S}
  BY DEF T!Above
<1>2. n # 0 /\ Parent[n] \in TreeNodes \cup {0}
  BY TreeAssumption
<1>3. ASSUME NEW S \in SUBSET TreeNodes, n \in S, T!Upward(S), Parent[n] # 0
      PROVE Parent[n] \in S
  BY <1>3 DEF T!Upward
<1> QED
  BY <1>1, <1>2, <1>3

LEMMA AboveIsNodes ==
  ASSUME NEW n \in TreeNodes \cup {0}
  PROVE T!Above[n] \subseteq TreeNodes
BY DEF T!Above

\* What a node's summary is made from depends on its children's texts alone.
LEMMA SameInput ==
  ASSUME NEW n, NEW t, NEW u, NEW listed,
         \A c \in T!Kids(n) : t[Id[c]] = u[Id[c]]
  PROVE T!Input(n, t, listed) = T!Input(n, u, listed)
<1> DEFINE ids == {Id[c] : c \in T!Kids(n)}
<1>1. [i \in ids |-> t[i]] = [i \in ids |-> u[i]]
  OBVIOUS
<1> QED
  BY <1>1 DEF T!Input

LEMMA SameTree ==
  ASSUME sSource' = sSource
  PROVE /\ T!Tree' = T!Tree
        /\ T!Leaves' = T!Leaves
        /\ T!Containers' = T!Containers
        /\ \A n : T!Kids(n)' = T!Kids(n)
        /\ \A n, t, listed : T!Input(n, t, listed)' = T!Input(n, t, listed)
<1>1. \A n : T!Exists(n)' = T!Exists(n)
  BY DEF T!Exists
<1>2. \A n : T!Kids(n)' = T!Kids(n)
  BY <1>1 DEF T!Kids
<1>3. T!Tree' = T!Tree
  BY <1>1 DEF T!Tree
<1>4. T!Containers' = T!Containers
  BY <1>2, <1>3 DEF T!Containers
<1>5. T!Leaves' = T!Leaves
  BY <1>3, <1>4 DEF T!Leaves
<1>6. \A n, t, listed : T!Input(n, t, listed)' = T!Input(n, t, listed)
  BY <1>2 DEF T!Input
<1> QED
  BY <1>2, <1>3, <1>4, <1>5, <1>6

\* What a node is wanted for, in terms of what the run holds for its children.
LEMMA DraftedText ==
  ASSUME UniqueIds, NEW n \in T!Tree
  PROVE T!Drafted[Id[n]] = sDraft[n].text
BY MappedBack DEF T!Drafted

LEMMA WantedAsStored ==
  ASSUME UniqueIds, NEW n,
         \A c \in T!Kids(n) : sStored[Id[c]].text = sDraft[c].text
  PROVE T!Wanted(n) = T!Input(n, T!StoredTexts, FALSE)
<1>1. \A c \in T!Kids(n) : T!Drafted[Id[c]] = T!StoredTexts[Id[c]]
  BY DraftedText, KidsInTree DEF T!StoredTexts
<1> QED
  BY <1>1, SameInput DEF T!Wanted

LEMMA WantedAsKnown ==
  ASSUME UniqueIds, NEW n,
         \A c \in T!Kids(n) : sKnown[Id[c]].text = sDraft[c].text
  PROVE T!Wanted(n) = T!Input(n, KnownTexts, FALSE)
<1>1. \A c \in T!Kids(n) : T!Drafted[Id[c]] = KnownTexts[Id[c]]
  BY DraftedText, KidsInTree DEF KnownTexts
<1> QED
  BY <1>1, SameInput DEF T!Wanted

LEMMA WantedStays ==
  ASSUME UniqueIds, sSource' = sSource, NEW n,
         \A c \in T!Kids(n) : sDraft'[c].text = sDraft[c].text
  PROVE T!Wanted(n)' = T!Wanted(n)
<1> DEFINE d == [i \in {Id[m] : m \in T!Tree} |-> sDraft'[T!Mapped(i)].text]
<1>1. T!Drafted' = d
  <2>1. \A i : T!Mapped(i)' = T!Mapped(i)
    BY DEF T!Mapped, T!Exists
  <2> QED
    BY <2>1, SameTree DEF T!Drafted
<1>2. \A c \in T!Kids(n) : T!Drafted[Id[c]] = d[Id[c]]
  <2> SUFFICES ASSUME NEW c \in T!Kids(n) PROVE T!Drafted[Id[c]] = d[Id[c]]
    OBVIOUS
  <2>1. d[Id[c]] = sDraft'[c].text
    BY KidsInTree, MappedBack
  <2> QED
    BY <2>1, DraftedText, KidsInTree
<1>3. T!Wanted(n)' = T!Input(n, d, FALSE)
  BY <1>1, SameTree DEF T!Wanted
<1> HIDE DEF d
<1>4. T!Input(n, T!Drafted, FALSE) = T!Input(n, d, FALSE)
  BY <1>2, SameInput
<1> QED
  BY <1>3, <1>4 DEF T!Wanted

LEMMA StoredInputStays ==
  ASSUME sSource' = sSource, NEW n, NEW listed,
         \A c \in T!Kids(n) : sStored'[Id[c]].text = sStored[Id[c]].text
  PROVE T!Input(n, T!StoredTexts, listed)' = T!Input(n, T!StoredTexts, listed)
<1> DEFINE s == [i \in T!Ids |-> sStored'[i].text]
<1>1. T!StoredTexts' = s
  BY DEF T!StoredTexts, T!Ids
<1>2. \A c \in T!Kids(n) : T!StoredTexts[Id[c]] = s[Id[c]]
  BY KidsInTree DEF T!StoredTexts
<1>3. T!Input(n, T!StoredTexts, listed)' = T!Input(n, s, listed)
  BY <1>1, SameTree
<1> HIDE DEF s
<1> QED
  BY <1>2, <1>3, SameInput

-----------------------------------------------------------------------------
(* The rows a run makes.                                                   *)

\* Rows without an answer.
LEMMA FreshRows ==
  /\ T!Empty = 0 /\ T!Empty \notin Texts
  /\ GoodRow(T!Gone) /\ GoodRow(T!Blank)
  /\ T!Gone.text = T!Empty /\ T!Blank.text = T!Empty
  /\ T!Gone.here = FALSE
  /\ \A h : /\ GoodRow(T!Unanswered(h))
            /\ T!Unanswered(h).text = T!Empty /\ T!Unanswered(h).hash = h
<1>1. T!Empty = 0 /\ T!Empty \notin Texts
  BY TreeAssumption DEF T!Empty
<1>2. T!Gone = [text |-> T!Empty, hash |-> T!None, from |-> T!None, here |-> FALSE]
  BY DEF T!Gone
<1> QED
  BY <1>1, <1>2 DEF GoodRow, T!Blank, T!Unanswered

\* A failure keeps the old text, with no hash.
LEMMA KeptRow ==
  ASSUME NEW n \in TreeNodes, Rows
  PROVE /\ T!KeptStale(n).text = sKnown[Id[n]].text /\ T!KeptStale(n).hash = T!None
        /\ GoodRow(T!KeptStale(n))
<1>1. Id[n] \in T!Ids
  BY DEF T!Ids
<1>2. GoodRow(sKnown[Id[n]])
  BY <1>1 DEF Rows
<1> QED
  BY <1>2 DEF GoodRow, T!KeptStale

-----------------------------------------------------------------------------
(* Hashing: what is not reused waits with the hash it is wanted for.       *)

LEMMA HashingKeeps ==
  ASSUME UniqueIds, TreeInv, Summarizing, Summarizing',
         UNCHANGED <<sSource, sStored, sKnown, sPlan, sDue>>,
         NEW ns \in SUBSET (T!Tree \ (Settling \cup Waiting)),
         \A n \in ns : T!Kids(n) \subseteq Settling,
         NEW reused, reused = {n \in ns : T!Reusable(n, T!Wanted(n))},
         sDraft' = T!Hashed(ns),
         Settling' = Settling \cup reused,
         Waiting' = Waiting \cup (ns \ reused),
         sAttempted' \subseteq sAttempted \cup ns
  PROVE Rows' /\ Cascade' /\ PlanHolds' /\ (OneOrder => DueHolds')
<1> USE DEF TreeInv, SettledInv
<1>types. ns \subseteq TreeNodes /\ T!Tree \subseteq TreeNodes /\ T!Ids' = T!Ids
  BY DEF T!Tree, T!Ids
<1>draft. \A n \in TreeNodes :
            sDraft'[n] = IF n \notin ns THEN sDraft[n]
                         ELSE IF n \in reused THEN sKnown[Id[n]]
                         ELSE T!Unanswered(T!Wanted(n))
  BY DEF T!Hashed
<1>kids. \A n : \A c \in T!Kids(n) : c \in Settling => sDraft'[c] = sDraft[c]
  BY <1>draft, KidsInTree
<1>1. Rows'
  <2>1. ASSUME NEW n \in TreeNodes PROVE GoodRow(sDraft'[n])
    <3>1. GoodRow(sDraft[n]) /\ GoodRow(sKnown[Id[n]])
      BY DEF Rows, T!Ids
    <3>2. GoodRow(T!Unanswered(T!Wanted(n)))
      BY FreshRows
    <3> QED
      BY <1>draft, <3>1, <3>2
  <2>2. sDraft' = [n \in TreeNodes |-> sDraft'[n]]
    BY DEF T!Hashed
  <2> QED
    BY <2>1, <2>2, <1>types DEF Rows, GoodRow
<1>wanted. \A n \in T!Tree : n \in ns \cup Settling \cup Waiting =>
              /\ T!Kids(n) \subseteq Settling
              /\ T!Wanted(n)' = T!Wanted(n)
  <2>1. \A n \in T!Tree : n \in ns \cup Settling \cup Waiting => T!Kids(n) \subseteq Settling
    BY DEF Cascade
  <2>2. ASSUME NEW n \in T!Tree, n \in ns \cup Settling \cup Waiting
        PROVE T!Wanted(n)' = T!Wanted(n)
    BY <2>1, <2>2, <1>kids, WantedStays
  <2> QED
    BY <2>1, <2>2
<1>subset. Settling \subseteq T!Tree /\ Waiting \subseteq T!Tree
  BY DEF Settling, Waiting, TreeTypes
<1>2. Cascade'
  <2>1. ASSUME NEW n \in T!Tree' \ Settling' PROVE AsFound(n)'
    BY <2>1, SameTree DEF Cascade, AsFound
  <2>2. ASSUME NEW n \in Settling' PROVE AsDrafted(n)' /\ T!Kids(n)' \subseteq Settling'
    <3>1. CASE n \in Settling
      <4>1. AsDrafted(n) /\ T!Kids(n) \subseteq Settling
        BY <3>1 DEF Cascade
      <4>2. sDraft'[n] = sDraft[n]
        BY <3>1, <1>draft, <1>subset, <1>types
      <4> QED
        BY <3>1, <4>1, <4>2, <1>wanted, <1>subset, SameTree DEF AsDrafted
    <3>2. CASE n \in reused
      <4>1. n \in ns /\ n \in T!Tree \ Settling /\ T!Reusable(n, T!Wanted(n))
        BY <3>2
      <4>2. sDraft'[n] = sKnown[Id[n]]
        BY <3>2, <4>1, <1>draft, <1>types
      <4>3. AsFound(n)
        BY <4>1 DEF Cascade
      <4> QED
        BY <4>1, <4>2, <4>3, <1>wanted, SameTree DEF AsDrafted, AsFound, T!Reusable
    <3> QED
      BY <3>1, <3>2
  <2>3. ASSUME NEW n \in Waiting' PROVE Asks(n)' /\ T!Kids(n)' \subseteq Settling'
    <3>1. CASE n \in Waiting
      <4>1. Asks(n) /\ T!Kids(n) \subseteq Settling
        BY <3>1 DEF Cascade
      <4>2. sDraft'[n] = sDraft[n]
        BY <3>1, <1>draft, <1>subset, <1>types
      <4> QED
        BY <3>1, <4>1, <4>2, <1>wanted, <1>subset, SameTree DEF Asks
    <3>2. CASE n \in ns \ reused
      <4>1. sDraft'[n] = T!Unanswered(T!Wanted(n))
        BY <3>2, <1>draft, <1>types
      <4>2. T!Wanted(n)' = T!Wanted(n) /\ T!Kids(n) \subseteq Settling
        BY <3>2, <1>wanted
      <4> QED
        BY <4>1, <4>2, SameTree DEF Asks
    <3> QED
      BY <3>1, <3>2
  <2> QED
    BY <2>1, <2>2, <2>3 DEF Cascade
<1>3. PlanHolds'
  <2>1. ASSUME NEW n \in ns, n \notin sPlan PROVE n \in reused
    <3>1. Unplanned(n) /\ T!Kids(n) \subseteq Settling
      BY <2>1 DEF PlanHolds
    <3>2. ASSUME NEW c \in T!Kids(n) PROVE sKnown[Id[c]].text = sDraft[c].text
      <4>1. c \in T!Tree \ sPlan /\ c \in sAttempted
        BY <3>1, KidsInTree DEF Unplanned, Settling
      <4> QED
        BY <4>1 DEF PlanHolds, Unplanned
    <3>3. T!Wanted(n) = T!Input(n, KnownTexts, FALSE)
      BY <3>2, WantedAsKnown
    <3> QED
      BY <3>1, <3>3 DEF Unplanned, T!Reusable
  <2>2. Waiting' \subseteq sPlan'
    BY <2>1 DEF PlanHolds
  <2>3. ASSUME NEW n \in T!Tree' \ sPlan' PROVE Unplanned(n)'
    <3>1. n \in T!Tree \ sPlan /\ Unplanned(n)
      BY SameTree DEF PlanHolds
    <3>2. KnownTexts' = KnownTexts
      BY <1>types DEF KnownTexts
    <3>3. n \in sAttempted' => sDraft'[n] = sKnown'[Id[n]]
      BY <2>1, <3>1, <1>draft, <1>types DEF Unplanned
    <3> QED
      BY <3>1, <3>2, <3>3, SameTree DEF Unplanned
  <2> QED
    BY <2>2, <2>3 DEF PlanHolds
<1>4. ASSUME OneOrder PROVE DueHolds'
  <2>0. DueHolds
    BY <1>4
  <2>1. ASSUME NEW n \in ns, n \notin sDue PROVE n \in reused
    <3>1. UpToDate(n) /\ AsFound(n) /\ T!Kids(n) \subseteq Settling
      BY <2>0, <2>1 DEF DueHolds, Cascade
    <3>2. ASSUME NEW c \in T!Kids(n) PROVE sStored[Id[c]].text = sDraft[c].text
      BY <3>1 DEF Cascade, AsDrafted
    <3>3. T!Wanted(n) = T!Input(n, T!StoredTexts, FALSE)
      BY <3>2, WantedAsStored
    <3> QED
      BY <3>1, <3>3 DEF UpToDate, AsFound, T!Reusable
  <2>2. T!StoredTexts' = T!StoredTexts
    BY <1>types DEF T!StoredTexts
  <2>3. ASSUME NEW n \in T!Tree' \ sDue' PROVE UpToDate(n)'
    BY <2>0, <2>2, SameTree DEF DueHolds, UpToDate
  <2> QED
    BY <2>0, <2>1, <2>3 DEF DueHolds
<1> QED
  BY <1>1, <1>2, <1>3, <1>4

-----------------------------------------------------------------------------
(* Answers: a batch of what waits is settled, and stored.                  *)

LEMMA AnsweringKeeps ==
  ASSUME UniqueIds, TreeInv, Summarizing, Summarizing',
         UNCHANGED <<sSource, sKnown, sPlan>>,
         NEW batch \in SUBSET Waiting, T!Generate(batch),
         Settling' = Settling \cup batch,
         Waiting' = Waiting \ batch,
         sAttempted' \subseteq sAttempted \cup batch
  PROVE /\ Rows' /\ Cascade' /\ PlanHolds' /\ (OneOrder => DueHolds')
        /\ sDue' \subseteq TreeNodes /\ sFaults' \in 0..TreeFaults
<1> USE DEF TreeInv, SettledInv
<1>0. PICK failed \in SUBSET batch :
        \E answer \in T!Answers(batch, failed) :
          /\ Cardinality(failed) <= TreeFaults - sFaults
          /\ sFaults' = sFaults + Cardinality(failed)
          /\ sDraft' = T!Answered(batch, failed, answer)
          /\ sStored' = T!Persisted(batch, sDraft')
          /\ sDue' = T!Owed(batch, failed, sDraft')
  BY TreeCardinality DEF T!Generate
<1>1. PICK answer \in T!Answers(batch, failed) :
        /\ Cardinality(failed) <= TreeFaults - sFaults
        /\ sFaults' = sFaults + Cardinality(failed)
        /\ sDraft' = T!Answered(batch, failed, answer)
        /\ sStored' = T!Persisted(batch, sDraft')
        /\ sDue' = T!Owed(batch, failed, sDraft')
  BY <1>0
<1>types. /\ T!Tree \subseteq TreeNodes /\ T!Ids' = T!Ids
          /\ Settling \subseteq T!Tree /\ Waiting \subseteq T!Tree /\ batch \subseteq TreeNodes
          /\ Waiting \cap Settling = {}
          /\ answer \in [batch -> Texts]
  BY <1>1 DEF T!Tree, T!Ids, Settling, Waiting, TreeTypes, Phases, T!Answers
<1> DEFINE row(n) == [text |-> answer[n], hash |-> T!Wanted(n), from |-> T!Wanted(n),
                      here |-> TRUE]
<1>row. \A n \in batch : /\ GoodRow(row(n))
                         /\ row(n).text = answer[n] /\ row(n).hash = T!Wanted(n)
  BY <1>types DEF GoodRow
<1>draft. \A n \in TreeNodes : sDraft'[n] = IF n \notin batch THEN sDraft[n]
                                        ELSE IF n \in failed THEN T!KeptStale(n)
                                        ELSE row(n)
  <2>1. ASSUME NEW n \in batch PROVE sDraft[n].hash = T!Wanted(n)
    BY FreshRows DEF Cascade, Asks
  <2> QED
    BY <1>1, <2>1 DEF T!Answered
<1> HIDE DEF row
<1>good. \A n \in TreeNodes : GoodRow(sDraft'[n])
  BY <1>draft, <1>row, KeptRow DEF Rows
<1>stored. \A n \in TreeNodes :
             sStored'[Id[n]] = IF n \in batch /\ sDraft'[n].text # T!Empty
                               THEN sDraft'[n] ELSE sStored[Id[n]]
  <2> SUFFICES ASSUME NEW n \in TreeNodes
               PROVE sStored'[Id[n]] = IF n \in batch /\ sDraft'[n].text # T!Empty
                                       THEN sDraft'[n] ELSE sStored[Id[n]]
    OBVIOUS
  <2> DEFINE those == {m \in batch : Id[m] = Id[n] /\ sDraft'[m].text # T!Empty}
  <2>1. Id[n] \in T!Ids
    BY DEF T!Ids
  <2>2. sStored'[Id[n]] = IF those = {} THEN sStored[Id[n]]
                          ELSE sDraft'[CHOOSE k \in those : \A m \in those : m <= k]
    BY <1>1, <2>1 DEF T!Persisted
  <2>3. those \subseteq {n}
    BY <1>types DEF UniqueIds
  <2>4. CASE n \in batch /\ sDraft'[n].text # T!Empty
    <3>1. those = {n}
      BY <2>3, <2>4
    <3>2. (CHOOSE k \in those : \A m \in those : m <= k) = n
      BY <3>1, TreeAssumption
    <3> QED
      BY <2>2, <2>4, <3>1, <3>2
  <2>5. CASE ~ (n \in batch /\ sDraft'[n].text # T!Empty)
    BY <2>2, <2>3, <2>5
  <2> QED
    BY <2>4, <2>5
<1>wanted. \A n \in Settling \cup Waiting :
              T!Kids(n) \subseteq Settling /\ T!Wanted(n)' = T!Wanted(n)
  <2>1. \A n \in Settling \cup Waiting : T!Kids(n) \subseteq Settling
    BY DEF Cascade
  <2>2. \A c \in Settling : sDraft'[c] = sDraft[c]
    BY <1>draft, <1>types
  <2>3. ASSUME NEW n \in Settling \cup Waiting PROVE T!Wanted(n)' = T!Wanted(n)
    BY <2>1, <2>2, WantedStays
  <2> QED
    BY <2>1, <2>3
<1>2. Rows'
  <2>1. sDraft' = [n \in TreeNodes |-> sDraft'[n]]
    BY <1>1 DEF T!Answered
  <2>2. sStored' = [i \in T!Ids |-> sStored'[i]]
    BY <1>1 DEF T!Persisted
  <2>3. ASSUME NEW i \in T!Ids PROVE GoodRow(sStored'[i])
    <3>1. PICK n \in TreeNodes : i = Id[n]
      BY DEF T!Ids
    <3>2. GoodRow(sStored[i])
      BY DEF Rows
    <3> QED
      BY <3>1, <3>2, <1>stored, <1>good
  <2> QED
    BY <2>1, <2>2, <2>3, <1>good, <1>types DEF Rows, GoodRow
<1>3. Cascade'
  <2>1. ASSUME NEW n \in T!Tree' \ Settling' PROVE AsFound(n)'
    <3>1. n \in T!Tree \ Settling /\ n \notin batch /\ n \in TreeNodes
      BY <2>1, SameTree, <1>types
    <3> QED
      BY <3>1, <1>stored DEF Cascade, AsFound
  <2>2. ASSUME NEW n \in Settling' PROVE AsDrafted(n)' /\ T!Kids(n)' \subseteq Settling'
    <3>1. CASE n \in Settling
      <4>1. AsDrafted(n) /\ n \notin batch /\ n \in TreeNodes
        BY <3>1, <1>types DEF Cascade
      <4> QED
        BY <3>1, <4>1, <1>wanted, <1>stored, <1>draft, SameTree DEF AsDrafted
    <3>2. CASE n \in batch
      <4>1. n \in Waiting /\ n \in T!Tree \ Settling /\ n \in TreeNodes
        BY <3>2, <1>types
      <4>2. AsFound(n)
        BY <4>1 DEF Cascade
      <4>3. sDraft'[n].text = T!Empty => sStored'[Id[n]].text = T!Empty
        <5>1. CASE n \in failed
          BY <3>2, <4>1, <4>2, <5>1, <1>draft, <1>stored, KeptRow DEF AsFound
        <5>2. CASE n \notin failed
          <6>1. sDraft'[n].text = answer[n]
            BY <3>2, <4>1, <5>2, <1>draft, <1>row
          <6>2. answer[n] \in Texts
            BY <3>2, <1>types
          <6> QED
            BY <6>1, <6>2, FreshRows
        <5> QED
          BY <5>1, <5>2
      <4>4. sDraft'[n].hash = T!None \/ sDraft'[n].hash = T!Wanted(n)
        BY <3>2, <4>1, <1>draft, <1>row, KeptRow
      <4>5. sDraft'[n].text # T!Empty => sStored'[Id[n]] = sDraft'[n]
        BY <3>2, <4>1, <1>stored
      <4> QED
        BY <4>1, <4>3, <4>4, <4>5, <1>wanted, SameTree DEF AsDrafted
    <3> QED
      BY <3>1, <3>2
  <2>3. ASSUME NEW n \in Waiting' PROVE Asks(n)' /\ T!Kids(n)' \subseteq Settling'
    <3>1. n \in Waiting /\ n \notin batch /\ n \in TreeNodes /\ Asks(n)
      BY <2>3, <1>types DEF Cascade
    <3> QED
      BY <3>1, <1>wanted, <1>draft, SameTree DEF Asks
  <2> QED
    BY <2>1, <2>2, <2>3 DEF Cascade
<1>4. PlanHolds'
  <2>1. KnownTexts' = KnownTexts
    BY <1>types DEF KnownTexts
  <2>2. ASSUME NEW n \in T!Tree' \ sPlan' PROVE Unplanned(n)'
    <3>1. n \in T!Tree \ sPlan /\ Unplanned(n) /\ n \notin batch /\ n \in TreeNodes
      BY SameTree, <1>types DEF PlanHolds
    <3>2. n \in sAttempted' => sDraft'[n] = sKnown'[Id[n]]
      BY <3>1, <1>draft DEF Unplanned
    <3> QED
      BY <3>1, <3>2, <2>1, SameTree DEF Unplanned
  <2> QED
    BY <2>2 DEF PlanHolds
<1> DEFINE changed == {m \in batch : sDraft'[m].text # sKnown[Id[m]].text}
           above == UNION {T!Above[Parent[n]] : n \in changed}
<1>due. sDue' = ((sDue \ (batch \ failed)) \cup above) \cup failed
  BY <1>1 DEF T!Owed
<1>above. /\ \A n \in changed : T!Above[Parent[n]] \subseteq above
          /\ above \subseteq TreeNodes
  <2>1. ASSUME NEW n \in batch PROVE T!Above[Parent[n]] \subseteq TreeNodes
    <3>1. Parent[n] \in TreeNodes \cup {0}
      BY <1>types, TreeAssumption
    <3> QED
      BY <3>1, AboveIsNodes
  <2> QED
    BY <2>1
<1> HIDE DEF above
<1>owed. /\ \A n \in batch : sDraft'[n].text # sKnown[Id[n]].text
                               => T!Above[Parent[n]] \subseteq sDue'
         /\ failed \subseteq sDue' /\ sDue \ batch \subseteq sDue'
  BY <1>due, <1>above
<1>5. ASSUME OneOrder PROVE DueHolds'
  <2>0. DueHolds
    BY <1>5
  <2>1. Waiting' \subseteq sDue'
    BY <2>0, <1>owed DEF DueHolds
  <2>2. ASSUME NEW m \in T!Tree' \ sDue' PROVE UpToDate(m)'
    <3>1. m \in T!Tree /\ m \in TreeNodes /\ m \notin sDue'
      BY SameTree, <1>types
    <3>2. ASSUME NEW c \in T!Kids(m) PROVE sStored'[Id[c]].text = sStored[Id[c]].text
      <4>1. c \in TreeNodes /\ c \in T!Tree /\ Parent[c] = m
        BY KidsInTree
      <4>2. CASE c \notin batch
        BY <4>1, <4>2, <1>stored
      <4>3. CASE c \in batch
        <5>1. sDraft'[c].text = sKnown[Id[c]].text
          BY <3>1, <4>1, <4>3, <1>owed, AboveItself
        <5>2. AsFound(c)
          BY <4>1, <4>3, <1>types DEF Cascade
        <5> QED
          BY <4>1, <4>3, <5>1, <5>2, <1>stored DEF AsFound
      <4> QED
        BY <4>2, <4>3
    <3>3. T!Input(m, T!StoredTexts, FALSE)' = T!Input(m, T!StoredTexts, FALSE)
      BY <3>2, StoredInputStays
    <3>4. CASE m \notin batch
      <4>1. UpToDate(m)
        BY <2>0, <3>1, <3>4, <1>owed DEF DueHolds
      <4> QED
        BY <3>1, <3>3, <3>4, <4>1, <1>stored DEF UpToDate
    <3>5. CASE m \in batch
      <4>1. m \notin failed /\ answer[m] \in Texts
        BY <3>1, <3>5, <1>owed, <1>types
      <4>2. sDraft'[m].text # T!Empty /\ sDraft'[m].hash = T!Wanted(m)
        BY <3>1, <3>5, <4>1, <1>draft, <1>row, FreshRows
      <4>3. sStored'[Id[m]] = sDraft'[m]
        BY <3>1, <3>5, <4>2, <1>stored
      <4>4. T!Wanted(m) = T!Input(m, T!StoredTexts, FALSE)
        <5>1. \A c \in T!Kids(m) : sStored[Id[c]].text = sDraft[c].text
          BY <3>5, <1>wanted DEF Cascade, AsDrafted
        <5> QED
          BY <5>1, WantedAsStored
      <4> QED
        BY <3>3, <4>2, <4>3, <4>4 DEF UpToDate
    <3> QED
      BY <3>4, <3>5
  <2> QED
    BY <2>1, <2>2 DEF DueHolds
<1>6. sDue' \subseteq TreeNodes
  BY <1>due, <1>above, <1>types DEF TreeTypes
<1>7. sFaults' \in 0..TreeFaults
  <2>1. Cardinality(failed) \in Nat
    BY <1>types, TreeAssumption, FS_Subset, FS_CardinalityType
  <2> QED
    BY <1>1, <2>1, TreeAssumption DEF TreeTypes
<1> QED
  BY <1>2, <1>3, <1>4, <1>5, <1>6, <1>7

-----------------------------------------------------------------------------
(* SummaryTree: every step keeps the invariant.                            *)

LEMMA TreeInitially ==
  ASSUME T!Init
  PROVE TreeInv
<1> USE DEF T!Init
<1>1. TreeTypes
  <2>1. sSource \in [TreeNodes \ Dirs -> 0..MaxVersion]
    BY TreeAssumption
  <2>2. sEdits \in 0..TreeEdits /\ sFaults \in 0..TreeFaults
    BY TreeAssumption
  <2> QED
    BY <2>1, <2>2 DEF TreeTypes
<1>2. Rows
  BY FreshRows DEF Rows
<1>3. FilesStay
  BY DEF FilesStay
<1>4. Phases /\ Cascade /\ PlanHolds /\ StampedIsSettled
  BY DEF Phases, Cascade, PlanHolds, StampedIsSettled, Summarizing
<1>5. DueHolds
  BY DEF DueHolds, Summarizing, T!Tree
<1> QED
  BY <1>1, <1>2, <1>3, <1>4, <1>5 DEF TreeInv, SettledInv

\* A run that has ended holds nothing.
LEMMA EndedHoldsNothing ==
  ASSUME T!Ended
  PROVE /\ sPc' = "idle" /\ ~Summarizing'
        /\ sAttempted' = {} /\ sQueue' = {} /\ sGen' = {} /\ sPlan' = {}
        /\ Phases' /\ Cascade' /\ PlanHolds'
        /\ sKnown' = [i \in T!Ids |-> sKnown'[i]]
        /\ sDraft' = [n \in TreeNodes |-> sDraft'[n]]
        /\ \A i \in T!Ids : GoodRow(sKnown'[i])
        /\ \A n \in TreeNodes : GoodRow(sDraft'[n])
<1>1. /\ sPc' = "idle" /\ ~Summarizing'
      /\ sAttempted' = {} /\ sQueue' = {} /\ sGen' = {} /\ sPlan' = {}
  BY DEF T!Ended, Summarizing
<1>2. Phases' /\ Cascade' /\ PlanHolds'
  BY <1>1 DEF Phases, Cascade, PlanHolds
<1>3. sKnown' = [i \in T!Ids |-> T!Gone] /\ sDraft' = [n \in TreeNodes |-> T!Gone]
  BY DEF T!Ended
<1> QED
  BY <1>1, <1>2, <1>3, FreshRows

LEMMA EditKeeps ==
  ASSUME UniqueIds, TreeInv, NEW n \in TreeNodes \ Dirs, NEW v \in 0..MaxVersion,
         T!Edit(n, v)
  PROVE TreeInv'
<1> USE DEF T!Edit, TreeInv, SettledInv
<1>idle. ~Summarizing /\ ~Summarizing' /\ sPc = "idle" /\ sPc' = "idle"
  BY DEF Summarizing
<1>1. TreeTypes'
  <2>1. sAttempted \cup sQueue \cup sGen \cup sPlan = {}
    BY <1>idle DEF Phases
  <2>2. sDue' \subseteq TreeNodes
    BY AboveIsNodes DEF TreeTypes
  <2>3. sSource' \in [TreeNodes \ Dirs -> 0..MaxVersion]
    BY DEF TreeTypes
  <2>4. sEdits' \in 0..TreeEdits
    BY TreeAssumption DEF TreeTypes
  <2>5. sAttempted' \cup sQueue' \cup sGen' \cup sPlan' = {}
    BY <2>1
  <2>6. sStamped' \in BOOLEAN /\ sFaults' \in 0..TreeFaults /\ sLoose' \subseteq TreeNodes
    BY DEF TreeTypes
  <2> QED
    BY <1>idle, <2>2, <2>3, <2>4, <2>5, <2>6 DEF TreeTypes
<1>2. Rows'
  BY DEF Rows, T!Ids, GoodRow
<1>3. FilesStay'
  BY TreeAssumption DEF FilesStay, TreeTypes
<1>4. Phases' /\ Cascade' /\ PlanHolds' /\ StampedIsSettled'
  BY <1>idle DEF Phases, Cascade, PlanHolds, StampedIsSettled
<1>5. ASSUME OneOrder PROVE DueHolds'
  <2>1. ASSUME NEW m \in T!Tree' \ sDue' PROVE UpToDate(m)'
    <3>1. m \in TreeNodes /\ m # n /\ m \notin sDue /\ Parent[n] # m
      <4>1. m \in TreeNodes /\ m # 0 /\ m \notin sDue /\ m \notin T!Above[n]
        BY <2>1, TreeAssumption DEF T!Tree
      <4> QED
        BY <4>1, AboveItself
    <3>2. \A c \in TreeNodes : c # n => (T!Exists(c)' <=> T!Exists(c))
      BY DEF T!Exists, TreeTypes
    <3>3. T!Kids(m)' = T!Kids(m) /\ m \in T!Tree
      BY <2>1, <3>1, <3>2 DEF T!Kids, T!Tree
    <3>4. T!StoredTexts' = T!StoredTexts
      BY DEF T!StoredTexts, T!Ids
    <3>5. CASE T!Kids(m) # {}
      BY <1>5, <3>1, <3>3, <3>4, <3>5 DEF DueHolds, UpToDate, T!Input
    <3>6. CASE T!Kids(m) = {}
      <4>1. m \notin Dirs
        <5>1. ASSUME m \in Dirs PROVE FALSE
          <6>1. PICK c \in TreeNodes : Parent[c] = m
            BY <5>1, TreeAssumption
          <6>2. T!Exists(c)
            BY <5>1, <6>1 DEF FilesStay, T!Exists
          <6> QED
            BY <3>6, <6>1, <6>2 DEF T!Kids
        <5> QED
          BY <5>1
      <4>2. sSource'[m] = sSource[m]
        BY <3>1, <4>1 DEF TreeTypes
      <4> QED
        BY <1>5, <3>1, <3>3, <3>6, <4>2 DEF DueHolds, UpToDate, T!Input
    <3> QED
      BY <3>5, <3>6
  <2> QED
    BY <2>1, <1>idle DEF DueHolds
<1> QED
  BY <1>1, <1>2, <1>3, <1>4, <1>5

\* A node the plan leaves out has its text, made from what is stored, and so have the
\* nodes below it.
LEMMA PlanIsClosed ==
  ASSUME UniqueIds, NEW n \in T!Tree \ T!Plan
  PROVE /\ sStored[Id[n]].text # T!Empty
        /\ sStored[Id[n]].hash = T!Input(n, T!StoredTexts, FALSE)
        /\ T!Kids(n) \cap T!Plan = {}
<1>1. PICK S \in SUBSET T!Tree : T!Redone(S) /\ n \notin S
  BY DEF T!Plan
<1>2. /\ sStored[Id[n]].text # T!Empty
      /\ sStored[Id[n]].hash = T!Input(n, T!StoredTexts, FALSE)
      /\ \A c \in T!Kids(n) : T!Mapped(Id[c]) \notin S
  BY <1>1 DEF T!Redone
<1>3. ASSUME NEW c \in T!Kids(n) PROVE c \notin T!Plan
  <2>1. c \notin S
    BY <1>2, KidsInTree, MappedBack
  <2> QED
    BY <1>1, <2>1 DEF T!Plan
<1> QED
  BY <1>2, <1>3

LEMMA BeginKeeps ==
  ASSUME UniqueIds, TreeInv, T!Begin
  PROVE TreeInv'
<1> USE DEF TreeInv, SettledInv
<1>0. /\ sPc = "idle" /\ ~sStamped /\ sPc' = "leaves" /\ Summarizing' /\ ~Summarizing
      /\ sKnown' = sStored /\ sPlan' = T!Plan /\ sLoose' = {}
      /\ sDraft' = [n \in TreeNodes |-> T!Blank]
      /\ sAttempted' = {} /\ sQueue' = {} /\ sGen' = {}
      /\ UNCHANGED <<sSource, sStamped, sDue, sEdits, sFaults>>
  BY DEF T!Begin, Summarizing
<1>ids. T!Ids' = T!Ids
  BY DEF T!Ids
<1>stored. /\ sStored' = [i \in T!Ids |-> sStored'[i]]
           /\ \A i \in T!Ids : sStored'[i] \in {T!Gone, T!Blank, sStored[i]}
           /\ \A n \in T!Tree : sStored'[Id[n]] = IF sStored[Id[n]].here
                                                THEN sStored[Id[n]] ELSE T!Blank
  BY TreeIds DEF T!Begin
<1>text. \A n \in T!Tree : /\ sStored'[Id[n]].text = sStored[Id[n]].text
                           /\ sStored[Id[n]].text # T!Empty => sStored'[Id[n]] = sStored[Id[n]]
  <2> SUFFICES ASSUME NEW n \in T!Tree
               PROVE /\ sStored'[Id[n]].text = sStored[Id[n]].text
                     /\ sStored[Id[n]].text # T!Empty => sStored'[Id[n]] = sStored[Id[n]]
    OBVIOUS
  <2>1. GoodRow(sStored[Id[n]])
    BY TreeIds DEF Rows
  <2>2. CASE sStored[Id[n]].text = T!Empty
    BY <2>2, <1>stored, FreshRows
  <2>3. CASE sStored[Id[n]].text # T!Empty
    BY <2>1, <2>3, <1>stored DEF GoodRow
  <2> QED
    BY <2>2, <2>3
<1>1. TreeTypes'
  BY <1>0, SameTree DEF TreeTypes, T!Plan
<1>2. Rows'
  BY <1>0, <1>ids, <1>stored, FreshRows DEF Rows, GoodRow
<1>3. FilesStay'
  BY <1>0 DEF FilesStay
<1>4. Phases' /\ StampedIsSettled'
  BY <1>0 DEF Phases, StampedIsSettled
<1>5. Cascade'
  <2>1. Settling' = {} /\ Waiting' = {}
    BY <1>0 DEF Settling, Waiting
  <2>2. ASSUME NEW n \in T!Tree' PROVE AsFound(n)'
    BY <1>0, <1>text, SameTree DEF AsFound
  <2> QED
    BY <2>1, <2>2 DEF Cascade
<1>6. PlanHolds'
  <2>1. KnownTexts' = T!StoredTexts
    BY <1>0, <1>ids DEF KnownTexts, T!StoredTexts
  <2>2. ASSUME NEW n \in T!Tree' \ sPlan' PROVE Unplanned(n)'
    <3>1. n \in T!Tree \ T!Plan
      BY <1>0, SameTree
    <3>2. /\ sStored[Id[n]].text # T!Empty
          /\ sStored[Id[n]].hash = T!Input(n, T!StoredTexts, FALSE)
          /\ T!Kids(n) \cap T!Plan = {}
      BY <3>1, PlanIsClosed
    <3> QED
      BY <1>0, <2>1, <3>2, SameTree DEF Unplanned
  <2> QED
    BY <1>0, <2>2 DEF PlanHolds, Waiting
<1>7. ASSUME OneOrder PROVE DueHolds'
  <2>1. ASSUME NEW n \in T!Tree' \ sDue' PROVE UpToDate(n)'
    <3>1. n \in T!Tree /\ UpToDate(n)
      BY <1>0, <1>7, <2>1, SameTree DEF DueHolds
    <3>2. T!Input(n, T!StoredTexts, FALSE)' = T!Input(n, T!StoredTexts, FALSE)
      BY <1>0, <1>text, KidsInTree, StoredInputStays
    <3> QED
      BY <1>text, <3>1, <3>2 DEF UpToDate
  <2> QED
    BY <1>0, <2>1 DEF DueHolds, Waiting
<1> QED
  BY <1>1, <1>2, <1>3, <1>4, <1>5, <1>6, <1>7

LEMMA HashLeavesKeeps ==
  ASSUME UniqueIds, TreeInv, T!HashLeaves
  PROVE TreeInv'
<1> USE DEF TreeInv, SettledInv
<1> DEFINE asked == {n \in T!Leaves : ~T!Reusable(n, T!Wanted(n))}
<1>0. /\ sPc = "leaves" /\ sPc' = "drain" /\ Summarizing /\ Summarizing'
      /\ sDraft' = T!Hashed(T!Leaves)
      /\ sAttempted' = T!ReusedLeaves /\ sQueue' = asked
      /\ UNCHANGED <<sSource, sStored, sStamped, sKnown, sPlan, sGen, sDue, sLoose,
                     sEdits, sFaults>>
  BY DEF T!HashLeaves, Summarizing
<1>1. Settling = {} /\ Waiting = {} /\ sGen = {} /\ sAttempted = {}
  BY <1>0 DEF Phases, Settling, Waiting
<1>2. T!ReusedLeaves = {n \in T!Leaves : T!Reusable(n, T!Wanted(n))}
  BY DEF T!ReusedLeaves
<1>3. Settling' = T!ReusedLeaves /\ Waiting' = asked
  BY <1>0, <1>1 DEF Settling, Waiting
<1>4. T!Leaves \subseteq T!Tree /\ \A n \in T!Leaves : T!Kids(n) = {}
  BY DEF T!Leaves, T!Containers
<1>5. Rows' /\ Cascade' /\ PlanHolds' /\ (OneOrder => DueHolds')
  <2>1. T!Leaves \in SUBSET (T!Tree \ (Settling \cup Waiting))
    BY <1>1, <1>4
  <2>2. \A n \in T!Leaves : T!Kids(n) \subseteq Settling
    BY <1>4
  <2>3. Settling' = Settling \cup T!ReusedLeaves
    BY <1>1, <1>3
  <2>4. Waiting' = Waiting \cup (T!Leaves \ T!ReusedLeaves)
    BY <1>1, <1>2, <1>3
  <2>5. sAttempted' \subseteq sAttempted \cup T!Leaves
    BY <1>0, <1>2
  <2>6. UNCHANGED <<sSource, sStored, sKnown, sPlan, sDue>>
    BY <1>0
  <2> HIDE DEF asked, TreeInv, SettledInv
  <2> QED
    BY <1>0, <1>2, <2>1, <2>2, <2>3, <2>4, <2>5, <2>6, HashingKeeps
<1>6. TreeTypes' /\ FilesStay'
  BY <1>0, <1>2, <1>4, SameTree DEF TreeTypes, FilesStay
<1>7. Phases'
  BY <1>0, <1>1, <1>2, SameTree DEF Phases
<1>8. StampedIsSettled'
  BY <1>0 DEF StampedIsSettled
<1> QED
  BY <1>5, <1>6, <1>7, <1>8

\* The drain finds every container below which nothing waits; when it finds none and
\* nothing is queued, there is none left.
LEMMA DrainKeeps ==
  ASSUME UniqueIds, TreeInv, T!Drain
  PROVE TreeInv'
<1> USE DEF TreeInv, SettledInv
<1> DEFINE ready == {n \in T!Containers : T!Ready(n)}
           reused == {n \in ready : T!Reusable(n, T!Wanted(n))}
<1>0. /\ sPc = "drain" /\ Summarizing /\ Summarizing'
      /\ sDraft' = T!Hashed(ready)
      /\ sAttempted' = sAttempted \cup ready
      /\ sGen' = ready \ reused
      /\ sPc' \in {"containers", "drain", "batch", "stamp"}
      /\ sPc' # "containers" => sGen' = {}
      /\ sPc' = "stamp" => ready = {} /\ sQueue = {}
      /\ UNCHANGED <<sSource, sStored, sStamped, sKnown, sPlan, sQueue, sDue, sLoose,
                     sEdits, sFaults>>
  BY DEF T!Drain, Summarizing
<1>1. sGen = {} /\ Settling = sAttempted /\ Waiting = sQueue
  BY <1>0 DEF Phases, Settling, Waiting
<1>2. ready \subseteq T!Containers /\ T!Containers \subseteq T!Tree
  BY DEF T!Containers
<1>3. ASSUME NEW n \in ready PROVE n \notin sAttempted /\ T!Kids(n) \subseteq Settling
  <2>1. n \notin sAttempted /\ \A c \in T!Kids(n) : T!Mapped(Id[c]) \in sAttempted
    BY DEF T!Ready
  <2> QED
    BY <2>1, <1>1, KidsInTree, MappedBack
<1>4. sQueue \subseteq T!Leaves \ sAttempted /\ T!Leaves \cap T!Containers = {}
  BY <1>0 DEF Phases, T!Leaves
<1>5. Settling' = Settling \cup reused /\ Waiting' = Waiting \cup (ready \ reused)
  BY <1>0, <1>1, <1>3 DEF Settling, Waiting
<1>6. Rows' /\ Cascade' /\ PlanHolds' /\ (OneOrder => DueHolds')
  <2>1. ready \in SUBSET (T!Tree \ (Settling \cup Waiting))
    BY <1>1, <1>2, <1>3, <1>4
  <2>2. UNCHANGED <<sSource, sStored, sKnown, sPlan, sDue>>
    BY <1>0
  <2>3. sAttempted' \subseteq sAttempted \cup ready
    BY <1>0
  <2> HIDE DEF ready, TreeInv, SettledInv
  <2> QED
    BY <1>0, <1>3, <1>5, <2>1, <2>2, <2>3, HashingKeeps
<1>7. TreeTypes' /\ FilesStay'
  BY <1>0, <1>2, SameTree DEF TreeTypes, FilesStay
<1>8. sPc' = "stamp" => sAttempted' = T!Tree
  <2> SUFFICES ASSUME sPc' = "stamp" PROVE T!Tree \subseteq sAttempted'
    BY <1>0, <1>2 DEF TreeTypes
  <2>1. ready = {} /\ sQueue = {} /\ T!Leaves \subseteq sAttempted /\ sAttempted' = sAttempted
    BY <1>0 DEF Phases
  <2> DEFINE left == T!Containers \ sAttempted
  <2>2. ASSUME left # {} PROVE FALSE
    <3>1. left \in SUBSET TreeNodes
      BY <1>2 DEF T!Tree
    <3>2. PICK n \in left : \A c \in left : Parent[c] # n
      BY <2>2, <3>1, TreeAssumption
    <3>3. ASSUME NEW c \in T!Kids(n) PROVE T!Mapped(Id[c]) \in sAttempted
      <4>1. c \in T!Tree /\ Parent[c] = n /\ T!Mapped(Id[c]) = c
        BY KidsInTree, MappedBack
      <4>2. c \in T!Leaves \/ c \in T!Containers
        BY <4>1 DEF T!Leaves
      <4> QED
        BY <2>1, <3>2, <4>1, <4>2
    <3>4. n \in ready
      BY <3>3 DEF T!Ready
    <3> QED
      BY <2>1, <3>4
  <2> QED
    BY <2>1, <2>2 DEF T!Leaves
<1>9. Phases'
  <2>1. sQueue \subseteq T!Leaves \ sAttempted'
    BY <1>0, <1>2, <1>4
  <2> QED
    BY <1>0, <1>8, <2>1, SameTree DEF Phases, Summarizing
<1>10. StampedIsSettled'
  BY <1>0 DEF StampedIsSettled
<1> QED
  BY <1>6, <1>7, <1>9, <1>10

LEMMA BatchIsPart == \A ns : T!Batch(ns) \subseteq ns
BY DEF T!Batch

LEMMA GenerateLeavesKeeps ==
  ASSUME UniqueIds, TreeInv, T!GenerateLeaves
  PROVE TreeInv'
<1> USE DEF TreeInv, SettledInv
<1> DEFINE batch == T!Batch(sQueue)
<1>0. /\ sPc = "batch" /\ sPc' = "drain" /\ Summarizing /\ Summarizing'
      /\ T!Generate(batch) /\ batch \subseteq sQueue
      /\ sAttempted' = sAttempted \cup batch /\ sQueue' = sQueue \ batch
      /\ UNCHANGED <<sSource, sStamped, sKnown, sPlan, sGen, sLoose, sEdits>>
  BY BatchIsPart DEF T!GenerateLeaves, Summarizing
<1> HIDE DEF batch
<1>1. sGen = {} /\ sQueue \subseteq T!Leaves \ sAttempted
  BY <1>0 DEF Phases
<1>2. /\ Rows' /\ Cascade' /\ PlanHolds' /\ (OneOrder => DueHolds')
      /\ sDue' \subseteq TreeNodes /\ sFaults' \in 0..TreeFaults
  <2>1. batch \in SUBSET Waiting
    BY <1>0 DEF Waiting
  <2>2. Settling' = Settling \cup batch /\ Waiting' = Waiting \ batch
    BY <1>0, <1>1 DEF Settling, Waiting
  <2>3. UNCHANGED <<sSource, sKnown, sPlan>> /\ sAttempted' \subseteq sAttempted \cup batch
    BY <1>0
  <2> HIDE DEF TreeInv, SettledInv
  <2> QED
    BY <1>0, <2>1, <2>2, <2>3, AnsweringKeeps
<1>3. TreeTypes' /\ FilesStay'
  BY <1>0, <1>2, SameTree DEF TreeTypes, FilesStay
<1>4. Phases'
  BY <1>0, <1>1, SameTree DEF Phases
<1>5. StampedIsSettled'
  BY <1>0 DEF StampedIsSettled
<1> QED
  BY <1>2, <1>3, <1>4, <1>5

LEMMA GenerateContainersKeeps ==
  ASSUME UniqueIds, TreeInv, T!GenerateContainers
  PROVE TreeInv'
<1> USE DEF TreeInv, SettledInv
<1> DEFINE batch == T!Batch(sGen)
<1>0. /\ sPc = "containers" /\ sPc' \in {"drain", "containers"}
      /\ Summarizing /\ Summarizing'
      /\ T!Generate(batch) /\ batch \subseteq sGen
      /\ sGen' = sGen \ batch /\ (sPc' = "drain" => sGen' = {})
      /\ UNCHANGED <<sSource, sStamped, sKnown, sPlan, sAttempted, sQueue, sLoose, sEdits>>
  BY BatchIsPart DEF T!GenerateContainers, Summarizing
<1> HIDE DEF batch
<1>1. sGen \subseteq sAttempted /\ sQueue \subseteq T!Leaves \ sAttempted
  BY <1>0 DEF Phases
<1>2. /\ Rows' /\ Cascade' /\ PlanHolds' /\ (OneOrder => DueHolds')
      /\ sDue' \subseteq TreeNodes /\ sFaults' \in 0..TreeFaults
  <2>1. batch \in SUBSET Waiting
    BY <1>0 DEF Waiting
  <2>2. Settling' = Settling \cup batch /\ Waiting' = Waiting \ batch
    BY <1>0, <1>1 DEF Settling, Waiting
  <2>3. UNCHANGED <<sSource, sKnown, sPlan>> /\ sAttempted' \subseteq sAttempted \cup batch
    BY <1>0
  <2> HIDE DEF TreeInv, SettledInv
  <2> QED
    BY <1>0, <2>1, <2>2, <2>3, AnsweringKeeps
<1>3. TreeTypes' /\ FilesStay'
  BY <1>0, <1>2, SameTree DEF TreeTypes, FilesStay
<1>4. Phases'
  BY <1>0, <1>1, SameTree DEF Phases
<1>5. StampedIsSettled'
  BY <1>0 DEF StampedIsSettled
<1> QED
  BY <1>2, <1>3, <1>4, <1>5

\* What the run holds for every node is what is stored, and the files are stamped.
LEMMA StampKeeps ==
  ASSUME UniqueIds, TreeInv, T!Stamp
  PROVE TreeInv'
<1> USE DEF TreeInv, SettledInv
<1>0. /\ sPc = "stamp" /\ Summarizing /\ T!Ended /\ sStamped' = TRUE
      /\ UNCHANGED <<sSource, sStored, sDue, sLoose, sEdits, sFaults>>
  BY DEF T!Stamp, Summarizing
<1>ids. T!Ids' = T!Ids /\ T!StoredTexts' = T!StoredTexts
  BY <1>0 DEF T!Ids, T!StoredTexts
<1>1. /\ sPc' = "idle" /\ ~Summarizing' /\ Phases' /\ Cascade' /\ PlanHolds'
      /\ sAttempted' = {} /\ sQueue' = {} /\ sGen' = {} /\ sPlan' = {}
  BY <1>0, EndedHoldsNothing
<1>2. TreeTypes' /\ FilesStay'
  BY <1>0, <1>1 DEF TreeTypes, FilesStay
<1>3. Rows'
  BY <1>0, <1>ids, EndedHoldsNothing DEF Rows, GoodRow
<1>4. StampedIsSettled'
  <2>1. Settling = T!Tree
    BY <1>0 DEF Phases, Settling
  <2>2. ASSUME NEW n \in T!Tree PROVE MadeFromBelow(n)
    <3>1. AsDrafted(n) /\ \A c \in T!Kids(n) : AsDrafted(c)
      BY <1>0, <2>1, KidsInTree DEF Cascade
    <3>2. T!Wanted(n) = T!Input(n, T!StoredTexts, FALSE)
      BY <3>1, WantedAsStored DEF AsDrafted
    <3> QED
      BY <3>1, <3>2 DEF AsDrafted, MadeFromBelow
  <2>3. ASSUME NEW n \in T!Tree' PROVE MadeFromBelow(n)'
    BY <1>0, <1>ids, <2>2, SameTree DEF MadeFromBelow
  <2> QED
    BY <2>3 DEF StampedIsSettled
<1>5. ASSUME OneOrder PROVE DueHolds'
  <2>1. ASSUME NEW n \in T!Tree' \ sDue' PROVE UpToDate(n)'
    BY <1>0, <1>5, <1>ids, SameTree DEF DueHolds, UpToDate
  <2> QED
    BY <1>1, <2>1 DEF DueHolds
<1> QED
  BY <1>1, <1>2, <1>3, <1>4, <1>5

LEMMA BeginRepairKeeps ==
  ASSUME UniqueIds, TreeInv, T!BeginRepair
  PROVE TreeInv'
<1> USE DEF TreeInv, SettledInv
<1>0. /\ sPc = "idle" /\ sPc' = "repair" /\ sStamped /\ ~Summarizing /\ ~Summarizing'
      /\ sKnown' = sStored /\ sPlan' = T!Missing /\ sAttempted' = {}
      /\ sQueue' = T!Missing \cap T!Leaves /\ sGen' = T!Missing \cap T!Containers
      /\ sDraft' = [n \in TreeNodes |-> T!Blank]
      /\ UNCHANGED <<sSource, sStored, sStamped, sDue, sLoose, sEdits, sFaults>>
  BY DEF T!BeginRepair, Summarizing
<1>ids. T!Ids' = T!Ids /\ T!StoredTexts' = T!StoredTexts
  BY <1>0 DEF T!Ids, T!StoredTexts
<1>1. T!Missing \subseteq T!Tree
  BY DEF T!Missing
<1>2. TreeTypes' /\ FilesStay'
  <2>1. sAttempted' \cup sQueue' \cup sGen' \cup sPlan' \subseteq T!Tree'
    BY <1>0, <1>1, SameTree
  <2> QED
    BY <1>0, <2>1 DEF TreeTypes, FilesStay
<1>3. Rows'
  BY <1>0, <1>ids, FreshRows DEF Rows, GoodRow
<1>4. Phases' /\ Cascade' /\ PlanHolds'
  BY <1>0 DEF Phases, Cascade, PlanHolds
<1>5. StampedIsSettled'
  <2>1. ASSUME NEW n \in T!Tree' \ sLoose' PROVE MadeFromBelow(n)'
    BY <1>0, <1>ids, SameTree DEF StampedIsSettled, MadeFromBelow
  <2> QED
    BY <2>1 DEF StampedIsSettled
<1>6. ASSUME OneOrder PROVE DueHolds'
  <2>1. ASSUME NEW n \in T!Tree' \ sDue' PROVE UpToDate(n)'
    BY <1>0, <1>6, <1>ids, SameTree DEF DueHolds, UpToDate
  <2> QED
    BY <1>0, <2>1 DEF DueHolds
<1> QED
  BY <1>2, <1>3, <1>4, <1>5, <1>6

LEMMA RoundIsPart == T!RepairRound \subseteq sQueue \cup sGen
BY DEF T!RepairRound

\* A repair fills in what is missing from the texts as they are; what contains it may
\* be left behind, and is due.
LEMMA RepairKeeps ==
  ASSUME UniqueIds, TreeInv, T!Repair
  PROVE TreeInv'
<1> USE DEF TreeInv, SettledInv
<1> DEFINE round == T!RepairRound
           row(n, a) == [text |-> a, hash |-> T!Input(n, T!StoredTexts, TRUE),
                         from |-> T!Input(n, T!StoredTexts, TRUE), here |-> TRUE]
<1>0. /\ sPc = "repair" /\ sStamped
      /\ IF sGen \subseteq round THEN T!Ended
         ELSE /\ sQueue' = {} /\ sGen' = sGen \ round
              /\ UNCHANGED <<sPc, sKnown, sPlan, sDraft, sAttempted>>
      /\ UNCHANGED <<sSource, sStamped, sEdits>>
  BY DEF T!Repair, Phases
<1>1. PICK failed \in SUBSET round : \E answer \in T!Answers(round, failed) :
        LET done == round \ failed
            written == [n \in round |-> row(n, answer[n])]
        IN /\ Cardinality(failed) <= TreeFaults - sFaults
           /\ sFaults' = sFaults + Cardinality(failed)
           /\ sStored' = [i \in T!Ids |-> IF \E n \in done : Id[n] = i
                                          THEN written[T!Mapped(i)] ELSE sStored[i]]
           /\ sDue' = (sDue \ done)
                        \cup UNION {T!Above[Parent[n]] :
                                      n \in {m \in done : answer[m] # sStored[Id[m]].text}}
           /\ sLoose' = (sLoose \ done) \cup UNION {T!Above[Parent[n]] : n \in done}
  BY TreeCardinality DEF T!Repair
<1> DEFINE done == round \ failed
<1>2. PICK answer \in T!Answers(round, failed) :
        /\ Cardinality(failed) <= TreeFaults - sFaults
        /\ sFaults' = sFaults + Cardinality(failed)
        /\ sStored' = [i \in T!Ids |-> IF \E n \in done : Id[n] = i
                                       THEN [n \in round |-> row(n, answer[n])][T!Mapped(i)]
                                       ELSE sStored[i]]
        /\ sDue' = (sDue \ done)
                     \cup UNION {T!Above[Parent[n]] :
                                   n \in {m \in done : answer[m] # sStored[Id[m]].text}}
        /\ sLoose' = (sLoose \ done) \cup UNION {T!Above[Parent[n]] : n \in done}
  BY <1>1
<1>types. /\ round \subseteq T!Tree /\ T!Tree \subseteq TreeNodes /\ done \subseteq TreeNodes
          /\ answer \in [round -> Texts] /\ T!Ids' = T!Ids
  BY RoundIsPart DEF TreeTypes, T!Tree, T!Answers, T!Ids
<1>row. \A n \in done : /\ GoodRow(row(n, answer[n])) /\ row(n, answer[n]).text = answer[n]
                        /\ row(n, answer[n]).hash = T!Input(n, T!StoredTexts, TRUE)
                        /\ answer[n] # T!Empty
  BY <1>types, FreshRows DEF GoodRow
<1> HIDE DEF row
<1>stored. \A n \in TreeNodes : sStored'[Id[n]] = IF n \in done THEN row(n, answer[n])
                                              ELSE sStored[Id[n]]
  <2> SUFFICES ASSUME NEW n \in TreeNodes
               PROVE sStored'[Id[n]] = IF n \in done THEN row(n, answer[n])
                                       ELSE sStored[Id[n]]
    OBVIOUS
  <2>1. Id[n] \in T!Ids
    BY DEF T!Ids
  <2>2. (\E m \in done : Id[m] = Id[n]) <=> n \in done
    BY <1>types DEF UniqueIds
  <2>3. n \in done => T!Mapped(Id[n]) = n /\ n \in round
    BY <1>types, MappedBack
  <2> QED
    BY <1>2, <2>1, <2>2, <2>3
<1>above. \A n \in done : T!Above[Parent[n]] \subseteq TreeNodes
  <2>1. ASSUME NEW n \in done PROVE T!Above[Parent[n]] \subseteq TreeNodes
    <3>1. Parent[n] \in TreeNodes \cup {0}
      BY <1>types, TreeAssumption
    <3> QED
      BY <3>1, AboveIsNodes
  <2> QED
    BY <2>1
<1>loose. /\ sLoose' \subseteq TreeNodes
          /\ \A n \in done : T!Above[Parent[n]] \subseteq sLoose'
          /\ sLoose \ done \subseteq sLoose'
  BY <1>2, <1>above DEF TreeTypes
<1>due. /\ sDue' \subseteq TreeNodes
        /\ \A n \in done : answer[n] # sStored[Id[n]].text => T!Above[Parent[n]] \subseteq sDue'
        /\ sDue \ done \subseteq sDue'
  <2> DEFINE changed == {m \in done : answer[m] # sStored[Id[m]].text}
  <2>1. sDue' = (sDue \ done) \cup UNION {T!Above[Parent[n]] : n \in changed}
    BY <1>2
  <2>2. \A n \in changed : n \in done
    OBVIOUS
  <2>3. \A n \in done : answer[n] # sStored[Id[n]].text => n \in changed
    OBVIOUS
  <2> HIDE DEF changed
  <2>4. /\ sDue' \subseteq TreeNodes /\ sDue \ done \subseteq sDue'
        /\ \A n \in changed : T!Above[Parent[n]] \subseteq sDue'
    BY <2>1, <2>2, <1>above DEF TreeTypes
  <2> QED
    BY <2>3, <2>4
<1>3. /\ Phases' /\ Cascade' /\ PlanHolds' /\ ~Summarizing'
      /\ sPc' \in {"idle", "repair"}
      /\ sAttempted' \cup sQueue' \cup sGen' \cup sPlan' \subseteq T!Tree
      /\ sKnown' = [i \in T!Ids |-> sKnown'[i]]
      /\ sDraft' = [n \in TreeNodes |-> sDraft'[n]]
      /\ \A i \in T!Ids : GoodRow(sKnown'[i])
      /\ \A n \in TreeNodes : GoodRow(sDraft'[n])
  <2>1. CASE sGen \subseteq round
    <3>1. T!Ended
      BY <1>0, <2>1
    <3> QED
      BY <3>1, EndedHoldsNothing
  <2>2. CASE ~ sGen \subseteq round
    <3>1. /\ sQueue' = {} /\ sGen' = sGen \ round
          /\ UNCHANGED <<sPc, sKnown, sPlan, sDraft, sAttempted>>
      BY <1>0, <2>2
    <3>2. sPc' = "repair" /\ ~Summarizing'
      BY <1>0, <3>1 DEF Summarizing
    <3>3. Phases' /\ Cascade' /\ PlanHolds'
      BY <1>0, <3>1, <3>2 DEF Phases, Cascade, PlanHolds
    <3>4. sAttempted' \cup sQueue' \cup sGen' \cup sPlan' \subseteq T!Tree
      BY <3>1 DEF TreeTypes
    <3> QED
      BY <3>1, <3>2, <3>3, <3>4 DEF Rows
  <2> QED
    BY <2>1, <2>2
<1>4. TreeTypes' /\ FilesStay'
  <2>1. sFaults' \in 0..TreeFaults
    <3>1. Cardinality(failed) \in Nat
      <4>1. failed \subseteq TreeNodes
        BY <1>types
      <4> QED
        BY <4>1, TreeAssumption, FS_Subset, FS_CardinalityType
    <3> QED
      BY <1>2, <3>1, TreeAssumption DEF TreeTypes
  <2> QED
    BY <1>0, <1>3, <1>loose, <1>due, <2>1, SameTree DEF TreeTypes, FilesStay
<1>5. Rows'
  <2>1. sStored' = [i \in T!Ids |-> sStored'[i]]
    BY <1>2
  <2>2. ASSUME NEW i \in T!Ids PROVE GoodRow(sStored'[i])
    <3>1. PICK n \in TreeNodes : i = Id[n]
      BY DEF T!Ids
    <3> QED
      BY <3>1, <1>stored, <1>row DEF Rows
  <2> QED
    BY <1>3, <1>types, <2>1, <2>2 DEF Rows, GoodRow
<1>6. StampedIsSettled'
  <2>1. ASSUME NEW n \in T!Tree' \ sLoose' PROVE MadeFromBelow(n)'
    <3>1. n \in T!Tree /\ n \in TreeNodes /\ n \notin sLoose'
      BY <1>0, <1>types, SameTree
    <3>2. ASSUME NEW c \in T!Kids(n) PROVE sStored'[Id[c]].text = sStored[Id[c]].text
      <4>1. c \in TreeNodes /\ Parent[c] = n
        BY KidsInTree
      <4>2. c \notin done
        BY <3>1, <4>1, <1>loose, AboveItself
      <4> QED
        BY <4>1, <4>2, <1>stored
    <3>3. \A listed : T!Input(n, T!StoredTexts, listed)' = T!Input(n, T!StoredTexts, listed)
      BY <1>0, <3>2, StoredInputStays
    <3>4. CASE n \in done
      <4>1. sStored'[Id[n]].hash = T!Input(n, T!StoredTexts, TRUE)'
        BY <3>1, <3>3, <3>4, <1>stored, <1>row
      <4> QED
        BY <4>1 DEF MadeFromBelow
    <3>5. CASE n \notin done
      <4>1. MadeFromBelow(n)
        BY <1>0, <3>1, <3>5, <1>loose DEF StampedIsSettled
      <4> QED
        BY <3>1, <3>3, <3>5, <4>1, <1>stored DEF MadeFromBelow
    <3> QED
      BY <3>4, <3>5
  <2> QED
    BY <2>1 DEF StampedIsSettled
<1>7. ASSUME OneOrder PROVE DueHolds'
  <2>1. ASSUME NEW n \in T!Tree' \ sDue' PROVE UpToDate(n)'
    <3>1. n \in T!Tree /\ n \in TreeNodes /\ n \notin sDue'
      BY <1>0, <1>types, SameTree, <2>1
    <3>2. ASSUME NEW c \in T!Kids(n) PROVE sStored'[Id[c]].text = sStored[Id[c]].text
      <4>1. c \in TreeNodes /\ Parent[c] = n
        BY KidsInTree
      <4>2. c \in done => answer[c] = sStored[Id[c]].text
        BY <3>1, <4>1, <1>due, AboveItself
      <4> QED
        BY <4>1, <4>2, <1>stored, <1>row
    <3>3. T!Input(n, T!StoredTexts, FALSE)' = T!Input(n, T!StoredTexts, FALSE)
      BY <1>0, <3>2, StoredInputStays
    <3>4. T!Input(n, T!StoredTexts, TRUE) = T!Input(n, T!StoredTexts, FALSE)
      BY <1>7 DEF T!Input, OneOrder
    <3>5. CASE n \in done
      BY <3>1, <3>3, <3>4, <3>5, <1>stored, <1>row DEF UpToDate
    <3>6. CASE n \notin done
      <4>1. UpToDate(n)
        BY <1>7, <3>1, <3>6, <1>due DEF DueHolds
      <4> QED
        BY <3>1, <3>3, <3>6, <4>1, <1>stored DEF UpToDate
    <3> QED
      BY <3>5, <3>6
  <2> QED
    BY <1>3, <2>1 DEF DueHolds
<1> QED
  BY <1>3, <1>4, <1>5, <1>6, <1>7

LEMMA CrashKeeps ==
  ASSUME UniqueIds, TreeInv, T!Crash
  PROVE TreeInv'
<1> USE DEF TreeInv, SettledInv
<1>0. /\ sPc # "idle" /\ T!Ended /\ sFaults < TreeFaults /\ sFaults' = sFaults + 1
      /\ UNCHANGED <<sSource, sStored, sStamped, sDue, sLoose, sEdits>>
  BY DEF T!Crash
<1>ids. T!Ids' = T!Ids /\ T!StoredTexts' = T!StoredTexts
  BY <1>0 DEF T!Ids, T!StoredTexts
<1>1. /\ sPc' = "idle" /\ ~Summarizing' /\ Phases' /\ Cascade' /\ PlanHolds'
      /\ sAttempted' = {} /\ sQueue' = {} /\ sGen' = {} /\ sPlan' = {}
  BY <1>0, EndedHoldsNothing
<1>2. TreeTypes' /\ FilesStay'
  <2>1. sFaults' \in 0..TreeFaults
    BY <1>0, TreeAssumption DEF TreeTypes
  <2> QED
    BY <1>0, <1>1, <2>1 DEF TreeTypes, FilesStay
<1>3. Rows'
  BY <1>0, <1>ids, EndedHoldsNothing DEF Rows, GoodRow
<1>4. StampedIsSettled'
  <2>1. ASSUME sStamped' PROVE sPc = "repair" /\ sStamped
    BY <1>0, <2>1 DEF Phases, Summarizing, TreeTypes
  <2>2. ASSUME sStamped', NEW n \in T!Tree' \ sLoose' PROVE MadeFromBelow(n)'
    BY <1>0, <1>ids, <2>1, <2>2, SameTree DEF StampedIsSettled, MadeFromBelow
  <2> QED
    BY <2>2 DEF StampedIsSettled
<1>5. ASSUME OneOrder PROVE DueHolds'
  <2>1. ASSUME NEW n \in T!Tree' \ sDue' PROVE UpToDate(n)'
    BY <1>0, <1>5, <1>ids, SameTree DEF DueHolds, UpToDate
  <2> QED
    BY <1>1, <2>1 DEF DueHolds
<1> QED
  BY <1>1, <1>2, <1>3, <1>4, <1>5

\* While another stage is under way, nothing of the tree moves.
LEMMA TreeStandsStill ==
  ASSUME UniqueIds, TreeInv, UNCHANGED summarizing
  PROVE TreeInv'
<1>1. UNCHANGED <<sSource, sStored, sStamped, sPc, sKnown, sPlan, sDraft, sAttempted,
                  sQueue, sGen, sDue, sLoose, sEdits, sFaults>>
  BY DEF summarizing
<1>2. /\ T!Ids' = T!Ids /\ T!StoredTexts' = T!StoredTexts /\ KnownTexts' = KnownTexts
      /\ Settling' = Settling /\ Waiting' = Waiting /\ (Summarizing' <=> Summarizing)
  BY <1>1 DEF T!Ids, T!StoredTexts, KnownTexts, Settling, Waiting, Summarizing
<1>3. \A n : T!Wanted(n)' = T!Wanted(n)
  BY <1>1, WantedStays
<1>4. TreeTypes' /\ FilesStay' /\ Phases' /\ Rows'
  BY <1>1, <1>2, SameTree
     DEF TreeInv, SettledInv, TreeTypes, FilesStay, Phases, Rows, GoodRow
<1>5. Cascade'
  BY <1>1, <1>2, <1>3, SameTree
     DEF TreeInv, SettledInv, Cascade, AsFound, AsDrafted, Asks
<1>6. StampedIsSettled'
  BY <1>1, <1>2, SameTree DEF TreeInv, SettledInv, StampedIsSettled, MadeFromBelow
<1>7. PlanHolds'
  <2>1. ASSUME Summarizing, NEW n \in T!Tree' \ sPlan' PROVE Unplanned(n)'
    <3>1. n \in T!Tree \ sPlan /\ Unplanned(n)
      BY <1>1, <2>1, SameTree DEF TreeInv, PlanHolds
    <3> QED
      BY <1>1, <1>2, <3>1, SameTree DEF Unplanned
  <2> QED
    BY <1>1, <1>2, <2>1 DEF TreeInv, PlanHolds
<1>8. OneOrder => DueHolds'
  BY <1>1, <1>2, SameTree DEF TreeInv, DueHolds, UpToDate
<1> QED
  BY <1>4, <1>5, <1>6, <1>7, <1>8 DEF TreeInv, SettledInv

LEMMA TreeStep ==
  ASSUME UniqueIds, TreeInv, [T!Next]_summarizing
  PROVE TreeInv'
<1>1. CASE \E n \in TreeNodes \ Dirs : \E v \in 0..MaxVersion : T!Edit(n, v)
  BY <1>1, EditKeeps
<1>2. CASE T!Begin
  BY <1>2, BeginKeeps
<1>3. CASE T!HashLeaves
  BY <1>3, HashLeavesKeeps
<1>4. CASE T!Drain
  BY <1>4, DrainKeeps
<1>5. CASE T!GenerateLeaves
  BY <1>5, GenerateLeavesKeeps
<1>6. CASE T!GenerateContainers
  BY <1>6, GenerateContainersKeeps
<1>7. CASE T!Stamp
  BY <1>7, StampKeeps
<1>8. CASE T!BeginRepair
  BY <1>8, BeginRepairKeeps
<1>9. CASE T!Repair
  BY <1>9, RepairKeeps
<1>10. CASE T!Crash
  BY <1>10, CrashKeeps
<1>11. CASE UNCHANGED summarizing
  BY <1>11, TreeStandsStill
<1> QED
  BY <1>1, <1>2, <1>3, <1>4, <1>5, <1>6, <1>7, <1>8, <1>9, <1>10, <1>11 DEF T!Next

\* The invariant of the summaries' stage holds throughout the pipeline.
THEOREM TreeInvariant ==
  UniqueIds => (PipelineSpec => [](stage = "summaries" => TreeInv))
<1> SUFFICES ASSUME UniqueIds
             PROVE PipelineSpec => [](stage = "summaries" => TreeInv)
  OBVIOUS
<1>1. PipelineInit => (stage = "summaries" => TreeInv)
  BY TreeInitially DEF PipelineInit
<1>2. (stage = "summaries" => TreeInv) /\ [PipelineNext]_<<stage, vars, others>>
        => (stage = "summaries" => TreeInv)'
  <2> SUFFICES ASSUME stage = "summaries" => TreeInv,
                      [PipelineNext]_<<stage, vars, others>>, stage' = "summaries"
               PROVE TreeInv'
    OBVIOUS
  <2>1. stage = "summaries" /\ [T!Next]_summarizing
    <3>1. CASE PipelineNext
      BY <3>1 DEF PipelineNext, StoringStep, ResolvingStep, ChunkingStep,
                  SummarizingStep, GatingStep
    <3>2. CASE UNCHANGED <<stage, vars, others>>
      BY <3>2 DEF others
    <3> QED
      BY <3>1, <3>2
  <2> QED
    BY <2>1, TreeStep
<1> QED
  BY <1>1, <1>2, PTL DEF PipelineSpec

LEMMA SettledFollows ==
  ASSUME UniqueIds, TreeInv
  PROVE T!TypeOK /\ T!Settled /\ T!NothingSkipped
<1> USE DEF TreeInv, SettledInv
<1>1. T!TypeOK
  <2>1. T!Tree \subseteq TreeNodes
    BY DEF T!Tree
  <2>2. \A i \in T!Ids : sStored[i].text \in Texts \cup {T!Empty}
    BY DEF Rows, GoodRow
  <2>3. sPc # "repair" => sQueue \subseteq T!Leaves \ sAttempted
    BY DEF Phases, Summarizing, TreeTypes
  <2> QED
    BY <2>1, <2>2, <2>3 DEF T!TypeOK, TreeTypes
<1>2. T!Settled
  <2> SUFFICES ASSUME sPc = "idle", sStamped, NEW n \in T!Tree \ sLoose,
                      sStored[Id[n]].text # T!Empty, sStored[Id[n]].hash # T!None
               PROVE /\ sStored[Id[n]].from = sStored[Id[n]].hash
                     /\ \E listed \in BOOLEAN :
                          sStored[Id[n]].hash = T!Input(n, T!StoredTexts, listed)
    BY DEF T!Settled
  <2>1. GoodRow(sStored[Id[n]])
    BY TreeIds DEF Rows
  <2>2. MadeFromBelow(n)
    BY DEF StampedIsSettled
  <2> QED
    BY <2>1, <2>2 DEF GoodRow, MadeFromBelow
<1>3. T!NothingSkipped
  BY DEF T!NothingSkipped, Phases
<1> QED
  BY <1>1, <1>2, <1>3

\* summarizer.py: whatever fails, dies or is answered, once the files are stamped every
\* summary that is not marked for a retry was made from the texts that are stored below
\* it, a repair's ancestors apart; and the drain leaves no node out.
THEOREM PipelineSettled == UniqueIds => (PipelineSpec => []Settled)
<1> SUFFICES ASSUME UniqueIds PROVE PipelineSpec => []Settled
  OBVIOUS
<1>1. (stage = "summaries" => TreeInv) => Settled
  BY SettledFollows DEF Settled
<1> QED
  BY <1>1, TreeInvariant, PTL

\* summarizer.py, _summary_gate: the LLM is asked about no node the gate did not count,
\* and about none whose entity, or something below it, was not edited, failed or given
\* a new text.
THEOREM PipelinePricedAndDue ==
  UniqueIds /\ OneOrder => (PipelineSpec => []PricedAndDue)
<1> SUFFICES ASSUME UniqueIds, OneOrder PROVE PipelineSpec => []PricedAndDue
  OBVIOUS
<1>1. (stage = "summaries" => TreeInv) => PricedAndDue
  BY DEF PricedAndDue, TreeInv, PlanHolds, DueHolds, Summarizing, Waiting,
         T!Priced, T!PaysForChangesOnly
<1> QED
  BY <1>1, TreeInvariant, PTL

-----------------------------------------------------------------------------
(* CostGate: what a total is.  The community modules' sum over a set is a  *)
(* recursive function on its subsets; what is known of it is proved from   *)
(* the smallest set that would be an exception.                            *)

First(s) == CHOOSE x \in s : TRUE

\* f gives every set of U that sum.
Sums(f, price, U) ==
  f = [s \in U |-> IF s = {} THEN 0 ELSE price[First(s)] + f[s \ {First(s)}]]

SumsOf(price, S) == CHOOSE f : Sums(f, price, SUBSET S)

LEMMA TotalIsTheSum == \A price, S : G!Total(price, S) = SumsOf(price, S)[S]
BY DEF G!Total, G!MapThenSumSet, G!MapThenFoldSet, SumsOf, Sums, First

LEMMA LeastNumber ==
  ASSUME NEW N, N \subseteq Nat, N # {}
  PROVE \E n \in N : \A m \in N : n <= m
<1>1. PICK n \in N : \A m \in N : ~ (<<m, n>> \in OpToRel(<,Nat))
  BY NatLessThanWellFounded, WFMin
<1>2. \A m \in N : ~ (m < n)
  BY <1>1 DEF OpToRel
<1> QED
  BY <1>2

\* A family of a finite set's subsets has a member that no smaller one takes an element
\* from.
LEMMA LeastSet ==
  ASSUME NEW S, IsFiniteSet(S), NEW F, F \subseteq SUBSET S, F # {}
  PROVE \E s \in F : \A x \in s : s \ {x} \notin F
<1>1. IsWellFoundedOn(StrictSubsetOrdering(S), SUBSET S)
  BY FS_StrictSubsetOrderingWellFounded, FS_FiniteSubsetsOfFinite
<1>2. PICK s \in F : \A r \in F : ~ (<<r, s>> \in StrictSubsetOrdering(S))
  BY <1>1, WFMin
<1>3. ASSUME NEW x \in s, s \ {x} \in F PROVE FALSE
  <2>1. <<s \ {x}, s>> \in StrictSubsetOrdering(S)
    BY <1>3 DEF StrictSubsetOrdering
  <2> QED
    BY <1>2, <1>3, <2>1
<1> QED
  BY <1>3

LEMMA FirstIsIn == \A s : s # {} => First(s) \in s
BY DEF First

\* The sums exist: of the sets of at most k elements for every k.
LEMMA SumsExist ==
  ASSUME NEW price, NEW S, IsFiniteSet(S)
  PROVE Sums(SumsOf(price, S), price, SUBSET S)
<1> DEFINE Small(k) == {s \in SUBSET S : Cardinality(s) <= k}
           Missing == {k \in Nat : ~ \E f : Sums(f, price, Small(k))}
<1>1. \A s \in SUBSET S : IsFiniteSet(s) /\ Cardinality(s) \in Nat
                          /\ Cardinality(s) <= Cardinality(S)
  BY FS_Subset, FS_CardinalityType
<1>2. Missing = {}
  <2> SUFFICES ASSUME Missing # {} PROVE FALSE
    OBVIOUS
  <2>1. PICK k \in Missing : \A m \in Missing : k <= m
    BY LeastNumber
  <2>2. k # 0
    <3>1. Small(0) = {{}}
      BY <1>1, FS_EmptySet
    <3>2. Sums([s \in {{}} |-> 0], price, {{}})
      BY DEF Sums
    <3> QED
      BY <2>1, <3>1, <3>2
  <2>3. k - 1 \in Nat /\ k - 1 \notin Missing
    <3>1. k \in Nat /\ k - 1 \in Nat /\ ~ (k <= k - 1)
      BY <2>1, <2>2
    <3> HIDE DEF Missing
    <3> QED
      BY <2>1, <3>1
  <2>4. PICK f : Sums(f, price, Small(k - 1))
    BY <2>3
  <2> DEFINE g == [s \in Small(k) |-> IF s = {} THEN 0
                                      ELSE price[First(s)] + f[s \ {First(s)}]]
  <2>5. ASSUME NEW s \in Small(k), s # {}
        PROVE s \ {First(s)} \in Small(k - 1) /\ s \ {First(s)} \in Small(k)
    <3>1. Cardinality(s \ {First(s)}) = Cardinality(s) - 1
      BY <1>1, <2>5, FirstIsIn, FS_RemoveElement
    <3> QED
      BY <1>1, <2>1, <3>1
  <2>6. \A s \in Small(k - 1) : s \in Small(k)
    BY <1>1, <2>1
  <2>7. \A s \in Small(k - 1) : f[s] = g[s]
    BY <2>4, <2>6 DEF Sums
  <2>8. g = [s \in Small(k) |-> IF s = {} THEN 0
                                ELSE price[First(s)] + g[s \ {First(s)}]]
    <3> HIDE DEF Small
    <3>1. \A s \in Small(k) : s # {} => f[s \ {First(s)}] = g[s \ {First(s)}]
      BY <2>5, <2>7
    <3> QED
      BY <3>1
  <2>9. Sums(g, price, Small(k))
    BY <2>8 DEF Sums
  <2> QED
    BY <2>1, <2>9
<1>3. Cardinality(S) \in Nat /\ Small(Cardinality(S)) = SUBSET S
  BY <1>1, FS_CardinalityType
<1>4. \E f : Sums(f, price, SUBSET S)
  BY <1>2, <1>3
<1> QED
  BY <1>4 DEF SumsOf

\* The sums of a set's subsets are those of the subset's own.
LEMMA SumsAgree ==
  ASSUME NEW price, NEW S, IsFiniteSet(S), NEW R \in SUBSET S
  PROVE SumsOf(price, S)[R] = G!Total(price, R)
<1> DEFINE f == SumsOf(price, S)
           g == SumsOf(price, R)
           Odd == {s \in SUBSET R : f[s] # g[s]}
<1>1. IsFiniteSet(R) /\ SUBSET R \subseteq SUBSET S
  BY FS_Subset
<1>2. Sums(f, price, SUBSET S) /\ Sums(g, price, SUBSET R)
  BY <1>1, SumsExist
<1>3. ASSUME NEW s \in Odd, \A x \in s : s \ {x} \notin Odd PROVE FALSE
  <2> HIDE DEF f, g
  <2>1. CASE s = {}
    BY <1>1, <1>2, <1>3, <2>1 DEF Sums
  <2>2. CASE s # {}
    <3>1. First(s) \in s /\ s \ {First(s)} \in SUBSET R /\ s \in SUBSET S
      BY <1>1, <2>2, FirstIsIn
    <3>2. f[s \ {First(s)}] = g[s \ {First(s)}]
      BY <1>3, <3>1
    <3>3. /\ f[s] = price[First(s)] + f[s \ {First(s)}]
          /\ g[s] = price[First(s)] + g[s \ {First(s)}]
      BY <1>2, <2>2, <3>1 DEF Sums
    <3> QED
      BY <1>3, <3>2, <3>3
  <2> QED
    BY <2>1, <2>2
<1>4. Odd = {}
  BY <1>1, <1>3, LeastSet
<1>5. R \in SUBSET R
  OBVIOUS
<1> QED
  BY <1>4, <1>5, TotalIsTheSum

LEMMA TotalUnfolds ==
  ASSUME NEW price, NEW S, IsFiniteSet(S)
  PROVE /\ G!Total(price, {}) = 0
        /\ S # {} => G!Total(price, S)
                       = price[First(S)] + G!Total(price, S \ {First(S)})
<1>1. /\ {} \in SUBSET S /\ S \in SUBSET S
      /\ S \ {First(S)} \in SUBSET S
  OBVIOUS
<1>2. Sums(SumsOf(price, S), price, SUBSET S)
  BY SumsExist
<1>3. /\ SumsOf(price, S)[{}] = G!Total(price, {})
      /\ SumsOf(price, S)[S] = G!Total(price, S)
      /\ SumsOf(price, S)[S \ {First(S)}] = G!Total(price, S \ {First(S)})
  BY <1>1, SumsAgree
<1>4. /\ SumsOf(price, S)[{}] = 0
      /\ S # {} => SumsOf(price, S)[S]
                     = price[First(S)] + SumsOf(price, S)[S \ {First(S)}]
  BY <1>1, <1>2 DEF Sums
<1> QED
  BY <1>3, <1>4

LEMMA TotalIsANumber ==
  ASSUME NEW S, IsFiniteSet(S), NEW price \in [S -> Nat]
  PROVE \A R \in SUBSET S : G!Total(price, R) \in Nat
<1> DEFINE Odd == {s \in SUBSET S : G!Total(price, s) \notin Nat}
<1>1. ASSUME NEW s \in Odd, \A x \in s : s \ {x} \notin Odd PROVE FALSE
  <2>1. IsFiniteSet(s)
    BY FS_Subset
  <2>2. s # {}
    <3>1. G!Total(price, {}) = 0
      BY <2>1, TotalUnfolds
    <3> QED
      BY <1>1, <3>1
  <2>3. First(s) \in s /\ G!Total(price, s) = price[First(s)] + G!Total(price, s \ {First(s)})
    BY <2>1, <2>2, FirstIsIn, TotalUnfolds
  <2>4. G!Total(price, s \ {First(s)}) \in Nat
    BY <1>1, <2>3
  <2>5. price[First(s)] \in Nat
    BY <2>3
  <2> QED
    BY <1>1, <2>3, <2>4, <2>5
<1> QED
  BY <1>1, LeastSet

\* Whatever is taken out first.
LEMMA TotalWithout ==
  ASSUME NEW S, IsFiniteSet(S), NEW price \in [S -> Nat]
  PROVE \A R \in SUBSET S : \A x \in R :
          G!Total(price, R) = price[x] + G!Total(price, R \ {x})
<1> DEFINE Odd == {s \in SUBSET S : \E x \in s :
                     G!Total(price, s) # price[x] + G!Total(price, s \ {x})}
<1>1. ASSUME NEW s \in Odd, \A x \in s : s \ {x} \notin Odd PROVE FALSE
  <2>1. PICK x \in s : G!Total(price, s) # price[x] + G!Total(price, s \ {x})
    OBVIOUS
  <2> DEFINE a == First(s)
  <2>2. IsFiniteSet(s) /\ a \in s
    BY FS_Subset, FirstIsIn
  <2>3. G!Total(price, s) = price[a] + G!Total(price, s \ {a})
    BY <2>2, TotalUnfolds
  <2>4. x # a
    BY <2>1, <2>3
  <2>5. /\ G!Total(price, s \ {a}) = price[x] + G!Total(price, (s \ {a}) \ {x})
    BY <1>1, <2>2, <2>4
  <2>6. /\ G!Total(price, s \ {x}) = price[a] + G!Total(price, (s \ {x}) \ {a})
    BY <1>1, <2>2, <2>4
  <2>7. (s \ {x}) \ {a} = (s \ {a}) \ {x} /\ (s \ {a}) \ {x} \in SUBSET S
    OBVIOUS
  <2>8. /\ G!Total(price, (s \ {a}) \ {x}) \in Nat
        /\ price[a] \in Nat /\ price[x] \in Nat
    BY <2>2, <2>7, TotalIsANumber
  <2> HIDE DEF a
  <2> QED
    BY <2>1, <2>3, <2>5, <2>6, <2>7, <2>8
<1> QED
  BY <1>1, LeastSet

LEMMA TotalGrows ==
  ASSUME NEW S, IsFiniteSet(S), NEW price \in [S -> Nat], NEW R \in SUBSET S
  PROVE \A Q \in SUBSET R : G!Total(price, Q) <= G!Total(price, R)
<1> SUFFICES ASSUME NEW Q \in SUBSET R, ~ G!Total(price, Q) <= G!Total(price, R)
             PROVE FALSE
  OBVIOUS
<1> DEFINE Odd == {s \in SUBSET S : Q \subseteq s
                                    /\ ~ G!Total(price, Q) <= G!Total(price, s)}
<1>1. ASSUME NEW s \in Odd, \A x \in s : s \ {x} \notin Odd PROVE FALSE
  <2>1. G!Total(price, s) \in Nat /\ G!Total(price, Q) \in Nat
    BY TotalIsANumber
  <2>2. PICK x \in s : x \notin Q
    BY <1>1, <2>1
  <2>3. G!Total(price, Q) <= G!Total(price, s \ {x})
    BY <1>1, <2>2
  <2>4. /\ G!Total(price, s) = price[x] + G!Total(price, s \ {x})
        /\ G!Total(price, s \ {x}) \in Nat /\ price[x] \in Nat
    BY TotalWithout, TotalIsANumber
  <2> QED
    BY <1>1, <2>1, <2>3, <2>4
<1>2. R \in Odd /\ Odd \subseteq SUBSET S
  OBVIOUS
<1> HIDE DEF Odd
<1> QED
  BY <1>1, <1>2, LeastSet

LEMMA TotalAddsUp ==
  ASSUME NEW S, IsFiniteSet(S), NEW price \in [S -> Nat],
         NEW Q \in SUBSET S, NEW R \in SUBSET S, Q \cap R = {}
  PROVE G!Total(price, Q \cup R) = G!Total(price, Q) + G!Total(price, R)
<1> DEFINE Odd == {s \in SUBSET R :
                     G!Total(price, Q \cup s) # G!Total(price, Q) + G!Total(price, s)}
<1>0. IsFiniteSet(R)
  BY FS_Subset
<1>1. ASSUME NEW s \in Odd, \A x \in s : s \ {x} \notin Odd PROVE FALSE
  <2>1. s # {}
    <3>1. G!Total(price, {}) = 0 /\ G!Total(price, Q) \in Nat /\ Q \cup {} = Q
      BY TotalUnfolds, TotalIsANumber
    <3> QED
      BY <1>1, <3>1
  <2>2. PICK x : x \in s
    BY <2>1
  <2>3. s \ {x} \in SUBSET R
        /\ G!Total(price, Q \cup (s \ {x})) = G!Total(price, Q) + G!Total(price, s \ {x})
    BY <1>1, <2>2
  <2>4. (Q \cup s) \ {x} = Q \cup (s \ {x})
    BY <2>2
  <2>5. /\ G!Total(price, s) = price[x] + G!Total(price, s \ {x})
        /\ G!Total(price, Q \cup s) = price[x] + G!Total(price, (Q \cup s) \ {x})
    BY <2>2, TotalWithout
  <2>6. /\ G!Total(price, s \ {x}) \in Nat /\ G!Total(price, Q) \in Nat
        /\ price[x] \in Nat
    BY <2>2, TotalIsANumber
  <2> QED
    BY <1>1, <2>3, <2>4, <2>5, <2>6
<1>2. Odd \subseteq SUBSET R
  OBVIOUS
<1>3. Odd = {}
  <2> HIDE DEF Odd
  <2> QED
    BY <1>0, <1>1, <1>2, LeastSet
<1> QED
  BY <1>3

-----------------------------------------------------------------------------
(* CostGate: the invariant.                                                *)

\* What a run that saw everything will embed.
Embedding == G!Changed \cup G!StaleChunks

GateTypes ==
  /\ gDisk \in [Priceable -> Nat \ {0}]
  /\ gReported \subseteq Priceable
  /\ gPc \in {"idle", "priced", "summarize", "embed"}
  /\ gRun = [kind |-> gRun.kind, cap |-> gRun.cap, chunkPrice |-> gRun.chunkPrice,
             todo |-> gRun.todo]
  /\ gRun.cap \in Nat /\ gRun.chunkPrice \in Nat /\ gSpent \in Nat
  /\ gRun.todo \subseteq Priceable \cup {"top"}
  /\ gPc = "priced" => gRun.kind # "repair"
  /\ gPc = "embed" => gRun.todo \subseteq Priceable
  /\ gBlind \in BOOLEAN

\* The price of the chunks covers what will be embedded, and the cap what is left to do.
Covered ==
  /\ gPc = "priced" => gSpent = 0
  /\ gPc \in {"priced", "summarize"} => G!Total(Size, Embedding) <= gRun.chunkPrice
  /\ gPc = "summarize" =>
       gSpent + SummaryPrice * Cardinality(gRun.todo) + gRun.chunkPrice <= gRun.cap
  /\ gPc = "embed" => gSpent + G!Total(Size, gRun.todo) <= gRun.cap
  /\ gPc = "idle" => gSpent <= gRun.cap

GateInv == GateTypes /\ (~gBlind /\ gRun.kind # "repair" => Covered)

LEMMA GateCardinality == \A S : G!Cardinality(S) = Cardinality(S)
BY DEF G!Cardinality, Cardinality

LEMMA WorkIsFinite ==
  \A S \in SUBSET (Priceable \cup {"top"}) : IsFiniteSet(S) /\ Cardinality(S) \in Nat
<1>1. IsFiniteSet(Priceable \cup {"top"})
  BY GateAssumption, FS_AddElement
<1> QED
  BY <1>1, FS_Subset, FS_CardinalityType

LEMMA SizesAreNumbers == \A S \in SUBSET Priceable : G!Total(Size, S) \in Nat
BY GateAssumption, TotalIsANumber

LEMMA EmbeddingIsPriceable == Embedding \subseteq Priceable
BY DEF Embedding, G!Changed, G!StaleChunks

LEMMA SpendingIsCovered ==
  ASSUME GateTypes, Covered
  PROVE gSpent <= gRun.cap
<1>1. CASE gPc \in {"idle", "priced"}
  BY <1>1 DEF GateTypes, Covered
<1>2. CASE gPc = "summarize"
  <2>1. Cardinality(gRun.todo) \in Nat
    BY WorkIsFinite DEF GateTypes
  <2>2. SummaryPrice * Cardinality(gRun.todo) \in Nat
    BY <2>1, GateAssumption
  <2>3. gSpent + SummaryPrice * Cardinality(gRun.todo) + gRun.chunkPrice <= gRun.cap
    BY <1>2 DEF Covered
  <2> QED
    BY <2>2, <2>3 DEF GateTypes
<1>3. CASE gPc = "embed"
  <2>1. G!Total(Size, gRun.todo) \in Nat
    BY <1>3, SizesAreNumbers DEF GateTypes
  <2> QED
    BY <1>3, <2>1 DEF GateTypes, Covered
<1> QED
  BY <1>1, <1>2, <1>3 DEF GateTypes

LEMMA GateInitially ==
  ASSUME G!Init
  PROVE GateInv
<1> USE DEF G!Init
<1>1. /\ gRun = [kind |-> "none", cap |-> Cap, chunkPrice |-> 0, todo |-> {}]
      /\ gRun.cap = Cap /\ gRun.chunkPrice = 0 /\ gRun.todo = {}
  BY DEF G!NoRun
<1>2. gDisk \in [Priceable -> Nat \ {0}]
  OBVIOUS
<1>3. GateTypes
  <2>1. gRun = [kind |-> gRun.kind, cap |-> gRun.cap, chunkPrice |-> gRun.chunkPrice,
                todo |-> gRun.todo]
    BY <1>1
  <2>2. gRun.cap \in Nat /\ gRun.chunkPrice \in Nat /\ gRun.todo \subseteq Priceable
    BY <1>1, GateAssumption
  <2> QED
    BY <1>2, <2>1, <2>2 DEF GateTypes
<1> QED
  BY <1>1, <1>3, GateAssumption DEF GateInv, Covered

\* While what the run is doing stays and the disk does not move under it, so does this.
LEMMA CoveredStays ==
  ASSUME Covered, UNCHANGED <<gRun, gSpent, gPc>>,
         gPc \in {"priced", "summarize"} => UNCHANGED <<gDisk, gKnown, gMarker, gFormat>>
  PROVE Covered'
<1>1. gPc \in {"priced", "summarize"} => Embedding' = Embedding
  BY DEF Embedding, G!Changed, G!StaleChunks
<1>2. gPc' = gPc /\ gRun' = gRun /\ gSpent' = gSpent
  OBVIOUS
<1> QED
  BY <1>1, <1>2 DEF Covered

LEMMA GateEditKeeps ==
  ASSUME GateInv, G!Edit
  PROVE GateInv'
<1> USE DEF G!Edit
<1>1. GateTypes'
  BY DEF GateInv, GateTypes
<1>2. ~gBlind' /\ gRun'.kind # "repair" => gPc = "idle" /\ Covered
  BY DEF GateInv, GateTypes
<1>3. ~gBlind' /\ gRun'.kind # "repair" => Covered'
  BY <1>2, CoveredStays
<1> QED
  BY <1>1, <1>3 DEF GateInv

LEMMA GateTouchKeeps ==
  ASSUME GateInv, G!Touch
  PROVE GateInv'
<1> USE DEF G!Touch
<1>1. GateTypes'
  BY DEF GateInv, GateTypes
<1>2. Covered => Covered'
  BY CoveredStays
<1> QED
  BY <1>1, <1>2 DEF GateInv

LEMMA GateUpgradeKeeps ==
  ASSUME GateInv, G!Upgrade
  PROVE GateInv'
<1> USE DEF G!Upgrade
<1>1. GateTypes'
  BY DEF GateInv, GateTypes
<1>2. Covered => Covered'
  BY CoveredStays
<1> QED
  BY <1>1, <1>2 DEF GateInv

\* _rechunk_backlog: the first gate counts every file whose chunks the run will cut, when
\* it is told of every file that changed.
LEMMA ChunkPriceCovers ==
  ASSUME NEW priced \in SUBSET Priceable
  PROVE /\ G!ChunkPrice(priced) \in Nat
        /\ G!Changed \subseteq priced => G!Total(Size, Embedding) <= G!ChunkPrice(priced)
<1>1. G!Backlog(priced) \in SUBSET Priceable /\ priced \cap G!Backlog(priced) = {}
  BY DEF G!Backlog, G!StaleChunks
<1>2. G!ChunkPrice(priced) = G!Total(Size, priced \cup G!Backlog(priced))
  BY <1>1, GateAssumption, TotalAddsUp DEF G!ChunkPrice
<1>3. priced \cup G!Backlog(priced) \in SUBSET Priceable
  BY <1>1
<1>4. G!Changed \subseteq priced => Embedding \in SUBSET (priced \cup G!Backlog(priced))
  BY DEF Embedding, G!Backlog
<1> QED
  BY <1>2, <1>3, <1>4, SizesAreNumbers, GateAssumption, TotalGrows

LEMMA GateGateKeeps ==
  ASSUME GateInv, G!Gate
  PROVE GateInv'
<1>1. PICK kind \in {"index", "force", "flush"}, cap \in Caps :
        /\ IF G!Estimate(G!Priced(kind)) > cap
             THEN gRun' = G!NoRun /\ gPc' = "idle" /\ gBlind' = FALSE
             ELSE /\ gRun' = [kind |-> kind, cap |-> cap,
                              chunkPrice |-> G!ChunkPrice(G!Priced(kind)), todo |-> {}]
                  /\ gPc' = "priced"
                  /\ gBlind' = (kind = "flush" /\ ~ G!Changed \subseteq gReported)
        /\ gReported' = IF kind = "flush" THEN {} ELSE gReported
  BY DEF G!Gate
<1>2. gSpent' = 0 /\ UNCHANGED <<gDisk, gFormat, gKnown, gMarker>>
  BY DEF G!Gate, G!stored
<1>3. Embedding' = Embedding
  BY <1>2 DEF Embedding, G!Changed, G!StaleChunks
<1>4. cap \in Nat
  BY GateAssumption
<1>5. CASE G!Estimate(G!Priced(kind)) > cap
  <2>1. /\ gRun' = [kind |-> "none", cap |-> Cap, chunkPrice |-> 0, todo |-> {}]
        /\ gPc' = "idle" /\ gBlind' = FALSE
        /\ gRun'.cap = Cap /\ gRun'.chunkPrice = 0 /\ gRun'.todo = {}
    BY <1>1, <1>5 DEF G!NoRun
  <2>2. GateTypes'
    BY <1>1, <1>2, <2>1, GateAssumption DEF GateInv, GateTypes
  <2>3. Covered'
    BY <1>2, <2>1, GateAssumption DEF Covered
  <2> QED
    BY <2>2, <2>3 DEF GateInv
<1>6. CASE ~ G!Estimate(G!Priced(kind)) > cap
  <2> DEFINE priced == G!Priced(kind)
  <2>1. priced \in SUBSET Priceable
    BY DEF GateInv, GateTypes, G!Priced, G!Changed
  <2>2. ~gBlind' => G!Changed \subseteq priced
    BY <1>1, <1>6 DEF G!Priced
  <2>3. /\ gRun' = [kind |-> kind, cap |-> cap, chunkPrice |-> G!ChunkPrice(priced),
                    todo |-> {}]
        /\ gPc' = "priced" /\ gBlind' \in BOOLEAN
    BY <1>1, <1>6
  <2> HIDE DEF priced
  <2>4. /\ gRun'.kind = kind /\ gRun'.cap = cap /\ gRun'.todo = {}
        /\ gRun'.chunkPrice = G!ChunkPrice(priced)
    BY <2>3
  <2>5. GateTypes'
    BY <1>1, <1>2, <1>4, <2>1, <2>3, <2>4, ChunkPriceCovers DEF GateInv, GateTypes
  <2>6. ~gBlind' => Covered'
    BY <1>2, <1>3, <2>1, <2>2, <2>3, <2>4, ChunkPriceCovers DEF Covered
  <2> QED
    BY <2>5, <2>6 DEF GateInv
<1> QED
  BY <1>5, <1>6

LEMMA GatePlanKeeps ==
  ASSUME GateInv, G!Plan
  PROVE GateInv'
<1>1. /\ gPc = "priced"
      /\ UNCHANGED <<gDisk, gFormat, gReported, gKnown, gMarker, gSpent, gBlind>>
  BY DEF G!Plan, G!stored
<1>2. Embedding' = Embedding
  BY <1>1 DEF Embedding, G!Changed, G!StaleChunks
<1>3. CASE G!Changed = {} /\ gRun.kind # "force"
  <2>1. gPc' = "summarize" /\ gRun' = [gRun EXCEPT !.kind = "repair", !.todo = G!Missing]
    BY <1>3 DEF G!Plan
  <2>2. /\ gRun' = [kind |-> "repair", cap |-> gRun.cap, chunkPrice |-> gRun.chunkPrice,
                    todo |-> G!Missing]
    BY <2>1 DEF GateInv, GateTypes
  <2>3. G!Missing \subseteq Priceable \cup {"top"}
    BY DEF G!Missing
  <2>4. /\ gRun'.kind = "repair" /\ gRun'.cap = gRun.cap
        /\ gRun'.chunkPrice = gRun.chunkPrice /\ gRun'.todo = G!Missing
    BY <2>2
  <2>5. GateTypes'
    BY <1>1, <2>1, <2>2, <2>3, <2>4 DEF GateInv, GateTypes
  <2> QED
    BY <2>4, <2>5 DEF GateInv
<1>4. CASE ~ (G!Changed = {} /\ gRun.kind # "force")
           /\ gRun.chunkPrice + G!PlanPrice > gRun.cap
  <2>1. /\ gRun' = [kind |-> "none", cap |-> Cap, chunkPrice |-> 0, todo |-> {}]
        /\ gPc' = "idle"
    BY <1>4 DEF G!Plan, G!NoRun
  <2>2. gRun'.kind = "none" /\ gRun'.cap = Cap /\ gRun'.chunkPrice = 0 /\ gRun'.todo = {}
    BY <2>1
  <2>3. GateTypes'
    BY <1>1, <2>1, <2>2, GateAssumption DEF GateInv, GateTypes
  <2>4. ~gBlind' => Covered'
    BY <1>1, <2>1, <2>2, GateAssumption DEF GateInv, GateTypes, Covered
  <2> QED
    BY <1>1, <2>3, <2>4 DEF GateInv
<1>5. CASE ~ (G!Changed = {} /\ gRun.kind # "force")
           /\ ~ (gRun.chunkPrice + G!PlanPrice > gRun.cap)
  <2>1. gPc' = "summarize" /\ gRun' = [gRun EXCEPT !.todo = G!Due]
    BY <1>5 DEF G!Plan
  <2>2. gRun' = [kind |-> gRun.kind, cap |-> gRun.cap, chunkPrice |-> gRun.chunkPrice,
                 todo |-> G!Due]
    BY <2>1 DEF GateInv, GateTypes
  <2>3. G!Due \subseteq Priceable \cup {"top"}
    BY DEF G!Due, G!DueLeaves
  <2>4. /\ gRun'.kind = gRun.kind /\ gRun'.cap = gRun.cap
        /\ gRun'.chunkPrice = gRun.chunkPrice /\ gRun'.todo = G!Due
    BY <2>2
  <2>5. GateTypes'
    BY <1>1, <2>1, <2>2, <2>3, <2>4 DEF GateInv, GateTypes
  <2>6. Cardinality(G!Due) \in Nat
    BY <2>3, WorkIsFinite
  <2>7. gRun.chunkPrice + SummaryPrice * Cardinality(G!Due) <= gRun.cap
    BY <1>5, <2>6, GateCardinality, GateAssumption DEF G!PlanPrice, GateInv, GateTypes
  <2>8. ~gBlind' /\ gRun'.kind # "repair" => Covered'
    BY <1>1, <1>2, <2>1, <2>4, <2>6, <2>7, GateAssumption DEF GateInv, GateTypes, Covered
  <2> QED
    BY <2>5, <2>8 DEF GateInv
<1> QED
  BY <1>3, <1>4, <1>5

LEMMA GateSummarizeKeeps ==
  ASSUME GateInv, G!Summarize
  PROVE GateInv'
<1>1. PICK n \in gRun.todo : G!Pay(n)
  BY DEF G!Summarize
<1>2. /\ gPc = "summarize" /\ gSpent' = gSpent + SummaryPrice
      /\ UNCHANGED <<gDisk, gFormat, gReported, gKnown, gMarker, gPc, gBlind>>
      /\ gRun' = [gRun EXCEPT !.todo = @ \ {n}]
  BY <1>1 DEF G!Summarize, G!Pay
<1>3. gRun' = [kind |-> gRun.kind, cap |-> gRun.cap, chunkPrice |-> gRun.chunkPrice,
               todo |-> gRun.todo \ {n}]
  BY <1>2 DEF GateInv, GateTypes
<1>4. /\ gRun'.kind = gRun.kind /\ gRun'.cap = gRun.cap
      /\ gRun'.chunkPrice = gRun.chunkPrice /\ gRun'.todo = gRun.todo \ {n}
  BY <1>3
<1>5. Embedding' = Embedding
  BY <1>2 DEF Embedding, G!Changed, G!StaleChunks
<1>6. GateTypes'
  BY <1>2, <1>3, <1>4, GateAssumption DEF GateInv, GateTypes
<1>7. ASSUME Covered PROVE Covered'
  <2> DEFINE c == Cardinality(gRun.todo)
  <2>1. c \in Nat /\ Cardinality(gRun.todo \ {n}) = c - 1
    BY <1>1, WorkIsFinite, FS_RemoveElement DEF GateInv, GateTypes
  <2>2. gSpent + SummaryPrice * c + gRun.chunkPrice <= gRun.cap
    BY <1>2, <1>7 DEF Covered
  <2>3. SummaryPrice * c = SummaryPrice * (c - 1) + SummaryPrice
    BY <2>1, GateAssumption
  <2>4. SummaryPrice * (c - 1) \in Int /\ SummaryPrice * c \in Int
    BY <2>1, GateAssumption
  <2>5. gSpent' + SummaryPrice * Cardinality(gRun'.todo) + gRun'.chunkPrice <= gRun'.cap
    <3> HIDE DEF c
    <3> QED
      BY <1>2, <1>4, <2>1, <2>2, <2>3, <2>4, GateAssumption DEF GateInv, GateTypes
  <2>6. G!Total(Size, Embedding)' <= gRun'.chunkPrice
    BY <1>2, <1>4, <1>5, <1>7 DEF Covered
  <2> QED
    BY <1>2, <2>5, <2>6 DEF Covered
<1> QED
  BY <1>2, <1>4, <1>6, <1>7 DEF GateInv

LEMMA GateStampKeeps ==
  ASSUME GateInv, G!Stamp
  PROVE GateInv'
<1> DEFINE next == IF gRun.kind = "repair" THEN G!StaleChunks ELSE G!ToEmbed
<1>1. /\ gPc = "summarize" /\ gRun.todo = {} /\ gPc' = "embed"
      /\ gRun' = [gRun EXCEPT !.todo = next]
      /\ UNCHANGED <<gDisk, gReported, gSpent, gBlind>>
  BY DEF G!Stamp
<1>2. gRun' = [kind |-> gRun.kind, cap |-> gRun.cap, chunkPrice |-> gRun.chunkPrice,
               todo |-> next]
  BY <1>1 DEF GateInv, GateTypes
<1>3. /\ gRun'.kind = gRun.kind /\ gRun'.cap = gRun.cap
      /\ gRun'.chunkPrice = gRun.chunkPrice /\ gRun'.todo = next
  BY <1>2
<1>4. next \subseteq Priceable
  BY DEF G!StaleChunks, G!ToEmbed
<1>5. GateTypes'
  <2> HIDE DEF next
  <2> QED
    BY <1>1, <1>2, <1>3, <1>4 DEF GateInv, GateTypes
<1>6. ASSUME Covered, gRun.kind # "repair" PROVE Covered'
  <2>1. next \in SUBSET Embedding
    BY <1>6 DEF G!ToEmbed, Embedding, G!Changed, G!StaleChunks, GateInv, GateTypes
  <2>2. Cardinality(gRun.todo) = 0
    BY <1>1, FS_EmptySet
  <2>3. gSpent + gRun.chunkPrice <= gRun.cap
    BY <1>1, <1>6, <2>2, GateAssumption DEF Covered, GateInv, GateTypes
  <2> HIDE DEF next
  <2>4. G!Total(Size, next) <= G!Total(Size, Embedding)
    BY <2>1, EmbeddingIsPriceable, GateAssumption, TotalGrows
  <2>5. G!Total(Size, next) \in Nat /\ G!Total(Size, Embedding) \in Nat
    BY <1>4, EmbeddingIsPriceable, SizesAreNumbers
  <2>6. gSpent + G!Total(Size, next) <= gRun.cap
    BY <1>1, <1>6, <2>3, <2>4, <2>5 DEF Covered, GateInv, GateTypes
  <2> QED
    BY <1>1, <1>3, <2>6 DEF Covered
<1> QED
  BY <1>1, <1>3, <1>5, <1>6 DEF GateInv

LEMMA GateEmbedKeeps ==
  ASSUME GateInv, G!Embed
  PROVE GateInv'
<1>1. PICK f \in gRun.todo : gSpent' = gSpent + Size[f]
                             /\ gRun' = [gRun EXCEPT !.todo = @ \ {f}]
  BY DEF G!Embed
<1>2. gPc = "embed" /\ UNCHANGED <<gDisk, gReported, gPc, gBlind>>
  BY DEF G!Embed
<1>3. gRun' = [kind |-> gRun.kind, cap |-> gRun.cap, chunkPrice |-> gRun.chunkPrice,
               todo |-> gRun.todo \ {f}]
  BY <1>1 DEF GateInv, GateTypes
<1>4. /\ gRun'.kind = gRun.kind /\ gRun'.cap = gRun.cap
      /\ gRun'.chunkPrice = gRun.chunkPrice /\ gRun'.todo = gRun.todo \ {f}
  BY <1>3
<1>5. gRun.todo \subseteq Priceable /\ Size[f] \in Nat
  BY <1>2, GateAssumption DEF GateInv, GateTypes
<1>6. GateTypes'
  <2>1. gRun' = [kind |-> gRun'.kind, cap |-> gRun'.cap,
                 chunkPrice |-> gRun'.chunkPrice, todo |-> gRun'.todo]
    BY <1>3, <1>4
  <2>2. gSpent' \in Nat
    BY <1>1, <1>5 DEF GateInv, GateTypes
  <2> QED
    BY <1>2, <1>4, <1>5, <2>1, <2>2 DEF GateInv, GateTypes
<1>7. ASSUME Covered PROVE Covered'
  <2>1. G!Total(Size, gRun.todo) = Size[f] + G!Total(Size, gRun.todo \ {f})
    BY <1>5, GateAssumption, TotalWithout
  <2>2. G!Total(Size, gRun.todo \ {f}) \in Nat
    BY <1>5, SizesAreNumbers
  <2>3. gSpent + G!Total(Size, gRun.todo) <= gRun.cap
    BY <1>2, <1>7 DEF Covered
  <2>4. gSpent' + G!Total(Size, gRun'.todo) <= gRun'.cap
    BY <1>1, <1>4, <1>5, <2>1, <2>2, <2>3 DEF GateInv, GateTypes
  <2> QED
    BY <1>2, <2>4 DEF Covered
<1> QED
  BY <1>2, <1>4, <1>6, <1>7 DEF GateInv

LEMMA GateFinishKeeps ==
  ASSUME GateInv, G!Finish
  PROVE GateInv'
<1>1. /\ gPc = "embed" /\ gRun.todo = {} /\ gPc' = "idle"
      /\ UNCHANGED <<gDisk, gReported, gRun, gSpent, gBlind>>
  BY DEF G!Finish
<1>2. G!Total(Size, {}) = 0
  BY FS_EmptySet, TotalUnfolds
<1> QED
  BY <1>1, <1>2 DEF GateInv, GateTypes, Covered

\* What a run that dies has spent was covered.
LEMMA GateDieKeeps ==
  ASSUME GateInv, G!Die
  PROVE GateInv'
<1>1. gPc' = "idle" /\ UNCHANGED <<gDisk, gReported, gRun, gSpent, gBlind>>
  BY DEF G!Die
<1>2. GateTypes'
  BY <1>1 DEF GateInv, GateTypes
<1>3. ASSUME Covered PROVE gSpent <= gRun.cap
  BY <1>3, SpendingIsCovered DEF GateInv
<1> QED
  BY <1>1, <1>2, <1>3 DEF GateInv, Covered

LEMMA GateStep ==
  ASSUME GateInv, [G!Next]_gating
  PROVE GateInv'
<1>1. CASE UNCHANGED gating
  <2>1. UNCHANGED <<gDisk, gFormat, gReported, gKnown, gMarker, gPc, gRun, gSpent, gBlind>>
    BY <1>1 DEF gating
  <2>2. GateTypes' /\ (Covered => Covered')
    BY <2>1, CoveredStays DEF GateInv, GateTypes
  <2> QED
    BY <2>1, <2>2 DEF GateInv
<1> QED
  BY <1>1, GateEditKeeps, GateTouchKeeps, GateUpgradeKeeps, GateGateKeeps, GatePlanKeeps,
     GateSummarizeKeeps, GateStampKeeps, GateEmbedKeeps, GateFinishKeeps, GateDieKeeps
     DEF G!Next

\* The invariant of the gates' stage holds throughout the pipeline.
THEOREM GateInvariant == PipelineSpec => [](stage = "gates" => GateInv)
<1>1. PipelineInit => (stage = "gates" => GateInv)
  BY GateInitially DEF PipelineInit
<1>2. (stage = "gates" => GateInv) /\ [PipelineNext]_<<stage, vars, others>>
        => (stage = "gates" => GateInv)'
  <2> SUFFICES ASSUME stage = "gates" => GateInv,
                      [PipelineNext]_<<stage, vars, others>>, stage' = "gates"
               PROVE GateInv'
    OBVIOUS
  <2>1. stage = "gates" /\ [G!Next]_gating
    <3>1. CASE PipelineNext
      BY <3>1 DEF PipelineNext, StoringStep, ResolvingStep, ChunkingStep,
                  SummarizingStep, GatingStep
    <3>2. CASE UNCHANGED <<stage, vars, others>>
      BY <3>2 DEF others
    <3> QED
      BY <3>1, <3>2
  <2> QED
    BY <2>1, GateStep
<1> QED
  BY <1>1, <1>2, PTL DEF PipelineSpec

\* project_manager.py, the gates: whatever the files cost, whatever the caps, and whatever
\* an upgrade, a failed summary or a run that died has left to do, a run that saw what it
\* would pay for never spends more than its cap.
THEOREM PipelineWithinCap == PipelineSpec => []WithinCap
<1>1. (stage = "gates" => GateInv) => WithinCap
  BY SpendingIsCovered DEF WithinCap, G!WithinCap, GateInv
<1> QED
  BY <1>1, GateInvariant, PTL

-----------------------------------------------------------------------------
(* Chunks: the recursive definitions.  Each of them is a function that     *)
(* refers to itself at an argument nearer to the end; that there is one is *)
(* shown by the least distance at which there would be none.               *)

LEMMA MaxOfTwo ==
  \A a, b \in Int : K!Max({a, b}) = IF a >= b THEN a ELSE b
BY DEF K!Max

LEMMA MinOfTwo ==
  \A a, b \in Int : K!Min({a, b}) = IF a <= b THEN a ELSE b
BY DEF K!Min

\* A chain of pieces over an interval: at each place a piece, and unless it is the last
\* the chain from the place after it.
Chain(f, lo, hi, piece, after, last) ==
  f = [c \in lo..hi |-> <<piece[c]>> \o (IF c \in last THEN <<>> ELSE f[after[c]])]

GoesOn(lo, hi, after, last) ==
  \A c \in (lo..hi) \ last : after[c] \in (c + 1)..hi

LEMMA ChainExists ==
  ASSUME NEW lo \in Int, NEW hi \in Int, NEW piece, NEW after, NEW last,
         GoesOn(lo, hi, after, last)
  PROVE \E f : Chain(f, lo, hi, piece, after, last)
<1> DEFINE From(k) == {c \in lo..hi : hi - c < k}
           Upto(f, U) == f = [c \in U |-> <<piece[c]>> \o
                                (IF c \in last THEN <<>> ELSE f[after[c]])]
           Missing == {k \in Nat : ~ \E f : Upto(f, From(k))}
<1>1. Missing = {}
  <2> SUFFICES ASSUME Missing # {} PROVE FALSE
    OBVIOUS
  <2>1. PICK k \in Missing : \A m \in Missing : k <= m
    BY LeastNumber
  <2>2. k # 0
    <3>1. From(0) = {}
      OBVIOUS
    <3>2. Upto([c \in {} |-> 0], {})
      OBVIOUS
    <3> HIDE DEF Upto, From
    <3> QED
      BY <2>1, <3>1, <3>2
  <2>3. k - 1 \in Nat /\ k - 1 \notin Missing
    <3>1. k \in Nat /\ k - 1 \in Nat /\ ~ (k <= k - 1)
      BY <2>1, <2>2
    <3> HIDE DEF Missing
    <3> QED
      BY <2>1, <3>1
  <2>4. PICK f : Upto(f, From(k - 1))
    BY <2>3
  <2> DEFINE g == [c \in From(k) |-> <<piece[c]>> \o
                                       (IF c \in last THEN <<>> ELSE f[after[c]])]
  <2>5. \A c \in From(k) : c \notin last =>
          after[c] \in From(k - 1) /\ after[c] \in From(k)
    BY <2>1, <2>3 DEF GoesOn
  <2>6. \A c \in From(k - 1) : c \in From(k)
    BY <2>1, <2>3
  <2>7. \A c \in From(k - 1) : f[c] = g[c]
    <3> HIDE DEF From
    <3> QED
      BY <2>4, <2>6
  <2>8. Upto(g, From(k))
    <3> HIDE DEF From
    <3> QED
      BY <2>5, <2>7
  <2> HIDE DEF Upto, From, g
  <2> QED
    BY <2>1, <2>8
<1>2. hi - lo + 1 \in Nat => From(hi - lo + 1) = lo..hi
  OBVIOUS
<1>3. ~ (hi - lo + 1 \in Nat) => From(0) = lo..hi
  OBVIOUS
<1>4. \E f : Upto(f, lo..hi)
  <2> HIDE DEF From, Upto
  <2> QED
    BY <1>1, <1>2, <1>3
<1> QED
  BY <1>4 DEF Chain

\* Every piece of a chain is that of a place in the interval.
LEMMA ChainPieces ==
  ASSUME NEW lo \in Int, NEW hi \in Int, NEW piece, NEW after, NEW last, NEW f,
         GoesOn(lo, hi, after, last), Chain(f, lo, hi, piece, after, last),
         NEW P, \A c \in lo..hi : piece[c] \in P
  PROVE \A c \in lo..hi : f[c] \in Seq(P)
<1> DEFINE Odd == {k \in Nat : \E c \in lo..hi : hi - c = k /\ f[c] \notin Seq(P)}
<1>1. ASSUME NEW k \in Odd, \A m \in Odd : k <= m PROVE FALSE
  <2>1. PICK c \in lo..hi : hi - c = k /\ f[c] \notin Seq(P)
    OBVIOUS
  <2>2. f[c] = <<piece[c]>> \o (IF c \in last THEN <<>> ELSE f[after[c]])
    BY DEF Chain
  <2>3. c \notin last => f[after[c]] \in Seq(P)
    <3> SUFFICES ASSUME c \notin last, f[after[c]] \notin Seq(P) PROVE FALSE
      OBVIOUS
    <3>1. after[c] \in (c + 1)..hi
      BY DEF GoesOn
    <3>2. hi - after[c] \in Odd /\ ~ (k <= hi - after[c])
      BY <2>1, <3>1
    <3> QED
      BY <1>1, <3>2
  <2>4. <<piece[c]>> \in Seq(P)
    OBVIOUS
  <2> QED
    BY <2>1, <2>2, <2>3, <2>4
<1>2. Odd \subseteq Nat
  OBVIOUS
<1>3. Odd = {}
  <2> HIDE DEF Odd
  <2> QED
    BY <1>1, <1>2, LeastNumber
<1>4. \A c \in lo..hi : hi - c \in Nat
  OBVIOUS
<1> QED
  BY <1>3, <1>4

LEMMA AfterTheFirst ==
  ASSUME NEW S, NEW x \in S, NEW t \in Seq(S), NEW m \in 1..Len(t)
  PROVE m + 1 \in 1..Len(<<x>> \o t) /\ (<<x>> \o t)[m + 1] = t[m]
<1>1. Len(<<x>> \o t) = Len(t) + 1
  OBVIOUS
<1>2. (<<x>> \o t)[m + 1] = t[m]
  OBVIOUS
<1>3. Len(t) \in Nat
  OBVIOUS
<1> QED
  BY <1>1, <1>2, <1>3

\* A passage that begins in a chain's reach is in one of its pieces, if no piece ends
\* within it without the next one beginning before it.
Overlapping(lo, hi, piece, after, last, i, j) ==
  /\ \A c \in lo..hi : piece[c] \in Int \X Int
  /\ \A c \in lo..hi : piece[c][1] <= i =>
       \/ j <= piece[c][2]
       \/ c \notin last /\ piece[after[c]][1] <= i

LEMMA ChainCovers ==
  ASSUME NEW lo \in Int, NEW hi \in Int, NEW piece, NEW after, NEW last, NEW f,
         GoesOn(lo, hi, after, last), Chain(f, lo, hi, piece, after, last),
         NEW i \in Int, NEW j \in Int, Overlapping(lo, hi, piece, after, last, i, j)
  PROVE \A c \in lo..hi : piece[c][1] <= i =>
          \E k \in 1..Len(f[c]) : f[c][k][1] <= i /\ j <= f[c][k][2]
<1> DEFINE Within(s) == \E k \in 1..Len(s) : s[k][1] <= i /\ j <= s[k][2]
           Odd == {k \in Nat : \E c \in lo..hi :
                     hi - c = k /\ piece[c][1] <= i /\ ~Within(f[c])}
<1>0. \A c \in lo..hi : f[c] \in Seq(Int \X Int)
  BY ChainPieces DEF Overlapping
<1>a. \A c \in lo..hi : piece[c] \in Int \X Int
  BY DEF Overlapping
<1>b. \A c \in lo..hi : piece[c][1] <= i =>
        \/ j <= piece[c][2]
        \/ c \notin last /\ piece[after[c]][1] <= i
  BY DEF Overlapping
<1>1. ASSUME NEW k \in Odd, \A m \in Odd : k <= m PROVE FALSE
  <2>1. PICK c \in lo..hi : hi - c = k /\ piece[c][1] <= i /\ ~Within(f[c])
    OBVIOUS
  <2>2. f[c] = <<piece[c]>> \o (IF c \in last THEN <<>> ELSE f[after[c]])
    BY DEF Chain
  <2>3. CASE j <= piece[c][2]
    <3>1. 1 \in 1..Len(f[c]) /\ f[c][1] = piece[c]
      <4>1. CASE c \in last
        BY <2>2, <4>1
      <4>2. CASE c \notin last
        <5>1. f[after[c]] \in Seq(Int \X Int)
          BY <1>0, <4>2 DEF GoesOn
        <5> QED
          BY <2>2, <4>2, <5>1
      <4> QED
        BY <4>1, <4>2
    <3> QED
      BY <2>1, <2>3, <3>1
  <2>4. CASE c \notin last /\ piece[after[c]][1] <= i
    <3>1. after[c] \in (c + 1)..hi
      BY <2>4 DEF GoesOn
    <3>2. ~ (hi - after[c] \in Odd)
      <4>1. ~ (k <= hi - after[c])
        BY <2>1, <3>1
      <4> HIDE DEF Odd
      <4> QED
        BY <1>1, <4>1
    <3>3. Within(f[after[c]])
      <4>1. after[c] \in lo..hi /\ hi - after[c] \in Nat
        BY <2>1, <3>1
      <4> HIDE DEF Within
      <4> QED
        BY <2>4, <3>2, <4>1
    <3>4. PICK m \in 1..Len(f[after[c]]) :
            f[after[c]][m][1] <= i /\ j <= f[after[c]][m][2]
      BY <3>3
    <3>5. f[after[c]] \in Seq(Int \X Int)
      BY <1>0, <3>1
    <3>6. m + 1 \in 1..Len(f[c]) /\ f[c][m + 1] = f[after[c]][m]
      <4>1. f[c] = <<piece[c]>> \o f[after[c]] /\ piece[c] \in Int \X Int
        BY <1>a, <2>2, <2>4
      <4>2. /\ m + 1 \in 1..Len(<<piece[c]>> \o f[after[c]])
            /\ (<<piece[c]>> \o f[after[c]])[m + 1] = f[after[c]][m]
        <5> DEFINE x == piece[c]
                   t == f[after[c]]
                   P == Int \X Int
        <5>1. x \in P /\ t \in Seq(P) /\ m \in 1..Len(t)
          BY <3>4, <3>5, <4>1
        <5> HIDE DEF x, t, P
        <5>2. m + 1 \in 1..Len(<<x>> \o t) /\ (<<x>> \o t)[m + 1] = t[m]
          BY <5>1, AfterTheFirst
        <5> QED
          BY <5>2 DEF x, t
      <4> QED
        BY <4>1, <4>2
    <3> QED
      BY <2>1, <3>4, <3>6
  <2> QED
    BY <1>b, <2>1, <2>3, <2>4
<1>2. Odd \subseteq Nat
  OBVIOUS
<1>3. Odd = {}
  <2> HIDE DEF Odd
  <2> QED
    BY <1>1, <1>2, LeastNumber
<1>4. \A c \in lo..hi : hi - c \in Nat
  OBVIOUS
<1> QED
  BY <1>3, <1>4

-----------------------------------------------------------------------------
(* Chunks: windows, spans, lists and requests.                             *)

EndOfWindow(c, stop) == K!Min({c + BodyLines - 1, stop})

IsWindows(f, start, stop) ==
  f = [c \in start..stop |->
         <<<<c, EndOfWindow(c, stop)>>>> \o
           (IF EndOfWindow(c, stop) = stop THEN <<>>
            ELSE f[K!NextWindow(c, EndOfWindow(c, stop))])]

LEMMA WindowsUnfold ==
  \A first, last, total :
    K!Windows(first, last, total) =
      LET start == K!Max({first, 1})
          stop == K!Min({last, total})
      IN IF start <= stop THEN (CHOOSE f : IsWindows(f, start, stop))[start] ELSE <<>>
BY DEF K!Windows, IsWindows, EndOfWindow

\* _body_windows: a passage of a body no longer than the overlap and a line is in one of
\* the windows, and no window reaches out of the file.
InTheBody(first, last, total, i, j) ==
  first <= i /\ i <= j /\ j <= last /\ j <= total /\ j <= i + BodyOverlap

LEMMA WindowsCover ==
  ASSUME NEW first \in Nat, NEW last \in Nat, NEW total \in Nat
  PROVE /\ K!Windows(first, last, total) \in Seq((1..total) \X (1..total))
        /\ \A i \in Nat \ {0}, j \in Nat : InTheBody(first, last, total, i, j) =>
             \E k \in 1..Len(K!Windows(first, last, total)) :
               /\ K!Windows(first, last, total)[k][1] <= i
               /\ j <= K!Windows(first, last, total)[k][2]
<1> DEFINE start == IF first >= 1 THEN first ELSE 1
           stop == IF last <= total THEN last ELSE total
           end == [c \in start..stop |-> IF c + BodyLines - 1 <= stop THEN c + BodyLines - 1
                                         ELSE stop]
           piece == [c \in start..stop |-> <<c, end[c]>>]
           after == [c \in start..stop |-> IF end[c] - BodyOverlap + 1 >= c + 1
                                           THEN end[c] - BodyOverlap + 1 ELSE c + 1]
           final == {c \in start..stop : end[c] = stop}
<1>1. /\ start \in Nat \ {0} /\ stop \in 0..total
      /\ K!Max({first, 1}) = start /\ K!Min({last, total}) = stop
      /\ \A i \in Nat \ {0}, j \in Nat : InTheBody(first, last, total, i, j) =>
           start <= i /\ i <= j /\ j <= stop
  BY MaxOfTwo, MinOfTwo DEF InTheBody
<1>a. \A c \in start..stop :
        /\ end[c] = IF c + BodyLines - 1 <= stop THEN c + BodyLines - 1 ELSE stop
        /\ piece[c] = <<c, end[c]>>
        /\ after[c] = IF end[c] - BodyOverlap + 1 >= c + 1
                      THEN end[c] - BodyOverlap + 1 ELSE c + 1
        /\ c \in final <=> end[c] = stop
  <2> HIDE DEF start, stop
  <2> QED
    OBVIOUS
<1> HIDE DEF start, stop, end, piece, after, final
<1>0. CASE ~ (start <= stop)
  <2>1. K!Windows(first, last, total) = <<>>
    BY <1>0, <1>1, WindowsUnfold
  <2>2. \A i \in Nat \ {0}, j \in Nat : ~ InTheBody(first, last, total, i, j)
    BY <1>0, <1>1
  <2> QED
    BY <2>1, <2>2
<1> SUFFICES ASSUME start <= stop
             PROVE /\ K!Windows(first, last, total) \in Seq((1..total) \X (1..total))
                   /\ \A i \in Nat \ {0}, j \in Nat : InTheBody(first, last, total, i, j) =>
                        \E k \in 1..Len(K!Windows(first, last, total)) :
                          /\ K!Windows(first, last, total)[k][1] <= i
                          /\ j <= K!Windows(first, last, total)[k][2]
  BY <1>0
<1>b. start \in Int /\ stop \in Int /\ start \in start..stop
  BY <1>1
<1>2. BodyLines \in Nat /\ BodyOverlap \in Nat /\ BodyOverlap < BodyLines
  BY ChunkAssumption
<1>3. \A c \in start..stop : /\ end[c] \in c..stop
                             /\ EndOfWindow(c, stop) = end[c]
                             /\ K!NextWindow(c, EndOfWindow(c, stop)) = after[c]
  <2> SUFFICES ASSUME NEW c \in start..stop
               PROVE /\ end[c] \in c..stop
                     /\ EndOfWindow(c, stop) = end[c]
                     /\ K!NextWindow(c, EndOfWindow(c, stop)) = after[c]
    OBVIOUS
  <2>1. end[c] \in c..stop
    BY <1>2, <1>a, <1>b
  <2>2. EndOfWindow(c, stop) = end[c]
    BY <1>2, <1>a, <1>b, MinOfTwo DEF EndOfWindow
  <2>3. K!NextWindow(c, end[c]) = after[c]
    BY <1>2, <1>a, <1>b, <2>1, MaxOfTwo DEF K!NextWindow
  <2> QED
    BY <2>1, <2>2, <2>3
<1>4. GoesOn(start, stop, after, final)
  BY <1>2, <1>3, <1>a, <1>b DEF GoesOn
<1>5. \A f : IsWindows(f, start, stop) <=> Chain(f, start, stop, piece, after, final)
  <2>1. \A c \in start..stop : piece[c] = <<c, EndOfWindow(c, stop)>>
                               /\ (c \in final <=> EndOfWindow(c, stop) = stop)
    BY <1>3, <1>a
  <2>2. \A f : [c \in start..stop |->
                 <<<<c, EndOfWindow(c, stop)>>>> \o
                   (IF EndOfWindow(c, stop) = stop THEN <<>>
                    ELSE f[K!NextWindow(c, EndOfWindow(c, stop))])]
               = [c \in start..stop |-> <<piece[c]>> \o (IF c \in final THEN <<>>
                                                         ELSE f[after[c]])]
    BY <1>3, <2>1
  <2> QED
    BY <2>2 DEF IsWindows, Chain
<1> DEFINE f == CHOOSE f : IsWindows(f, start, stop)
<1>6. Chain(f, start, stop, piece, after, final)
  <2>1. \E g : IsWindows(g, start, stop)
    BY <1>4, <1>5, <1>b, ChainExists
  <2> QED
    BY <1>5, <2>1
<1>7. K!Windows(first, last, total) = f[start]
  BY <1>1, WindowsUnfold DEF f
<1> HIDE DEF f
<1>8. \A c \in start..stop : piece[c] \in (1..total) \X (1..total)
                             /\ piece[c][1] = c /\ piece[c][2] = end[c]
  <2> SUFFICES ASSUME NEW c \in start..stop
               PROVE piece[c] \in (1..total) \X (1..total)
                     /\ piece[c][1] = c /\ piece[c][2] = end[c]
    OBVIOUS
  <2>1. c \in 1..total /\ end[c] \in 1..total
    BY <1>1, <1>3
  <2>2. piece[c] = <<c, end[c]>>
    BY <1>a
  <2> HIDE DEF EndOfWindow
  <2> QED
    BY <2>1, <2>2
<1>9. \A c \in start..stop : piece[c] \in Int \X Int
  BY <1>8
<1>10. ASSUME NEW i \in Nat \ {0}, NEW j \in Nat, InTheBody(first, last, total, i, j)
       PROVE \E k \in 1..Len(f[start]) : f[start][k][1] <= i /\ j <= f[start][k][2]
  <2>0. start <= i /\ i <= j /\ j <= stop /\ j <= i + BodyOverlap
    BY <1>1, <1>10 DEF InTheBody
  <2>1. ASSUME NEW c \in start..stop, c <= i, ~ (j <= end[c])
        PROVE c \notin final /\ piece[after[c]][1] <= i
    <3>0. c \in Int /\ end[c] \in Int
      BY <1>3, <1>b
    <3>1. c \in (start..stop) \ final
      BY <1>a, <1>b, <2>0, <2>1, <3>0
    <3>2. after[c] \in start..stop
      BY <1>4, <1>b, <3>1 DEF GoesOn
    <3>3. end[c] = c + BodyLines - 1
      BY <1>a, <3>1
    <3>4. after[c] = IF end[c] - BodyOverlap + 1 >= c + 1
                     THEN end[c] - BodyOverlap + 1 ELSE c + 1
      BY <1>a
    <3>5. after[c] <= i
      BY <1>2, <2>0, <2>1, <3>0, <3>3, <3>4
    <3> QED
      BY <1>8, <3>1, <3>2, <3>5
  <2>2. \A c \in start..stop : piece[c][1] <= i =>
          \/ j <= piece[c][2]
          \/ c \notin final /\ piece[after[c]][1] <= i
    BY <1>8, <2>1
  <2>3. i \in Int /\ j \in Int
    OBVIOUS
  <2>4. Overlapping(start, stop, piece, after, final, i, j)
    BY <1>9, <2>2 DEF Overlapping
  <2>5. \A c \in start..stop : piece[c][1] <= i =>
          \E k \in 1..Len(f[c]) : f[c][k][1] <= i /\ j <= f[c][k][2]
    BY <1>4, <1>6, <1>b, <2>3, <2>4, ChainCovers
  <2>6. piece[start][1] <= i
    BY <1>8, <1>b, <2>0
  <2> QED
    BY <1>b, <2>5, <2>6
<1>11. f[start] \in Seq((1..total) \X (1..total))
  <2> DEFINE P == (1..total) \X (1..total)
  <2>1. \A c \in start..stop : piece[c] \in P
    BY <1>8
  <2> HIDE DEF P
  <2>2. \A c \in start..stop : f[c] \in Seq(P)
    BY <1>4, <1>6, <1>b, <2>1, ChainPieces
  <2> QED
    BY <1>b, <2>2 DEF P
<1> QED
  BY <1>7, <1>10, <1>11

IsSplit(f, size, overlap, total) ==
  f = [p \in 0..(total - 1) |->
         <<<<p + 1, K!Min({p + size, total})>>>> \o
           (IF p + size - overlap >= total THEN <<>> ELSE f[p + size - overlap])]

LEMMA SplitUnfolds ==
  \A total :
    K!SplitSpans(total) =
      LET size == K!Max({1, SplitSize})
          overlap == K!Min({SplitOverlap, size - 1})
      IN IF total = 0 THEN <<>> ELSE (CHOOSE f : IsSplit(f, size, overlap, total))[0]
BY DEF K!SplitSpans, IsSplit

\* _simple_split: a passage no longer than the overlap and a character is in a span, for
\* whatever sizes it is given.
Fallback == K!Min({SplitOverlap, K!Max({1, SplitSize}) - 1})

LEMMA SplitCovers ==
  ASSUME NEW total \in Nat \ {0}
  PROVE /\ K!SplitSpans(total) \in Seq((1..total) \X (1..total))
        /\ \A i \in 1..total, j \in 1..total : i <= j /\ j <= i + Fallback =>
             \E k \in 1..Len(K!SplitSpans(total)) :
               K!SplitSpans(total)[k][1] <= i /\ j <= K!SplitSpans(total)[k][2]
<1> DEFINE size == IF 1 >= SplitSize THEN 1 ELSE SplitSize
           overlap == IF SplitOverlap <= size - 1 THEN SplitOverlap ELSE size - 1
           stop == total - 1
           end == [p \in 0..stop |-> IF p + size <= total THEN p + size ELSE total]
           piece == [p \in 0..stop |-> <<p + 1, end[p]>>]
           after == [p \in 0..stop |-> p + size - overlap]
           final == {p \in 0..stop : p + size - overlap >= total}
<1>0. SplitSize \in Nat /\ SplitOverlap \in Nat
  BY ChunkAssumption
<1>1. /\ size \in Nat \ {0} /\ overlap \in Nat /\ overlap < size
      /\ K!Max({1, SplitSize}) = size /\ K!Min({SplitOverlap, size - 1}) = overlap
      /\ Fallback = overlap
  BY <1>0, MaxOfTwo, MinOfTwo DEF Fallback
<1>a. \A p \in 0..stop :
        /\ end[p] = IF p + size <= total THEN p + size ELSE total
        /\ piece[p] = <<p + 1, end[p]>>
        /\ after[p] = p + size - overlap
        /\ p \in final <=> p + size - overlap >= total
  <2> HIDE DEF size, overlap
  <2> QED
    OBVIOUS
<1>b. stop \in Int /\ 0 \in 0..stop /\ stop = total - 1
  OBVIOUS
<1> HIDE DEF size, overlap, stop, end, piece, after, final
<1>2. \A p \in 0..stop : end[p] \in (p + 1)..total /\ end[p] = K!Min({p + size, total})
  <2> SUFFICES ASSUME NEW p \in 0..stop
               PROVE end[p] \in (p + 1)..total /\ end[p] = K!Min({p + size, total})
    OBVIOUS
  <2>1. p \in Nat /\ p < total /\ p + size \in Int /\ size > 0 /\ total \in Int
    BY <1>1, <1>b
  <2>2. end[p] = IF p + size <= total THEN p + size ELSE total
    BY <1>a
  <2>3. end[p] \in (p + 1)..total
    BY <1>1, <2>1, <2>2
  <2>4. K!Min({p + size, total}) = IF p + size <= total THEN p + size ELSE total
    BY <2>1, MinOfTwo
  <2> QED
    BY <2>2, <2>3, <2>4
<1>3. GoesOn(0, stop, after, final)
  BY <1>1, <1>a, <1>b DEF GoesOn
<1>4. \A f : IsSplit(f, size, overlap, total) <=> Chain(f, 0, stop, piece, after, final)
  <2>1. \A f : [p \in 0..(total - 1) |->
                 <<<<p + 1, K!Min({p + size, total})>>>> \o
                   (IF p + size - overlap >= total THEN <<>> ELSE f[p + size - overlap])]
               = [p \in 0..stop |-> <<piece[p]>> \o (IF p \in final THEN <<>>
                                                     ELSE f[after[p]])]
    BY <1>2, <1>a, <1>b
  <2> QED
    BY <2>1 DEF IsSplit, Chain
<1> DEFINE f == CHOOSE f : IsSplit(f, size, overlap, total)
<1>5. Chain(f, 0, stop, piece, after, final)
  <2>1. 0 \in Int
    OBVIOUS
  <2>2. PICK g : Chain(g, 0, stop, piece, after, final)
    BY <1>3, <1>b, <2>1, ChainExists
  <2>3. IsSplit(g, size, overlap, total)
    BY <1>4, <2>2
  <2>4. IsSplit(f, size, overlap, total)
    BY <2>3
  <2> QED
    BY <1>4, <2>4
<1>6. K!SplitSpans(total) = f[0]
  <2>1. total # 0
    OBVIOUS
  <2> QED
    BY <1>1, <2>1, SplitUnfolds
<1> HIDE DEF f
<1>7. \A p \in 0..stop : piece[p] \in (1..total) \X (1..total)
                         /\ piece[p][1] = p + 1 /\ piece[p][2] = end[p]
  <2> SUFFICES ASSUME NEW p \in 0..stop
               PROVE piece[p] \in (1..total) \X (1..total)
                     /\ piece[p][1] = p + 1 /\ piece[p][2] = end[p]
    OBVIOUS
  <2>1. p + 1 \in 1..total /\ end[p] \in 1..total
    <3>1. end[p] \in (p + 1)..total
      BY <1>2
    <3>2. p \in Nat /\ p <= total - 1
      BY <1>b
    <3> QED
      BY <3>1, <3>2
  <2>2. piece[p] = <<p + 1, end[p]>>
    BY <1>a
  <2> QED
    BY <2>1, <2>2
<1>8. \A p \in 0..stop : piece[p] \in Int \X Int
  BY <1>7
<1>9. ASSUME NEW i \in 1..total, NEW j \in 1..total, i <= j, j <= i + overlap
      PROVE \E k \in 1..Len(f[0]) : f[0][k][1] <= i /\ j <= f[0][k][2]
  <2>1. ASSUME NEW p \in 0..stop, ~ (j <= end[p])
        PROVE p \notin final /\ piece[after[p]][1] <= i
    <3>1. end[p] = p + size /\ p + size < j /\ p + size - overlap < i
      BY <1>1, <1>a, <1>b, <1>9, <2>1
    <3>2. p \notin final
      BY <1>1, <1>a, <1>b, <3>1
    <3>3. after[p] \in 0..stop /\ after[p] = p + size - overlap
      BY <1>1, <1>a, <1>b, <3>2
    <3> QED
      BY <1>1, <1>7, <1>b, <3>1, <3>2, <3>3
  <2>2. \A p \in 0..stop : piece[p][1] <= i =>
          \/ j <= piece[p][2]
          \/ p \notin final /\ piece[after[p]][1] <= i
    BY <1>7, <2>1
  <2>3. Overlapping(0, stop, piece, after, final, i, j)
    BY <1>8, <2>2 DEF Overlapping
  <2>4. \A p \in 0..stop : piece[p][1] <= i =>
          \E k \in 1..Len(f[p]) : f[p][k][1] <= i /\ j <= f[p][k][2]
    BY <1>3, <1>5, <1>b, <2>3, ChainCovers
  <2>5. piece[0][1] <= i
    BY <1>7, <1>b
  <2> QED
    BY <1>b, <2>4, <2>5
<1>10. f[0] \in Seq((1..total) \X (1..total))
  <2> DEFINE P == (1..total) \X (1..total)
  <2>1. \A p \in 0..stop : piece[p] \in P
    BY <1>7
  <2> HIDE DEF P
  <2>2. \A p \in 0..stop : f[p] \in Seq(P)
    BY <1>3, <1>5, <1>b, <2>1, ChainPieces
  <2> QED
    BY <1>b, <2>2 DEF P
<1> QED
  BY <1>1, <1>6, <1>9, <1>10

\* Where sentences end: in the text, and none is longer than a chunk.
Sentences(ends, total) ==
  /\ ends \subseteq 1..total
  /\ \A p \in 0..(total - 1) : \E e \in ends : p < e /\ e <= p + SplitSize

LEMMA LeastOf ==
  ASSUME NEW S, S \subseteq Nat, S # {}
  PROVE K!Min(S) \in S /\ \A x \in S : K!Min(S) <= x
BY LeastNumber DEF K!Min

LEMMA GreatestOf ==
  ASSUME NEW S, NEW top \in Nat, S \subseteq 0..top, S # {}
  PROVE K!Max(S) \in S /\ \A x \in S : x <= K!Max(S)
<1> DEFINE D == {top - x : x \in S}
<1>1. PICK least \in D : \A m \in D : least <= m
  <2>1. \A x \in S : top - x \in Nat
    OBVIOUS
  <2>2. D \subseteq Nat /\ D # {}
    BY <2>1
  <2> HIDE DEF D
  <2> QED
    BY <2>2, LeastNumber
<1>2. PICK x \in S : least = top - x
  BY <1>1
<1>3. \A y \in S : top - x <= top - y /\ x \in Nat /\ y \in Nat
  BY <1>1, <1>2
<1>4. \A y \in S : x >= y
  BY <1>3
<1>5. K!Max(S) \in S /\ \A y \in S : K!Max(S) >= y
  BY <1>4 DEF K!Max
<1>6. \A y \in S : y \in Nat
  OBVIOUS
<1>7. K!Max(S) \in Nat
  BY <1>5, <1>6
<1> HIDE DEF D
<1> QED
  BY <1>5, <1>6, <1>7

\* A chunk of sentences ends behind its beginning, and nothing that it could hold ends
\* behind it.
LEMMA ChunkEnds ==
  ASSUME NEW total \in Nat, NEW ends, Sentences(ends, total), SplitSize \in Nat,
         NEW p \in 0..(total - 1)
  PROVE K!EndOf(ends, p) \in ends /\ K!EndOf(ends, p) \in (p + 1)..total
<1> DEFINE S == {e \in ends : p < e /\ e <= p + SplitSize}
<1>0. \A e \in ends : e \in 1..total
  BY DEF Sentences
<1>1. S # {} /\ S \subseteq 0..total
  <2>1. \E e \in ends : p < e /\ e <= p + SplitSize
    BY DEF Sentences
  <2>2. \A e \in ends : e \in 0..total
    BY <1>0
  <2> QED
    BY <2>1, <2>2
<1>2. K!EndOf(ends, p) = K!Max(S)
  BY DEF K!EndOf
<1>3. K!EndOf(ends, p) \in S
  <2> HIDE DEF S
  <2> QED
    BY <1>1, <1>2, GreatestOf
<1>4. K!EndOf(ends, p) \in ends /\ K!EndOf(ends, p) \in 1..total /\ p < K!EndOf(ends, p)
  BY <1>0, <1>3
<1> QED
  BY <1>4

\* What the next chunk repeats begins behind this one's beginning and not behind its end.
LEMMA NextChunk ==
  ASSUME NEW total \in Nat, NEW ends, Sentences(ends, total),
         SplitSize \in Nat, SplitOverlap \in Nat,
         NEW p \in 0..(total - 1), NEW end \in ends, end \in (p + 1)..(total - 1)
  PROVE K!Restart(ends, p, end) \in (p + 1)..end
<1> DEFINE E == {e \in ends : end < e}
           S == {s \in ends : /\ p < s /\ s <= end /\ end - s <= SplitOverlap
                               /\ K!Following(ends, end) - s <= SplitSize}
<1>0. \A e \in ends : e \in Nat
  <2>1. \A e \in ends : e \in 1..total
    BY DEF Sentences
  <2> QED
    BY <2>1
<1>1. PICK e \in ends : end < e /\ e <= end + SplitSize
  BY DEF Sentences
<1>2. E # {} /\ E \subseteq Nat
  BY <1>0, <1>1
<1>3. K!Following(ends, end) \in Nat /\ K!Following(ends, end) <= e
  <2>1. K!Min(E) \in E /\ \A x \in E : K!Min(E) <= x
    BY <1>2, LeastOf
  <2> QED
    BY <1>1, <1>2, <2>1 DEF K!Following
<1>4. end \in S
  BY <1>0, <1>1, <1>3
<1>5. S \subseteq Nat
  BY <1>0
<1>6. K!Restart(ends, p, end) \in S
  <2>1. K!Restart(ends, p, end) = K!Min(S)
    BY DEF K!Restart
  <2> QED
    BY <1>4, <1>5, <2>1, LeastOf
<1>7. K!Restart(ends, p, end) \in Nat /\ p < K!Restart(ends, p, end)
      /\ K!Restart(ends, p, end) <= end
  BY <1>0, <1>6
<1> HIDE DEF S, E
<1> QED
  BY <1>7

IsSentences(f, ends, total) ==
  f = [p \in 0..(total - 1) |->
         <<<<p + 1, K!EndOf(ends, p)>>>> \o
           (IF K!EndOf(ends, p) = total THEN <<>>
            ELSE f[K!Restart(ends, p, K!EndOf(ends, p))])]

LEMMA SentencesUnfold ==
  \A ends, total :
    K!SentenceSpans(ends, total) =
      IF total = 0 THEN <<>> ELSE (CHOOSE f : IsSentences(f, ends, total))[0]
BY DEF K!SentenceSpans, IsSentences

\* The library's splitter: a passage of one sentence is in a span.
OneSentence(ends, i, j) == \A e \in ends : ~ (i <= e /\ e < j)

LEMMA SentencesCover ==
  ASSUME NEW total \in Nat \ {0}, NEW ends, Sentences(ends, total)
  PROVE /\ K!SentenceSpans(ends, total) \in Seq((1..total) \X (1..total))
        /\ \A i \in 1..total, j \in 1..total : i <= j /\ OneSentence(ends, i, j) =>
             \E k \in 1..Len(K!SentenceSpans(ends, total)) :
               /\ K!SentenceSpans(ends, total)[k][1] <= i
               /\ j <= K!SentenceSpans(ends, total)[k][2]
<1> DEFINE stop == total - 1
           end == [p \in 0..stop |-> K!EndOf(ends, p)]
           piece == [p \in 0..stop |-> <<p + 1, end[p]>>]
           after == [p \in 0..stop |-> K!Restart(ends, p, end[p])]
           final == {p \in 0..stop : end[p] = total}
<1>0. SplitSize \in Nat /\ SplitOverlap \in Nat
  BY ChunkAssumption
<1>a. \A p \in 0..stop : /\ end[p] = K!EndOf(ends, p)
                         /\ piece[p] = <<p + 1, end[p]>>
                         /\ after[p] = K!Restart(ends, p, end[p])
                         /\ p \in final <=> end[p] = total
  OBVIOUS
<1>b. stop \in Int /\ 0 \in 0..stop /\ stop = total - 1
  OBVIOUS
<1> HIDE DEF stop, end, piece, after, final
<1>1. \A p \in 0..stop : end[p] \in ends /\ end[p] \in (p + 1)..total
  BY <1>0, <1>a, <1>b, ChunkEnds
<1>2. ASSUME NEW p \in 0..stop, p \notin final PROVE after[p] \in (p + 1)..end[p] /\ end[p] <= stop
  <2>1. end[p] \in (p + 1)..(total - 1)
    <3>1. end[p] \in (p + 1)..total /\ end[p] # total
      BY <1>1, <1>2, <1>a
    <3> QED
      BY <3>1
  <2>2. K!Restart(ends, p, end[p]) \in (p + 1)..end[p]
    BY <1>0, <1>1, <1>b, <2>1, NextChunk
  <2> QED
    BY <1>a, <1>b, <2>1, <2>2
<1>3. GoesOn(0, stop, after, final)
  <2> SUFFICES ASSUME NEW p \in (0..stop) \ final PROVE after[p] \in (p + 1)..stop
    BY DEF GoesOn
  <2>1. after[p] \in (p + 1)..end[p] /\ end[p] <= stop /\ end[p] \in (p + 1)..total
    BY <1>1, <1>2
  <2> QED
    BY <1>b, <2>1
<1>4. \A f : IsSentences(f, ends, total) <=> Chain(f, 0, stop, piece, after, final)
  <2>1. \A f : [p \in 0..(total - 1) |->
                 <<<<p + 1, K!EndOf(ends, p)>>>> \o
                   (IF K!EndOf(ends, p) = total THEN <<>>
                    ELSE f[K!Restart(ends, p, K!EndOf(ends, p))])]
               = [p \in 0..stop |-> <<piece[p]>> \o (IF p \in final THEN <<>>
                                                     ELSE f[after[p]])]
    BY <1>a, <1>b
  <2> QED
    BY <2>1 DEF IsSentences, Chain
<1> DEFINE f == CHOOSE f : IsSentences(f, ends, total)
<1>5. Chain(f, 0, stop, piece, after, final)
  <2>1. 0 \in Int
    OBVIOUS
  <2>2. PICK g : Chain(g, 0, stop, piece, after, final)
    BY <1>3, <1>b, <2>1, ChainExists
  <2>3. IsSentences(g, ends, total)
    BY <1>4, <2>2
  <2>4. IsSentences(f, ends, total)
    BY <2>3
  <2> QED
    BY <1>4, <2>4
<1>6. K!SentenceSpans(ends, total) = f[0]
  <2>1. total # 0
    OBVIOUS
  <2> QED
    BY <2>1, SentencesUnfold
<1> HIDE DEF f
<1>7. \A p \in 0..stop : piece[p] \in (1..total) \X (1..total)
                         /\ piece[p][1] = p + 1 /\ piece[p][2] = end[p]
  <2> SUFFICES ASSUME NEW p \in 0..stop
               PROVE piece[p] \in (1..total) \X (1..total)
                     /\ piece[p][1] = p + 1 /\ piece[p][2] = end[p]
    OBVIOUS
  <2>1. p + 1 \in 1..total /\ end[p] \in 1..total
    <3>1. end[p] \in (p + 1)..total
      BY <1>1
    <3>2. p \in Nat /\ p <= total - 1
      BY <1>b
    <3> QED
      BY <3>1, <3>2
  <2>2. piece[p] = <<p + 1, end[p]>>
    BY <1>a
  <2> QED
    BY <2>1, <2>2
<1>8. \A p \in 0..stop : piece[p] \in Int \X Int
  BY <1>7
<1>9. ASSUME NEW i \in 1..total, NEW j \in 1..total, i <= j, OneSentence(ends, i, j)
      PROVE \E k \in 1..Len(f[0]) : f[0][k][1] <= i /\ j <= f[0][k][2]
  <2>1. ASSUME NEW p \in 0..stop, ~ (j <= end[p])
        PROVE p \notin final /\ piece[after[p]][1] <= i
    <3>1. end[p] \in (p + 1)..total /\ end[p] < j /\ end[p] # total
      BY <1>1, <2>1
    <3>2. end[p] < i
      BY <1>1, <1>9, <3>1 DEF OneSentence
    <3>3. p \notin final
      BY <1>a, <3>1
    <3>4. after[p] \in 0..stop /\ after[p] <= end[p]
      BY <1>1, <1>2, <1>b, <3>3
    <3> QED
      BY <1>7, <1>b, <3>1, <3>2, <3>3, <3>4
  <2>2. \A p \in 0..stop : piece[p][1] <= i =>
          \/ j <= piece[p][2]
          \/ p \notin final /\ piece[after[p]][1] <= i
    BY <1>7, <2>1
  <2>3. Overlapping(0, stop, piece, after, final, i, j)
    BY <1>8, <2>2 DEF Overlapping
  <2>4. \A p \in 0..stop : piece[p][1] <= i =>
          \E k \in 1..Len(f[p]) : f[p][k][1] <= i /\ j <= f[p][k][2]
    BY <1>3, <1>5, <1>b, <2>3, ChainCovers
  <2>5. piece[0][1] <= i
    BY <1>7, <1>b
  <2> QED
    BY <1>b, <2>4, <2>5
<1>10. f[0] \in Seq((1..total) \X (1..total))
  <2> DEFINE P == (1..total) \X (1..total)
  <2>1. \A p \in 0..stop : piece[p] \in P
    BY <1>7
  <2> HIDE DEF P
  <2>2. \A p \in 0..stop : f[p] \in Seq(P)
    BY <1>3, <1>5, <1>b, <2>1, ChainPieces
  <2> QED
    BY <1>b, <2>2 DEF P
<1> QED
  BY <1>6, <1>9, <1>10

\* A set in some order.
IsListed(f, U) ==
  f = [s \in U |-> IF s = {} THEN <<>> ELSE Append(f[s \ {First(s)}], First(s))]

LEMMA OrderUnfolds ==
  \A S : K!InSomeOrder(S) = (CHOOSE f : IsListed(f, SUBSET S))[S]
BY DEF K!InSomeOrder, K!FoldSet, K!MapThenFoldSet, IsListed, First

LEMMA OrderExists ==
  ASSUME NEW S, IsFiniteSet(S)
  PROVE \E f : IsListed(f, SUBSET S)
<1> DEFINE Small(k) == {s \in SUBSET S : Cardinality(s) <= k}
           Missing == {k \in Nat : ~ \E f : IsListed(f, Small(k))}
<1>1. \A s \in SUBSET S : IsFiniteSet(s) /\ Cardinality(s) \in Nat
                          /\ Cardinality(s) <= Cardinality(S)
  BY FS_Subset, FS_CardinalityType
<1>2. Missing = {}
  <2> SUFFICES ASSUME Missing # {} PROVE FALSE
    OBVIOUS
  <2>1. PICK k \in Missing : \A m \in Missing : k <= m
    BY LeastNumber
  <2>2. k # 0
    <3>1. Small(0) = {{}}
      BY <1>1, FS_EmptySet
    <3>2. IsListed([s \in {{}} |-> <<>>], {{}})
      BY DEF IsListed
    <3> QED
      BY <2>1, <3>1, <3>2
  <2>3. k - 1 \in Nat /\ k - 1 \notin Missing
    <3>1. k \in Nat /\ k - 1 \in Nat /\ ~ (k <= k - 1)
      BY <2>1, <2>2
    <3> HIDE DEF Missing
    <3> QED
      BY <2>1, <3>1
  <2>4. PICK f : IsListed(f, Small(k - 1))
    BY <2>3
  <2> DEFINE g == [s \in Small(k) |-> IF s = {} THEN <<>>
                                      ELSE Append(f[s \ {First(s)}], First(s))]
  <2>5. ASSUME NEW s \in Small(k), s # {}
        PROVE s \ {First(s)} \in Small(k - 1) /\ s \ {First(s)} \in Small(k)
    <3>1. Cardinality(s \ {First(s)}) = Cardinality(s) - 1
      BY <1>1, <2>5, FirstIsIn, FS_RemoveElement
    <3> QED
      BY <1>1, <2>1, <3>1
  <2>6. \A s \in Small(k - 1) : s \in Small(k)
    BY <1>1, <2>1
  <2>7. \A s \in Small(k - 1) : f[s] = g[s]
    <3> HIDE DEF Small
    <3> QED
      BY <2>4, <2>6 DEF IsListed
  <2>8. IsListed(g, Small(k))
    <3> HIDE DEF Small
    <3>1. \A s \in Small(k) : s # {} => f[s \ {First(s)}] = g[s \ {First(s)}]
      BY <2>5, <2>7
    <3> QED
      BY <3>1 DEF IsListed
  <2> QED
    BY <2>1, <2>8
<1>3. Cardinality(S) \in Nat /\ Small(Cardinality(S)) = SUBSET S
  BY <1>1, FS_CardinalityType
<1> QED
  BY <1>2, <1>3

\* It holds every element of the set.
LEMMA OrderIsWhole ==
  ASSUME NEW S, IsFiniteSet(S)
  PROVE /\ K!InSomeOrder(S) \in Seq(S)
        /\ \A x \in S : \E k \in 1..Len(K!InSomeOrder(S)) : K!InSomeOrder(S)[k] = x
<1> DEFINE f == CHOOSE f : IsListed(f, SUBSET S)
           Whole(s) == f[s] \in Seq(S) /\ \A x \in s : \E k \in 1..Len(f[s]) : f[s][k] = x
           Odd == {s \in SUBSET S : ~Whole(s)}
<1>1. IsListed(f, SUBSET S)
  BY OrderExists
<1> HIDE DEF f
<1>2. ASSUME NEW s \in Odd, \A x \in s : s \ {x} \notin Odd PROVE FALSE
  <2>1. CASE s = {}
    <3>1. f[s] = <<>>
      BY <1>1, <2>1 DEF IsListed
    <3>2. f[s] \in Seq(S)
      BY <3>1
    <3> QED
      BY <1>2, <2>1, <3>2
  <2>2. CASE s # {}
    <3> DEFINE a == First(s)
               r == s \ {a}
    <3>1. a \in s /\ a \in S /\ r \in SUBSET S /\ f[s] = Append(f[r], a)
      BY <1>1, <2>2, FirstIsIn DEF IsListed
    <3>2. Whole(r)
      <4> HIDE DEF Whole
      <4> QED
        BY <1>2, <3>1
    <3>3. f[r] \in Seq(S)
      BY <3>2
    <3> HIDE DEF a
    <3>4. /\ f[s] \in Seq(S) /\ Len(f[s]) = Len(f[r]) + 1 /\ f[s][Len(f[r]) + 1] = a
          /\ Len(f[r]) \in Nat
          /\ \A k \in 1..Len(f[r]) : f[s][k] = f[r][k]
      BY <3>1, <3>3
    <3>5. ASSUME NEW x \in s PROVE \E k \in 1..Len(f[s]) : f[s][k] = x
      <4>1. CASE x = a
        BY <3>4, <4>1
      <4>2. CASE x # a
        <5>1. PICK k \in 1..Len(f[r]) : f[r][k] = x
          BY <3>2, <4>2
        <5> HIDE DEF r
        <5>2. k \in 1..Len(f[s])
          BY <3>4, <5>1
        <5>3. f[s][k] = f[r][k]
          BY <3>4, <5>1
        <5> QED
          BY <5>1, <5>2, <5>3
      <4> QED
        BY <4>1, <4>2
    <3> QED
      BY <1>2, <3>4, <3>5
  <2> QED
    BY <2>1, <2>2
<1>3. Odd = {}
  <2>1. Odd \subseteq SUBSET S
    OBVIOUS
  <2> HIDE DEF Odd
  <2> QED
    BY <1>2, <2>1, LeastSet
<1>4. Whole(S)
  <2>1. S \in SUBSET S
    OBVIOUS
  <2> HIDE DEF Whole
  <2> QED
    BY <1>3, <2>1
<1>5. K!InSomeOrder(S) = f[S]
  BY OrderUnfolds DEF f
<1> QED
  BY <1>4, <1>5

\* The requests of a window.
LastOf(s) == K!Max(s)

IsAsked(f, w, U) ==
  f = [s \in U |-> IF s = {} THEN <<>> ELSE K!Ask(f[s \ {LastOf(s)}], w[LastOf(s)])]

LEMMA BatchesUnfold ==
  \A w : K!SplitBatches(w) = (CHOOSE f : IsAsked(f, w, SUBSET DOMAIN w))[DOMAIN w]
BY DEF K!SplitBatches, K!FoldLeft, K!MapThenFoldSet, IsAsked, LastOf

\* A finite set of numbers has a greatest one.
LEMMA LastIsIn ==
  ASSUME NEW S \in SUBSET Nat, IsFiniteSet(S), S # {}
  PROVE LastOf(S) \in S
<1> DEFINE Odd == {s \in SUBSET S : s # {} /\ ~ \E x \in s : \A y \in s : x >= y}
<1>1. ASSUME NEW s \in Odd, \A x \in s : s \ {x} \notin Odd PROVE FALSE
  <2>1. PICK a : a \in s
    OBVIOUS
  <2>2. CASE s \ {a} = {}
    <3>1. a \in Nat /\ \A y \in s : a >= y
      <4>1. a \in Nat
        BY <2>1
      <4>2. \A y \in s : y = a
        BY <2>2
      <4> QED
        BY <4>1, <4>2
    <3>2. ~ \E x \in s : \A y \in s : x >= y
      BY <1>1
    <3> QED
      BY <2>1, <3>1, <3>2
  <2>3. CASE s \ {a} # {}
    <3>1. s \ {a} \in SUBSET S /\ s \ {a} \notin Odd
      BY <1>1, <2>1
    <3>2. PICK x \in s \ {a} : \A y \in s \ {a} : x >= y
      BY <2>3, <3>1
    <3>3. x \in Nat /\ a \in Nat
      BY <2>1, <3>2
    <3>4. CASE x >= a
      <4>1. x \in s /\ \A y \in s : x >= y
        BY <3>2, <3>3, <3>4
      <4> QED
        BY <1>1, <4>1
    <3>5. CASE ~ (x >= a)
      <4>1. \A y \in s : y \in Nat
        OBVIOUS
      <4>2. \A y \in s : a >= y
        BY <3>2, <3>3, <3>5, <4>1
      <4> QED
        BY <1>1, <2>1, <4>2
    <3> QED
      BY <3>4, <3>5
  <2> QED
    BY <2>2, <2>3
<1>2. S \notin Odd
  <2>1. Odd \subseteq SUBSET S
    OBVIOUS
  <2> HIDE DEF Odd
  <2> QED
    BY <1>1, <2>1, LeastSet
<1>3. \E x \in S : \A y \in S : x >= y
  BY <1>2
<1> QED
  BY <1>3 DEF LastOf, K!Max

LEMMA BatchesExist ==
  ASSUME NEW w, NEW S \in SUBSET Nat, IsFiniteSet(S)
  PROVE \E f : IsAsked(f, w, SUBSET S)
<1> DEFINE Small(k) == {s \in SUBSET S : Cardinality(s) <= k}
           Missing == {k \in Nat : ~ \E f : IsAsked(f, w, Small(k))}
<1>1. \A s \in SUBSET S : IsFiniteSet(s) /\ Cardinality(s) \in Nat
                          /\ Cardinality(s) <= Cardinality(S)
  BY FS_Subset, FS_CardinalityType
<1>2. Missing = {}
  <2> SUFFICES ASSUME Missing # {} PROVE FALSE
    OBVIOUS
  <2>1. PICK k \in Missing : \A m \in Missing : k <= m
    BY LeastNumber
  <2>2. k # 0
    <3>1. Small(0) = {{}}
      BY <1>1, FS_EmptySet
    <3>2. IsAsked([s \in {{}} |-> <<>>], w, {{}})
      BY DEF IsAsked
    <3> QED
      BY <2>1, <3>1, <3>2
  <2>3. k - 1 \in Nat /\ k - 1 \notin Missing
    <3>1. k \in Nat /\ k - 1 \in Nat /\ ~ (k <= k - 1)
      BY <2>1, <2>2
    <3> HIDE DEF Missing
    <3> QED
      BY <2>1, <3>1
  <2>4. PICK f : IsAsked(f, w, Small(k - 1))
    BY <2>3
  <2> DEFINE g == [s \in Small(k) |-> IF s = {} THEN <<>>
                                      ELSE K!Ask(f[s \ {LastOf(s)}], w[LastOf(s)])]
  <2>5. ASSUME NEW s \in Small(k), s # {}
        PROVE s \ {LastOf(s)} \in Small(k - 1) /\ s \ {LastOf(s)} \in Small(k)
    <3>0. s \in SUBSET Nat /\ IsFiniteSet(s) /\ LastOf(s) \in s
      BY <1>1, <2>5, LastIsIn
    <3>1. Cardinality(s \ {LastOf(s)}) = Cardinality(s) - 1
      BY <1>1, <3>0, FS_RemoveElement
    <3>2. Cardinality(s) \in Nat /\ Cardinality(s) <= k /\ k \in Nat
      BY <1>1, <2>1
    <3>3. Cardinality(s \ {LastOf(s)}) <= k - 1 /\ Cardinality(s \ {LastOf(s)}) <= k
      BY <3>1, <3>2
    <3>4. s \ {LastOf(s)} \in SUBSET S
      OBVIOUS
    <3> QED
      BY <3>3, <3>4
  <2>6. \A s \in Small(k - 1) : s \in Small(k)
    BY <1>1, <2>1
  <2>7. \A s \in Small(k - 1) : f[s] = g[s]
    <3> HIDE DEF Small
    <3> QED
      BY <2>4, <2>6 DEF IsAsked
  <2>8. IsAsked(g, w, Small(k))
    <3> HIDE DEF Small
    <3>1. \A s \in Small(k) : s # {} => f[s \ {LastOf(s)}] = g[s \ {LastOf(s)}]
      BY <2>5, <2>7
    <3> QED
      BY <3>1 DEF IsAsked
  <2> QED
    BY <2>1, <2>8
<1>3. Cardinality(S) \in Nat /\ Small(Cardinality(S)) = SUBSET S
  BY <1>1, FS_CardinalityType
<1> QED
  BY <1>2, <1>3

\* x is in one of the requests.
InSome(x, batches) == \E b \in 1..Len(batches) : \E k \in 1..Len(batches[b]) : batches[b][k] = x

LEMMA FrontHasTheRest ==
  ASSUME NEW Y, NEW s \in Seq(Y), s # <<>>
  PROVE /\ K!Front(s) \in Seq(Y) /\ Len(K!Front(s)) = Len(s) - 1
        /\ \A b \in 1..(Len(s) - 1) : K!Front(s)[b] = s[b]
<1> DEFINE n == Len(s) - 1
<1>1. n \in Nat /\ n = Len(s) - 1
  OBVIOUS
<1>2. \A b \in 1..n : s[b] \in Y
  OBVIOUS
<1> HIDE DEF n
<1>3. 1 \in Int /\ n \in Int
  BY <1>1
<1>4. /\ SubSeq(s, 1, n) \in Seq(Y)
      /\ Len(SubSeq(s, 1, n)) = IF 1 <= n THEN n - 1 + 1 ELSE 0
      /\ \A i \in 1..(n - 1 + 1) : SubSeq(s, 1, n)[i] = s[1 + i - 1]
  BY ONLY <1>2, <1>3, SubSeqProperties
<1>5. K!Front(s) = SubSeq(s, 1, n)
  BY <1>1 DEF K!Front
<1>6. Len(SubSeq(s, 1, n)) = n
  BY <1>1, <1>4
<1>7. \A b \in 1..n : SubSeq(s, 1, n)[b] = s[b]
  <2>1. \A b \in 1..n : b \in 1..(n - 1 + 1) /\ 1 + b - 1 = b
    BY <1>1
  <2> QED
    BY <1>4, <2>1
<1> QED
  BY <1>1, <1>4, <1>5, <1>6, <1>7

\* One more text joins the last request or opens one; none that was in one leaves it.
LEMMA AskKeeps ==
  ASSUME NEW X, NEW done \in Seq(Seq(X)), NEW c \in X
  PROVE /\ K!Ask(done, c) \in Seq(Seq(X))
        /\ c \notin kStored => InSome(c, K!Ask(done, c))
        /\ \A x : InSome(x, done) => InSome(x, K!Ask(done, c))
<1>1. CASE c \in kStored
  BY <1>1 DEF K!Ask, K!Unembedded
<1>2. CASE K!Ask(done, c) = Append(done, <<c>>)
  <2> DEFINE now == Append(done, <<c>>)
  <2>1. /\ now \in Seq(Seq(X)) /\ Len(now) = Len(done) + 1 /\ Len(done) \in Nat
        /\ now[Len(done) + 1] = <<c>>
        /\ \A b \in 1..Len(done) : now[b] = done[b]
    OBVIOUS
  <2> HIDE DEF now
  <2>2. InSome(c, now)
    <3>1. Len(done) + 1 \in 1..Len(now) /\ 1 \in 1..Len(now[Len(done) + 1])
          /\ now[Len(done) + 1][1] = c
      BY <2>1
    <3> QED
      BY <3>1 DEF InSome
  <2>3. \A x : InSome(x, done) => InSome(x, now)
    <3>1. \A b \in 1..Len(done) : b \in 1..Len(now)
      BY <2>1
    <3> QED
      BY <2>1, <3>1 DEF InSome
  <2> QED
    BY <1>2, <2>1, <2>2, <2>3 DEF now
<1>3. CASE /\ done # <<>>
           /\ K!Ask(done, c) = Append(K!Front(done), Append(K!Last(done), c))
  <2> DEFINE n == Len(done)
             last == done[n]
             longer == Append(last, c)
             now == K!Ask(done, c)
  <2>1. n \in Nat \ {0} /\ last \in Seq(X) /\ K!Last(done) = last
    BY <1>3 DEF K!Last
  <2>2. /\ K!Front(done) \in Seq(Seq(X)) /\ Len(K!Front(done)) = n - 1
        /\ \A b \in 1..(n - 1) : K!Front(done)[b] = done[b]
    BY <1>3, <2>1, FrontHasTheRest
  <2>3. /\ longer \in Seq(X) /\ Len(longer) = Len(last) + 1 /\ Len(last) \in Nat
        /\ longer[Len(last) + 1] = c
        /\ \A k \in 1..Len(last) : longer[k] = last[k]
    BY <2>1
  <2>4. now = Append(K!Front(done), longer)
    BY <1>3, <2>1
  <2> HIDE DEF now, longer, n, last
  <2>5. /\ now \in Seq(Seq(X)) /\ Len(now) = n /\ now[n] = longer
        /\ \A b \in 1..(n - 1) : now[b] = K!Front(done)[b]
    BY <2>1, <2>2, <2>3, <2>4
  <2>6. InSome(c, now)
    <3>1. n \in 1..Len(now) /\ Len(last) + 1 \in 1..Len(now[n])
          /\ now[n][Len(last) + 1] = c
      BY <2>1, <2>3, <2>5
    <3> QED
      BY <3>1 DEF InSome
  <2>7. ASSUME NEW x, InSome(x, done) PROVE InSome(x, now)
    <3>0. PICK b \in 1..n : \E k \in 1..Len(done[b]) : done[b][k] = x
      BY <2>7 DEF InSome, n
    <3>1. PICK k \in 1..Len(done[b]) : done[b][k] = x
      BY <3>0
    <3>2. CASE b = n
      <4>1. k \in 1..Len(last) /\ last[k] = x
        BY <3>1, <3>2 DEF last
      <4>2. n \in 1..Len(now) /\ k \in 1..Len(now[n]) /\ now[n][k] = x
        BY <2>1, <2>3, <2>5, <4>1
      <4> QED
        BY <4>2 DEF InSome
    <3>3. CASE b # n
      <4>1. b \in 1..(n - 1) /\ b \in 1..Len(now)
        BY <2>1, <2>5, <3>1, <3>3
      <4>2. now[b] = done[b]
        BY <2>2, <2>5, <4>1
      <4> QED
        BY <3>1, <4>1, <4>2 DEF InSome
    <3> QED
      BY <3>2, <3>3
  <2> QED
    BY <2>5, <2>6, <2>7 DEF now
<1> QED
  BY <1>1, <1>2, <1>3 DEF K!Ask, K!Unembedded

\* _split_batches: no text that has no vector is left out of the requests.
LEMMA NothingIsLeftOut ==
  ASSUME NEW X, NEW w \in Seq(X)
  PROVE /\ K!SplitBatches(w) \in Seq(Seq(X))
        /\ \A k \in 1..Len(w) : w[k] \notin kStored => InSome(w[k], K!SplitBatches(w))
<1> DEFINE S == 1..Len(w)
           f == CHOOSE f : IsAsked(f, w, SUBSET S)
           Whole(s) == /\ f[s] \in Seq(Seq(X))
                       /\ \A k \in s : w[k] \notin kStored => InSome(w[k], f[s])
           Odd == {s \in SUBSET S : ~Whole(s)}
<1>1. IsFiniteSet(S) /\ S \in SUBSET Nat /\ DOMAIN w = S /\ Len(w) \in Nat
  BY FS_Interval
<1>2. IsAsked(f, w, SUBSET S)
  BY <1>1, BatchesExist
<1>3. K!SplitBatches(w) = f[S]
  BY <1>1, BatchesUnfold
<1>4. \A k \in S : w[k] \in X
  OBVIOUS
<1> HIDE DEF f, S
<1>5. ASSUME NEW s \in Odd, \A x \in s : s \ {x} \notin Odd PROVE FALSE
  <2>1. CASE s = {}
    <3>1. f[s] = <<>>
      BY <1>2, <2>1 DEF IsAsked
    <3>2. f[s] \in Seq(Seq(X))
      BY <3>1
    <3> QED
      BY <1>5, <2>1, <3>2
  <2>2. CASE s # {}
    <3> DEFINE a == LastOf(s)
               r == s \ {a}
    <3>0. s \in SUBSET S /\ s \in SUBSET Nat /\ IsFiniteSet(s)
      BY <1>1, FS_Subset
    <3>1. a \in s /\ r \in SUBSET S
      BY <2>2, <3>0, LastIsIn
    <3>2. f[s] = K!Ask(f[r], w[a])
      BY <1>2, <2>2, <3>0 DEF IsAsked
    <3>3. Whole(r)
      <4> HIDE DEF Whole
      <4> QED
        BY <1>5, <3>1
    <3>4. f[r] \in Seq(Seq(X)) /\ w[a] \in X
      BY <1>4, <3>0, <3>1, <3>3
    <3> HIDE DEF a
    <3>5. /\ f[s] \in Seq(Seq(X))
          /\ w[a] \notin kStored => InSome(w[a], f[s])
          /\ \A x : InSome(x, f[r]) => InSome(x, f[s])
      BY <3>2, <3>4, AskKeeps
    <3>6. \A k \in s : w[k] \notin kStored => InSome(w[k], f[s])
      BY <3>3, <3>5
    <3> QED
      BY <1>5, <3>5, <3>6
  <2> QED
    BY <2>1, <2>2
<1>6. S \notin Odd
  <2>1. Odd \subseteq SUBSET S
    OBVIOUS
  <2> HIDE DEF Odd
  <2> QED
    BY <1>1, <1>5, <2>1, LeastSet
<1>7. Whole(S)
  <2>1. S \in SUBSET S
    OBVIOUS
  <2> HIDE DEF Whole
  <2> QED
    BY <1>6, <2>1
<1> QED
  BY <1>3, <1>7 DEF S

-----------------------------------------------------------------------------
(* Chunks: whose line it is, and the chunks of a file.                     *)

\* A finite set has a best element under a total and transitive relation.
Better(S, R) ==
  /\ \A x, y \in S : <<x, y>> \in R \/ <<y, x>> \in R
  /\ \A x, y, z \in S : <<x, y>> \in R /\ <<y, z>> \in R => <<x, z>> \in R

LEMMA BestExists ==
  ASSUME NEW S, IsFiniteSet(S), S # {}, NEW R, Better(S, R)
  PROVE \E x \in S : \A y \in S : <<x, y>> \in R
<1> DEFINE Odd == {s \in SUBSET S : s # {} /\ ~ \E x \in s : \A y \in s : <<x, y>> \in R}
<1>1. ASSUME NEW s \in Odd, \A x \in s : s \ {x} \notin Odd PROVE FALSE
  <2>1. PICK a : a \in s
    OBVIOUS
  <2>2. CASE s \ {a} = {}
    <3>1. \A y \in s : <<a, y>> \in R
      <4>1. \A y \in s : y = a
        BY <2>2
      <4>2. a \in S
        BY <2>1
      <4> QED
        BY <4>1, <4>2 DEF Better
    <3> QED
      BY <2>1, <3>1
  <2>3. CASE s \ {a} # {}
    <3>1. s \ {a} \in SUBSET S /\ s \ {a} \notin Odd
      BY <1>1, <2>1
    <3>2. PICK x \in s \ {a} : \A y \in s \ {a} : <<x, y>> \in R
      BY <2>3, <3>1
    <3>3. x \in S /\ a \in S /\ x \in s /\ \A y \in s : y \in S
      BY <2>1, <3>2
    <3>4. CASE <<x, a>> \in R
      <4>1. \A y \in s : <<x, y>> \in R
        BY <3>2, <3>4
      <4> QED
        BY <3>3, <4>1
    <3>5. CASE <<a, x>> \in R
      <4>1. \A y \in s : <<a, y>> \in R
        <5>1. <<a, a>> \in R
          BY <3>3 DEF Better
        <5> QED
          BY <3>2, <3>3, <3>5, <5>1 DEF Better
      <4> QED
        BY <2>1, <4>1
    <3> QED
      BY <3>3, <3>4, <3>5 DEF Better
  <2> QED
    BY <2>2, <2>3
<1>2. S \notin Odd
  <2>1. Odd \subseteq SUBSET S
    OBVIOUS
  <2> HIDE DEF Odd
  <2> QED
    BY <1>1, <2>1, LeastSet
<1>3. S \in SUBSET S
  OBVIOUS
<1> QED
  BY <1>2, <1>3

\* The nodes of a parse.
Parse(nodes) ==
  /\ IsFiniteSet(nodes)
  /\ \A n \in nodes : n.name \in Nat /\ n.first \in Nat /\ n.last \in Nat

CodeNodes(nodes) ==
  /\ Parse(nodes)
  /\ \A n \in nodes : n.kind \in Declared
  /\ \E n \in nodes : n.kind = "module"

Claims(nodes, i) ==
  {n \in nodes : n.kind \notin {"module"} \cup K!Declarations /\ i \in n.first..n.last}
Prevails(n, m) ==
  \/ n.last - n.first < m.last - m.first
  \/ n.last - n.first = m.last - m.first /\ n.first > m.first
  \/ n.last - n.first = m.last - m.first /\ n.first = m.first /\ n.name >= m.name

LEMMA OwnerUnfolds ==
  \A nodes, i :
    K!Owner(nodes, i) =
      IF Claims(nodes, i) = {} THEN CHOOSE n \in nodes : n.kind = "module"
      ELSE CHOOSE n \in Claims(nodes, i) : \A m \in Claims(nodes, i) : Prevails(n, m)
BY DEF K!Owner, Claims, Prevails

\* _owner_of: a line that no declaration spans is the module's, every other one that
\* of a declaration around it.
LEMMA OwnerIsAround ==
  ASSUME NEW nodes, CodeNodes(nodes), NEW i \in Nat
  PROVE LET o == K!Owner(nodes, i)
        IN /\ o \in nodes
           /\ \/ o.kind = "module"
              \/ o.kind \in K!TypeKinds \cup {"function", "method"} /\ i \in o.first..o.last
<1> DEFINE S == Claims(nodes, i)
           o == K!Owner(nodes, i)
<1>1. IsFiniteSet(S) /\ S \subseteq nodes
  <2>1. S \subseteq nodes
    BY DEF Claims
  <2> QED
    BY <2>1, FS_Subset DEF CodeNodes, Parse
<1>2. CASE S = {}
  <2>1. o = CHOOSE n \in nodes : n.kind = "module"
    BY <1>2, OwnerUnfolds
  <2>2. o \in nodes /\ o.kind = "module"
    BY <2>1 DEF CodeNodes
  <2> QED
    BY <2>2
<1>3. CASE S # {}
  <2> DEFINE R == {p \in S \X S : Prevails(p[1], p[2])}
  <2>1. \A n \in S : n.name \in Nat /\ n.first \in Nat /\ n.last \in Nat
    BY <1>1 DEF CodeNodes, Parse
  <2>2. \A n, m \in S : <<n, m>> \in R <=> Prevails(n, m)
    OBVIOUS
  <2> HIDE DEF S, R
  <2>3. \A n, m \in S : Prevails(n, m) \/ Prevails(m, n)
    BY <2>1 DEF Prevails
  <2>4. \A n, m, q \in S : Prevails(n, m) /\ Prevails(m, q) => Prevails(n, q)
    BY <2>1 DEF Prevails
  <2>5. Better(S, R)
    BY <2>2, <2>3, <2>4 DEF Better
  <2>6. \E n \in S : \A m \in S : <<n, m>> \in R
    BY <1>1, <1>3, <2>5, BestExists
  <2>7. \E n \in S : \A m \in S : Prevails(n, m)
    BY <2>2, <2>6
  <2>8. o = CHOOSE n \in S : \A m \in S : Prevails(n, m)
    BY <1>3, OwnerUnfolds DEF S
  <2>9. o \in S
    BY <2>7, <2>8
  <2>10. /\ o \in nodes /\ o.kind \in Declared /\ i \in o.first..o.last
         /\ o.kind \notin {"module", "variable", "type_alias"}
    BY <2>9 DEF S, Claims, CodeNodes, K!Declarations
  <2> QED
    BY <2>10 DEF Declared, K!TypeKinds
<1> QED
  BY <1>2, <1>3

\* Lines of one owner lie in one of its runs.
LEMMA RunAround ==
  ASSUME NEW nodes, NEW total \in Nat, NEW i \in 1..total, NEW j \in i..total,
         \A k \in i..j : K!Owner(nodes, k) = K!Owner(nodes, i)
  PROVE \E r \in K!Runs(nodes, total) :
          /\ r[1] \in 1..total /\ r[2] \in 1..total
          /\ r[1] <= i /\ j <= r[2]
          /\ K!Owner(nodes, r[1]) = K!Owner(nodes, i)
<1> DEFINE o == K!Owner(nodes, i)
           Before == {a \in Nat : a \in 1..i /\ \A k \in a..i : K!Owner(nodes, k) = o}
           After == {d \in Nat : d <= total - j /\
                       \A k \in i..(total - d) : K!Owner(nodes, k) = o}
<1>1. i \in Before /\ Before \subseteq Nat
  OBVIOUS
<1>2. PICK a \in Before : \A x \in Before : a <= x
  <2> HIDE DEF Before
  <2> QED
    BY <1>1, LeastNumber
<1>3. total - j \in After /\ After \subseteq Nat
  OBVIOUS
<1>4. PICK d \in After : \A x \in After : d <= x
  <2> HIDE DEF After
  <2> QED
    BY <1>3, LeastNumber
<1> DEFINE b == total - d
<1>5. a \in 1..i /\ b \in j..total /\ b \in Int
  BY <1>2, <1>4
<1>6. \A k \in a..b : K!Owner(nodes, k) = o
  <2> SUFFICES ASSUME NEW k \in a..b PROVE K!Owner(nodes, k) = o
    OBVIOUS
  <2>1. k \in a..i \/ k \in i..b
    BY <1>5
  <2> QED
    BY <1>2, <1>4, <2>1
<1>7. a = 1 \/ K!Owner(nodes, a - 1) # o
  <2> SUFFICES ASSUME a # 1, K!Owner(nodes, a - 1) = o PROVE FALSE
    OBVIOUS
  <2>1. a - 1 \in 1..i /\ a - 1 \in Nat /\ ~ (a <= a - 1)
    BY <1>5
  <2>2. \A k \in (a - 1)..i : K!Owner(nodes, k) = o
    <3> SUFFICES ASSUME NEW k \in (a - 1)..i PROVE K!Owner(nodes, k) = o
      OBVIOUS
    <3>1. k = a - 1 \/ k \in a..i
      BY <1>5
    <3> QED
      BY <1>2, <3>1
  <2>3. a - 1 \in Before
    BY <2>1, <2>2
  <2> HIDE DEF Before
  <2> QED
    BY <1>2, <2>1, <2>3
<1>8. b = total \/ K!Owner(nodes, b + 1) # o
  <2> SUFFICES ASSUME b # total, K!Owner(nodes, b + 1) = o PROVE FALSE
    OBVIOUS
  <2>1. d - 1 \in Nat /\ d - 1 <= total - j /\ ~ (d <= d - 1) /\ total - (d - 1) = b + 1
    BY <1>4, <1>5
  <2>2. \A k \in i..(b + 1) : K!Owner(nodes, k) = o
    <3> SUFFICES ASSUME NEW k \in i..(b + 1) PROVE K!Owner(nodes, k) = o
      OBVIOUS
    <3>1. k = b + 1 \/ k \in i..b
      BY <1>5
    <3> QED
      BY <1>4, <3>1
  <2>3. d - 1 \in After
    BY <2>1, <2>2
  <2> HIDE DEF After
  <2> QED
    BY <1>4, <2>1, <2>3
<1> HIDE DEF o, b
<1>9. /\ a \in 1..total /\ b \in 1..total /\ a <= b /\ a <= i /\ j <= b
      /\ a \in a..b /\ b \in a..b
  BY <1>5
<1>10. K!Owner(nodes, a) = o /\ K!Owner(nodes, b) = o
  BY <1>6, <1>9
<1>11. <<a, b>> \in K!Runs(nodes, total)
  BY <1>6, <1>7, <1>8, <1>9, <1>10 DEF K!Runs
<1> WITNESS <<a, b>> \in K!Runs(nodes, total)
<1> QED
  BY <1>9, <1>10 DEF o

-----------------------------------------------------------------------------
(* Chunks: the chunks of one file.                                         *)

LEMMA LinesBetween ==
  ASSUME NEW s \in Seq(Nat), NEW i \in 1..Len(s), NEW j \in i..Len(s)
  PROVE /\ DOMAIN SubSeq(s, i, j) = 1..(j - i + 1)
        /\ \A k \in 1..(j - i + 1) : SubSeq(s, i, j)[k] = s[i + k - 1]
OBVIOUS

\* A passage with text on it makes every piece around it one with text on it.
LEMMA TextStays ==
  ASSUME NEW lines \in Seq(Nat), NEW a \in 1..Len(lines), NEW b \in a..Len(lines),
         NEW i \in 1..Len(lines), NEW j \in i..Len(lines), a <= i, j <= b,
         ~K!Blank(SubSeq(lines, i, j))
  PROVE ~K!Blank(SubSeq(lines, a, b))
<1>1. /\ DOMAIN SubSeq(lines, i, j) = 1..(j - i + 1)
      /\ \A k \in 1..(j - i + 1) : SubSeq(lines, i, j)[k] = lines[i + k - 1]
  BY LinesBetween
<1>2. /\ DOMAIN SubSeq(lines, a, b) = 1..(b - a + 1)
      /\ \A k \in 1..(b - a + 1) : SubSeq(lines, a, b)[k] = lines[a + k - 1]
  BY LinesBetween
<1>3. PICK k \in 1..(j - i + 1) : SubSeq(lines, i, j)[k] # 0
  BY <1>1 DEF K!Blank
<1>4. lines[i + k - 1] # 0
  BY <1>1, <1>3
<1>5. /\ i + k - a \in 1..(b - a + 1)
      /\ a + (i + k - a) - 1 = i + k - 1
  OBVIOUS
<1>6. SubSeq(lines, a, b)[i + k - a] # 0
  BY <1>2, <1>4, <1>5
<1> QED
  BY <1>2, <1>5, <1>6 DEF K!Blank

LEMMA ImageIsFinite ==
  ASSUME NEW S, IsFiniteSet(S), NEW F
  PROVE IsFiniteSet({F[x] : x \in S})
<1> DEFINE g == [x \in S |-> F[x]]
<1>1. g \in Surjection(S, {F[x] : x \in S})
  BY DEF Surjection
<1> QED
  BY <1>1, FS_Surjection

LEMMA PiecesAreFinite ==
  ASSUME NEW f, NEW n, NEW kind, NEW lines, NEW P, NEW spans \in Seq(P)
  PROVE IsFiniteSet(K!Pieces(f, n, kind, spans, lines))
<1>1. DOMAIN spans = 1..Len(spans) /\ Len(spans) \in Nat
  OBVIOUS
<1>2. IsFiniteSet(DOMAIN spans)
  BY <1>1, FS_Interval
<1> DEFINE p == [k \in DOMAIN spans |-> K!Piece(f, n, kind, spans[k], lines)]
<1>3. IsFiniteSet({p[k] : k \in DOMAIN spans})
  <2> HIDE DEF p
  <2> QED
    BY <1>2, ImageIsFinite
<1>4. K!Pieces(f, n, kind, spans, lines) = {p[k] : k \in DOMAIN spans}
  BY DEF K!Pieces
<1> QED
  BY <1>3, <1>4

\* A union over finitely many finite sets.
LEMMA UnionIsFinite ==
  ASSUME NEW S, IsFiniteSet(S), NEW F, \A x \in S : IsFiniteSet(F[x])
  PROVE IsFiniteSet(UNION {F[x] : x \in S})
<1>1. IsFiniteSet({F[x] : x \in S})
  BY ImageIsFinite
<1>2. \A t \in {F[x] : x \in S} : IsFiniteSet(t)
  OBVIOUS
<1> QED
  BY <1>1, <1>2, FS_UNION

LEMMA WindowsAreSpans ==
  \A first, last, total \in Nat :
    K!Windows(first, last, total) \in Seq((1..total) \X (1..total))
BY WindowsCover

\* What a parse says of sentences, unless the library refuses the sizes.
LEMMA ParsedSentences ==
  ASSUME NEW text, Parsed(text), K!Splittable
  PROVE Sentences(text.ends, Len(text.lines))
BY DEF Parsed, K!Splittable, Sentences

LEMMA SplitsAreSpans ==
  ASSUME NEW text, Parsed(text), NEW spans \in K!Splits(text)
  PROVE spans \in Seq((1..Len(text.lines)) \X (1..Len(text.lines)))
<1> DEFINE total == Len(text.lines)
           P == (1..total) \X (1..total)
<1>1. total \in Nat
  BY DEF Parsed
<1>2. CASE total = 0
  <2>1. K!SplitSpans(total) = <<>> /\ K!SentenceSpans(text.ends, total) = <<>>
    BY <1>2, SplitUnfolds, SentencesUnfold
  <2>2. spans = <<>>
    BY <2>1 DEF K!Splits
  <2> HIDE DEF P
  <2> QED
    BY <2>2 DEF P
<1>3. CASE total \in Nat \ {0}
  <2>1. CASE spans = K!SplitSpans(total)
    BY <1>3, <2>1, SplitCovers
  <2>2. CASE spans = K!SentenceSpans(text.ends, total) /\ K!Splittable
    BY <1>3, <2>2, ParsedSentences, SentencesCover
  <2> QED
    BY <2>1, <2>2 DEF K!Splits
<1> QED
  BY <1>1, <1>2, <1>3

\* chunk_repository makes finitely many chunks of a file.
LEMMA ChunksAreFinite ==
  ASSUME NEW f, NEW nodes, Parse(nodes), NEW lines \in Seq(Nat),
         NEW spans \in Seq((1..Len(lines)) \X (1..Len(lines)))
  PROVE IsFiniteSet(K!ChunksOf(f, nodes, lines, spans))
<1> DEFINE total == Len(lines)
           Functions == {m \in nodes : m.kind \in {"function", "method"}}
           Documents == {n \in nodes : n.kind = "document"}
           Modules == {m \in nodes : m.kind = "module"}
           Classes == {m \in nodes : m.kind = "class"}
<1>1. total \in Nat
  OBVIOUS
<1>2. /\ IsFiniteSet(Functions) /\ IsFiniteSet(Documents)
      /\ IsFiniteSet(Modules) /\ IsFiniteSet(Classes)
  <2>1. /\ Functions \subseteq nodes /\ Documents \subseteq nodes
        /\ Modules \subseteq nodes /\ Classes \subseteq nodes
    OBVIOUS
  <2> QED
    BY <2>1, FS_Subset DEF Parse
<1>3. IsFiniteSet(K!Bodies(f, nodes, lines))
  <2> DEFINE F == [n \in Functions |->
                     K!Pieces(f, n, "function_body", K!Windows(n.first, n.last, total), lines)]
  <2>1. ASSUME NEW n \in Functions PROVE IsFiniteSet(F[n])
    <3>1. n.first \in Nat /\ n.last \in Nat
      BY DEF Parse
    <3>2. K!Windows(n.first, n.last, total) \in Seq((1..total) \X (1..total))
      BY <1>1, <3>1, WindowsAreSpans
    <3> QED
      BY <3>2, PiecesAreFinite
  <2>2. K!Bodies(f, nodes, lines) = UNION {F[n] : n \in Functions}
    BY DEF K!Bodies
  <2> HIDE DEF F, Functions
  <2> QED
    BY <1>2, <2>1, <2>2, UnionIsFinite
<1>4. IsFiniteSet(K!Contexts(f, nodes))
  <2> DEFINE M == [n \in Modules |-> K!Listing(f, n, "module_context", nodes)]
             N == [n \in Classes |-> K!Listing(f, n, "class_context", nodes)]
  <2>1. K!Contexts(f, nodes) = {M[n] : n \in Modules} \cup {N[n] : n \in Classes}
    BY DEF K!Contexts
  <2> HIDE DEF M, N, Modules, Classes
  <2>2. IsFiniteSet({M[n] : n \in Modules}) /\ IsFiniteSet({N[n] : n \in Classes})
    BY <1>2, ImageIsFinite
  <2> QED
    BY <2>1, <2>2, FS_Union
<1>5. IsFiniteSet(K!Residue(f, nodes, lines))
  <2> DEFINE R == K!Runs(nodes, total)
             owner(r) == K!Owner(nodes, r[1])
             F == [r \in R |->
                     LET kind == IF owner(r).kind \in K!TypeKinds THEN "type_body"
                                 ELSE "module_body"
                     IN IF owner(r).kind \in K!TypeKinds \cup {"module"}
                           /\ ~K!Blank(SubSeq(lines, r[1], r[2]))
                        THEN K!Pieces(f, owner(r), kind, K!Windows(r[1], r[2], total), lines)
                        ELSE {}]
  <2>1. IsFiniteSet(R) /\ R \subseteq (1..total) \X (1..total)
    <3>1. R \subseteq (1..total) \X (1..total)
      BY DEF K!Runs
    <3>2. IsFiniteSet(1..total)
      BY <1>1, FS_Interval
    <3>3. IsFiniteSet((1..total) \X (1..total))
      BY <3>2, FS_Product
    <3> QED
      BY <3>1, <3>3, FS_Subset
  <2>2. K!Residue(f, nodes, lines) = UNION {F[r] : r \in R}
    BY DEF K!Residue
  <2>3. ASSUME NEW r \in R PROVE IsFiniteSet(F[r])
    <3>1. r[1] \in Nat /\ r[2] \in Nat
      BY <1>1, <2>1
    <3>2. K!Windows(r[1], r[2], total) \in Seq((1..total) \X (1..total))
      BY <1>1, <3>1, WindowsAreSpans
    <3>3. \/ F[r] = {}
          \/ \E kind : F[r] = K!Pieces(f, owner(r), kind, K!Windows(r[1], r[2], total), lines)
      <4> HIDE DEF R
      <4> QED
        OBVIOUS
    <3> QED
      BY <3>2, <3>3, PiecesAreFinite, FS_EmptySet
  <2>4. IsFiniteSet(R) /\ \A r \in R : IsFiniteSet(F[r])
    BY <2>1, <2>3
  <2> HIDE DEF F, R
  <2>5. IsFiniteSet(UNION {F[r] : r \in R})
    BY <2>4, UnionIsFinite
  <2> QED
    BY <2>2, <2>5
<1> DEFINE F == [n \in Documents |-> K!Pieces(f, n, "document", spans, lines)]
<1>6. IsFiniteSet(UNION {F[n] : n \in Documents})
  <2>1. ASSUME NEW n \in Documents PROVE IsFiniteSet(F[n])
    BY PiecesAreFinite
  <2> HIDE DEF F, Documents
  <2> QED
    BY <1>2, <2>1, UnionIsFinite
<1>7. IsFiniteSet(K!Contexts(f, nodes) \cup K!Bodies(f, nodes, lines)
                    \cup K!Residue(f, nodes, lines))
  BY <1>3, <1>4, <1>5, FS_Union
<1>8. \/ K!ChunksOf(f, nodes, lines, spans) \subseteq UNION {F[n] : n \in Documents}
      \/ K!ChunksOf(f, nodes, lines, spans)
           \subseteq K!Contexts(f, nodes) \cup K!Bodies(f, nodes, lines)
                       \cup K!Residue(f, nodes, lines)
  <2>1. UNION {F[n] : n \in Documents}
        = UNION {K!Pieces(f, n, "document", spans, lines) : n \in Documents}
    OBVIOUS
  <2>2. CASE Documents # {}
    BY <2>1, <2>2 DEF K!ChunksOf
  <2>3. CASE Documents = {}
    BY <2>3 DEF K!ChunksOf
  <2> QED
    BY <2>2, <2>3
<1> HIDE DEF F, Documents
<1> QED
  BY <1>6, <1>7, <1>8, FS_Subset

\* One of the chunks has lines i to j of the file in it, as they are.
Found(f, lines, i, j, made) ==
  \E c \in made : /\ c.file = f /\ c.kind \in K!Verbatim
                    /\ c.span[1] <= i /\ j <= c.span[2]
                    /\ c.text = SubSeq(lines, c.span[1], c.span[2])

LEMMA SpanAround ==
  ASSUME NEW s \in Seq(Nat), NEW i \in 1..Len(s), NEW j \in i..Len(s),
         NEW a \in 1..Len(s), NEW b \in 1..Len(s), a <= i, j <= b
  PROVE b \in a..Len(s)
OBVIOUS

LEMMA PieceAround ==
  ASSUME NEW f, NEW n, NEW kind \in K!Verbatim, NEW lines \in Seq(Nat),
         NEW spans \in Seq((1..Len(lines)) \X (1..Len(lines))), NEW k \in 1..Len(spans),
         NEW i \in 1..Len(lines), NEW j \in i..Len(lines),
         spans[k][1] <= i, j <= spans[k][2], ~K!Blank(SubSeq(lines, i, j))
  PROVE Found(f, lines, i, j,
              {c \in K!Pieces(f, n, kind, spans, lines) : ~K!Blank(c.text)})
<1> DEFINE c == K!Piece(f, n, kind, spans[k], lines)
           P == (1..Len(lines)) \X (1..Len(lines))
<1>1. k \in DOMAIN spans /\ spans[k] \in P
  <2>1. spans \in Seq(P)
    OBVIOUS
  <2> HIDE DEF P
  <2> QED
    BY <2>1
<1>2. spans[k][1] \in 1..Len(lines) /\ spans[k][2] \in spans[k][1]..Len(lines)
  <2>1. spans[k][1] \in 1..Len(lines) /\ spans[k][2] \in 1..Len(lines)
    BY <1>1
  <2> QED
    BY <2>1, SpanAround
<1>3. /\ c.file = f /\ c.kind = kind /\ c.span = spans[k]
      /\ c.text = SubSeq(lines, spans[k][1], spans[k][2])
  BY DEF K!Piece
<1>4. c \in K!Pieces(f, n, kind, spans, lines)
  BY <1>1 DEF K!Pieces
<1>5. ~K!Blank(c.text)
  <2> DEFINE a == spans[k][1]
             b == spans[k][2]
  <2>1. a \in 1..Len(lines) /\ b \in a..Len(lines) /\ a <= i /\ j <= b
    BY <1>2
  <2> HIDE DEF a, b
  <2>2. ~K!Blank(SubSeq(lines, a, b))
    BY <2>1, TextStays
  <2> QED
    BY <1>3, <2>2 DEF a, b
<1> HIDE DEF c
<1> QED
  BY <1>3, <1>4, <1>5 DEF Found

\* Every passage of a promise that has text on it is in one of the chunks.
IsKept(f, text, promised, made) ==
  \A r \in promised : ~K!Blank(SubSeq(text.lines, r[1], r[2])) =>
                        Found(f, text.lines, r[1], r[2], made)

LEMMA PassageIsInTheText ==
  ASSUME NEW text, Parsed(text), NEW r \in K!Passages(text)
  PROVE r[1] \in 1..Len(text.lines) /\ r[2] \in r[1]..Len(text.lines)
<1>1. DOMAIN text.lines = 1..Len(text.lines) /\ Len(text.lines) \in Nat
  BY DEF Parsed
<1> QED
  BY <1>1 DEF K!Passages

LEMMA FoundInMore ==
  ASSUME NEW f, NEW lines, NEW i, NEW j, NEW S, NEW R, S \subseteq R, Found(f, lines, i, j, S)
  PROVE Found(f, lines, i, j, R)
BY DEF Found

\* _document_chunks: the fallback keeps the promise of its overlap, the library's splitter
\* that of whole sentences.
LEMMA DocumentsCover ==
  ASSUME NEW f, NEW text, Parsed(text), text.kind = "document", NEW spans \in K!Splits(text)
  PROVE \E promised \in K!Promises(text) :
          IsKept(f, text, promised, K!ChunksOf(f, text.nodes, text.lines, spans))
<1> DEFINE lines == text.lines
           total == Len(lines)
           made == K!ChunksOf(f, text.nodes, lines, spans)
<1>1. lines \in Seq(Nat) /\ total \in Nat
  BY DEF Parsed
<1>2. PICK n \in text.nodes : n.kind = "document"
  BY DEF Parsed
<1>3. {c \in K!Pieces(f, n, "document", spans, lines) : ~K!Blank(c.text)} \subseteq made
  <2>1. n \in {m \in text.nodes : m.kind = "document"}
    BY <1>2
  <2> QED
    BY <2>1 DEF K!ChunksOf
<1>4. spans \in Seq((1..total) \X (1..total))
  BY SplitsAreSpans
<1>5. K!Promises(text) = {K!OfOneSentence(text), K!Reaching(text, Fallback)}
  BY DEF K!Promises, Fallback
<1> HIDE DEF made
<1>6. ASSUME NEW r \in K!Passages(text), ~K!Blank(SubSeq(lines, r[1], r[2])),
             \E k \in 1..Len(spans) : spans[k][1] <= r[1] /\ r[2] <= spans[k][2]
      PROVE Found(f, lines, r[1], r[2], made)
  <2>1. PICK k \in 1..Len(spans) : spans[k][1] <= r[1] /\ r[2] <= spans[k][2]
    BY <1>6
  <2>2. r[1] \in 1..total /\ r[2] \in r[1]..total
    BY PassageIsInTheText
  <2>3. "document" \in K!Verbatim
    BY DEF K!Verbatim
  <2> DEFINE i == r[1]
             j == r[2]
  <2>4. /\ i \in 1..total /\ j \in i..total /\ ~K!Blank(SubSeq(lines, i, j))
        /\ spans[k][1] <= i /\ j <= spans[k][2]
    BY <1>6, <2>1, <2>2
  <2> HIDE DEF i, j, lines
  <2>5. Found(f, lines, i, j,
              {c \in K!Pieces(f, n, "document", spans, lines) : ~K!Blank(c.text)})
    BY <1>1, <1>4, <2>3, <2>4, PieceAround
  <2>6. Found(f, lines, i, j, made)
    BY <1>3, <2>5, FoundInMore
  <2> QED
    BY <2>6 DEF i, j
<1>7. CASE spans = K!SplitSpans(total)
  <2>1. ASSUME NEW r \in K!Reaching(text, Fallback)
        PROVE /\ r \in K!Passages(text)
              /\ \E k \in 1..Len(spans) : spans[k][1] <= r[1] /\ r[2] <= spans[k][2]
    <3>1. r \in K!Passages(text) /\ r[2] <= r[1] + Fallback
      BY DEF K!Reaching
    <3>2. r[1] \in 1..total /\ r[2] \in r[1]..total
      BY <3>1, PassageIsInTheText
    <3>3. total \in Nat \ {0} /\ r[2] \in 1..total /\ r[1] <= r[2]
      BY <1>1, <3>2
    <3> QED
      BY <1>7, <3>1, <3>2, <3>3, SplitCovers
  <2>2. IsKept(f, text, K!Reaching(text, Fallback), made)
    BY <1>6, <2>1 DEF IsKept
  <2> QED
    BY <1>5, <2>2 DEF made
<1>8. CASE spans = K!SentenceSpans(text.ends, total) /\ K!Splittable
  <2>1. ASSUME NEW r \in K!OfOneSentence(text)
        PROVE /\ r \in K!Passages(text)
              /\ \E k \in 1..Len(spans) : spans[k][1] <= r[1] /\ r[2] <= spans[k][2]
    <3>1. r \in K!Passages(text) /\ OneSentence(text.ends, r[1], r[2])
      BY DEF K!OfOneSentence, OneSentence
    <3>2. r[1] \in 1..total /\ r[2] \in r[1]..total
      BY <3>1, PassageIsInTheText
    <3>3. total \in Nat \ {0} /\ r[2] \in 1..total /\ r[1] <= r[2]
      BY <1>1, <3>2
    <3>4. Sentences(text.ends, total)
      BY <1>8, ParsedSentences
    <3> QED
      BY <1>8, <3>1, <3>2, <3>3, <3>4, SentencesCover
  <2>2. IsKept(f, text, K!OfOneSentence(text), made)
    BY <1>6, <2>1 DEF IsKept
  <2> QED
    BY <1>5, <2>2 DEF made
<1> QED
  BY <1>7, <1>8 DEF K!Splits

\* chunk_repository: a passage of one owner is in one of its file's chunks.
LEMMA CodeCovers ==
  ASSUME NEW f, NEW text, Parsed(text), text.kind = "code", NEW spans,
         NEW i \in 1..Len(text.lines), NEW j \in i..Len(text.lines), j <= i + BodyOverlap,
         \A k \in i..j : K!Owner(text.nodes, k) = K!Owner(text.nodes, i),
         ~K!Blank(SubSeq(text.lines, i, j))
  PROVE Found(f, text.lines, i, j, K!ChunksOf(f, text.nodes, text.lines, spans))
<1> DEFINE lines == text.lines
           nodes == text.nodes
           total == Len(lines)
           Documents == {n \in nodes : n.kind = "document"}
<1>a. /\ lines \in Seq(Nat) /\ Parse(nodes) /\ total \in Nat
  BY DEF Parsed, Parse
<1>b. /\ i \in 1..total /\ j \in i..total /\ j <= i + BodyOverlap
      /\ ~K!Blank(SubSeq(lines, i, j))
  OBVIOUS
<1>1. CodeNodes(nodes) /\ BodyOverlap \in Nat
  BY <1>a, ChunkAssumption DEF CodeNodes, Parse, Parsed
<1> DEFINE o == K!Owner(nodes, i)
<1>2. \A k \in i..j : K!Owner(nodes, k) = o
  OBVIOUS
<1>3. Documents = {}
  BY <1>1 DEF CodeNodes, Declared
<1>4. K!ChunksOf(f, nodes, lines, spans)
      = {c \in K!Contexts(f, nodes) \cup K!Bodies(f, nodes, lines)
                 \cup K!Residue(f, nodes, lines) :
           c.kind \in K!Verbatim => ~K!Blank(c.text)}
  BY <1>3 DEF K!ChunksOf
<1>5. j <= i + BodyOverlap /\ i \in Nat \ {0} /\ j \in Nat /\ i <= j /\ j <= total
  BY <1>a, <1>b
<1>6. /\ o \in nodes
      /\ \/ o.kind = "module"
         \/ /\ o.kind \in K!TypeKinds \cup {"function", "method"}
            /\ i \in o.first..o.last /\ j \in o.first..o.last
  <2>1. o \in nodes /\ \/ o.kind = "module"
                       \/ /\ o.kind \in K!TypeKinds \cup {"function", "method"}
                          /\ i \in o.first..o.last
    BY <1>1, <1>5, OwnerIsAround
  <2>2. K!Owner(nodes, j) = o
    BY <1>2, <1>5
  <2>3. o.kind = "module" \/ j \in o.first..o.last
    BY <1>1, <1>5, <2>2, OwnerIsAround
  <2> QED
    BY <2>1, <2>3
<1> HIDE DEF o
<1>7. CASE o.kind \in {"function", "method"}
  <2> DEFINE windows == K!Windows(o.first, o.last, total)
  <2>1. o.first \in Nat /\ o.last \in Nat
    BY <1>1, <1>6 DEF CodeNodes, Parse
  <2>2. i \in o.first..o.last /\ j \in o.first..o.last
    BY <1>6, <1>7
  <2>3. InTheBody(o.first, o.last, total, i, j)
    BY <1>5, <2>1, <2>2 DEF InTheBody
  <2>4. /\ windows \in Seq((1..total) \X (1..total))
        /\ \E k \in 1..Len(windows) : windows[k][1] <= i /\ j <= windows[k][2]
    BY <1>a, <1>5, <2>1, <2>3, WindowsCover
  <2>5. Found(f, lines, i, j,
              {c \in K!Pieces(f, o, "function_body", windows, lines) : ~K!Blank(c.text)})
    <3> HIDE DEF windows, lines
    <3>1. PICK k \in 1..Len(windows) : windows[k][1] <= i /\ j <= windows[k][2]
      BY <2>4
    <3>2. "function_body" \in K!Verbatim
      BY DEF K!Verbatim
    <3> QED
      BY <1>a, <1>b, <2>4, <3>1, <3>2, PieceAround
  <2>6. K!Pieces(f, o, "function_body", windows, lines) \subseteq K!Bodies(f, nodes, lines)
    BY <1>6, <1>7 DEF K!Bodies
  <2>7. {c \in K!Pieces(f, o, "function_body", windows, lines) : ~K!Blank(c.text)}
        \subseteq K!ChunksOf(f, nodes, lines, spans)
    <3> HIDE DEF windows, lines, nodes
    <3> QED
      BY <1>4, <2>6
  <2> QED
    BY <2>5, <2>7, FoundInMore
<1>8. CASE o.kind \in K!TypeKinds \cup {"module"}
  <2> HIDE DEF nodes, lines
  <2>1. PICK r \in K!Runs(nodes, total) :
          /\ r[1] \in 1..total /\ r[2] \in 1..total
          /\ r[1] <= i /\ j <= r[2]
          /\ K!Owner(nodes, r[1]) = o
    BY <1>a, <1>b, <1>2, RunAround DEF o
  <2> DEFINE windows == K!Windows(r[1], r[2], total)
             kind == IF o.kind \in K!TypeKinds THEN "type_body" ELSE "module_body"
  <2>2. r[1] \in Nat /\ r[2] \in Nat /\ r[2] \in r[1]..total
    BY <1>a, <1>5, <2>1
  <2>3. InTheBody(r[1], r[2], total, i, j)
    BY <1>5, <2>1, <2>2 DEF InTheBody
  <2>4. /\ windows \in Seq((1..total) \X (1..total))
        /\ \E k \in 1..Len(windows) : windows[k][1] <= i /\ j <= windows[k][2]
    BY <1>a, <1>5, <2>2, <2>3, WindowsCover
  <2>5. Found(f, lines, i, j,
              {c \in K!Pieces(f, o, kind, windows, lines) : ~K!Blank(c.text)})
    <3>0. kind \in K!Verbatim
      BY DEF K!Verbatim
    <3> HIDE DEF windows, kind
    <3>1. PICK k \in 1..Len(windows) : windows[k][1] <= i /\ j <= windows[k][2]
      BY <2>4
    <3> QED
      BY <1>a, <1>b, <2>4, <3>0, <3>1, PieceAround
  <2>6. ~K!Blank(SubSeq(lines, r[1], r[2]))
    <3> DEFINE a == r[1]
               b == r[2]
    <3>1. a \in 1..Len(lines) /\ b \in a..Len(lines) /\ a <= i /\ j <= b
      BY <2>1, <2>2
    <3> HIDE DEF a, b
    <3>2. ~K!Blank(SubSeq(lines, a, b))
      BY <1>a, <1>b, <3>1, TextStays
    <3> QED
      BY <3>2 DEF a, b
  <2>7. K!Pieces(f, o, kind, windows, lines) \subseteq K!Residue(f, nodes, lines)
    BY <1>8, <2>1, <2>6 DEF K!Residue
  <2>8. {c \in K!Pieces(f, o, kind, windows, lines) : ~K!Blank(c.text)}
        \subseteq K!ChunksOf(f, nodes, lines, spans)
    <3> HIDE DEF windows, kind
    <3> QED
      BY <1>4, <2>7
  <2> QED
    BY <2>5, <2>8, FoundInMore DEF lines, nodes
<1> QED
  BY <1>6, <1>7, <1>8

\* chunk_repository: what a file's chunks promise they keep.
LEMMA ChunksCover ==
  ASSUME NEW f, NEW text, Parsed(text), text.kind # "binary", NEW spans \in K!Splits(text)
  PROVE \E promised \in K!Promises(text) :
          IsKept(f, text, promised, K!ChunksOf(f, text.nodes, text.lines, spans))
<1>1. CASE text.kind = "document"
  BY <1>1, DocumentsCover
<1>2. CASE text.kind = "code"
  <2> DEFINE made == K!ChunksOf(f, text.nodes, text.lines, spans)
  <2>1. ASSUME NEW r \in K!OfOneOwner(text), ~K!Blank(SubSeq(text.lines, r[1], r[2]))
        PROVE Found(f, text.lines, r[1], r[2], made)
    <3>1. /\ r \in K!Passages(text) /\ r[2] <= r[1] + BodyOverlap
          /\ \A k \in r[1]..r[2] : K!Owner(text.nodes, k) = K!Owner(text.nodes, r[1])
      BY DEF K!OfOneOwner, K!Reaching
    <3>2. r[1] \in 1..Len(text.lines) /\ r[2] \in r[1]..Len(text.lines)
      BY <3>1, PassageIsInTheText
    <3> QED
      BY <1>2, <2>1, <3>1, <3>2, CodeCovers
  <2> HIDE DEF made
  <2>2. IsKept(f, text, K!OfOneOwner(text), made)
    BY <2>1 DEF IsKept
  <2>3. K!OfOneOwner(text) \in K!Promises(text)
    BY <1>2 DEF K!Promises
  <2> QED
    BY <2>2, <2>3 DEF made
<1> QED
  BY <1>1, <1>2 DEF Parsed

-----------------------------------------------------------------------------
(* Chunks: the invariant.                                                  *)

VersionOf(f) == Versions[f][kDisk[f]]
ChunksAt(f, v, spans) == K!ChunksOf(f, K!NodesOf(f, v), K!Text(f, v).lines, spans)
Listed(c) == \E k \in 1..Len(kReady) : kReady[k] = c

ChunkTypes ==
  /\ kDisk \in [Paths -> Nat] /\ kParsed \in [Paths -> Nat] /\ kMarked \in [Paths -> Nat]
  /\ kPc \in {"idle", "exists", "probe", "read", "embed"}
  /\ kPc \in {"exists", "probe", "read"} => kAt \in Paths
  /\ kPc = "embed" => kAt \in Nat \ {0}
  /\ kFailed \in BOOLEAN

ReadyIsAList == \E S : kReady \in Seq(S)

\* No row and no marker is ahead of the file, and there is no marker without a row.
NothingAhead ==
  /\ kGraph = kParsed
  /\ \A f \in Paths : /\ kDisk[f] \in 1..Len(Versions[f])
                      /\ kParsed[f] <= kDisk[f] /\ kMarked[f] <= kDisk[f]
                      /\ kParsed[f] = 0 => kMarked[f] = 0

\* The file the chunker is at.
AtHand ==
  /\ kPc = "probe" => kAt \notin kAway
  /\ kPc \in {"probe", "read"} => kParsed[kAt] # 0

\* Once the chunker has passed a file its chunks are listed, unless it was not read, or
\* is not the one that was parsed any more.
Passed(f) == kPc = "embed" \/ (kPc \in {"exists", "probe", "read"} /\ f < kAt)
Gathered ==
  \A f \in Paths :
    Passed(f) /\ kParsed[f] # 0 /\ kDisk[f] = kParsed[f] /\ f \notin kUnreadable
              /\ VersionOf(f).kind # "binary"
    => \E spans \in K!Splits(VersionOf(f)) :
         \A c \in ChunksAt(f, kDisk[f], spans) : Listed(c)

\* What the windows so far had is stored, if no request failed.
Embedded ==
  kPc = "embed" /\ ~kFailed => \A k \in 1..Len(kReady) : k < kAt => kReady[k] \in kStored

\* A file whose marker agrees with its bytes has every chunk stored.
MarkedIsStored ==
  \A f \in Paths :
    kMarked[f] = kDisk[f] /\ VersionOf(f).kind # "binary"
    => \E spans \in K!Splits(VersionOf(f)) : ChunksAt(f, kDisk[f], spans) \subseteq kStored

ChunkInv ==
  /\ ChunkTypes /\ ReadyIsAList /\ NothingAhead /\ AtHand
  /\ Gathered /\ Embedded /\ MarkedIsStored

-----------------------------------------------------------------------------
(* Chunks: each step keeps the invariant.                                  *)

LEMMA PathCount == Cardinality(Paths) \in Nat /\ Paths = 1..K!Cardinality(Paths)
<1>1. K!Cardinality(Paths) = Cardinality(Paths)
  BY DEF K!Cardinality, Cardinality
<1> QED
  BY <1>1, ChunkAssumption

\* When the chunker goes on, the file it was at is passed too.
LEMMA GoingOn ==
  ASSUME ChunkTypes, kPc \in {"exists", "probe", "read"}, K!NextFile
  PROVE /\ kPc' \in {"exists", "embed"}
        /\ kPc' = "exists" => kAt' \in Paths
        /\ kPc' = "embed" => kAt' = 1
        /\ \A f \in Paths : Passed(f)' => Passed(f) \/ f = kAt
<1> DEFINE n == K!Cardinality(Paths)
<1>1. n \in Nat /\ Paths = 1..n /\ kAt \in 1..n
  <2>1. K!Cardinality(Paths) = Cardinality(Paths)
    BY DEF K!Cardinality, Cardinality
  <2> QED
    BY <2>1, PathCount DEF ChunkTypes
<1>2. CASE kAt = n /\ kPc' = "embed" /\ kAt' = 1
  <2>1. \A f \in Paths : f < kAt \/ f = kAt
    BY <1>1, <1>2
  <2> HIDE DEF n
  <2> QED
    BY <1>2, <2>1 DEF Passed
<1>3. CASE kAt # n /\ kPc' = "exists" /\ kAt' = kAt + 1
  <2>1. kAt + 1 \in Paths /\ \A f \in Paths : f < kAt + 1 => f < kAt \/ f = kAt
    BY <1>1, <1>3
  <2> HIDE DEF n
  <2> QED
    BY <1>3, <2>1 DEF Passed
<1> HIDE DEF n
<1> QED
  BY <1>2, <1>3 DEF K!NextFile, n

\* What the steps of the chunker leave alone.
LEMMA ChunkerKeeps ==
  ASSUME ChunkInv, K!Chunking, kPc' # "embed" \/ kAt' = 1
  PROVE NothingAhead' /\ MarkedIsStored' /\ Embedded'
                      /\ kDisk' = kDisk /\ kParsed' = kParsed /\ kMarked' = kMarked
                      /\ kAway' = kAway /\ kFailed' = kFailed
<1>1. /\ kDisk' = kDisk /\ kParsed' = kParsed /\ kMarked' = kMarked /\ kAway' = kAway
      /\ kGraph' = kGraph /\ kStored' = kStored /\ kFailed' = kFailed
  BY DEF K!Chunking, K!db, K!tree
<1>2. NothingAhead'
  BY <1>1 DEF ChunkInv, NothingAhead
<1>3. MarkedIsStored'
  BY <1>1 DEF ChunkInv, MarkedIsStored, VersionOf
<1>4. Embedded'
  BY DEF Embedded
<1> QED
  BY <1>1, <1>2, <1>3, <1>4

\* A file that is passed by without a chunk, for a reason that counts.
Excused(f) ==
  ~ (kParsed[f] # 0 /\ kDisk[f] = kParsed[f] /\ f \notin kUnreadable
     /\ VersionOf(f).kind # "binary")

LEMMA PassedBy ==
  ASSUME ChunkInv, K!Chunking, kPc \in {"exists", "probe", "read"}, K!NextFile,
         kReady' = kReady, kUnreadable \subseteq kUnreadable',
         NEW a \in Paths, a = kAt, Excused(a)'
  PROVE ChunkInv'
<1>1. /\ kPc' \in {"exists", "embed"}
      /\ kPc' = "exists" => kAt' \in Paths
      /\ kPc' = "embed" => kAt' = 1
      /\ \A f \in Paths : Passed(f)' => Passed(f) \/ f = kAt
  BY GoingOn DEF ChunkInv
<1>2. /\ NothingAhead' /\ MarkedIsStored' /\ Embedded'
      /\ kDisk' = kDisk /\ kParsed' = kParsed /\ kMarked' = kMarked
      /\ kAway' = kAway /\ kFailed' = kFailed
  BY <1>1, ChunkerKeeps
<1>3. ChunkTypes' /\ ReadyIsAList' /\ AtHand'
  BY <1>1, <1>2 DEF ChunkInv, ChunkTypes, ReadyIsAList, AtHand
<1>4. Gathered'
  <2> SUFFICES ASSUME NEW f \in Paths, Passed(f)', ~Excused(f)'
               PROVE \E s \in K!Splits(VersionOf(f)) :
                       \A c \in ChunksAt(f, kDisk[f], s) : Listed(c)'
    BY <1>2 DEF Gathered, Excused, VersionOf
  <2>1. f # kAt /\ Passed(f)
    BY <1>1
  <2>2. ~Excused(f)
    BY <1>2 DEF Excused, VersionOf
  <2>3. PICK s \in K!Splits(VersionOf(f)) : \A c \in ChunksAt(f, kDisk[f], s) : Listed(c)
    BY <2>1, <2>2 DEF ChunkInv, Gathered, Excused
  <2> QED
    BY <1>2, <2>3 DEF Listed
<1> QED
  BY <1>2, <1>3, <1>4 DEF ChunkInv

LEMMA ChunkExistsKeeps ==
  ASSUME ChunkInv, K!Exists
  PROVE ChunkInv'
<1>0. /\ kPc = "exists" /\ kAt \in Paths /\ K!Chunking
      /\ kParsed' = kParsed
  BY DEF K!Exists, ChunkInv, ChunkTypes, K!Chunking
<1>1. CASE kParsed[kAt] = 0 /\ K!Skip
  <2>1. PICK b \in Paths : b = kAt
    BY <1>0
  <2>2. Excused(b)'
    BY <1>0, <1>1, <2>1 DEF Excused
  <2> QED
    BY <1>0, <1>1, <2>1, <2>2, PassedBy DEF K!Skip
<1>2. CASE K!Unreadable(kAt)
  <2>1. PICK b \in Paths : b = kAt
    BY <1>0
  <2>2. Excused(b)'
    BY <1>2, <2>1 DEF Excused, K!Unreadable
  <2> QED
    BY <1>0, <1>2, <2>1, <2>2, PassedBy DEF K!Unreadable
<1>3. CASE /\ kParsed[kAt] # 0 /\ kAt \notin kAway
           /\ kPc' = "probe" /\ UNCHANGED <<kAt, kReady, kUnreadable, kFaults>>
  <2>1. /\ NothingAhead' /\ MarkedIsStored' /\ Embedded'
        /\ kDisk' = kDisk /\ kParsed' = kParsed /\ kMarked' = kMarked
        /\ kAway' = kAway /\ kFailed' = kFailed
    BY <1>0, <1>3, ChunkerKeeps
  <2>2. ChunkTypes' /\ ReadyIsAList' /\ AtHand'
    BY <1>0, <1>3, <2>1 DEF ChunkInv, ChunkTypes, ReadyIsAList, AtHand
  <2>3. Gathered'
    BY <1>0, <1>3, <2>1 DEF ChunkInv, Gathered, Passed, Listed, VersionOf
  <2> QED
    BY <2>1, <2>2, <2>3 DEF ChunkInv
<1> QED
  BY <1>1, <1>2, <1>3 DEF K!Exists

LEMMA ChunkProbeKeeps ==
  ASSUME ChunkInv, K!Probe
  PROVE ChunkInv'
<1>0. /\ kPc = "probe" /\ kAt \in Paths /\ K!Chunking /\ kAt \notin kAway
      /\ kParsed' = kParsed /\ kDisk' = kDisk
  BY DEF K!Probe, ChunkInv, ChunkTypes, AtHand, K!Chunking, K!tree
<1>1. CASE /\ K!Text(kAt, kDisk[kAt]).kind = "binary"
           /\ K!NextFile
           /\ UNCHANGED <<kReady, kUnreadable, kFaults>>
  <2>1. PICK b \in Paths : b = kAt
    BY <1>0
  <2>2. Excused(b)'
    BY <1>0, <1>1, <2>1 DEF Excused, VersionOf, K!Text
  <2> QED
    BY <1>0, <1>1, <2>1, <2>2, PassedBy
<1>2. CASE K!Unreadable(kAt)
  <2>1. PICK b \in Paths : b = kAt
    BY <1>0
  <2>2. Excused(b)'
    BY <1>2, <2>1 DEF Excused, K!Unreadable
  <2> QED
    BY <1>0, <1>2, <2>1, <2>2, PassedBy DEF K!Unreadable
<1>3. CASE kPc' = "read" /\ UNCHANGED <<kAt, kReady, kUnreadable, kFaults>>
  <2>1. /\ NothingAhead' /\ MarkedIsStored' /\ Embedded'
        /\ kDisk' = kDisk /\ kParsed' = kParsed /\ kMarked' = kMarked
        /\ kAway' = kAway /\ kFailed' = kFailed
    BY <1>0, <1>3, ChunkerKeeps
  <2>2. ChunkTypes' /\ ReadyIsAList' /\ AtHand'
    BY <1>0, <1>3, <2>1 DEF ChunkInv, ChunkTypes, ReadyIsAList, AtHand
  <2>3. Gathered'
    BY <1>0, <1>3, <2>1 DEF ChunkInv, Gathered, Passed, Listed, VersionOf
  <2> QED
    BY <2>1, <2>2, <2>3 DEF ChunkInv
<1> QED
  BY <1>0, <1>1, <1>2, <1>3 DEF K!Probe

LEMMA ParsedAt ==
  ASSUME NothingAhead, NEW f \in Paths
  PROVE Parsed(VersionOf(f))
BY ChunkAssumption DEF NothingAhead, VersionOf

LEMMA NodesAreAParse ==
  ASSUME NothingAhead, ChunkTypes, NEW f \in Paths
  PROVE Parse(K!NodesOf(f, kParsed[f]))
<1>1. CASE kParsed[f] = 0
  BY <1>1, FS_EmptySet DEF K!NodesOf, Parse
<1>2. CASE kParsed[f] # 0
  <2>1. kParsed[f] \in 1..Len(Versions[f])
    BY <1>2, ChunkAssumption DEF NothingAhead, ChunkTypes
  <2>2. Parsed(Versions[f][kParsed[f]])
    BY <2>1, ChunkAssumption
  <2> QED
    BY <1>2, <2>2 DEF K!NodesOf, K!Text, Parse, Parsed
<1> QED
  BY <1>1, <1>2

LEMMA ChunkReadKeeps ==
  ASSUME ChunkInv, K!Read
  PROVE ChunkInv'
<1>0. /\ kPc = "read" /\ kAt \in Paths /\ K!Chunking /\ kParsed' = kParsed
      /\ kParsed[kAt] # 0
  BY DEF K!Read, ChunkInv, ChunkTypes, AtHand, K!Chunking
<1>1. PICK b \in Paths : b = kAt
  BY <1>0
<1>2. CASE K!Unreadable(kAt)
  <2>1. Excused(b)'
    BY <1>1, <1>2 DEF Excused, K!Unreadable
  <2> QED
    BY <1>0, <1>1, <1>2, <2>1, PassedBy DEF K!Unreadable
<1>3. ASSUME NEW spans \in K!Splits(VersionOf(b)),
             kReady' = kReady \o K!InSomeOrder(K!ChunksOf(b, K!NodesOf(b, kParsed[b]),
                                                          K!Text(b, kDisk[b]).lines, spans)),
             K!NextFile, kUnreadable' = kUnreadable
      PROVE ChunkInv'
  <2> DEFINE made == K!ChunksOf(b, K!NodesOf(b, kParsed[b]), K!Text(b, kDisk[b]).lines, spans)
  <2>0. kReady' = kReady \o K!InSomeOrder(made)
    BY <1>3
  <2>1. IsFiniteSet(made)
    <3>1. K!Text(b, kDisk[b]).lines \in Seq(Nat)
      BY ParsedAt DEF ChunkInv, Parsed, VersionOf, K!Text
    <3>2. Parse(K!NodesOf(b, kParsed[b]))
      BY NodesAreAParse DEF ChunkInv
    <3>3. spans \in Seq((1..Len(K!Text(b, kDisk[b]).lines)) \X (1..Len(K!Text(b, kDisk[b]).lines)))
      <4>1. Parsed(VersionOf(b))
        BY ParsedAt DEF ChunkInv
      <4> QED
        BY <4>1, SplitsAreSpans DEF VersionOf, K!Text
    <3> QED
      BY <3>1, <3>2, <3>3, ChunksAreFinite
  <2>2. made = IF kDisk[b] = kParsed[b] THEN ChunksAt(b, kDisk[b], spans) ELSE made
    BY DEF ChunksAt
  <2> HIDE DEF made
  <2>3. /\ K!InSomeOrder(made) \in Seq(made)
        /\ \A x \in made : \E k \in 1..Len(K!InSomeOrder(made)) : K!InSomeOrder(made)[k] = x
    BY <2>1, OrderIsWhole
  <2>4. PICK S : kReady \in Seq(S)
    BY DEF ChunkInv, ReadyIsAList
  <2> DEFINE U == S \cup made
             t == K!InSomeOrder(made)
  <2>5. kReady \in Seq(U) /\ t \in Seq(U)
    BY <2>3, <2>4
  <2> HIDE DEF U, t
  <2>6. /\ kReady' \in Seq(U)
        /\ \A k \in 1..Len(kReady) : k \in 1..Len(kReady') /\ kReady'[k] = kReady[k]
        /\ \A k \in 1..Len(t) : Len(kReady) + k \in 1..Len(kReady')
                              /\ kReady'[Len(kReady) + k] = t[k]
    BY <2>0, <2>5 DEF t
  <2>7. \A c : Listed(c) => Listed(c)'
    BY <2>6 DEF Listed
  <2>8. \A c \in made : Listed(c)'
    BY <2>3, <2>6 DEF Listed, t
  <2>9. /\ kPc' \in {"exists", "embed"}
        /\ kPc' = "exists" => kAt' \in Paths
        /\ kPc' = "embed" => kAt' = 1
        /\ \A f \in Paths : Passed(f)' => Passed(f) \/ f = kAt
    BY <1>0, <1>3, GoingOn DEF ChunkInv
  <2>10. /\ NothingAhead' /\ MarkedIsStored' /\ Embedded'
         /\ kDisk' = kDisk /\ kParsed' = kParsed /\ kMarked' = kMarked
         /\ kAway' = kAway /\ kFailed' = kFailed
    BY <1>0, <2>9, ChunkerKeeps
  <2>11. ChunkTypes' /\ ReadyIsAList' /\ AtHand'
    BY <2>6, <2>9, <2>10 DEF ChunkInv, ChunkTypes, ReadyIsAList, AtHand
  <2>12. Gathered'
    <3> SUFFICES ASSUME NEW f \in Paths, Passed(f)', ~Excused(f)'
                 PROVE \E s \in K!Splits(VersionOf(f)) :
                         \A c \in ChunksAt(f, kDisk[f], s) : Listed(c)'
      BY <2>10 DEF Gathered, Excused, VersionOf
    <3>1. ~Excused(f) /\ kDisk[f] = kParsed[f]
      BY <1>3, <2>10 DEF Excused, VersionOf
    <3>2. CASE f = b
      <4>1. \A c \in ChunksAt(f, kDisk[f], spans) : Listed(c)'
        BY <2>2, <2>8, <3>1, <3>2
      <4> QED
        BY <1>3, <3>2, <4>1
    <3>3. CASE f # b
      <4>1. Passed(f)
        BY <1>1, <2>9, <3>3
      <4>2. PICK s \in K!Splits(VersionOf(f)) : \A c \in ChunksAt(f, kDisk[f], s) : Listed(c)
        BY <3>1, <4>1 DEF ChunkInv, Gathered, Excused
      <4> QED
        BY <2>7, <4>2
    <3> QED
      BY <3>2, <3>3
  <2> QED
    BY <2>10, <2>11, <2>12 DEF ChunkInv
<1>4. CASE /\ K!NextFile /\ UNCHANGED <<kUnreadable, kFaults>>
           /\ \E spans \in K!Splits(K!Text(kAt, kDisk[kAt])) :
                kReady' = kReady \o
                  K!InSomeOrder(K!ChunksOf(kAt, K!NodesOf(kAt, kParsed[kAt]),
                                           K!Text(kAt, kDisk[kAt]).lines, spans))
  BY <1>1, <1>3, <1>4 DEF VersionOf, K!Text
<1> QED
  BY <1>1, <1>2, <1>4 DEF K!Read

LEMMA ChunkBeginKeeps ==
  ASSUME ChunkInv, Paths # {}, K!Begin
  PROVE ChunkInv'
<1>1. /\ kPc' = "exists" /\ kAt' = 1 /\ kReady' = <<>> /\ kFailed' = FALSE
      /\ kParsed' = [f \in Paths |-> IF f \in kAway THEN 0 ELSE kDisk[f]]
      /\ kGraph' = kParsed'
      /\ kMarked' = [f \in Paths |-> IF kParsed'[f] = 0 THEN 0 ELSE kMarked[f]]
      /\ kStored' = kStored /\ kDisk' = kDisk
  BY DEF K!Begin, K!tree
<1>2. \A f \in Paths : /\ kDisk[f] \in Nat \ {0} /\ kMarked[f] \in Nat
                       /\ kDisk[f] \in 1..Len(Versions[f]) /\ kMarked[f] <= kDisk[f]
  BY ChunkAssumption DEF ChunkInv, ChunkTypes, NothingAhead
<1>3. \A f \in Paths : /\ kParsed'[f] = 0 \/ kParsed'[f] = kDisk[f]
                       /\ kParsed'[f] \in Nat /\ kParsed'[f] <= kDisk[f]
                       /\ kMarked'[f] = 0 \/ kMarked'[f] = kMarked[f]
                       /\ kMarked'[f] \in Nat /\ kMarked'[f] <= kDisk[f]
                       /\ kParsed'[f] = 0 => kMarked'[f] = 0
  BY <1>1, <1>2
<1>4. ChunkTypes'
  <2>1. 1 \in Paths
    BY ChunkAssumption
  <2> QED
    BY <1>1, <1>2, <1>3, <2>1 DEF ChunkInv, ChunkTypes
<1>5. ReadyIsAList' /\ AtHand' /\ Embedded'
  <2>1. <<>> \in Seq({})
    OBVIOUS
  <2> QED
    BY <1>1, <2>1 DEF ReadyIsAList, AtHand, Embedded
<1>6. NothingAhead'
  BY <1>1, <1>2, <1>3 DEF NothingAhead
<1>7. Gathered'
  <2>1. \A f \in Paths : ~ (f < 1)
    BY ChunkAssumption
  <2>2. \A f \in Paths : ~Passed(f)'
    BY <1>1, <2>1 DEF Passed
  <2> QED
    BY <2>2 DEF Gathered
<1>8. MarkedIsStored'
  <2> SUFFICES ASSUME NEW f \in Paths, kMarked'[f] = kDisk[f], VersionOf(f)'.kind # "binary"
               PROVE \E s \in K!Splits(VersionOf(f)) : ChunksAt(f, kDisk[f], s) \subseteq kStored
    BY <1>1 DEF MarkedIsStored, VersionOf
  <2>1. kMarked[f] = kDisk[f] /\ VersionOf(f).kind # "binary"
    BY <1>1, <1>2, <1>3 DEF VersionOf
  <2> QED
    BY <2>1 DEF ChunkInv, MarkedIsStored
<1> QED
  BY <1>4, <1>5, <1>6, <1>7, <1>8 DEF ChunkInv

LEMMA ChunkCrashKeeps ==
  ASSUME ChunkInv, K!Crash
  PROVE ChunkInv'
<1>1. /\ kPc' = "idle"
      /\ kAt' = kAt /\ kReady' = kReady /\ kFailed' = kFailed /\ kParsed' = kParsed
      /\ kGraph' = kGraph /\ kMarked' = kMarked /\ kStored' = kStored /\ kDisk' = kDisk
      /\ kUnreadable' = kUnreadable
  BY DEF K!Crash, K!db, K!tree
<1>2. ChunkTypes' /\ ReadyIsAList' /\ AtHand' /\ Embedded' /\ NothingAhead'
  BY <1>1 DEF ChunkInv, ChunkTypes, ReadyIsAList, AtHand, Embedded, NothingAhead
<1>3. Gathered' /\ MarkedIsStored'
  BY <1>1 DEF ChunkInv, Gathered, Passed, MarkedIsStored, VersionOf
<1> QED
  BY <1>2, <1>3 DEF ChunkInv

\* A tree that moves beside the run.
LEMMA ChunkEditKeeps ==
  ASSUME ChunkInv, NEW f \in Paths, K!Edit(f)
  PROVE ChunkInv'
<1>1. /\ kDisk' = [kDisk EXCEPT ![f] = @ + 1] /\ kDisk[f] < Len(Versions[f])
      /\ kPc' = kPc /\ kAt' = kAt /\ kReady' = kReady /\ kFailed' = kFailed
      /\ kParsed' = kParsed /\ kGraph' = kGraph /\ kMarked' = kMarked
      /\ kStored' = kStored /\ kUnreadable' = kUnreadable /\ kAway' = kAway
  BY DEF K!Edit, K!db, K!Run
<1>2. \A g \in Paths : /\ kDisk[g] \in Nat \ {0} /\ kMarked[g] \in Nat /\ kParsed[g] \in Nat
                       /\ kDisk[g] \in 1..Len(Versions[g]) /\ Len(Versions[g]) \in Nat
                       /\ kMarked[g] <= kDisk[g] /\ kParsed[g] <= kDisk[g]
  BY ChunkAssumption DEF ChunkInv, ChunkTypes, NothingAhead
<1>3. /\ kDisk' \in [Paths -> Nat]
      /\ \A g \in Paths : kDisk'[g] = IF g = f THEN kDisk[g] + 1 ELSE kDisk[g]
  BY <1>1, <1>2 DEF ChunkInv, ChunkTypes
<1>4. ChunkTypes' /\ ReadyIsAList' /\ AtHand' /\ Embedded'
  BY <1>1, <1>3 DEF ChunkInv, ChunkTypes, ReadyIsAList, AtHand, Embedded
<1>5. NothingAhead'
  <2>1. \A g \in Paths : /\ kDisk'[g] \in 1..Len(Versions[g])
                         /\ kParsed[g] <= kDisk'[g] /\ kMarked[g] <= kDisk'[g]
    BY <1>1, <1>2, <1>3
  <2> QED
    BY <1>1, <2>1 DEF ChunkInv, NothingAhead
<1>6. kDisk'[f] # kParsed[f] /\ kDisk'[f] # kMarked[f]
  BY <1>2, <1>3
<1>7. Gathered'
  <2> SUFFICES ASSUME NEW g \in Paths, Passed(g)', ~Excused(g)'
               PROVE \E s \in K!Splits(VersionOf(g)') :
                       \A c \in ChunksAt(g, kDisk'[g], s) : Listed(c)'
    BY DEF Gathered, Excused
  <2>1. g # f
    BY <1>1, <1>6 DEF Excused
  <2>2. kDisk'[g] = kDisk[g] /\ Passed(g) /\ ~Excused(g)
    BY <1>1, <1>3, <2>1 DEF Excused, VersionOf, Passed
  <2>3. PICK s \in K!Splits(VersionOf(g)) : \A c \in ChunksAt(g, kDisk[g], s) : Listed(c)
    BY <2>2 DEF ChunkInv, Gathered, Excused
  <2>4. VersionOf(g)' = VersionOf(g)
    BY <2>2 DEF VersionOf
  <2> QED
    BY <1>1, <2>2, <2>3, <2>4 DEF Listed
<1>8. MarkedIsStored'
  <2> SUFFICES ASSUME NEW g \in Paths, kMarked[g] = kDisk'[g], VersionOf(g)'.kind # "binary"
               PROVE \E s \in K!Splits(VersionOf(g)') : ChunksAt(g, kDisk'[g], s) \subseteq kStored
    BY <1>1 DEF MarkedIsStored
  <2>1. kDisk'[g] = kDisk[g] /\ VersionOf(g)' = VersionOf(g)
    BY <1>3, <1>6 DEF VersionOf
  <2> QED
    BY <2>1 DEF ChunkInv, MarkedIsStored
<1> QED
  BY <1>4, <1>5, <1>7, <1>8 DEF ChunkInv

LEMMA ChunkAwayKeeps ==
  ASSUME ChunkInv, NEW f \in Paths, K!Leave(f) \/ K!Return(f)
  PROVE ChunkInv'
<1>1. /\ kDisk' = kDisk
      /\ kPc' = kPc /\ kAt' = kAt /\ kReady' = kReady /\ kFailed' = kFailed
      /\ kParsed' = kParsed /\ kGraph' = kGraph /\ kMarked' = kMarked
      /\ kStored' = kStored /\ kUnreadable' = kUnreadable
  BY DEF K!Leave, K!Return, K!db, K!Run
<1>2. ChunkTypes' /\ ReadyIsAList' /\ Embedded' /\ NothingAhead'
  BY <1>1 DEF ChunkInv, ChunkTypes, ReadyIsAList, Embedded, NothingAhead
<1>3. Gathered' /\ MarkedIsStored'
  <2>1. /\ \A g : VersionOf(g)' = VersionOf(g) /\ Passed(g)' = Passed(g)
        /\ \A c : Listed(c)' = Listed(c)
    BY <1>1 DEF VersionOf, Passed, Listed
  <2> QED
    BY <1>1, <2>1 DEF ChunkInv, Gathered, MarkedIsStored
<1>4. AtHand'
  <2>1. CASE K!Leave(f)
    <3>1. kPc # "probe"
      BY <2>1, ChunkAssumption DEF K!Leave
    <3> QED
      BY <1>1, <3>1 DEF ChunkInv, AtHand
  <2>2. CASE K!Return(f)
    BY <1>1, <2>2 DEF K!Return, ChunkInv, AtHand
  <2> QED
    BY <2>1, <2>2
<1> QED
  BY <1>2, <1>3, <1>4 DEF ChunkInv

\* What no failed request left out is embedded.
LEMMA AskedIsEmbedded ==
  ASSUME NEW X, NEW batches \in Seq(Seq(X)), NEW x, InSome(x, batches)
  PROVE x \in K!Embed(batches, {})
<1>1. PICK b \in 1..Len(batches) : \E k \in 1..Len(batches[b]) : batches[b][k] = x
  BY DEF InSome
<1>2. PICK k \in 1..Len(batches[b]) : batches[b][k] = x
  BY <1>1
<1>3. b \in DOMAIN batches
  <2> DEFINE Y == Seq(X)
  <2>1. batches \in Seq(Y)
    OBVIOUS
  <2> HIDE DEF Y
  <2> QED
    BY <2>1
<1>4. batches[b] \in Seq(X)
  <2> DEFINE Y == Seq(X)
  <2>1. batches \in Seq(Y)
    OBVIOUS
  <2> HIDE DEF Y
  <2>2. batches[b] \in Y
    BY <2>1
  <2> QED
    BY <2>2 DEF Y
<1>5. k \in DOMAIN batches[b]
  BY <1>4
<1>6. x \in K!ToSet(batches[b])
  BY <1>2, <1>5 DEF K!ToSet
<1> QED
  BY <1>3, <1>6 DEF K!Embed

LEMMA PartOfAList ==
  ASSUME NEW S, NEW s \in Seq(S), NEW a \in 1..Len(s), NEW b \in a..Len(s), NEW k \in a..b
  PROVE /\ SubSeq(s, a, b) \in Seq(S) /\ k - a + 1 \in 1..Len(SubSeq(s, a, b))
        /\ SubSeq(s, a, b)[k - a + 1] = s[k]
OBVIOUS

LEMMA ChunkEmbedKeeps ==
  ASSUME ChunkInv, K!EmbedWindow
  PROVE ChunkInv'
<1> DEFINE stop == K!Min({kAt + WindowSize - 1, Len(kReady)})
           window == SubSeq(kReady, kAt, stop)
           batches == K!SplitBatches(window)
<1>1. PICK failing \in SUBSET DOMAIN batches :
        /\ IF failing = {} THEN UNCHANGED <<kFaults, kFailed>>
                           ELSE K!Fault /\ kFailed' = TRUE
        /\ kStored' = kStored
             \cup {c \in K!ToSet(window) : ~K!AlreadyStored(c) /\ ~K!Unembedded(c)}
             \cup K!Embed(batches, failing)
  BY DEF K!EmbedWindow
<1>2. /\ kPc = "embed" /\ kAt <= Len(kReady) /\ kAt' = kAt + WindowSize
      /\ kPc' = kPc /\ kReady' = kReady /\ kParsed' = kParsed /\ kGraph' = kGraph
      /\ kMarked' = kMarked /\ kUnreadable' = kUnreadable /\ kDisk' = kDisk
      /\ kAway' = kAway
  BY DEF K!EmbedWindow, K!tree
<1> HIDE DEF batches
<1>3. /\ kStored \subseteq kStored' /\ K!Embed(batches, failing) \subseteq kStored'
      /\ kFailed' \in BOOLEAN
      /\ ~kFailed' => failing = {} /\ ~kFailed
  BY <1>1 DEF ChunkInv, ChunkTypes
<1>4. kAt \in Nat \ {0} /\ WindowSize \in Nat \ {0}
  BY <1>2, ChunkAssumption DEF ChunkInv, ChunkTypes
<1>5. ChunkTypes' /\ ReadyIsAList' /\ AtHand' /\ NothingAhead'
  BY <1>2, <1>3, <1>4 DEF ChunkInv, ChunkTypes, ReadyIsAList, AtHand, NothingAhead
<1>6. Gathered' /\ MarkedIsStored'
  <2>0. /\ \A f : VersionOf(f)' = VersionOf(f)
        /\ \A f \in Paths : Passed(f)' = Passed(f)
        /\ \A c : Listed(c)' = Listed(c)
    BY <1>2 DEF VersionOf, Passed, Listed
  <2>1. Gathered'
    BY <1>2, <2>0 DEF ChunkInv, Gathered
  <2>2. MarkedIsStored'
    BY <1>2, <1>3, <2>0 DEF ChunkInv, MarkedIsStored
  <2> QED
    BY <2>1, <2>2
<1>7. Embedded'
  <2> SUFFICES ASSUME ~kFailed', NEW k \in 1..Len(kReady), k < kAt + WindowSize
               PROVE kReady[k] \in kStored'
    BY <1>2 DEF Embedded
  <2>1. CASE k < kAt
    BY <1>2, <1>3, <2>1 DEF ChunkInv, Embedded
  <2>2. CASE ~ (k < kAt) /\ kReady[k] \notin kStored
    <3>1. PICK S : kReady \in Seq(S)
      BY DEF ChunkInv, ReadyIsAList
    <3>2. Len(kReady) \in Nat /\ k \in Nat /\ k >= kAt /\ k <= kAt + WindowSize - 1
      BY <1>4, <2>2, <3>1
    <3>3. stop \in kAt..Len(kReady) /\ k \in kAt..stop
      <4>1. kAt + WindowSize - 1 \in Int
        BY <1>4
      <4>2. stop = IF kAt + WindowSize - 1 <= Len(kReady) THEN kAt + WindowSize - 1 ELSE Len(kReady)
        BY <3>2, <4>1, MinOfTwo
      <4> HIDE DEF stop
      <4> QED
        BY <1>2, <1>4, <3>2, <4>2
    <3> HIDE DEF stop
    <3>4. /\ window \in Seq(S) /\ k - kAt + 1 \in 1..Len(window)
          /\ window[k - kAt + 1] = kReady[k]
      <4>1. kAt \in 1..Len(kReady) /\ stop \in kAt..Len(kReady) /\ k \in kAt..stop
        BY <1>2, <1>4, <3>2, <3>3
      <4> QED
        BY <3>1, <4>1, PartOfAList
    <3> HIDE DEF window
    <3>5. batches \in Seq(Seq(S)) /\ InSome(kReady[k], batches)
      BY <2>2, <3>4, NothingIsLeftOut DEF batches
    <3>6. kReady[k] \in K!Embed(batches, {})
      BY <3>5, AskedIsEmbedded
    <3> QED
      BY <1>3, <3>6
  <2> QED
    BY <1>3, <2>1, <2>2
<1> QED
  BY <1>5, <1>6, <1>7 DEF ChunkInv

LEMMA ChunksAreOfTheFile ==
  ASSUME NEW f, NEW nodes, NEW lines, NEW spans, NEW c \in K!ChunksOf(f, nodes, lines, spans)
  PROVE c.file = f
<1>1. \A n, kind, some : \A p \in K!Pieces(f, n, kind, some, lines) : p.file = f
  BY DEF K!Pieces, K!Piece
<1>2. \A p \in K!Bodies(f, nodes, lines) : p.file = f
  BY <1>1 DEF K!Bodies
<1>3. \A p \in K!Residue(f, nodes, lines) : p.file = f
  BY <1>1 DEF K!Residue
<1>4. \A p \in K!Contexts(f, nodes) : p.file = f
  <2>1. \A n, kind : K!Listing(f, n, kind, nodes).file = f
    BY DEF K!Listing
  <2> QED
    BY <2>1 DEF K!Contexts
<1> DEFINE Documents == {n \in nodes : n.kind = "document"}
           D == UNION {K!Pieces(f, n, "document", spans, lines) : n \in Documents}
<1>5. \A p \in D : p.file = f
  BY <1>1
<1>6. \/ c \in D
      \/ c \in K!Contexts(f, nodes) \cup K!Bodies(f, nodes, lines) \cup K!Residue(f, nodes, lines)
  BY DEF K!ChunksOf
<1> HIDE DEF D
<1> QED
  BY <1>2, <1>3, <1>4, <1>5, <1>6

LEMMA ChunkFinishKeeps ==
  ASSUME ChunkInv, K!Finish
  PROVE ChunkInv'
<1>1. /\ kPc = "embed" /\ kAt > Len(kReady) /\ kPc' = "idle"
      /\ kAt' = kAt /\ kReady' = kReady /\ kFailed' = kFailed /\ kParsed' = kParsed
      /\ kGraph' = kGraph /\ kUnreadable' = kUnreadable /\ kDisk' = kDisk /\ kAway' = kAway
  BY DEF K!Finish, K!tree
<1>2. ReadyIsAList' /\ AtHand' /\ Embedded' /\ Gathered'
  BY <1>1 DEF ChunkInv, ReadyIsAList, AtHand, Embedded, Gathered, Passed
<1>3. CASE kFailed
  <2>1. kStored' = kStored /\ kMarked' = kMarked
    BY <1>3 DEF K!Finish
  <2>2. ChunkTypes' /\ NothingAhead' /\ MarkedIsStored'
    BY <1>1, <2>1 DEF ChunkInv, ChunkTypes, NothingAhead, MarkedIsStored, VersionOf
  <2> QED
    BY <1>2, <2>2 DEF ChunkInv
<1>4. CASE ~kFailed
  <2>1. /\ kStored' = {c \in kStored : c \in K!Range(kReady) \/ c.file \notin K!Reconcilable}
        /\ kMarked' = [f \in Paths |-> IF kParsed[f] # 0 /\ f \notin kUnreadable
                                       THEN kGraph[f] ELSE kMarked[f]]
    BY <1>4 DEF K!Finish
  <2>2. /\ kGraph = kParsed
        /\ \A f \in Paths : /\ kParsed[f] \in Nat /\ kMarked[f] \in Nat
                            /\ kDisk[f] \in 1..Len(Versions[f]) /\ kDisk[f] \in Nat \ {0}
                            /\ kParsed[f] <= kDisk[f] /\ kMarked[f] <= kDisk[f]
                            /\ kParsed[f] = 0 => kMarked[f] = 0
    BY ChunkAssumption DEF ChunkInv, ChunkTypes, NothingAhead
  <2>3. \A f \in Paths : /\ kMarked'[f] \in Nat /\ kMarked'[f] <= kDisk[f]
                         /\ kParsed[f] = 0 => kMarked'[f] = 0
    BY <2>1, <2>2
  <2>4. ChunkTypes' /\ NothingAhead'
    BY <1>1, <2>1, <2>2, <2>3 DEF ChunkInv, ChunkTypes, NothingAhead
  <2>5. MarkedIsStored'
    <3> SUFFICES ASSUME NEW f \in Paths, kMarked'[f] = kDisk[f], VersionOf(f).kind # "binary"
                 PROVE \E s \in K!Splits(VersionOf(f)) :
                         \A c \in ChunksAt(f, kDisk[f], s) : c \in kStored'
      BY <1>1 DEF MarkedIsStored, VersionOf
    <3>1. CASE kParsed[f] # 0 /\ f \notin kUnreadable
      <4>1. kParsed[f] = kDisk[f]
        BY <2>1, <2>2, <3>1
      <4>2. PICK s \in K!Splits(VersionOf(f)) : \A c \in ChunksAt(f, kDisk[f], s) : Listed(c)
        BY <1>1, <3>1, <4>1 DEF ChunkInv, Gathered, Passed
      <4>3. ASSUME NEW c, Listed(c) PROVE c \in kStored'
        <5>1. PICK k \in 1..Len(kReady) : kReady[k] = c
          BY <4>3 DEF Listed
        <5>2. PICK S : kReady \in Seq(S)
          BY DEF ChunkInv, ReadyIsAList
        <5>3. k < kAt /\ k \in DOMAIN kReady
          BY <1>1, <5>1, <5>2 DEF ChunkInv, ChunkTypes
        <5>4. c \in kStored /\ c \in K!Range(kReady)
          BY <1>1, <1>4, <5>1, <5>3 DEF ChunkInv, Embedded, K!Range
        <5> QED
          BY <2>1, <5>4
      <4> QED
        BY <4>2, <4>3
    <3>2. CASE kParsed[f] # 0 /\ f \in kUnreadable
      <4>1. kMarked[f] = kDisk[f]
        BY <2>1, <3>2
      <4>2. PICK s \in K!Splits(VersionOf(f)) : ChunksAt(f, kDisk[f], s) \subseteq kStored
        BY <4>1 DEF ChunkInv, MarkedIsStored
      <4>3. \A c \in ChunksAt(f, kDisk[f], s) : c.file = f
        BY ChunksAreOfTheFile DEF ChunksAt
      <4> QED
        BY <2>1, <3>2, <4>2, <4>3 DEF K!Reconcilable
    <3>3. CASE kParsed[f] = 0
      <4>1. kMarked'[f] = 0 /\ kDisk[f] # 0
        BY <2>2, <2>3, <3>3
      <4> QED
        BY <4>1
    <3> QED
      BY <3>1, <3>2, <3>3
  <2> QED
    BY <1>2, <2>4, <2>5 DEF ChunkInv
<1> QED
  BY <1>3, <1>4

LEMMA ChunksInitially == K!Init => ChunkInv
<1> SUFFICES ASSUME K!Init PROVE ChunkInv
  OBVIOUS
<1>1. /\ kDisk = [f \in Paths |-> 1] /\ kGraph = [f \in Paths |-> 0]
      /\ kMarked = [f \in Paths |-> 0] /\ kParsed = [f \in Paths |-> 0]
      /\ kPc = "idle" /\ kReady = <<>> /\ kFailed = FALSE
  BY DEF K!Init
<1>2. ChunkTypes /\ AtHand /\ Embedded
  BY <1>1 DEF ChunkTypes, AtHand, Embedded
<1>3. ReadyIsAList
  <2>1. <<>> \in Seq({})
    OBVIOUS
  <2> QED
    BY <1>1, <2>1 DEF ReadyIsAList
<1>4. NothingAhead
  <2>1. \A f \in Paths : 1 \in 1..Len(Versions[f])
    BY ChunkAssumption
  <2> QED
    BY <1>1, <2>1 DEF NothingAhead
<1>5. Gathered /\ MarkedIsStored
  BY <1>1 DEF Gathered, Passed, MarkedIsStored
<1> QED
  BY <1>2, <1>3, <1>4, <1>5 DEF ChunkInv

LEMMA ChunkStep ==
  ASSUME ChunkInv, Paths # {}, [K!Next]_chunking
  PROVE ChunkInv'
<1>1. CASE UNCHANGED chunking
  <2>1. UNCHANGED <<kDisk, kAway, kGraph, kMarked, kStored, kPc, kAt, kParsed,
                    kUnreadable, kReady, kFailed>>
    BY <1>1 DEF chunking
  <2>2. ChunkTypes' /\ ReadyIsAList' /\ AtHand' /\ Embedded' /\ NothingAhead'
    BY <2>1 DEF ChunkInv, ChunkTypes, ReadyIsAList, AtHand, Embedded, NothingAhead
  <2>3. Gathered' /\ MarkedIsStored'
    BY <2>1 DEF ChunkInv, Gathered, Passed, Listed, MarkedIsStored, VersionOf
  <2> QED
    BY <2>2, <2>3 DEF ChunkInv
<1>2. CASE K!Next
  BY <1>2, ChunkBeginKeeps, ChunkExistsKeeps, ChunkProbeKeeps, ChunkReadKeeps,
     ChunkEmbedKeeps, ChunkFinishKeeps,
     ChunkCrashKeeps, ChunkEditKeeps, ChunkAwayKeeps DEF K!Next
<1> QED
  BY <1>1, <1>2

\* The invariant of the chunks' stage holds throughout the pipeline.
THEOREM ChunkInvariant == PipelineSpec => [](stage = "chunks" /\ Paths # {} => ChunkInv)
<1>1. PipelineInit => (stage = "chunks" /\ Paths # {} => ChunkInv)
  BY ChunksInitially DEF PipelineInit
<1>2. (stage = "chunks" /\ Paths # {} => ChunkInv) /\ [PipelineNext]_<<stage, vars, others>>
        => (stage = "chunks" /\ Paths # {} => ChunkInv)'
  <2> SUFFICES ASSUME stage = "chunks" => ChunkInv, Paths # {},
                      [PipelineNext]_<<stage, vars, others>>, stage' = "chunks"
               PROVE ChunkInv'
    OBVIOUS
  <2>1. stage = "chunks" /\ [K!Next]_chunking
    <3>1. CASE PipelineNext
      BY <3>1 DEF PipelineNext, StoringStep, ResolvingStep, ChunkingStep,
                  SummarizingStep, GatingStep
    <3>2. CASE UNCHANGED <<stage, vars, others>>
      BY <3>2 DEF others
    <3> QED
      BY <3>1, <3>2
  <2> QED
    BY <2>1, ChunkStep
<1> QED
  BY <1>1, <1>2, PTL DEF PipelineSpec

LEMMA EveryPassageFollows ==
  ASSUME ChunkInv
  PROVE K!EveryPassageIsFound
<1> SUFFICES ASSUME NEW f \in Paths, kMarked[f] = kDisk[f], VersionOf(f).kind # "binary"
             PROVE \E promised \in K!Promises(VersionOf(f)) :
                     IsKept(f, VersionOf(f), promised, kStored)
  BY DEF K!EveryPassageIsFound, K!Stands, K!Text, VersionOf, IsKept, Found
<1>1. Parsed(VersionOf(f))
  BY ParsedAt DEF ChunkInv
<1>2. K!NodesOf(f, kDisk[f]) = VersionOf(f).nodes
  BY DEF ChunkInv, NothingAhead, K!NodesOf, K!Text, VersionOf
<1>3. PICK spans \in K!Splits(VersionOf(f)) : ChunksAt(f, kDisk[f], spans) \subseteq kStored
  BY DEF ChunkInv, MarkedIsStored
<1>4. ChunksAt(f, kDisk[f], spans)
      = K!ChunksOf(f, VersionOf(f).nodes, VersionOf(f).lines, spans)
  BY <1>2 DEF ChunksAt, K!Text, VersionOf
<1>5. PICK promised \in K!Promises(VersionOf(f)) :
        IsKept(f, VersionOf(f), promised, ChunksAt(f, kDisk[f], spans))
  BY <1>1, <1>4, ChunksCover
<1>6. IsKept(f, VersionOf(f), promised, kStored)
  BY <1>3, <1>5, FoundInMore DEF IsKept
<1> QED
  BY <1>6

\* rag/chunker.py and indexer.py: whatever the files, the windows and the batches, and
\* wherever an edit, a file that goes, a failed request or a crash falls, a file whose
\* marker agrees with its bytes can be searched whole.
THEOREM PipelineEveryPassage == PipelineSpec => []EveryPassageIsFound
<1>1. (stage = "chunks" /\ Paths # {} => ChunkInv) => EveryPassageIsFound
  <2>1. CASE Paths = {}
    BY <2>1 DEF EveryPassageIsFound, K!EveryPassageIsFound
  <2>2. CASE Paths # {}
    BY <2>2, EveryPassageFollows DEF EveryPassageIsFound
  <2> QED
    BY <2>1, <2>2
<1> QED
  BY <1>1, ChunkInvariant, PTL
=============================================================================
