---------------------------- MODULE EventIndexer ----------------------------
(***************************************************************************)
(* The bridge's index of a source chain that reorganises                   *)
(* (event_indexer.py), and the feeder that reads the chain and calls       *)
(* ingest_block.                                                           *)
(*                                                                         *)
(* A block hash commits to its ancestors, so a stored chain is the         *)
(* sequence of its blocks' events and two blocks have one hash when the    *)
(* sequences up to them are equal.  Block number 0 is position 1.          *)
(***************************************************************************)
EXTENDS Integers, Sequences, FiniteSets

CONSTANTS
  Event,          \* what the source chain can emit, each once
  Confirmations,
  MaxLength,      \* bound: blocks of the source chain
  MaxReorgs       \* bound: reorganisations

ASSUME IndexerAssumption ==
  /\ Confirmations \in Nat \ {0}
  /\ MaxLength \in Nat /\ MaxReorgs \in Nat

VARIABLES
  source,     \* the source chain now
  settled,    \* its longest prefix that ever had all confirmations
  view,       \* the source chain as the feeder last read it
  index,      \* table blocks with its events
  final,      \* the positions whose block is marked finalized
  rescans,    \* TRUE: the feeder may present any block of its view
  reorgs

vars == <<source, settled, view, index, final, rescans, reorgs>>
----------------------------------------------------------------------------
Prefix(chain, n) == SubSeq(chain, 1, n)

Emitted(chain) == UNION {chain[i] : i \in DOMAIN chain}

Deep(chain) == Prefix(chain, IF Len(chain) > Confirmations
                               THEN Len(chain) - Confirmations ELSE 0)

Longer(a, b) == IF Len(a) >= Len(b) THEN a ELSE b

Init ==
  /\ source = <<>> /\ settled = <<>> /\ view = <<>>
  /\ index = <<>>
  /\ final = {}
  /\ rescans \in BOOLEAN
  /\ reorgs = 0

(***************************************************************************)
(* The source chain grows at its tip, or replaces blocks that lack         *)
(* confirmations by a longer branch.                                       *)
(***************************************************************************)
Branch(base, length) ==
  {tail \in [1..length -> SUBSET Event] :
     /\ \A i \in 1..length : tail[i] \cap Emitted(base) = {}
     /\ \A i, j \in 1..length : i # j => tail[i] \cap tail[j] = {}}

Becomes(chain) ==
  /\ Len(chain) <= MaxLength
  /\ source' = chain
  /\ settled' = Longer(settled, Deep(chain))
  /\ UNCHANGED <<view, index, final, rescans>>

Mine ==
  /\ \E tail \in Branch(source, 1) : Becomes(source \o tail)
  /\ UNCHANGED reorgs

Reorganise ==
  /\ reorgs < MaxReorgs
  /\ reorgs' = reorgs + 1
  /\ \E n \in Len(settled)..(Len(source) - 1) :
       \E tail \in Branch(Prefix(source, n), Len(source) - n + 1) :
         /\ tail[1] # source[n + 1]
         /\ Becomes(Prefix(source, n) \o tail)

\* The feeder reads blocks and head at one moment; it calls later.
Read ==
  /\ view' = source
  /\ UNCHANGED <<source, settled, index, final, rescans, reorgs>>
----------------------------------------------------------------------------
(***************************************************************************)
(* ingest_block for block n of the feeder's view.  It must extend the      *)
(* stored block below it.  A block already stored only advances finality;  *)
(* a different one takes its place and that of all above it, unless one of *)
(* them is finalized.                                                      *)
(***************************************************************************)
FinalizedThrough == Len(view) - Confirmations

Extends(n) ==
  /\ n - 1 <= Len(index)
  /\ Prefix(index, n - 1) = Prefix(view, n - 1)

Stored(n) == n <= Len(index) /\ index[n] = view[n]

\* Mutant: only the presented block is marked.
MarkOwn(chain) == {i \in {Len(chain)} : i <= FinalizedThrough}

\* Mutant: finality counts the head itself as a confirmation.
MarkEarly(chain) == {i \in 1..Len(chain) : i <= FinalizedThrough + 1}

Mark(chain) == {i \in 1..Len(chain) : i <= FinalizedThrough}

\* Mutant: a rollback does not look for finalized blocks.
ReplaceableAlways(n) == n <= Len(view)

Replaceable(n) == \A i \in final : i < n

\* Mutant: the blocks above a replaced one stay.
PlaceKeeping(n) ==
  [i \in 1..(IF n > Len(index) THEN n ELSE Len(index)) |->
     IF i = n THEN view[n] ELSE index[i]]

Place(n) == Append(Prefix(index, n - 1), view[n])

IngestKnown(n) ==
  /\ Extends(n)
  /\ Stored(n)
  /\ final' = final \cup Mark(index)
  /\ UNCHANGED <<source, settled, view, index, rescans, reorgs>>

IngestNew(n) ==
  /\ Extends(n)
  /\ ~Stored(n)
  /\ Replaceable(n)
  /\ index' = Place(n)
  /\ final' = final \cup Mark(Place(n))
  /\ UNCHANGED <<source, settled, view, rescans, reorgs>>

(***************************************************************************)
(* Which blocks the feeder presents: one that rescans, any; another never  *)
(* a known block while blocks of another branch are stored above it.       *)
(***************************************************************************)
NoOrphans == Len(index) <= Len(view) /\ Prefix(view, Len(index)) = index

Ingest ==
  \E n \in 1..Len(view) :
    \/ (rescans \/ NoOrphans) /\ IngestKnown(n)
    \/ IngestNew(n)

Next == Mine \/ Reorganise \/ Read \/ Ingest

Spec == Init /\ [][Next]_vars

\* The feeder keeps reading and keeps presenting what it read.
FairSpec == Spec /\ WF_vars(Read) /\ WF_vars(Ingest)
----------------------------------------------------------------------------
TypeOK ==
  /\ {source, settled, view, index} \subseteq Seq(SUBSET Event)
  /\ final \subseteq 1..Len(index)
  /\ rescans \in BOOLEAN
  /\ reorgs \in Nat

(***************************************************************************)
(* What consumers act on is settled: every block marked finalized is one   *)
(* the source chain can no longer give up, however late the feeder calls   *)
(* and however often the chain reorganised.  A feeder that rescans known   *)
(* blocks while orphans are stored above them voids this.                  *)
(***************************************************************************)
FinalizedIsSettled ==
  ~rescans =>
    \A n \in final :
      n <= Len(settled) /\ Prefix(index, n) = Prefix(settled, n)

(***************************************************************************)
(* The finalized blocks are a prefix of the stored chain: no event is ever *)
(* reported before one of an earlier block.                                *)
(***************************************************************************)
FinalizedIsPrefix == \A n \in final : 1..n \subseteq final

\* finalized_events, as the chain of the blocks they come from.
FinalizedChain == Prefix(index, Cardinality(final))

(***************************************************************************)
(* Whatever the feeder does, the index is a log that only grows: finalized *)
(* blocks are never replaced, removed or reordered ("fail-closed reorg     *)
(* handling").                                                             *)
(***************************************************************************)
FinalizedOnlyGrows ==
  [][/\ Len(FinalizedChain) <= Len(FinalizedChain')
     /\ Prefix(FinalizedChain', Len(FinalizedChain)) = FinalizedChain]_vars

(***************************************************************************)
(* Progress: whatever the chain settles is finalized in the index in the   *)
(* end; no stored orphan bars the way of the canonical chain.              *)
(***************************************************************************)
SettledIsReported == ~rescans => <>[](FinalizedChain = settled)
=============================================================================
