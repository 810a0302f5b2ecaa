------------------------- MODULE EventIndexerProofs -------------------------
(***************************************************************************)
(* What consumers of the event index may rely on, for every number of      *)
(* confirmations, every set of events and every history of the source      *)
(* chain.                                                                  *)
(***************************************************************************)
EXTENDS EventIndexer, FiniteSetTheorems, SequenceTheorems, TLAPS

(***************************************************************************)
(* FinalizedIsSettled is not inductive: it needs that the settled blocks   *)
(* are the deep ones of the source chain, and those the feeder takes for   *)
(* confirmed among them.  All of it is said block by block.                *)
(***************************************************************************)
Begins(a, b) == Len(a) <= Len(b) /\ \A i \in 1..Len(a) : a[i] = b[i]

FinalInOrder == \E k \in 0..Len(index) : final = 1..k

SourceSettles ==
  Begins(settled, source) /\ Len(source) - Confirmations <= Len(settled)

Within(chain, n) == n <= Len(settled) /\ chain[n] = settled[n]

ViewSettles ==
  \A n \in 1..Len(view) : n <= FinalizedThrough => Within(view, n)

FinalSettles == ~rescans => \A n \in final : Within(index, n)

IInv == TypeOK /\ FinalInOrder /\ SourceSettles /\ ViewSettles /\ FinalSettles

\* Nothing is stored, settled or final at first.
LEMMA InitInvariant == Init => IInv
<1> SUFFICES ASSUME Init PROVE IInv
  OBVIOUS
<1>1. TypeOK
  BY DEF Init, TypeOK
<1>2. FinalInOrder
  <2>1. final = 1..0 /\ 0 \in 0..Len(index)
    BY DEF Init
  <2> QED
    BY <2>1 DEF FinalInOrder
<1>3. SourceSettles /\ ViewSettles /\ FinalSettles
  BY IndexerAssumption
  DEF Init, SourceSettles, ViewSettles, FinalSettles, Begins, Within
<1> QED
  BY <1>1, <1>2, <1>3 DEF IInv

\* What Prefix and Deep return.
LEMMA PrefixFacts ==
  ASSUME NEW S, NEW chain \in Seq(S), NEW n \in 0..Len(chain)
  PROVE  /\ Prefix(chain, n) \in Seq(S)
         /\ Len(Prefix(chain, n)) = n
         /\ \A i \in 1..n : Prefix(chain, n)[i] = chain[i]
  BY DEF Prefix

(***************************************************************************)
(* The source chain's steps keep every settled block, and settle only      *)
(* blocks the chain has.                                                   *)
(***************************************************************************)
LEMMA BecomesInvariant ==
  ASSUME IInv, NEW chain \in Seq(SUBSET Event), Begins(settled, chain),
         Becomes(chain), reorgs' \in Nat
  PROVE  IInv'
<1> DEFINE depth == IF Len(chain) > Confirmations
                      THEN Len(chain) - Confirmations ELSE 0
<1>1. depth \in 0..Len(chain) /\ Deep(chain) = Prefix(chain, depth)
  BY IndexerAssumption DEF Deep
<1>2. /\ Deep(chain) \in Seq(SUBSET Event)
      /\ Len(Deep(chain)) = depth
      /\ \A i \in 1..depth : Deep(chain)[i] = chain[i]
  BY <1>1, PrefixFacts
<1>3. /\ settled' \in Seq(SUBSET Event)
      /\ Begins(settled', chain) /\ Begins(settled, settled')
      /\ Len(settled') >= depth
  <2>1. CASE settled' = settled /\ Len(settled) >= Len(Deep(chain))
    BY <1>1, <1>2, <2>1 DEF Begins, IInv, TypeOK
  <2>2. CASE settled' = Deep(chain) /\ Len(settled) < Len(Deep(chain))
    BY <1>1, <1>2, <2>2 DEF Begins, IInv, TypeOK
  <2> QED
    BY <1>1, <1>2, <2>1, <2>2 DEF Becomes, Longer, IInv, TypeOK
<1>4. TypeOK'
  BY <1>3 DEF IInv, TypeOK, Becomes
<1>5. SourceSettles'
  BY <1>3, IndexerAssumption DEF SourceSettles, Becomes, Begins
<1>6. ViewSettles' /\ FinalSettles'
  <2>1. \A c, n : n \in Nat \ {0} /\ Within(c, n) => Within(c, n)'
    BY <1>3 DEF Within, Begins, IInv, TypeOK
  <2>2. final \subseteq Nat \ {0}
    BY DEF IInv, TypeOK
  <2> QED
    BY <2>1, <2>2
    DEF Becomes, IInv, ViewSettles, FinalSettles, FinalizedThrough, Within
<1> QED
  BY <1>4, <1>5, <1>6 DEF IInv, FinalInOrder, Becomes

\* A tail after the first n blocks of a chain leaves those as they were.
LEMMA ExtensionFacts ==
  ASSUME NEW chain \in Seq(SUBSET Event), NEW n \in 0..Len(chain),
         NEW m \in Nat, NEW tail \in [1..m -> SUBSET Event]
  PROVE  /\ Prefix(chain, n) \o tail \in Seq(SUBSET Event)
         /\ Len(Prefix(chain, n) \o tail) = n + m
         /\ \A i \in 1..n : (Prefix(chain, n) \o tail)[i] = chain[i]
<1> DEFINE base == Prefix(chain, n)
<1>1. tail \in Seq(SUBSET Event) /\ Len(tail) = m
  OBVIOUS
<1>2. /\ base \in Seq(SUBSET Event) /\ Len(base) = n
      /\ \A i \in 1..n : base[i] = chain[i]
  BY PrefixFacts
<1> HIDE DEF base
<1>3. /\ base \o tail \in Seq(SUBSET Event)
      /\ Len(base \o tail) = n + m
      /\ \A i \in 1..n : (base \o tail)[i] = base[i]
  <2>1. /\ base \o tail \in Seq(SUBSET Event)
        /\ Len(base \o tail) = Len(base) + Len(tail)
        /\ \A i \in 1..Len(base) + Len(tail) :
             (base \o tail)[i] = IF i <= Len(base) THEN base[i]
                                  ELSE tail[i - Len(base)]
    BY <1>1, <1>2, ConcatProperties, Zenon
  <2> QED
    BY <1>1, <1>2, <2>1
<1> QED
  BY <1>2, <1>3 DEF base

LEMMA SourceInvariant == IInv /\ (Mine \/ Reorganise) => IInv'
<1> SUFFICES ASSUME IInv, Mine \/ Reorganise PROVE IInv'
  OBVIOUS
<1> USE DEF IInv, TypeOK, SourceSettles
<1>1. CASE Mine
  <2>1. PICK tail \in Branch(source, 1) : Becomes(source \o tail)
    BY <1>1 DEF Mine
  <2>2. tail \in [1..1 -> SUBSET Event] /\ Prefix(source, Len(source)) = source
    BY DEF Branch, Prefix
  <2> DEFINE chain == Prefix(source, Len(source)) \o tail
  <2>4. /\ chain \in Seq(SUBSET Event)
        /\ Len(chain) = Len(source) + 1
        /\ \A i \in 1..Len(source) : chain[i] = source[i]
    <3>1. Len(source) \in 0..Len(source) /\ 1 \in Nat
      OBVIOUS
    <3> QED
      BY <2>2, <3>1, ExtensionFacts
  <2> HIDE DEF chain
  <2>5. Begins(settled, chain)
    BY <2>4 DEF Begins
  <2>3. Begins(settled, source \o tail) /\ source \o tail \in Seq(SUBSET Event)
    BY <2>2, <2>4, <2>5 DEF chain
  <2> QED
    BY <1>1, <2>1, <2>3, BecomesInvariant DEF Mine
<1>2. CASE Reorganise
  <2>1. PICK n \in Len(settled)..(Len(source) - 1) :
          \E tail \in Branch(Prefix(source, n), Len(source) - n + 1) :
            Becomes(Prefix(source, n) \o tail)
    BY <1>2 DEF Reorganise
  <2>2. PICK tail \in Branch(Prefix(source, n), Len(source) - n + 1) :
          Becomes(Prefix(source, n) \o tail)
    BY <2>1
  <2>3. /\ n \in 0..Len(source) /\ Len(source) - n + 1 \in Nat
        /\ tail \in [1..(Len(source) - n + 1) -> SUBSET Event]
    BY DEF Branch
  <2> DEFINE chain == Prefix(source, n) \o tail
  <2>4. /\ chain \in Seq(SUBSET Event)
        /\ Len(chain) = n + (Len(source) - n + 1)
        /\ \A i \in 1..n : chain[i] = source[i]
    BY <2>3, ExtensionFacts
  <2>5. Becomes(chain)
    BY <2>2
  <2> HIDE DEF chain
  <2>6. Begins(settled, chain)
    BY <2>4 DEF Begins
  <2>7. reorgs' \in Nat
    BY <1>2 DEF Reorganise
  <2> QED
    BY <2>4, <2>5, <2>6, <2>7, BecomesInvariant
<1> QED
  BY <1>1, <1>2

\* What the feeder takes for confirmed when it reads is settled by then.
LEMMA ReadInvariant == IInv /\ Read => IInv'
<1> SUFFICES ASSUME IInv, Read PROVE IInv'
  OBVIOUS
<1>1. ViewSettles'
  BY IndexerAssumption
  DEF Read, IInv, TypeOK, ViewSettles, SourceSettles, Begins, Within,
      FinalizedThrough
<1> QED
  BY <1>1
  DEF Read, IInv, TypeOK, FinalInOrder, SourceSettles, FinalSettles, Within

\* Finality as a number: marking up to a bound moves it forward.
LEMMA MarkFacts ==
  ASSUME IInv, NEW chain \in Seq(SUBSET Event),
         NEW k \in 0..Len(chain), final = 1..k
  PROVE  \E l \in k..Len(chain) : final \cup Mark(chain) = 1..l
<1> DEFINE last == IF FinalizedThrough > Len(chain) THEN Len(chain)
                   ELSE FinalizedThrough
<1>1. last \in Int /\ last <= Len(chain)
  BY IndexerAssumption DEF FinalizedThrough, IInv, TypeOK
<1>2. Mark(chain) = 1..last
  BY IndexerAssumption DEF Mark, FinalizedThrough, IInv, TypeOK
<1>3. CASE last <= k
  BY <1>1, <1>2, <1>3
<1>4. CASE last > k
  <2>1. final \cup Mark(chain) = 1..last /\ last \in k..Len(chain)
    BY <1>1, <1>2, <1>4
  <2> QED
    BY <2>1
<1> QED
  BY <1>1, <1>3, <1>4

(***************************************************************************)
(* Presenting a block: the stored chain keeps all finalized blocks, more   *)
(* of them are final, and what is marked is what the feeder saw confirmed. *)
(***************************************************************************)
Grows ==
  \E k \in 0..Len(index) : \E l \in k..Len(index') :
    /\ final = 1..k /\ final' = 1..l
    /\ \A i \in 1..k : index'[i] = index[i]

LEMMA KnownInvariant ==
  ASSUME IInv, NEW n \in 1..Len(view), rescans \/ NoOrphans, IngestKnown(n)
  PROVE  IInv' /\ Grows
<1>1. PICK k \in 0..Len(index) : final = 1..k
  BY DEF IInv, FinalInOrder
<1>2. PICK l \in k..Len(index) : final \cup Mark(index) = 1..l
  BY <1>1, MarkFacts DEF IInv, TypeOK
<1>3. final' = 1..l /\ index' = index
  BY <1>2 DEF IngestKnown
<1>4. TypeOK' /\ FinalInOrder' /\ Grows
  <2>1. l \in 0..Len(index')
    BY <1>2, <1>3
  <2>2. TypeOK'
    BY <1>3, <2>1 DEF IngestKnown, IInv, TypeOK
  <2>3. Grows
    BY <1>1, <1>2, <1>3 DEF Grows
  <2> QED
    BY <1>1, <1>3, <2>1, <2>2, <2>3 DEF FinalInOrder
<1>5. ASSUME ~rescans, NEW i \in final' PROVE Within(index, i)
  <2>1. CASE i \in final
    BY <1>5, <2>1 DEF IInv, FinalSettles
  <2>2. CASE i \in Mark(index)
    <3>1. Len(index) <= Len(view) /\ Prefix(view, Len(index)) = index
      BY <1>5 DEF NoOrphans
    <3>2. i \in 1..Len(index) /\ i <= FinalizedThrough
      BY <2>2 DEF Mark
    <3>3. index[i] = view[i]
      BY <3>1, <3>2, PrefixFacts DEF IInv, TypeOK
    <3> QED
      BY <3>1, <3>2, <3>3 DEF IInv, TypeOK, ViewSettles, Within
  <2> QED
    BY <1>5, <2>1, <2>2 DEF IngestKnown
<1>6. SourceSettles' /\ ViewSettles' /\ FinalSettles'
  BY <1>5
  DEF IngestKnown, IInv, SourceSettles, ViewSettles, FinalSettles, Within,
      FinalizedThrough
<1> QED
  BY <1>4, <1>6 DEF IInv

LEMMA NewInvariant ==
  ASSUME IInv, NEW n \in 1..Len(view), IngestNew(n)
  PROVE  IInv' /\ Grows
<1>1. PICK k \in 0..Len(index) : final = 1..k
  BY DEF IInv, FinalInOrder
<1>2. /\ n - 1 \in 0..Len(index) /\ n - 1 \in 0..Len(view)
      /\ Prefix(index, n - 1) = Prefix(view, n - 1)
  BY DEF IngestNew, Extends, IInv, TypeOK
<1>3. /\ Prefix(index, n - 1) \in Seq(SUBSET Event)
      /\ Len(Prefix(index, n - 1)) = n - 1
      /\ \A i \in 1..(n - 1) : /\ Prefix(index, n - 1)[i] = index[i]
                               /\ Prefix(index, n - 1)[i] = view[i]
  BY <1>2, PrefixFacts DEF IInv, TypeOK
<1>4. /\ index' \in Seq(SUBSET Event) /\ Len(index') = n
      /\ \A i \in 1..(n - 1) : index'[i] = index[i]
      /\ \A i \in 1..n : index'[i] = view[i]
  <2> DEFINE base == Prefix(index, n - 1)
  <2>1. /\ base \in Seq(SUBSET Event) /\ Len(base) = n - 1
        /\ \A i \in 1..(n - 1) : base[i] = index[i] /\ base[i] = view[i]
    BY <1>3
  <2>2. index' = Append(base, view[n]) /\ view[n] \in SUBSET Event
    BY DEF IngestNew, Place, IInv, TypeOK
  <2> HIDE DEF base
  <2>3. /\ index' \in Seq(SUBSET Event) /\ Len(index') = n
        /\ \A i \in 1..(n - 1) : index'[i] = base[i]
        /\ index'[n] = view[n]
    BY <2>1, <2>2
  <2> QED
    BY <2>1, <2>3
<1>5. k < n
  <2>1. CASE k = 0
    BY <2>1 DEF IInv, TypeOK
  <2>2. CASE k # 0
    BY <1>1, <2>2 DEF IngestNew, Replaceable
  <2> QED
    BY <2>1, <2>2
<1>6. PICK l \in k..n : final \cup Mark(index') = 1..l
  <2>1. k \in 0..Len(index')
    BY <1>4, <1>5
  <2> QED
    BY <1>1, <1>4, <2>1, MarkFacts
<1>7. final' = 1..l
  BY <1>6 DEF IngestNew
<1>8. TypeOK' /\ FinalInOrder' /\ Grows
  <2>1. l \in 0..Len(index') /\ l \in k..Len(index')
    BY <1>4, <1>6
  <2>2. \A i \in 1..k : index'[i] = index[i]
    BY <1>4, <1>5
  <2>3. TypeOK'
    BY <1>4, <1>7, <2>1 DEF IngestNew, IInv, TypeOK
  <2> QED
    BY <1>1, <1>7, <2>1, <2>2, <2>3 DEF FinalInOrder, Grows
<1>9. ASSUME ~rescans, NEW i \in final' PROVE Within(index', i)
  <2>1. CASE i \in final
    BY <1>1, <1>4, <1>5, <1>9, <2>1 DEF IInv, FinalSettles, Within
  <2>2. CASE i \in Mark(index')
    <3>1. i \in 1..n /\ i <= FinalizedThrough
      BY <1>4, <2>2 DEF Mark
    <3> QED
      BY <1>4, <3>1 DEF IInv, TypeOK, ViewSettles, Within
  <2> QED
    BY <1>9, <2>1, <2>2 DEF IngestNew
<1>10. SourceSettles' /\ ViewSettles' /\ FinalSettles'
  BY <1>9
  DEF IngestNew, IInv, SourceSettles, ViewSettles, FinalSettles, Within,
      FinalizedThrough
<1> QED
  BY <1>8, <1>10 DEF IInv

LEMMA NextInvariant == IInv /\ [Next]_vars => IInv'
<1> SUFFICES ASSUME IInv, [Next]_vars PROVE IInv'
  OBVIOUS
<1>1. CASE Mine \/ Reorganise
  BY <1>1, SourceInvariant
<1>2. CASE Read
  BY <1>2, ReadInvariant
<1>3. CASE Ingest
  BY <1>3, KnownInvariant, NewInvariant DEF Ingest
<1>4. CASE UNCHANGED vars
  BY <1>4
  DEF vars, IInv, TypeOK, FinalInOrder, SourceSettles, ViewSettles,
      FinalSettles, Within, FinalizedThrough
<1> QED
  BY <1>1, <1>2, <1>3, <1>4 DEF Next

(***************************************************************************)
(* The inductive invariant holds, whatever the feeder and the chain do.    *)
(***************************************************************************)
THEOREM Invariance == Spec => []IInv
<1> QED
  BY InitInvariant, NextInvariant, PTL DEF Spec

\* Types: the marked rows are rows of the table.
THEOREM TypeCorrect == Spec => []TypeOK
<1>1. IInv => TypeOK
  BY DEF IInv
<1> QED
  BY <1>1, Invariance, PTL

\* The finalized blocks are a prefix of the stored chain.
THEOREM FinalizedIsPrefixHolds == Spec => []FinalizedIsPrefix
<1>1. IInv => FinalizedIsPrefix
  BY DEF IInv, FinalInOrder, FinalizedIsPrefix
<1> QED
  BY <1>1, Invariance, PTL

(***************************************************************************)
(* Unless known blocks are presented again, everything finalized is        *)
(* settled: the source chain cannot take it back.                          *)
(***************************************************************************)
THEOREM FinalizedIsSettledHolds == Spec => []FinalizedIsSettled
<1>1. ASSUME IInv PROVE FinalizedIsSettled
  <2> SUFFICES ASSUME ~rescans, NEW n \in final
               PROVE  n <= Len(settled) /\ Prefix(index, n) = Prefix(settled, n)
    BY DEF FinalizedIsSettled
  <2>1. n \in 1..Len(index) /\ \A i \in 1..n : i \in final
    BY <1>1 DEF IInv, TypeOK, FinalInOrder
  <2>2. n <= Len(settled) /\ \A i \in 1..n : index[i] = settled[i]
    BY <1>1, <2>1 DEF IInv, FinalSettles, Within
  <2> QED
    BY <1>1, <2>1, <2>2 DEF Prefix, IInv, TypeOK
<1> QED
  BY <1>1, Invariance, PTL

(***************************************************************************)
(* The finalized chain is a log that only grows, even then.                *)
(***************************************************************************)
LEMMA LogOf ==
  ASSUME NEW k \in Nat, final = 1..k PROVE FinalizedChain = Prefix(index, k)
<1>1. Cardinality(1..k) = k
  BY FS_Interval
<1> QED
  BY <1>1 DEF FinalizedChain

LEMMA GrowsIsLog ==
  ASSUME IInv, IInv', Grows
  PROVE  /\ Len(FinalizedChain) <= Len(FinalizedChain')
         /\ Prefix(FinalizedChain', Len(FinalizedChain)) = FinalizedChain
<1>0. PICK k \in 0..Len(index) : \E l \in k..Len(index') :
        /\ final = 1..k /\ final' = 1..l
        /\ \A i \in 1..k : index'[i] = index[i]
  BY DEF Grows
<1>1. PICK l \in k..Len(index') :
        /\ final = 1..k /\ final' = 1..l
        /\ \A i \in 1..k : index'[i] = index[i]
  BY <1>0
<1>2. FinalizedChain = Prefix(index, k)
  BY <1>1, LogOf
<1>3. FinalizedChain' = Prefix(index', l)
  <2>0. index' \in Seq(SUBSET Event)
    BY DEF IInv, TypeOK
  <2>1. l \in Nat
    BY <1>1, <2>0
  <2>2. Cardinality(1..l) = IF 1 > l THEN 0 ELSE l - 1 + 1
    BY <2>1, FS_Interval
  <2>3. Cardinality(1..l) = l
    BY <2>1, <2>2
  <2> QED
    BY <1>1, <2>3 DEF FinalizedChain, Prefix
<1>4. index \in Seq(SUBSET Event) /\ index' \in Seq(SUBSET Event)
  BY DEF IInv, TypeOK
<1> QED
  BY <1>1, <1>2, <1>3, <1>4 DEF Prefix

THEOREM FinalizedOnlyGrowsHolds == Spec => FinalizedOnlyGrows
<1> DEFINE Log == /\ Len(FinalizedChain) <= Len(FinalizedChain')
                  /\ Prefix(FinalizedChain', Len(FinalizedChain)) = FinalizedChain
<1>1. ASSUME IInv, IInv', [Next]_vars PROVE [Log]_vars
  <2>1. CASE Ingest
    BY <1>1, <2>1, KnownInvariant, NewInvariant, GrowsIsLog DEF Ingest
  <2>2. CASE UNCHANGED <<index, final>>
    <3>1. PICK k \in 0..Len(index) : final = 1..k
      BY <1>1 DEF IInv, FinalInOrder
    <3>2. Grows
      BY <1>1, <2>2, <3>1 DEF Grows, IInv, TypeOK
    <3> QED
      BY <1>1, <3>2, GrowsIsLog
  <2>3. CASE UNCHANGED vars
    BY <2>3
  <2> QED
    BY <1>1, <2>1, <2>2, <2>3 DEF Next, Mine, Reorganise, Becomes, Read
<1> QED
  BY <1>1, Invariance, PTL DEF Spec, FinalizedOnlyGrows
=============================================================================
