------------------------- MODULE CatchupSyncProofs -------------------------
(***************************************************************************)
(* What catching up promises for any number of peers on any branches, any  *)
(* heights and limits, and any number of disturbances.                     *)
(***************************************************************************)
EXTENDS CatchupSync, FiniteSetTheorems, TLAPS

Branches == {Branch[p] : p \in Peer}
Proper == {Block(h, b) : h \in 0..MaxHeight, b \in Branches}

\* n blocks of one branch from a height on.
Run(first, n, b) == [i \in 1..n |-> Block(first + i - 1, b)]

Extents ==
  {e \in [first : Nat \ {0}, n : Nat \ {0}] : e.first + e.n - 1 <= MaxHeight}

Runs == {Run(e.first, e.n, b) : e \in Extents, b \in Branches}

Frames ==
  {Status(block, quality) : block \in Proper, quality \in Qualities}
    \cup {Manifest(block, quality) : block \in Proper, quality \in Qualities}
    \cup {BlockRange(run, quality) : run \in Runs, quality \in Qualities}

Requests == [mode : {"RANGE", "SNAPSHOT"}, first : Nat \ {0},
             last : 0..MaxHeight]

Plans == [mode : {"RANGE", "SNAPSHOT"}, local : Nat, target : Nat]

TipOf(s) == IF s = <<>> THEN Block(0, "common") ELSE Last(s)
IsPath(s) == s = Path(TipOf(s))

Bounded ==
  /\ top \in [Peer -> 0..MaxHeight] /\ disturbances \in 0..MaxDisturbances

(***************************************************************************)
(* Whatever is under way are blocks of some branch in their order, so that *)
(* a range joined to the store at its first block is joined everywhere.    *)
(***************************************************************************)
Underway ==
  asked \in [Peer -> Seq(Requests)] /\ channel \in [Peer -> Seq(Frames)]

Chosen ==
  /\ claims \in [Peer -> SUBSET Proper]
  /\ \A p \in Peer : claims[p] \subseteq canonical
  /\ canonical \subseteq Proper
  /\ \A b, c \in canonical : b.height = c.height => b = c
  /\ halted \in BOOLEAN

Books ==
  /\ inStep \in [Peer -> BOOLEAN]
  /\ faults \in [Peer -> 0..QuarantineThreshold]
  /\ plans \in [Peer -> SUBSET Plans]
  /\ \A p \in Peer : Cardinality(plans[p]) <= 1
  /\ \A p \in Peer : \A plan \in plans[p] : plan.local < plan.target

Stored == store \in Seq(Proper) /\ IsPath(store)

IInv == Bounded /\ Underway /\ Chosen /\ Books /\ Stored
----------------------------------------------------------------------------
LEMMA ProperFacts ==
  ASSUME NEW block \in Proper
  PROVE  /\ block \in Blocks /\ block.height \in 0..MaxHeight
         /\ block = Block(block.height, block.branch)
         /\ \A h \in 0..block.height : Block(h, block.branch) \in Proper
<1>1. PICK h \in 0..MaxHeight, b \in Branches : block = Block(h, b)
  BY DEF Proper
<1>2. block.height = h /\ block.branch \in {b, "common"}
  BY <1>1 DEF Block
<1>3. block \in Blocks /\ block = Block(block.height, block.branch)
  BY <1>1, <1>2 DEF Block, Blocks, Branches
<1>4. ASSUME NEW k \in 0..h PROVE Block(k, block.branch) = Block(k, b)
  BY <1>1, SyncAssumption DEF Block
<1>5. \A k \in 0..h : k \in 0..MaxHeight
  BY SyncAssumption
<1> QED
  BY <1>2, <1>3, <1>4, <1>5 DEF Proper

\* A snapshot's blocks are a path.
LEMMA PathIsPath ==
  ASSUME NEW block \in Proper, block.height > 0
  PROVE  Path(block) \in Seq(Proper) /\ IsPath(Path(block))
<1>1. block.height \in Nat /\ block = Block(block.height, block.branch)
  BY ProperFacts, SyncAssumption
<1>2. \A h \in 1..block.height : Block(h, block.branch) \in Proper
  BY <1>1, ProperFacts
<1>3. Path(block) \in Seq(Proper) /\ Len(Path(block)) = block.height
  BY <1>1, <1>2 DEF Path
<1>4. Path(block) # <<>> /\ Last(Path(block)) = block
  BY <1>1, <1>3 DEF Path, Last
<1> QED
  BY <1>3, <1>4 DEF IsPath, TipOf

LEMMA TipFacts ==
  ASSUME NEW s \in Seq(Proper), IsPath(s)
  PROVE  TipOf(s).height = Len(s)
<1>1. CASE s = <<>>
  BY <1>1 DEF TipOf, Block
<1>2. CASE s # <<>>
  <2>1. TipOf(s) \in Proper
    BY <1>2 DEF TipOf, Last
  <2>2. TipOf(s).height \in Nat
    BY <2>1, ProperFacts, SyncAssumption
  <2> QED
    BY <2>2 DEF IsPath, Path
<1> QED
  BY <1>1, <1>2

\* A run of blocks whose first one's parent is the tip continues the path.
LEMMA RunContinues ==
  ASSUME NEW s \in Seq(Proper), IsPath(s),
         NEW first \in Nat \ {0}, NEW n \in Nat \ {0},
         first + n - 1 <= MaxHeight, NEW b \in Branches,
         Parent(Block(first, b)) = TipOf(s)
  PROVE  s \o Run(first, n, b) \in Seq(Proper) /\ IsPath(s \o Run(first, n, b))
<1> DEFINE run == Run(first, n, b)
           t == s \o run
           top_ == first + n - 1
<1>1. Block(first, b).height = first
  BY DEF Block
<1>2. TipOf(s) = Block(first - 1, Block(first, b).branch)
  BY <1>1 DEF Parent
<1>3. Len(s) = first - 1
  BY <1>2, TipFacts DEF Block
<1>4. ASSUME NEW i \in 1..n PROVE Block(first + i - 1, b) \in Proper
  <2>1. first + i - 1 \in 0..MaxHeight
    BY SyncAssumption
  <2> QED
    BY <2>1 DEF Proper
<1>5. run \in Seq(Proper) /\ Len(run) = n
  BY <1>4 DEF Run
<1>6. /\ t \in Seq(Proper) /\ Len(t) = top_
      /\ \A h \in 1..top_ : t[h] = IF h < first THEN s[h] ELSE run[h - first + 1]
  BY <1>3, <1>5
<1>7. ASSUME NEW h \in first..top_ PROVE t[h] = Block(h, b)
  <2>1. h - first + 1 \in 1..n /\ first + (h - first + 1) - 1 = h
    OBVIOUS
  <2>2. run[h - first + 1] = Block(h, b)
    BY <2>1 DEF Run
  <2> QED
    BY <1>6, <2>1, <2>2
<1>8. t # <<>> /\ TipOf(t) = Block(top_, b)
  BY <1>6, <1>7 DEF TipOf, Last
<1> HIDE DEF t, run
<1>9. \A h \in 1..top_ : t[h] = Block(h, Block(top_, b).branch)
  <2> SUFFICES ASSUME NEW h \in 1..top_ PROVE t[h] = Block(h, Block(top_, b).branch)
    OBVIOUS
  <2>1. CASE h >= first
    <3>1. t[h] = Block(h, b)
      BY <1>7, <2>1
    <3>2. h \in Nat /\ top_ \in Nat /\ h <= top_
      OBVIOUS
    <3> HIDE DEF top_
    <3> QED
      BY <3>1, <3>2, SyncAssumption DEF Block
  <2>2. CASE h < first
    <3>1. t[h] = s[h] /\ h \in 1..Len(s)
      BY <1>3, <1>6, <2>2
    <3>2. s[h] = Block(h, TipOf(s).branch)
      BY <1>3, <3>1, TipFacts DEF IsPath, Path
    <3>3. Block(h, TipOf(s).branch) = Block(h, Block(top_, b).branch)
      BY <1>2, <2>2, SyncAssumption DEF Block
    <3> QED
      BY <3>1, <3>2, <3>3
  <2> QED
    BY <2>1, <2>2
<1>10. Block(top_, b).height = top_
  BY DEF Block
<1>11. Path(TipOf(t)) = [h \in 1..top_ |-> Block(h, Block(top_, b).branch)]
  BY <1>8, <1>10 DEF Path
<1> HIDE DEF top_
<1>12. t = [h \in 1..top_ |-> t[h]]
  BY <1>6
<1> QED
  BY <1>6, <1>9, <1>11, <1>12 DEF IsPath, t, run
----------------------------------------------------------------------------
\* What the invariant says of types and of the store.
LEMMA InvariantFacts == IInv => TypeOK /\ StoreIsPath
<1> SUFFICES ASSUME IInv PROVE TypeOK /\ StoreIsPath
  OBVIOUS
<1>1. Proper \subseteq Blocks
  BY ProperFacts
<1>2. canonical \subseteq Blocks /\ store \in Seq(Blocks)
  BY <1>1 DEF IInv, Chosen, Stored
<1>3. TypeOK
  BY <1>2 DEF IInv, Bounded, Chosen, Books, TypeOK
<1>4. StoreIsPath
  BY DEF IInv, Stored, IsPath, TipOf, StoreIsPath, Tip
<1> QED
  BY <1>3, <1>4

\* Nothing is known, asked or charged at first.
LEMMA InitInvariant == Init => IInv
<1> SUFFICES ASSUME Init PROVE IInv
  OBVIOUS
<1>1. Bounded /\ Underway
  BY SyncAssumption DEF Init, Bounded, Underway
<1>2. Chosen
  <2>1. halted \in BOOLEAN
    BY Zenon DEF Init
  <2> QED
    BY <2>1 DEF Init, Chosen
<1>3. Books
  <2>1. \A p \in Peer : plans[p] = {} /\ Cardinality(plans[p]) = 0
    BY FS_EmptySet DEF Init
  <2>2. inStep \in [Peer -> BOOLEAN]
    BY Zenon DEF Init
  <2>3. faults \in [Peer -> 0..QuarantineThreshold]
    BY SyncAssumption DEF Init
  <2> QED
    BY <2>1, <2>2, <2>3 DEF Init, Books
<1>4. Stored
  BY DEF Init, Stored, IsPath, TipOf, Path, Block
<1> QED
  BY <1>1, <1>2, <1>3, <1>4 DEF IInv

----------------------------------------------------------------------------
\* Parts that a step leaves alone.
LEMMA ChosenStays == ASSUME Chosen, UNCHANGED fork PROVE Chosen'
  BY DEF Chosen, fork

LEMMA BooksStay ==
  ASSUME Books, UNCHANGED <<inStep, faults, plans>> PROVE Books'
  BY DEF Books

LEMMA StoredStays == ASSUME Stored, UNCHANGED store PROVE Stored'
  BY DEF Stored

LEMMA DisturbBounded ==
  ASSUME Bounded, Disturb \/ UNCHANGED disturbances
  PROVE  disturbances' \in 0..MaxDisturbances
  BY SyncAssumption DEF Bounded, Disturb

LEMMA OutOfStep ==
  ASSUME Books, NEW p \in Peer, inStep' = [inStep EXCEPT ![p] = FALSE],
         UNCHANGED <<faults, plans>>
  PROVE  Books'
<1>1. inStep' \in [Peer -> BOOLEAN]
  BY Zenon DEF Books
<1> QED
  BY <1>1 DEF Books

LEMMA Sending ==
  ASSUME Underway, NEW p \in Peer, NEW frame \in Frames
  PROVE  [channel EXCEPT ![p] = Append(@, frame)] \in [Peer -> Seq(Frames)]
  BY DEF Underway

LEMMA AnnounceInvariant ==
  ASSUME IInv, NEW p \in Peer, NEW quality \in Qualities, Announce(p, quality)
  PROVE  IInv'
<1>1. Branch[p] \in Branches
  BY DEF Branches
<1>2. top[p] + 1 \in 0..MaxHeight
  BY SyncAssumption DEF Announce, IInv, Bounded
<1>3. Block(top[p] + 1, Branch[p]) \in Proper
  BY <1>1, <1>2 DEF Proper
<1>4. Underway'
  <2>1. Status(Block(top[p] + 1, Branch[p]), quality) \in Frames
    BY <1>3 DEF Frames
  <2>2. channel' \in [Peer -> Seq(Frames)]
    BY <2>1, Sending DEF Announce, IInv
  <2> QED
    BY <2>2 DEF Announce, IInv, Underway
<1>5. Bounded'
  <2>1. disturbances' \in 0..MaxDisturbances
    BY DisturbBounded DEF Announce, DisturbBy, IInv
  <2> QED
    BY <1>2, <2>1 DEF Announce, IInv, Bounded
<1> QED
  BY <1>4, <1>5, ChosenStays, BooksStay, StoredStays DEF Announce, IInv

LEMMA MinFacts ==
  ASSUME NEW a \in Int, NEW b \in Int
  PROVE  Min({a, b}) = IF a <= b THEN a ELSE b
  BY DEF Min

LEMMA AnswerInvariant ==
  ASSUME IInv, NEW p \in Peer, NEW quality \in Qualities, Answer(p, quality)
  PROVE  IInv'
<1> DEFINE request == Head(asked[p])
           last == Min({request.last, top[p]})
           n == last - request.first + 1
           blocks == [i \in 1..n |-> Block(request.first + i - 1, Branch[p])]
           replies ==
             IF request.mode = "SNAPSHOT"
               THEN IF top[p] < request.last THEN <<>>
                    ELSE <<Manifest(Block(request.last, Branch[p]), quality)>>
               ELSE IF blocks = <<>> THEN <<>> ELSE <<BlockRange(blocks, quality)>>
<1>1. request \in Requests /\ asked' \in [Peer -> Seq(Requests)]
  BY DEF Answer, IInv, Underway
<1>2. top[p] \in 0..MaxHeight /\ Branch[p] \in Branches
  BY DEF IInv, Bounded, Branches
<1>3. replies \in Seq(Frames)
  <2>1. CASE request.mode = "SNAPSHOT"
    <3>1. Block(request.last, Branch[p]) \in Proper
      BY <1>1, <1>2 DEF Requests, Proper
    <3>2. Manifest(Block(request.last, Branch[p]), quality) \in Frames
      BY <3>1 DEF Frames
    <3> HIDE DEF request
    <3> QED
      BY <2>1, <3>2
  <2>2. CASE request.mode # "SNAPSHOT" /\ blocks # <<>>
    <3>1. last \in 0..MaxHeight
      <4>1. request.last \in Int /\ top[p] \in Int
        BY <1>1, <1>2, SyncAssumption DEF Requests
      <4>2. last = IF request.last <= top[p] THEN request.last ELSE top[p]
        BY <4>1, MinFacts
      <4>3. request.last \in 0..MaxHeight
        BY <1>1 DEF Requests
      <4> HIDE DEF last, request
      <4> QED
        BY <1>2, <4>2, <4>3
    <3>2. request.first \in Nat \ {0}
      BY <1>1 DEF Requests
    <3> HIDE DEF last, request
    <3>3. n \in Nat \ {0}
      <4>1. CASE n <= 0
        BY <2>2, <3>1, <3>2, <4>1
      <4> QED
        BY <3>1, <3>2, <4>1
    <3>4. request.first + n - 1 <= MaxHeight
      BY <3>1, <3>2, SyncAssumption
    <3>5. [first |-> request.first, n |-> n] \in Extents
      BY <3>2, <3>3, <3>4 DEF Extents
    <3>6. blocks = Run(request.first, n, Branch[p])
      BY DEF Run
    <3> HIDE DEF n, blocks
    <3>7. blocks \in Runs
      BY <1>2, <3>5, <3>6 DEF Runs
    <3>8. BlockRange(blocks, quality) \in Frames
      BY <3>7 DEF Frames
    <3> QED
      BY <2>2, <3>8
  <2>3. CASE request.mode # "SNAPSHOT" /\ blocks = <<>>
    BY <2>3
  <2> QED
    BY <2>1, <2>2, <2>3
<1>4. channel' = [channel EXCEPT ![p] = @ \o replies]
  BY DEF Answer
<1> HIDE DEF replies
<1>5. Underway'
  BY <1>1, <1>3, <1>4 DEF IInv, Underway
<1>6. Bounded'
  <2>1. disturbances' \in 0..MaxDisturbances
    BY DisturbBounded DEF Answer, DisturbBy, IInv
  <2> QED
    BY <2>1 DEF Answer, IInv, Bounded
<1> QED
  BY <1>5, <1>6, ChosenStays, BooksStay, StoredStays DEF Answer, IInv

LEMMA LoseInvariant ==
  ASSUME IInv, NEW p \in Peer, Lose(p) PROVE IInv'
<1>1. Underway'
  BY DEF Lose, IInv, Underway
<1>2. Bounded'
  BY DisturbBounded DEF Lose, IInv, Bounded
<1> QED
  BY <1>1, <1>2, ChosenStays, OutOfStep, StoredStays DEF Lose, IInv

LEMMA ExtendInvariant ==
  ASSUME IInv, NEW p \in Peer, ExtendStore(Branch[p]) PROVE IInv'
<1> DEFINE first == Len(store) + 1
           b == Branch[p]
<1>1. first \in Nat \ {0} /\ first + 1 - 1 <= MaxHeight /\ b \in Branches
  BY SyncAssumption DEF ExtendStore, IInv, Stored, Branches
<1>2. Parent(Block(first, b)) = TipOf(store)
  BY DEF ExtendStore, Tip, TipOf
<1>3. store' = store \o Run(first, 1, b)
  <2>1. Block(first, b) \in Proper
    BY <1>1 DEF Proper
  <2>2. Run(first, 1, b) = <<Block(first, b)>>
    BY <1>1 DEF Run
  <2>3. store' = Append(store, Block(first, b))
    BY DEF ExtendStore
  <2>4. store \in Seq(Proper)
    BY DEF IInv, Stored
  <2> HIDE DEF first, b
  <2>5. Append(store, Block(first, b)) = store \o <<Block(first, b)>>
    BY <2>1, <2>4
  <2> QED
    BY <2>2, <2>3, <2>5
<1> HIDE DEF first, b
<1>4. Stored'
  BY <1>1, <1>2, <1>3, RunContinues DEF IInv, Stored
<1>5. Bounded' /\ Underway'
  BY DisturbBounded DEF ExtendStore, IInv, Bounded, Underway
<1> QED
  BY <1>4, <1>5, ChosenStays, BooksStay DEF ExtendStore, IInv

----------------------------------------------------------------------------
LEMMA FrameFacts ==
  ASSUME NEW frame \in Frames
  PROVE  /\ frame.type \in {"STATUS", "MANIFEST"} => frame.block \in Proper
         /\ frame.type = "RANGE" => frame.blocks \in Runs
  BY DEF Frames, Status, Manifest, BlockRange

LEMMA TakesFacts ==
  ASSUME IInv, NEW p \in Peer, NEW type, Takes(p, type)
  PROVE  /\ Bounded' /\ Underway'
         /\ Head(channel[p]) \in Frames /\ Head(channel[p]).type = type
  BY DEF Takes, IInv, Bounded, Underway

LEMMA RefuseKeeps ==
  ASSUME IInv, NEW p \in Peer, Refuse(p) PROVE Chosen' /\ Books' /\ Stored'
  BY ChosenStays, OutOfStep, StoredStays DEF Refuse, IInv

LEMMA ChargeKeeps ==
  ASSUME IInv, NEW p \in Peer, ~Quarantined(p),
         faults' = [faults EXCEPT ![p] = @ + 1], UNCHANGED plans,
         inStep' \in [Peer -> BOOLEAN]
  PROVE  Books'
<1>1. faults[p] + 1 \in 0..QuarantineThreshold
  BY SyncAssumption DEF IInv, Books, Quarantined
<1> QED
  BY <1>1 DEF IInv, Books

LEMMA FaultKeeps ==
  ASSUME IInv, NEW p \in Peer, ~Quarantined(p), Fault(p)
  PROVE  Chosen' /\ Books' /\ Stored'
<1> DEFINE next == inStep[p] /\ Head(channel[p]).quality # "UNREADABLE"
<1>1. inStep \in [Peer -> BOOLEAN]
  BY DEF IInv, Books
<1>2. next \in BOOLEAN
  BY Zenon
<1>3. inStep' = [inStep EXCEPT ![p] = next]
  BY <1>1 DEF Fault, ReadFrame
<1> HIDE DEF next
<1>4. inStep' \in [Peer -> BOOLEAN]
  BY <1>1, <1>2, <1>3
<1> QED
  BY <1>4, ChosenStays, ChargeKeeps, StoredStays DEF Fault, IInv

LEMMA StatusInvariant ==
  ASSUME IInv, NEW p \in Peer, ReceiveStatus(p) PROVE IInv'
<1> DEFINE block == Head(channel[p]).block
<1>1. Takes(p, "STATUS")
  BY DEF ReceiveStatus
<1>2. Bounded' /\ Underway' /\ block \in Proper
  BY <1>1, TakesFacts, FrameFacts
<1>3. CASE Refuse(p)
  BY <1>2, <1>3, RefuseKeeps DEF IInv
<1>4. CASE ~Quarantined(p) /\ Fault(p)
  BY <1>2, <1>4, FaultKeeps DEF IInv
<1>5. CASE /\ ~Quarantined(p) /\ halted' = TRUE
           /\ faults' = [faults EXCEPT ![p] = @ + 1]
           /\ UNCHANGED <<inStep, claims, canonical, plans, store>>
  <2>1. Chosen'
    BY <1>5 DEF IInv, Chosen
  <2>2. inStep' \in [Peer -> BOOLEAN]
    BY <1>5 DEF IInv, Books
  <2> QED
    BY <1>2, <1>5, <2>1, <2>2, ChargeKeeps, StoredStays DEF IInv
<1>6. CASE /\ ~Conflicts(block)
           /\ claims' = [claims EXCEPT ![p] = {block}]
           /\ canonical' = canonical \cup {block}
           /\ UNCHANGED <<inStep, halted, faults, plans, store>>
  <2> HIDE DEF block
  <2>1. claims' \in [Peer -> SUBSET Proper] /\ canonical' \subseteq Proper
    BY <1>2, <1>6 DEF IInv, Chosen
  <2>2. \A q \in Peer : claims'[q] \subseteq canonical'
    BY <1>6 DEF IInv, Chosen
  <2>3. \A b, c \in canonical' : b.height = c.height => b = c
    BY <1>6 DEF IInv, Chosen, Conflicts
  <2>4. Chosen'
    BY <1>6, <2>1, <2>2, <2>3 DEF IInv, Chosen
  <2> QED
    BY <1>2, <1>6, <2>4, BooksStay, StoredStays DEF IInv
<1>7. \/ Refuse(p)
      \/ ~Quarantined(p) /\ Fault(p)
      \/ /\ ~Quarantined(p) /\ halted' = TRUE
         /\ faults' = [faults EXCEPT ![p] = @ + 1]
         /\ UNCHANGED <<inStep, claims, canonical, plans, store>>
      \/ /\ ~Conflicts(block)
         /\ claims' = [claims EXCEPT ![p] = {block}]
         /\ canonical' = canonical \cup {block}
         /\ UNCHANGED <<inStep, halted, faults, plans, store>>
  BY Zenon DEF ReceiveStatus
<1> QED
  BY <1>3, <1>4, <1>5, <1>6, <1>7

\* A plan is dropped when its reply is accepted.
LEMMA AcceptKeeps ==
  ASSUME IInv, NEW p \in Peer, NEW blocks, Accept(p, blocks)
  PROVE  Chosen' /\ Books' /\ store' = blocks
<1>1. plans' = [plans EXCEPT ![p] = {}] /\ UNCHANGED <<inStep, faults>>
  BY DEF Accept
<1>2. \A q \in Peer : plans'[q] = {} \/ plans'[q] = plans[q]
  BY <1>1 DEF IInv, Books
<1>3. Cardinality({}) = 0
  BY FS_EmptySet
<1>4. ASSUME NEW q \in Peer PROVE Cardinality(plans'[q]) <= 1
  <2>1. CASE plans'[q] = {}
    <3>1. Cardinality(plans'[q]) = 0
      BY <1>3, <2>1, Zenon
    <3> QED
      BY <3>1
  <2>2. CASE plans'[q] = plans[q]
    BY <2>2 DEF IInv, Books
  <2> QED
    BY <1>2, <2>1, <2>2
<1>5. Books'
  BY <1>1, <1>2, <1>4 DEF IInv, Books
<1> QED
  BY <1>5, ChosenStays DEF Accept, IInv

LEMMA BlockRangeInvariant ==
  ASSUME IInv, NEW p \in Peer, ReceiveBlockRange(p) PROVE IInv'
<1> DEFINE frame == Head(channel[p])
           plan == CHOOSE plan \in plans[p] : TRUE
<1>1. Takes(p, "RANGE")
  BY DEF ReceiveBlockRange
<1>2. Bounded' /\ Underway' /\ frame.blocks \in Runs
  BY <1>1, TakesFacts, FrameFacts
<1>3. CASE Refuse(p)
  BY <1>2, <1>3, RefuseKeeps DEF IInv
<1>4. CASE ~Quarantined(p) /\ Fault(p)
  BY <1>2, <1>4, FaultKeeps DEF IInv
<1>5. CASE RangeHolds(plan, frame) /\ Accept(p, store \o frame.blocks)
  <2>1. PICK e \in Extents, b \in Branches : frame.blocks = Run(e.first, e.n, b)
    BY <1>2 DEF Runs
  <2>2. /\ e.first \in Nat \ {0} /\ e.n \in Nat \ {0}
        /\ e.first + e.n - 1 <= MaxHeight
    BY DEF Extents
  <2>3. Parent(frame.blocks[1]) = TipOf(store)
    BY <1>5 DEF RangeHolds, Tip, TipOf
  <2>4. frame.blocks[1] = Block(e.first, b)
    BY <2>1, <2>2 DEF Run
  <2>5. Chosen' /\ Books' /\ store' = store \o frame.blocks
    BY <1>5, AcceptKeeps
  <2> HIDE DEF frame
  <2>6. Stored'
    BY <2>1, <2>2, <2>3, <2>4, <2>5, RunContinues DEF IInv, Stored
  <2> QED
    BY <1>2, <2>5, <2>6 DEF IInv
<1>6. \/ Refuse(p)
      \/ ~Quarantined(p) /\ Fault(p)
      \/ RangeHolds(plan, frame) /\ Accept(p, store \o frame.blocks)
  BY Zenon DEF ReceiveBlockRange, MayReply
<1> QED
  BY <1>3, <1>4, <1>5, <1>6

LEMMA SnapshotInvariant ==
  ASSUME IInv, NEW p \in Peer, ReceiveSnapshot(p) PROVE IInv'
<1> DEFINE block == Head(channel[p]).block
           blocks == IF block.height > Len(store) THEN Path(block) ELSE store
<1>1. Takes(p, "MANIFEST")
  BY DEF ReceiveSnapshot
<1>2. Bounded' /\ Underway' /\ block \in Proper
  BY <1>1, TakesFacts, FrameFacts
<1>3. CASE Refuse(p)
  BY <1>2, <1>3, RefuseKeeps DEF IInv
<1>4. CASE ~Quarantined(p) /\ Fault(p)
  BY <1>2, <1>4, FaultKeeps DEF IInv
<1>5. CASE Accept(p, blocks)
  <2>1. Chosen' /\ Books' /\ store' = blocks
    BY <1>5, AcceptKeeps
  <2>2. block.height \in Nat /\ Len(store) \in Nat
    BY <1>2, ProperFacts, SyncAssumption DEF IInv, Stored
  <2> HIDE DEF block
  <2>3. blocks \in Seq(Proper) /\ IsPath(blocks)
    <3>1. CASE block.height > Len(store)
      BY <1>2, <2>2, <3>1, PathIsPath
    <3>2. CASE ~(block.height > Len(store))
      BY <3>2 DEF IInv, Stored
    <3> QED
      BY <3>1, <3>2
  <2> HIDE DEF blocks
  <2> QED
    BY <1>2, <2>1, <2>3 DEF IInv, Stored
<1>6. Refuse(p) \/ (~Quarantined(p) /\ Fault(p)) \/ Accept(p, blocks)
  BY Zenon DEF ReceiveSnapshot, MayReply
<1> QED
  BY <1>3, <1>4, <1>5, <1>6

LEMMA PlanInvariant ==
  ASSUME IInv, NEW p \in Peer, Plan(p) PROVE IInv'
<1> DEFINE local == Len(store)
<1>1. PICK head \in Head_ :
        LET mode == Mode(local, head.height)
            limit == IF mode = "RANGE" THEN RangeLimit ELSE MaxHeight
        IN  /\ local < head.height
            /\ IF Owed(p) THEN Disturb ELSE UNCHANGED disturbances
            /\ plans' = [plans EXCEPT ![p] =
                 {[mode |-> mode, local |-> local, target |-> head.height]}]
            /\ asked' = [asked EXCEPT ![p] = Append(@,
                 [mode |-> mode, first |-> local + 1,
                  last |-> Min({head.height, local + limit})])]
            /\ UNCHANGED <<top, channel, inStep, fork, faults, store>>
  BY DEF Plan
<1> DEFINE mode == Mode(local, head.height)
           limit == IF mode = "RANGE" THEN RangeLimit ELSE MaxHeight
           plan == [mode |-> mode, local |-> local, target |-> head.height]
           request == [mode |-> mode, first |-> local + 1,
                       last |-> Min({head.height, local + limit})]
<1>2. local \in Nat /\ head.height \in 0..MaxHeight /\ head.height \in Nat
  <2>1. head \in Proper
    BY DEF Head_, IInv, Chosen
  <2> QED
    BY <2>1, ProperFacts, SyncAssumption DEF IInv, Stored
<1>3. mode \in {"RANGE", "SNAPSHOT"} /\ limit \in Nat
  BY SyncAssumption DEF Mode
<1>4. plan \in Plans /\ plan.local < plan.target
  BY <1>1, <1>2, <1>3 DEF Plans
<1>5. request \in Requests
  <2>1. Min({head.height, local + limit}) =
        IF head.height <= local + limit THEN head.height ELSE local + limit
    BY <1>2, <1>3, MinFacts
  <2> HIDE DEF mode, limit, local
  <2>2. Min({head.height, local + limit}) \in 0..MaxHeight
    BY <1>2, <1>3, <2>1, SyncAssumption
  <2> QED
    BY <1>2, <1>3, <2>2 DEF Requests
<1>6. /\ plans' = [plans EXCEPT ![p] = {plan}]
      /\ asked' = [asked EXCEPT ![p] = Append(@, request)]
      /\ UNCHANGED <<top, channel, inStep, fork, faults, store>>
      /\ Disturb \/ UNCHANGED disturbances
  BY <1>1
<1> HIDE DEF plan, request, mode, limit, local
<1>7. Books'
  <2>1. Cardinality({plan}) = 1
    BY FS_Singleton
  <2>2. \A q \in Peer : plans'[q] = {plan} \/ plans'[q] = plans[q]
    BY <1>6 DEF IInv, Books
  <2>3. ASSUME NEW q \in Peer PROVE Cardinality(plans'[q]) <= 1
    <3>1. CASE plans'[q] = {plan}
      <4>1. Cardinality(plans'[q]) = 1
        BY <2>1, <3>1, Zenon
      <4> QED
        BY <4>1
    <3>2. CASE plans'[q] = plans[q]
      BY <3>2 DEF IInv, Books
    <3> QED
      BY <2>2, <3>1, <3>2
  <2>4. \A q \in Peer : \A r \in plans'[q] : r.local < r.target
    BY <1>4, <2>2 DEF IInv, Books
  <2>5. plans' \in [Peer -> SUBSET Plans]
    BY <1>4, <1>6 DEF IInv, Books
  <2> QED
    BY <1>6, <2>3, <2>4, <2>5 DEF IInv, Books
<1>8. Underway' /\ Bounded'
  BY <1>5, <1>6, DisturbBounded DEF IInv, Underway, Bounded
<1> QED
  BY <1>6, <1>7, <1>8, ChosenStays, StoredStays DEF IInv

LEMMA NextInvariant == IInv /\ [Next]_vars => IInv'
<1> SUFFICES ASSUME IInv, [Next]_vars PROVE IInv'
  OBVIOUS
<1>1. ASSUME NEW p \in Peer, NEW quality \in Qualities,
             Announce(p, quality) \/ Answer(p, quality)
      PROVE  IInv'
  BY <1>1, AnnounceInvariant, AnswerInvariant
<1>2. ASSUME NEW p \in Peer,
             Lose(p) \/ ExtendStore(Branch[p]) \/ Plan(p) \/ Receive(p)
      PROVE  IInv'
  BY <1>2, LoseInvariant, ExtendInvariant, PlanInvariant, StatusInvariant,
     BlockRangeInvariant, SnapshotInvariant DEF Receive
<1>3. CASE UNCHANGED vars
  BY <1>3, ChosenStays, BooksStay, StoredStays
  DEF vars, fork, IInv, Bounded, Underway
<1> QED
  BY <1>1, <1>2, <1>3 DEF Next

----------------------------------------------------------------------------
(***************************************************************************)
(* The inductive invariant holds in every state.                           *)
(***************************************************************************)
THEOREM Invariance == Spec => []IInv
  BY InitInvariant, NextInvariant, PTL DEF Spec

(***************************************************************************)
(* Every state is well typed: at most one plan a peer, one canonical block *)
(* a height, no peer charged beyond the threshold.                         *)
(***************************************************************************)
THEOREM TypeCorrect == Spec => []TypeOK
  BY Invariance, InvariantFacts, PTL

(***************************************************************************)
(* What the caller is told to apply is one path from genesis.              *)
(***************************************************************************)
THEOREM StoreIsPathHolds == Spec => []StoreIsPath
  BY Invariance, InvariantFacts, PTL

\* No step gives a quarantined peer a say.
LEMMA NextQuarantine ==
  ASSUME IInv, [Next]_vars, NEW p \in Peer, Quarantined(p)
  PROVE  /\ faults'[p] = faults[p] /\ claims'[p] = claims[p]
         /\ Receive(p) => UNCHANGED <<canonical, store>>
<1>1. ASSUME Receive(p) PROVE Refuse(p)
  BY <1>1 DEF Receive, ReceiveStatus, ReceiveBlockRange, ReceiveSnapshot,
              MayReply
<1>2. ASSUME NEW q \in Peer, q # p, Receive(q)
      PROVE  faults'[p] = faults[p] /\ claims'[p] = claims[p]
  <2>1. \/ UNCHANGED faults
        \/ faults' = [faults EXCEPT ![q] = @ + 1]
    BY <1>2, Zenon
    DEF Receive, ReceiveStatus, ReceiveBlockRange, ReceiveSnapshot,
        Refuse, Fault, Accept
  <2>2. \/ UNCHANGED claims
        \/ claims' = [claims EXCEPT ![q] = {Head(channel[q]).block}]
    BY <1>2, Zenon
    DEF Receive, ReceiveStatus, ReceiveBlockRange, ReceiveSnapshot,
        Refuse, Fault, Accept, fork
  <2> QED
    BY <1>2, <2>1, <2>2 DEF IInv, Chosen, Books
<1>3. ASSUME NEW q \in Peer, Receive(q)
      PROVE  faults'[p] = faults[p] /\ claims'[p] = claims[p]
  BY <1>1, <1>2, <1>3 DEF Refuse, fork
<1>4. \/ \E q \in Peer : Receive(q)
      \/ UNCHANGED <<fork, faults>>
  <2>1. ASSUME NEW q \in Peer, NEW quality \in Qualities,
               Announce(q, quality) \/ Answer(q, quality)
        PROVE  UNCHANGED <<fork, faults>>
    BY <2>1 DEF Announce, Answer
  <2>2. ASSUME NEW q \in Peer, Lose(q) \/ ExtendStore(Branch[q]) \/ Plan(q)
        PROVE  UNCHANGED <<fork, faults>>
    BY <2>2 DEF Lose, ExtendStore, Plan
  <2>3. CASE UNCHANGED vars
    BY <2>3 DEF vars, fork
  <2> QED
    BY <2>1, <2>2, <2>3 DEF Next
<1>5. faults'[p] = faults[p] /\ claims'[p] = claims[p]
  BY <1>3, <1>4 DEF fork
<1> QED
  BY <1>1, <1>5 DEF Refuse, fork

(***************************************************************************)
(* A quarantined peer changes neither the fork choice nor the store.       *)
(***************************************************************************)
THEOREM QuarantineHoldsAlways == Spec => QuarantineHolds
<1>1. IInv /\ [Next]_vars =>
        [\A p \in Peer :
           Quarantined(p) =>
             /\ faults'[p] = faults[p] /\ claims'[p] = claims[p]
             /\ Receive(p) => UNCHANGED <<canonical, store>>]_vars
  BY NextQuarantine
<1> QED
  BY <1>1, Invariance, PTL DEF Spec, QuarantineHolds

----------------------------------------------------------------------------
(***************************************************************************)
(* The plan a reply is compared with is the peer's only one.               *)
(***************************************************************************)
OnePlan == \A p \in Peer : \A a, b \in plans[p] : a = b

LEMMA NextOnePlan ==
  ASSUME IInv, [Next]_vars, OnePlan
  PROVE  OnePlan'
<1>1. plans \in [Peer -> SUBSET Plans]
  BY DEF IInv, Books
<1>2. ASSUME NEW p \in Peer, NEW new, plans' = [plans EXCEPT ![p] = new],
             \A a, b \in new : a = b
      PROVE  OnePlan'
  BY <1>1, <1>2 DEF OnePlan
<1>3. ASSUME NEW p \in Peer, Plan(p) PROVE OnePlan'
  <2>1. PICK plan : plans' = [plans EXCEPT ![p] = {plan}]
    BY <1>3, Zenon DEF Plan
  <2> QED
    BY <1>2, <2>1
<1>4. ASSUME NEW p \in Peer, Receive(p) PROVE OnePlan'
  <2>1. UNCHANGED plans \/ plans' = [plans EXCEPT ![p] = {}]
    BY <1>4, Zenon
    DEF Receive, ReceiveStatus, ReceiveBlockRange, ReceiveSnapshot,
        Refuse, Fault, Accept
  <2>2. CASE UNCHANGED plans
    BY <2>2 DEF OnePlan
  <2>3. CASE plans' = [plans EXCEPT ![p] = {}]
    BY <1>2, <2>3
  <2> QED
    BY <2>1, <2>2, <2>3
<1>5. \/ UNCHANGED plans
      \/ \E p \in Peer : Plan(p) \/ Receive(p)
  <2>1. ASSUME NEW q \in Peer, NEW quality \in Qualities,
               Announce(q, quality) \/ Answer(q, quality)
        PROVE  UNCHANGED plans
    BY <2>1 DEF Announce, Answer
  <2>2. ASSUME NEW q \in Peer, Lose(q) \/ ExtendStore(Branch[q])
        PROVE  UNCHANGED plans
    BY <2>2 DEF Lose, ExtendStore
  <2>3. CASE UNCHANGED vars
    BY <2>3 DEF vars
  <2> QED
    BY <2>1, <2>2, <2>3 DEF Next
<1>6. CASE UNCHANGED plans
  BY <1>6 DEF OnePlan
<1> QED
  BY <1>3, <1>4, <1>5, <1>6

\* The head is one proper block.
LEMMA HeadFacts ==
  ASSUME IInv, NEW head \in Head_
  PROVE  /\ head \in Proper /\ \A other \in Head_ : other = head
         /\ head.height \in 0..MaxHeight /\ head = Block(head.height, head.branch)
<1>1. head \in canonical /\ canonical \subseteq Proper
  BY DEF Head_, IInv, Chosen
<1>2. \A other \in Head_ : other \in canonical /\ other.height = head.height
  <2> SUFFICES ASSUME NEW other \in Head_
               PROVE  other \in canonical /\ other.height = head.height
    OBVIOUS
  <2>1. /\ other \in canonical
        /\ other.height <= head.height /\ head.height <= other.height
    BY DEF Head_
  <2>2. other.height \in Nat /\ head.height \in Nat
    BY <1>1, <2>1, ProperFacts, SyncAssumption
  <2> QED
    BY <2>1, <2>2
<1>3. \A other \in Head_ : other = head
  BY <1>1, <1>2 DEF IInv, Chosen
<1> QED
  BY <1>1, <1>3, ProperFacts

\* A snapshot of the head is longer than the store it was planned for, and
\* replaces it.
LEMMA FittingSnapshot ==
  ASSUME IInv, OnePlan, NEW p \in Peer, ReceiveSnapshot(p), Fits(p, "SNAPSHOT")
  PROVE  store' = Path(Head(channel[p]).block)
<1> DEFINE frame == Head(channel[p])
<1>1. PICK plan \in plans[p], head \in Head_ :
        /\ plan.mode = "SNAPSHOT" /\ plan.local = Len(store)
        /\ plan.target = head.height /\ frame.block = head
        /\ ~Quarantined(p) /\ inStep[p] /\ frame.quality = "SOUND"
  BY DEF Fits
<1>2. plan = CHOOSE any \in plans[p] : TRUE
  BY DEF OnePlan
<1>3. MayReply(p, "SNAPSHOT") /\ ManifestHolds(plan, frame)
  BY <1>1 DEF MayReply, ManifestHolds
<1>4. plan.local < plan.target
  BY DEF IInv, Books
<1>5. store' = IF frame.block.height > Len(store) THEN Path(frame.block) ELSE store
  BY <1>1, <1>2, <1>3 DEF ReceiveSnapshot, Accept
<1>6. head.height \in Nat /\ Len(store) \in Nat
  BY HeadFacts, SyncAssumption DEF IInv, Stored
<1> QED
  BY <1>1, <1>4, <1>5, <1>6

\* A range from the store towards the head passes every check.
LEMMA FittingRange ==
  ASSUME IInv, OnePlan, NEW p \in Peer, ReceiveBlockRange(p), Fits(p, "RANGE")
  PROVE  store' = store \o Head(channel[p]).blocks
<1> DEFINE frame == Head(channel[p])
           blocks == frame.blocks
           s == Len(store)
<1>1. PICK plan \in plans[p], head \in Head_ :
        /\ plan.mode = "RANGE" /\ plan.local = s /\ plan.target = head.height
        /\ store \o blocks \in Prefixes(Path(head))
        /\ ~Quarantined(p) /\ inStep[p] /\ frame.quality = "SOUND"
  BY DEF Fits
<1>2. plan = CHOOSE any \in plans[p] : TRUE
  BY DEF OnePlan
<1>3. /\ head.height \in Nat /\ head = Block(head.height, head.branch)
      /\ \A other \in Head_ : other = head
  BY HeadFacts, SyncAssumption
<1>4. store \in Seq(Proper) /\ s \in Nat
  BY DEF IInv, Stored
<1>5. PICK n \in Nat \ {0} : blocks \in Seq(Proper) /\ Len(blocks) = n
  <2>1. frame \in Frames /\ frame.type = "RANGE"
    BY DEF ReceiveBlockRange, Takes, IInv, Underway
  <2>2. PICK run \in Runs : blocks = run
    BY <2>1 DEF Frames, Status, Manifest, BlockRange
  <2>3. PICK e \in Extents, b \in Branches : run = Run(e.first, e.n, b)
    BY DEF Runs
  <2>4. e.first \in Nat \ {0} /\ e.n \in Nat \ {0} /\ e.first + e.n - 1 <= MaxHeight
    BY DEF Extents
  <2>5. \A i \in 1..e.n : Block(e.first + i - 1, b) \in Proper
    <3> SUFFICES ASSUME NEW i \in 1..e.n PROVE Block(e.first + i - 1, b) \in Proper
      OBVIOUS
    <3>1. e.first + i - 1 \in 0..MaxHeight
      BY <2>4, SyncAssumption
    <3> QED
      BY <3>1 DEF Proper
  <2>6. run \in Seq(Proper) /\ Len(run) = e.n
    BY <2>3, <2>4, <2>5 DEF Run
  <2> QED
    BY <2>2, <2>4, <2>6
<1> HIDE DEF blocks, s
<1>6. PICK l \in 0..head.height : store \o blocks = SubSeq(Path(head), 1, l)
  <2>1. Len(Path(head)) = head.height
    BY <1>3 DEF Path
  <2> QED
    BY <1>1, <2>1 DEF Prefixes
<1>7. l = s + n
  <2>1. Len(store \o blocks) = s + n
    BY <1>4, <1>5 DEF s
  <2>2. Path(head) = [h \in 1..head.height |-> Block(h, head.branch)]
    BY DEF Path
  <2>3. Len(SubSeq(Path(head), 1, l)) = l
    BY <1>3, <2>2
  <2> QED
    BY <1>6, <2>1, <2>3
<1>8. \A h \in 1..(s + n) :
        Block(h, head.branch) = IF h <= s THEN store[h] ELSE blocks[h - s]
  <2> SUFFICES ASSUME NEW h \in 1..(s + n)
               PROVE  Block(h, head.branch) = IF h <= s THEN store[h] ELSE blocks[h - s]
    OBVIOUS
  <2>1. (store \o blocks)[h] = IF h <= s THEN store[h] ELSE blocks[h - s]
    BY <1>4, <1>5 DEF s
  <2>2. Path(head) = [k \in 1..head.height |-> Block(k, head.branch)]
    BY DEF Path
  <2>3. SubSeq(Path(head), 1, l)[h] = Block(h, head.branch)
    BY <1>3, <1>4, <1>5, <1>7, <2>2
  <2> QED
    BY <1>6, <2>1, <2>3
<1>9. /\ blocks[1] = Block(s + 1, head.branch)
      /\ Last(blocks) = Block(s + n, head.branch)
  BY <1>4, <1>5, <1>8 DEF Last
<1>10. Parent(blocks[1]) = Tip
  <2>1. Parent(blocks[1]) = Block(s, Block(s + 1, head.branch).branch)
    BY <1>4, <1>9 DEF Parent, Block
  <2>2. Block(s, Block(s + 1, head.branch).branch) = Block(s, head.branch)
    BY <1>4, SyncAssumption DEF Block
  <2>3. CASE s = 0
    <3>1. store = <<>> /\ ~(0 > ForkHeight)
      BY <1>4, <2>3, SyncAssumption DEF s
    <3>2. Block(0, head.branch) = Block(0, "common")
      BY <3>1 DEF Block
    <3> QED
      BY <2>1, <2>2, <2>3, <3>1, <3>2 DEF Tip
  <2>4. CASE s # 0
    <3>1. store # <<>> /\ s \in 1..(s + n)
      BY <1>4, <1>5, <2>4 DEF s
    <3>2. Block(s, head.branch) = store[s]
      BY <1>4, <1>8, <3>1
    <3> QED
      BY <2>1, <2>2, <3>1, <3>2 DEF Tip, Last, s
  <2> QED
    BY <2>3, <2>4
<1>11. RangeHolds(plan, frame)
  <2>1. blocks[1].height = s + 1 /\ Last(blocks).height = s + n
    BY <1>9 DEF Block
  <2>2. s + n <= plan.target
    BY <1>1, <1>3, <1>6, <1>7
  <2>3. s + n = plan.target => Last(blocks) = head
    BY <1>1, <1>3, <1>9
  <2> QED
    BY <1>1, <1>3, <1>10, <2>1, <2>2, <2>3 DEF RangeHolds, blocks
<1>12. store' = store \o blocks
  BY <1>1, <1>2, <1>11 DEF ReceiveBlockRange, Accept, MayReply, blocks
<1> QED
  BY <1>12 DEF blocks

(***************************************************************************)
(* A sound reply to a plan that still fits the store and the head is       *)
(* applied in full, a range as well as a snapshot (sync_runtime.py).       *)
(***************************************************************************)
THEOREM FittingReplyIsAppliedHolds == Spec => FittingReplyIsApplied
<1>1. Init => OnePlan
  BY DEF Init, OnePlan
<1>2. IInv /\ [Next]_vars /\ OnePlan => OnePlan'
  BY NextOnePlan
<1>3. IInv /\ OnePlan =>
        [\A p \in Peer :
           /\ ReceiveBlockRange(p) /\ Fits(p, "RANGE") =>
                store' = store \o Head(channel[p]).blocks
           /\ ReceiveSnapshot(p) /\ Fits(p, "SNAPSHOT") =>
                store' = Path(Head(channel[p]).block)]_vars
  BY FittingRange, FittingSnapshot
<1> QED
  BY <1>1, <1>2, <1>3, Invariance, PTL DEF Spec, FittingReplyIsApplied
=============================================================================
