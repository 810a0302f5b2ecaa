---------------------------- MODULE CatchupSync ----------------------------
(***************************************************************************)
(* A validator catching up with its peers: authenticated status frames     *)
(* feed the finalized fork choice, a plan asks one peer for a block range  *)
(* or a snapshot up to the head, and the reply is verified against the     *)
(* plan, the head and the caller's own store (sync_runtime.py,             *)
(* consensus_sync.py).  Faults are counted; a peer with too many of them   *)
(* is quarantined.                                                         *)
(*                                                                         *)
(* A block is its height and its branch; the branches part above           *)
(* ForkHeight.  A frame is SOUND; or FALSE, when its certificates, digests *)
(* or fields are; or UNREADABLE, when the session itself refuses it for    *)
(* its encoding, payload or signature.  A session accepts frames in their  *)
(* exact order, so once one is lost, left unread or unreadable the session *)
(* is out of step for good: inStep.  The peers and the caller, who applies *)
(* what was accepted, are external.                                        *)
(***************************************************************************)
EXTENDS Integers, Sequences, FiniteSets, FiniteSetsExt, SequencesExt

CONSTANTS
  Peer,
  Branch,               \* Branch[p]: the branch that p's store is on
  ForkHeight,
  MaxHeight,            \* bound: heights
  RangeLimit,           \* blocks in one range
  SnapshotThreshold,    \* SnapshotCatchup.threshold
  QuarantineThreshold,  \* FinalizedForkChoice.quarantine_threshold
  MaxDisturbances       \* bound: lost and bad frames, overwritten plans,
                        \* blocks that arrive in the store by other ways

ASSUME SyncAssumption ==
  /\ DOMAIN Branch = Peer /\ ForkHeight \in Nat /\ MaxDisturbances \in Nat
  /\ {MaxHeight, RangeLimit, SnapshotThreshold, QuarantineThreshold}
       \subseteq Nat \ {0}

VARIABLES
  top,          \* top[p]: the height of p's store
  asked,        \* asked[p]: requests on their way to p
  channel,      \* channel[p]: frames on their way from p
  inStep,       \* inStep[p]: p's next frame is the one its session expects
  claims,       \* FinalizedForkChoice._claims, a set of blocks per peer
  canonical,    \* ._canonical, a set of blocks
  halted,       \* ._safety_halt
  faults,       \* ._discipline
  plans,        \* ValidatorSyncRuntime._plans
  store,        \* the caller's blocks from height 1
  disturbances

fork == <<claims, canonical, halted>>
vars == <<top, asked, channel, inStep, claims, canonical, halted, faults,
          plans, store, disturbances>>
----------------------------------------------------------------------------
Block(height, branch) ==
  [height |-> height,
   branch |-> IF height > ForkHeight THEN branch ELSE "common"]

Parent(block) == Block(block.height - 1, block.branch)

Path(block) == [h \in 1..block.height |-> Block(h, block.branch)]

Tip == IF store = <<>> THEN Block(0, "common") ELSE Last(store)

Qualities == {"SOUND", "FALSE", "UNREADABLE"}

Status(block, quality) ==
  [type |-> "STATUS", block |-> block, quality |-> quality]
BlockRange(blocks, quality) ==
  [type |-> "RANGE", blocks |-> blocks, quality |-> quality]
Manifest(block, quality) ==
  [type |-> "MANIFEST", block |-> block, quality |-> quality]

\* FinalizedForkChoice.head: {} or the highest canonical block.
Head_ == {b \in canonical : \A c \in canonical : c.height <= b.height}

Quarantined(p) == faults[p] >= QuarantineThreshold

Init ==
  /\ top = [p \in Peer |-> 0]
  /\ asked = [p \in Peer |-> <<>>]
  /\ channel = [p \in Peer |-> <<>>]
  /\ inStep = [p \in Peer |-> TRUE]
  /\ claims = [p \in Peer |-> {}]
  /\ canonical = {} /\ halted = FALSE
  /\ faults = [p \in Peer |-> 0]
  /\ plans = [p \in Peer |-> {}]
  /\ store = <<>>
  /\ disturbances = 0

Disturb == disturbances < MaxDisturbances /\ disturbances' = disturbances + 1
DisturbBy(quality) ==
  IF quality = "SOUND" THEN UNCHANGED disturbances ELSE Disturb
----------------------------------------------------------------------------
\* External: a peer's store grows and it announces the new height.
Announce(p, quality) ==
  /\ top[p] < MaxHeight
  /\ DisturbBy(quality)
  /\ top' = [top EXCEPT ![p] = @ + 1]
  /\ channel' = [channel EXCEPT ![p] =
                   Append(@, Status(Block(top[p] + 1, Branch[p]), quality))]
  /\ UNCHANGED <<asked, inStep, fork, faults, plans, store>>

\* External: a peer answers a request as far as its store goes.
Answer(p, quality) ==
  LET request == Head(asked[p])
      last == Min({request.last, top[p]})
      blocks == [i \in 1..(last - request.first + 1) |->
                   Block(request.first + i - 1, Branch[p])]
      replies ==
        IF request.mode = "SNAPSHOT"
          THEN IF top[p] < request.last THEN <<>>
               ELSE <<Manifest(Block(request.last, Branch[p]), quality)>>
          ELSE IF blocks = <<>> THEN <<>> ELSE <<BlockRange(blocks, quality)>>
  IN  /\ asked[p] # <<>>
      /\ DisturbBy(quality)
      /\ asked' = [asked EXCEPT ![p] = Tail(@)]
      /\ channel' = [channel EXCEPT ![p] = @ \o replies]
      /\ UNCHANGED <<top, inStep, fork, faults, plans, store>>

\* External: a frame is lost; consensus or another import extends the store.
Lose(p) ==
  /\ channel[p] # <<>>
  /\ Disturb
  /\ channel' = [channel EXCEPT ![p] = Tail(@)]
  /\ inStep' = [inStep EXCEPT ![p] = FALSE]
  /\ UNCHANGED <<top, asked, fork, faults, plans, store>>

ExtendStore(branch) ==
  /\ Len(store) < MaxHeight
  /\ Parent(Block(Len(store) + 1, branch)) = Tip
  /\ Disturb
  /\ store' = Append(store, Block(Len(store) + 1, branch))
  /\ UNCHANGED <<top, asked, channel, inStep, fork, faults, plans>>
----------------------------------------------------------------------------
\* The caller hands on p's next frame of one type.  What is refused before
\* the session reads it leaves the session out of step.
Takes(p, type) ==
  /\ channel[p] # <<>>
  /\ Head(channel[p]).type = type
  /\ channel' = [channel EXCEPT ![p] = Tail(@)]
  /\ UNCHANGED <<top, asked, disturbances>>

Refuse(p) ==
  /\ inStep' = [inStep EXCEPT ![p] = FALSE]
  /\ UNCHANGED <<fork, faults, plans, store>>

\* session.receive counts only what it could read.
ReadFrame(p) ==
  inStep' = [inStep EXCEPT ![p] =
               @ /\ Head(channel[p]).quality # "UNREADABLE"]

\* Mutant: a fault is reported but not counted.
FaultUncounted(p) == ReadFrame(p) /\ UNCHANGED <<fork, faults, plans, store>>

Fault(p) ==
  /\ ReadFrame(p)
  /\ faults' = [faults EXCEPT ![p] = @ + 1]
  /\ UNCHANGED <<fork, plans, store>>

Regresses(p, block) == \E c \in claims[p] : block.height < c.height

\* Mutant: only the head is compared.
ConflictsWithHead(block) ==
  \E c \in Head_ : c.height = block.height /\ c # block

Conflicts(block) ==
  \E c \in canonical : c.height = block.height /\ c # block

Unlinked(block) ==
  \E c \in canonical : c.height = block.height - 1 /\ c # Parent(block)

\* A conflict is a fault of the peer as well: receive_status charges every
\* exception of observe that observe has not charged itself.
ReceiveStatus(p) ==
  LET frame == Head(channel[p]) IN
    /\ Takes(p, "STATUS")
    /\ IF Quarantined(p) THEN Refuse(p)
       ELSE IF \/ ~inStep[p] \/ frame.quality # "SOUND"
               \/ halted \/ Regresses(p, frame.block)
            THEN Fault(p)
       ELSE IF Conflicts(frame.block)
            THEN /\ halted' = TRUE
                 /\ faults' = [faults EXCEPT ![p] = @ + 1]
                 /\ UNCHANGED <<inStep, claims, canonical, plans, store>>
       ELSE IF Unlinked(frame.block) THEN Fault(p)
       ELSE /\ claims' = [claims EXCEPT ![p] = {frame.block}]
            /\ canonical' = canonical \cup {frame.block}
            /\ UNCHANGED <<inStep, halted, faults, plans, store>>

Mode(local, target) ==
  IF target - local >= SnapshotThreshold THEN "SNAPSHOT" ELSE "RANGE"

\* Requests or replies that p still owes.
Owed(p) ==
  \/ asked[p] # <<>>
  \/ \E i \in DOMAIN channel[p] : channel[p][i].type # "STATUS"

\* The caller plans for its own height and the head's, and seldom before
\* the last request is answered or given up.
Plan(p) ==
  LET local == Len(store) IN
    \E head \in Head_ :
      LET mode == Mode(local, head.height)
          limit == IF mode = "RANGE" THEN RangeLimit ELSE MaxHeight
      IN  /\ ~Quarantined(p)
          /\ local < head.height
          /\ IF Owed(p) THEN Disturb ELSE UNCHANGED disturbances
          /\ plans' = [plans EXCEPT ![p] =
               {[mode |-> mode, local |-> local, target |-> head.height]}]
          /\ asked' = [asked EXCEPT ![p] = Append(@,
               [mode |-> mode, first |-> local + 1,
                last |-> Min({head.height, local + limit})])]
          /\ UNCHANGED <<top, channel, inStep, fork, faults, store>>

\* Mutant: the first block's parent is not compared with the local hash.
RangeHoldsUnanchored(plan, frame) ==
  /\ frame.quality = "SOUND"
  /\ frame.blocks[1].height = plan.local + 1
  /\ Last(frame.blocks).height <= plan.target
  /\ Last(frame.blocks).height = plan.target =>
       \A head \in Head_ : Last(frame.blocks) = head

\* Mutant: the requested start is the local height.
RangeHoldsFromLocal(plan, frame) ==
  /\ frame.quality = "SOUND"
  /\ frame.blocks[1].height = plan.local
  /\ Parent(frame.blocks[1]) = Tip

RangeHolds(plan, frame) ==
  /\ frame.quality = "SOUND"
  /\ frame.blocks[1].height = plan.local + 1
  /\ Parent(frame.blocks[1]) = Tip
  /\ Last(frame.blocks).height <= plan.target
  /\ Last(frame.blocks).height = plan.target =>
       \A head \in Head_ : Last(frame.blocks) = head

ManifestHolds(plan, frame) ==
  /\ frame.quality = "SOUND"
  /\ frame.block.height = plan.target
  /\ frame.block \in Head_

\* Mutant: a reply is read without the check that its peer is in order.
MayReplyAlways(p, mode) == \E plan \in plans[p] : plan.mode = mode

\* The peer has a plan of this mode and is not quarantined.
MayReply(p, mode) ==
  ~Quarantined(p) /\ \E plan \in plans[p] : plan.mode = mode

Accept(p, blocks) ==
  /\ plans' = [plans EXCEPT ![p] = {}]
  /\ store' = blocks
  /\ UNCHANGED <<inStep, fork, faults>>

ReceiveBlockRange(p) ==
  LET frame == Head(channel[p])
      plan == CHOOSE plan \in plans[p] : TRUE
  IN  /\ Takes(p, "RANGE")
      /\ IF ~MayReply(p, "RANGE") THEN Refuse(p)
         ELSE IF inStep[p] /\ RangeHolds(plan, frame)
              THEN Accept(p, store \o frame.blocks)
         ELSE Fault(p)

\* A verified snapshot below the caller's own height is not restored.
ReceiveSnapshot(p) ==
  LET frame == Head(channel[p])
      plan == CHOOSE plan \in plans[p] : TRUE
  IN  /\ Takes(p, "MANIFEST")
      /\ IF ~MayReply(p, "SNAPSHOT") THEN Refuse(p)
         ELSE IF inStep[p] /\ ManifestHolds(plan, frame)
              THEN Accept(p, IF frame.block.height > Len(store)
                               THEN Path(frame.block) ELSE store)
         ELSE Fault(p)

Receive(p) == ReceiveStatus(p) \/ ReceiveBlockRange(p) \/ ReceiveSnapshot(p)
----------------------------------------------------------------------------
Next ==
  \/ \E p \in Peer, quality \in Qualities :
       Announce(p, quality) \/ Answer(p, quality)
  \/ \E p \in Peer : Lose(p) \/ ExtendStore(Branch[p]) \/ Plan(p) \/ Receive(p)

Spec ==
  /\ Init /\ [][Next]_vars
  /\ \A p \in Peer :
       /\ WF_vars(Receive(p)) /\ WF_vars(Answer(p, "SOUND"))
       /\ WF_vars(Plan(p) /\ ~Owed(p))
----------------------------------------------------------------------------
Blocks == [height : 0..MaxHeight, branch : {"common"} \cup {Branch[p] : p \in Peer}]

TypeOK ==
  /\ top \in [Peer -> 0..MaxHeight]
  /\ inStep \in [Peer -> BOOLEAN]
  /\ \A p \in Peer : claims[p] \subseteq canonical
  /\ canonical \subseteq Blocks
  /\ \A b, c \in canonical : b.height = c.height => b = c
  /\ halted \in BOOLEAN
  /\ faults \in [Peer -> 0..QuarantineThreshold]
  /\ \A p \in Peer : Cardinality(plans[p]) <= 1
  /\ \A p \in Peer : \A plan \in plans[p] : plan.local < plan.target
  /\ store \in Seq(Blocks)
  /\ disturbances \in 0..MaxDisturbances
----------------------------------------------------------------------------
(***************************************************************************)
(* The blocks the caller is told to apply are one path from genesis, each  *)
(* block once: whatever plans overlap or are overwritten, however the      *)
(* store moves between a plan and its reply, and on whatever branches the  *)
(* peers are.                                                              *)
(***************************************************************************)
StoreIsPath == store = Path(Tip)

(***************************************************************************)
(* A quarantined peer has no say: neither a plan made before nor a frame   *)
(* under way lets it change the fork choice or the store, or be charged    *)
(* again.                                                                  *)
(***************************************************************************)
QuarantineHolds ==
  [][\A p \in Peer :
       Quarantined(p) =>
         /\ faults'[p] = faults[p] /\ claims'[p] = claims[p]
         /\ Receive(p) => UNCHANGED <<canonical, store>>]_vars

(***************************************************************************)
(* A reply that still fits is applied in full: one that is sound and in    *)
(* its order, to a plan for the height that the store still has and that   *)
(* the head is still at, and on the path from the store to the head.       *)
(***************************************************************************)
Fits(p, mode) ==
  LET frame == Head(channel[p]) IN
    /\ ~Quarantined(p) /\ inStep[p] /\ frame.quality = "SOUND"
    /\ \E plan \in plans[p] : \E head \in Head_ :
         /\ plan.mode = mode
         /\ plan.local = Len(store) /\ plan.target = head.height
         /\ IF mode = "SNAPSHOT" THEN frame.block = head
            ELSE store \o frame.blocks \in Prefixes(Path(head))

FittingReplyIsApplied ==
  [][\A p \in Peer :
       /\ ReceiveBlockRange(p) /\ Fits(p, "RANGE") =>
            store' = store \o Head(channel[p]).blocks
       /\ ReceiveSnapshot(p) /\ Fits(p, "SNAPSHOT") =>
            store' = Path(Head(channel[p]).block)]_vars

(***************************************************************************)
(* A validator that stays behind catches up with the head, unless every    *)
(* peer ends quarantined or itself behind.  A peer whose session is out of *)
(* step for good is no exception: it may not be asked for ever, its        *)
(* replies have to get it quarantined.                                     *)
(***************************************************************************)
Useless(p) == Quarantined(p) \/ \E head \in Head_ : top[p] < head.height

CatchesUp ==
  []<>(\/ \A head \in Head_ : Len(store) >= head.height
       \/ \A p \in Peer : Useless(p))
=============================================================================
