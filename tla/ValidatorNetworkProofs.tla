----------------------- MODULE ValidatorNetworkProofs -----------------------
(***************************************************************************)
(* Proofs about the validator network for any three validators and any     *)
(* bounds: lemmas about the signing journal, what a step does (CoreStep),  *)
(* the invariant that holds whatever operators and RPC clients do          *)
(* (CoreInv) and the theorems it gives; then agreement of the stores, the  *)
(* ledger they implement and the absence of double-signing, when no RPC    *)
(* client resubmits old votes.                                             *)
(***************************************************************************)
EXTENDS ValidatorNetwork, FiniteSetTheorems, SequenceTheorems, TLAPS

(***************************************************************************)
(* The signing journal: signing and restarting keep its mark at the        *)
(* largest coordinate of its rows.                                         *)
(***************************************************************************)
Rows == [height : Nat, round : Nat, block : Seq(Nat)]
Marks == [height : Nat, round : Nat]
Journals == [rows : SUBSET Rows, mark : Marks]
----------------------------------------------------------------------------
LEMMA BeforeTotal ==
  ASSUME NEW a \in Marks, NEW b \in Marks, ~Before(a, b), ~Before(b, a)
  PROVE  a = b
BY DEF Marks, Before

LEMMA GetOrSignType ==
  ASSUME NEW j \in Journals, NEW v \in Rows
  PROVE  GetOrSign(j, v) \in Journals
BY DEF Journals, Rows, Marks, GetOrSign, Raised, Coordinate

\* A restart of a journal whose mark is its largest row changes nothing.
LEMMA RestoredSame ==
  ASSUME NEW j \in Journals, StartupAccepts(j)
  PROVE  Restored(j) = j
<1> DEFINE known == {j.mark} \cup {Coordinate(row) : row \in j.rows}
<1>1. known \subseteq Marks
  BY DEF Journals, Rows, Marks, Coordinate
<1>2. \A k \in known : ~Before(j.mark, k)
  BY DEF Journals, Rows, Marks, Coordinate, StartupAccepts, IsLatest, Before
<1>3. \A m \in known : (\A k \in known : ~Before(m, k)) => m = j.mark
  BY <1>1, <1>2, BeforeTotal
<1>4. (CHOOSE m \in known : \A k \in known : ~Before(m, k)) = j.mark
  BY <1>2, <1>3
<1>5. QED
  BY <1>4 DEF Restored, Journals

LEMMA SignedStartupAccepts ==
  ASSUME NEW j \in Journals, StartupAccepts(j), NEW v \in Rows,
         v.height > 0, MaySign(j, v)
  PROVE  StartupAccepts(GetOrSign(j, v))
<1>1. CASE v \in j.rows
  BY <1>1 DEF GetOrSign
<1>2. CASE v \notin j.rows
  <2> DEFINE c == Coordinate(v)
             g == GetOrSign(j, v)
  <2>1. c \in Marks /\ j.mark \in Marks /\ j.rows \subseteq Rows
    BY DEF Journals, Rows, Marks, Coordinate
  <2>2. ~Before(c, j.mark)
    BY <1>2 DEF MaySign
  <2>3. g.mark = c
    BY <1>2, <2>1, <2>2, BeforeTotal DEF GetOrSign, Raised
  <2>4. \A row \in j.rows : ~Before(c, Coordinate(row))
    <3> SUFFICES ASSUME NEW row \in j.rows
                 PROVE  ~Before(c, Coordinate(row))
      OBVIOUS
    <3>1. ~Before(j.mark, Coordinate(row))
      BY DEF StartupAccepts, IsLatest
    <3>2. Coordinate(row) \in Marks
      BY <2>1 DEF Rows, Marks, Coordinate
    <3>3. QED
      BY <2>1, <2>2, <3>1, <3>2 DEF Marks, Before
  <2>5. ~Before(c, c)
    BY <2>1 DEF Before, Marks
  <2>6. g.rows = j.rows \cup {v}
    BY <1>2 DEF GetOrSign
  <2>7. QED
    BY <2>3, <2>4, <2>5, <2>6 DEF StartupAccepts, IsLatest
<1>3. QED
  BY <1>1, <1>2

----------------------------------------------------------------------------
Packets == [from : Validator, block : Seq(Nat), round : Nat]

----------------------------------------------------------------------------
\* Three equal validators: more than two thirds of the power is all of it.
LEMMA QuorumIsAll ==
  ASSUME NEW ids \in SUBSET Validator, Quorum(ids)
  PROVE  ids = Validator
<1>1. Cardinality(ids) \in Nat /\ Cardinality(ids) <= 3
  BY ValidatorAssumption, FS_Subset, FS_CardinalityType
<1>2. Cardinality(ids) >= 3
  BY ValidatorAssumption DEF Quorum
<1>3. Cardinality(ids) = Cardinality(Validator)
  BY <1>1, <1>2, ValidatorAssumption
<1>4. QED
  BY <1>3, ValidatorAssumption, FS_Subset

LEMMA TimeType ==
  ASSUME NEW b \in Seq(Nat)
  PROVE  Time(b) \in Nat
BY DEF Time, NoTime

LEMMA SlotTimeType ==
  ASSUME clock \in Nat
  PROVE  SlotTime \in Nat
<1>1. Interval \in Nat /\ Interval > 0
  BY BoundAssumption
<1>2. clock \div Interval \in Nat
  BY <1>1
<1>3. QED
  BY <1>1, <1>2 DEF SlotTime

LEMMA VoteType ==
  ASSUME NEW p \in Proposals
  PROVE  Vote(p) \in Rows
BY DEF Proposals, Vote, Rows

----------------------------------------------------------------------------
(***************************************************************************)
(* Types, with what they need to be inductive: every journal's mark is its *)
(* largest row.                                                            *)
(***************************************************************************)
JournalsLatest == \A v \in Validator : StartupAccepts(journal[v])

TypeInv == TypeOK /\ JournalsLatest

\* The part of TypeOK that a vote counted or a frame sent can disturb.
CoreType ==
  /\ chain \in [Validator -> Seq(Nat)]
  /\ pending \in [Validator -> Proposals]
  /\ votes \in [Validator -> SUBSET Validator]
  /\ wire \in [Validator -> [Validator -> Seq(Packets)]]
  /\ journal \in [Validator -> Journals]

LEMMA TypeOKParts ==
  TypeOK <=> /\ CoreType
             /\ clock \in Nat
             /\ up \in [Validator -> BOOLEAN]
             /\ attempted \in [Validator -> Nat]
             /\ succeeded \in [Validator -> Nat]
             /\ crashes \in Nat
BY DEF TypeOK, CoreType, Packets, Journals, Rows, Marks

\* Typing splits into the parts one step at a time can disturb.
LEMMA TypeOKPartsNext ==
  TypeOK' <=> /\ CoreType'
              /\ clock' \in Nat
              /\ up' \in [Validator -> BOOLEAN]
              /\ attempted' \in [Validator -> Nat]
              /\ succeeded' \in [Validator -> Nat]
              /\ crashes' \in Nat
BY DEF TypeOK, CoreType, Packets, Journals, Rows, Marks

LEMMA TargetType ==
  ASSUME CoreType, NEW n \in Validator, NEW round \in Nat, NEW time \in Nat
  PROVE  /\ Target(n, round, time) \in Proposals
         /\ Held(n) \in SUBSET Validator
BY DEF CoreType, Target, Held, Extension, Proposals

LEMMA TallyType ==
  ASSUME CoreType, NEW n \in Validator, NEW p \in Proposals,
         NEW ids \in SUBSET Validator, Tally(n, p, ids)
  PROVE  /\ chain' \in [Validator -> Seq(Nat)]
         /\ pending' \in [Validator -> Proposals]
         /\ votes' \in [Validator -> SUBSET Validator]
<1>1. NoProposal \in Proposals /\ p.block \in Seq(Nat)
  BY DEF Proposals, NoProposal
<1>2. CASE Quorum(ids)
  BY <1>1, <1>2 DEF CoreType, Tally
<1>3. CASE ~Quorum(ids)
  BY <1>3 DEF CoreType, Tally
<1>4. QED
  BY <1>2, <1>3

LEMMA SendType ==
  ASSUME CoreType, NEW n \in Validator, NEW p \in Proposals, NEW dests,
         Send(n, p, dests)
  PROVE  wire' \in [Validator -> [Validator -> Seq(Packets)]]
<1>1. Packet(n, p) \in Packets
  BY DEF Packet, Packets, Proposals
<1>2. \A d \in Validator : wire[n][d] \in Seq(Packets)
  BY DEF CoreType
<1>3. \A d \in Validator : Append(wire[n][d], Packet(n, p)) \in Seq(Packets)
  BY <1>1, <1>2
<1>4. [d \in Validator |-> IF d \in dests \ {n}
                            THEN Append(wire[n][d], Packet(n, p))
                            ELSE wire[n][d]] \in [Validator -> Seq(Packets)]
  BY <1>2, <1>3
<1>5. QED
  BY <1>4 DEF Send, CoreType

LEMMA TimeAppend ==
  ASSUME NEW b \in Seq(Nat), NEW t \in Nat
  PROVE  /\ Append(b, t) \in Seq(Nat)
         /\ Len(Append(b, t)) = Len(b) + 1
         /\ Append(b, t)[Len(b) + 1] = t
         /\ \A i \in 1 .. Len(b) : Append(b, t)[i] = b[i]
         /\ Time(Append(b, t)) = t
<1>1. /\ Append(b, t) \in Seq(Nat)
      /\ Len(Append(b, t)) = Len(b) + 1
      /\ Append(b, t)[Len(b) + 1] = t
      /\ \A i \in 1 .. Len(b) : Append(b, t)[i] = b[i]
  BY AppendProperties
<1>2. Append(b, t) # <<>>
  BY <1>1, EmptySeq, LenProperties
<1>3. QED
  BY <1>1, <1>2 DEF Time

\* A proposal node n may hold: it extends n's head, at its time as round.
Extends(n, p) ==
  /\ p.block = Append(chain[n], Time(p.block))
  /\ p.round = Time(p.block)

PendingExtends == \A n \in Validator : ~Idle(n) => Extends(n, pending[n])

LEMMA TargetExtends ==
  ASSUME CoreType, PendingExtends, NEW n \in Validator, NEW time \in Nat
  PROVE  Extends(n, Target(n, time, time))
<1>1. CASE Idle(n)
  BY <1>1, TimeAppend DEF Extends, Target, Extension, CoreType
<1>2. CASE ~Idle(n)
  BY <1>2 DEF Extends, Target, PendingExtends
<1>3. QED
  BY <1>1, <1>2

LEMMA ExtendsVote ==
  ASSUME CoreType, NEW n \in Validator, NEW p \in Proposals, Extends(n, p)
  PROVE  /\ Len(p.block) = Len(chain[n]) + 1
         /\ \A i \in 1 .. Len(chain[n]) : p.block[i] = chain[n][i]
         /\ Vote(p) \in Rows
         /\ Vote(p).height > 0
<1>1. chain[n] \in Seq(Nat) /\ Len(chain[n]) \in Nat
  BY LenProperties DEF CoreType
<1>2. Time(p.block) \in Nat
  BY TimeType DEF Proposals
<1>3. /\ Len(p.block) = Len(chain[n]) + 1
      /\ \A i \in 1 .. Len(chain[n]) : p.block[i] = chain[n][i]
  BY <1>1, <1>2, TimeAppend DEF Extends
<1>4. QED
  BY <1>1, <1>3, VoteType DEF Vote

LEMMA TallyExtends ==
  ASSUME CoreType, PendingExtends, NEW n \in Validator,
         NEW p \in Proposals, NEW ids \in SUBSET Validator,
         Tally(n, p, ids), Extends(n, p)
  PROVE  PendingExtends'
<1> SUFFICES ASSUME NEW m \in Validator, pending'[m] # NoProposal
             PROVE  /\ pending'[m].block
                         = Append(chain'[m], Time(pending'[m].block))
                    /\ pending'[m].round = Time(pending'[m].block)
  BY DEF PendingExtends, Idle, Time, Extends
<1>1. CASE Quorum(ids)
  <2>1. m # n /\ pending'[m] = pending[m] /\ chain'[m] = chain[m]
    BY <1>1 DEF Tally, CoreType
  <2>2. QED
    BY <2>1 DEF PendingExtends, Idle, Extends
<1>2. CASE ~Quorum(ids)
  <2>1. chain'[m] = chain[m]
    BY <1>2 DEF Tally
  <2>2. pending'[m] = IF m = n THEN p ELSE pending[m]
    BY <1>2 DEF Tally, CoreType
  <2>3. QED
    BY <2>1, <2>2 DEF PendingExtends, Idle, Extends
<1>3. QED
  BY <1>1, <1>2

LEMMA SignKeepsJournals ==
  ASSUME CoreType, JournalsLatest, NEW n \in Validator, NEW v \in Rows,
         v.height > 0, MaySign(journal[n], v),
         journal' = [journal EXCEPT ![n] = GetOrSign(@, v)]
  PROVE  /\ journal' \in [Validator -> Journals]
         /\ JournalsLatest'
<1>1. GetOrSign(journal[n], v) \in Journals
  BY GetOrSignType DEF CoreType
<1>2. StartupAccepts(GetOrSign(journal[n], v))
  BY SignedStartupAccepts DEF CoreType, JournalsLatest
<1>3. journal' \in [Validator -> Journals]
  BY <1>1 DEF CoreType
<1>4. ASSUME NEW w \in Validator
      PROVE  StartupAccepts(journal'[w])
  <2>1. journal'[w] = IF w = n THEN GetOrSign(journal[n], v) ELSE journal[w]
    BY DEF CoreType
  <2>2. QED
    BY <2>1, <1>2 DEF JournalsLatest
<1>5. QED
  BY <1>3, <1>4 DEF JournalsLatest
----------------------------------------------------------------------------
(***************************************************************************)
(* What a step does to the stores, proposals, votes, frames and journals.  *)
(***************************************************************************)
\* Node n signs p, sends it to some nodes and may hear its own vote.
Casts(n, p) ==
  \E dests \in SUBSET Validator, ids \in {Held(n), Held(n) \cup {n}} :
    /\ MaySign(journal[n], Vote(p))
    /\ journal' = [journal EXCEPT ![n] = GetOrSign(@, Vote(p))]
    /\ Send(n, p, dests)
    /\ Tally(n, p, ids)

\* Node n holds p without having signed it in this step.
Holds(n, p) ==
  /\ pending' = [pending EXCEPT ![n] = p]
  /\ votes' = [votes EXCEPT ![n] = Held(n)]
  /\ UNCHANGED <<chain, journal, wire>>

\* Node n takes the first frame of s, and counts it when it names p.
Hears(s, n, p) ==
  /\ wire[s][n] # <<>>
  /\ Tally(n, p, IF Matches(Head(wire[s][n]), p) THEN Held(n) \cup {s}
                                                 ELSE Held(n))
  /\ wire' = [wire EXCEPT ![s][n] = Tail(@)]
  /\ UNCHANGED journal

\* Node n, with p pending, counts v's vote from the outside.
Counts(v, n) ==
  /\ Resubmission
  /\ ~Idle(n)
  /\ Vote(pending[n]) \in journal[v].rows
  /\ Tally(n, pending[n], votes[n] \cup {v})
  /\ UNCHANGED <<journal, wire>>

\* Node n crashes, its journal being j.
Loses(n, j) ==
  /\ journal' = [journal EXCEPT ![n] = j]
  /\ pending' = [pending EXCEPT ![n] = NoProposal]
  /\ votes' = [votes EXCEPT ![n] = {}]
  /\ wire' = [s \in Validator |-> [wire[s] EXCEPT ![n] = <<>>]]
  /\ UNCHANGED chain

\* A proposal node n may have after this step: its own or a new one.
Candidate(n, p) ==
  /\ p \in Proposals
  /\ Extends(n, p)
  /\ ~Idle(n) => p = pending[n]

LeavesCore == UNCHANGED <<chain, pending, votes, wire, journal>>

CoreStep ==
  \/ LeavesCore
  \/ \E n \in Validator, p \in Proposals :
       Candidate(n, p) /\ (Casts(n, p) \/ Holds(n, p))
  \/ \E s, n \in Validator, p \in Proposals :
       Candidate(n, p) /\ Hears(s, n, p)
  \/ \E v, n \in Validator : Counts(v, n)
  \/ \E n \in Validator : Loses(n, journal[n])
  \/ \E n \in Validator, p \in Proposals :
       /\ Candidate(n, p)
       /\ MaySign(journal[n], Vote(p))
       /\ Loses(n, GetOrSign(journal[n], Vote(p)))

\* A frame's round is the time of its block.
FramesTimed ==
  \A s, d \in Validator : \A i \in 1 .. Len(wire[s][d]) :
    wire[s][d][i].round = Time(wire[s][d][i].block)

Timed == CoreType /\ PendingExtends /\ FramesTimed /\ JournalsLatest

LEMMA TargetCandidate ==
  ASSUME CoreType, PendingExtends, NEW n \in Validator, NEW time \in Nat
  PROVE  Candidate(n, Target(n, time, time))
BY TargetType, TargetExtends DEF Candidate, Target

LEMMA BroadcastCore ==
  ASSUME CoreType, PendingExtends, NEW n \in Validator, NEW time \in Nat,
         NEW failed, BroadcastVote(n, Target(n, time, time), failed)
  PROVE  CoreStep
<1> DEFINE p == Target(n, time, time)
<1>1. Candidate(n, p) /\ p \in Proposals
  BY TargetCandidate DEF Candidate
<1>2. CASE MaySign(journal[n], Vote(p))
  <2>1. Reached(failed) \in SUBSET Validator
    BY DEF Reached
  <2>2. Casts(n, p)
    BY <1>2, <2>1 DEF BroadcastVote, Casts
  <2>3. QED
    BY <1>1, <2>2 DEF CoreStep
<1>3. CASE ~MaySign(journal[n], Vote(p))
  <2>1. Holds(n, p)
    BY <1>3 DEF BroadcastVote, Holds
  <2>2. QED
    BY <1>1, <2>1 DEF CoreStep
<1>4. QED
  BY <1>2, <1>3

LEMMA NextCore ==
  ASSUME TypeOK, Timed, [Next]_vars
  PROVE  CoreStep
<1> USE DEF Timed
<1>1. SlotTime \in Nat /\ clock \in Nat
  BY SlotTimeType DEF TypeOK
<1>2. CASE UNCHANGED vars
  BY <1>2 DEF vars, CoreStep, LeavesCore
<1>3. CASE Tick
  BY <1>3 DEF Tick, CoreStep, LeavesCore
<1>4. ASSUME NEW n \in Validator, NEW failed, RunOnce(n, failed)
      PROVE  CoreStep
  BY <1>1, <1>4, BroadcastCore DEF RunOnce
<1>5. ASSUME NEW n \in Validator, NEW failed, RpcBroadcast(n, failed)
      PROVE  CoreStep
  BY <1>1, <1>5, BroadcastCore DEF RpcBroadcast
<1>6. ASSUME NEW n \in Validator, RpcPropose(n)
      PROVE  CoreStep
  <2>1. Candidate(n, Target(n, 0, NoTime))
    BY TargetCandidate DEF NoTime
  <2>2. Holds(n, Target(n, 0, NoTime))
    BY <1>6 DEF RpcPropose, Holds, Target, Held
  <2>3. QED
    BY <2>1, <2>2 DEF CoreStep, Candidate
<1>7. ASSUME NEW s \in Validator, NEW n \in Validator, Deliver(s, n)
      PROVE  CoreStep
  <2> DEFINE f == Head(wire[s][n])
             p == Target(n, f.round, Time(f.block))
  <2>1. wire[s][n] \in Seq(Packets) /\ wire[s][n] # <<>>
    BY <1>7 DEF Deliver, CoreType
  <2>2. Len(wire[s][n]) >= 1 /\ f = wire[s][n][1] /\ f \in Packets
    BY <2>1, EmptySeq, HeadTailProperties, ElementOfSeq, LenProperties
  <2>3. f.round = Time(f.block) /\ f.round \in Nat
    BY <2>1, <2>2, LenProperties DEF FramesTimed, Packets
  <2>4. Candidate(n, p)
    BY <2>3, TargetCandidate
  <2>5. Hears(s, n, p)
    BY <1>7 DEF Deliver, Hears
  <2>6. QED
    BY <2>4, <2>5 DEF CoreStep, Candidate
<1>8. ASSUME NEW v \in Validator, NEW n \in Validator, RpcSubmit(v, n)
      PROVE  CoreStep
  BY <1>8 DEF RpcSubmit, CoreStep, Counts
<1>9. ASSUME NEW n \in Validator, Crash(n)
      PROVE  CoreStep
  BY <1>9 DEF Crash, Lose, CoreStep, Loses
<1>10. ASSUME NEW n \in Validator, CrashAfterSigning(n)
       PROVE  CoreStep
  <2>1. PICK time \in {SlotTime, clock} :
          /\ MaySign(journal[n], Vote(Target(n, time, time)))
          /\ Lose(n, GetOrSign(journal[n], Vote(Target(n, time, time))))
    BY <1>10 DEF CrashAfterSigning
  <2>2. Candidate(n, Target(n, time, time))
    BY <1>1, TargetCandidate
  <2>3. QED
    BY <2>1, <2>2 DEF Lose, CoreStep, Loses, Candidate
<1>11. ASSUME NEW n \in Validator, Restart(n)
       PROVE  CoreStep
  <2>1. Restored(journal[n]) = journal[n]
    BY RestoredSame DEF CoreType, JournalsLatest
  <2>2. journal' = journal
    BY <1>11, <2>1 DEF Restart, CoreType
  <2>3. QED
    BY <1>11, <2>2 DEF Restart, CoreStep, LeavesCore
<1>12. QED
  BY <1>2, <1>3, <1>4, <1>5, <1>6, <1>7, <1>8, <1>9, <1>10, <1>11
  DEF Next, NodeNext
----------------------------------------------------------------------------
(***************************************************************************)
(* The frames waiting in a queue, as a set.                                *)
(***************************************************************************)
Frames(s, d) == {wire[s][d][i] : i \in 1 .. Len(wire[s][d])}

LEMMA FramesType ==
  ASSUME CoreType, NEW s \in Validator, NEW d \in Validator
  PROVE  Frames(s, d) \subseteq Packets
BY ElementOfSeq DEF CoreType, Frames

LEMMA SendFrames ==
  ASSUME CoreType, NEW n \in Validator, NEW p \in Proposals, NEW dests,
         Send(n, p, dests), NEW s \in Validator, NEW d \in Validator
  PROVE  Frames(s, d)' \subseteq
           Frames(s, d) \cup (IF s = n /\ d # n THEN {Packet(n, p)} ELSE {})
<1>1. wire[s][d] \in Seq(Packets)
  BY DEF CoreType
<1>2. Packet(n, p) \in Packets
  BY DEF Packet, Packets, Proposals
<1>3. CASE wire'[s][d] = wire[s][d]
  BY <1>3 DEF Frames
<1>4. CASE wire'[s][d] # wire[s][d]
  <2>1. s = n /\ d # n /\ wire'[s][d] = Append(wire[s][d], Packet(n, p))
    BY <1>4 DEF Send, CoreType
  <2> DEFINE w == wire[s][d]
             u == Append(w, Packet(n, p))
  <2>2. /\ Len(w) \in Nat
        /\ Len(u) = Len(w) + 1
        /\ \A i \in 1 .. Len(w) : u[i] = w[i]
        /\ u[Len(w) + 1] = Packet(n, p)
    BY <1>1, <1>2, AppendProperties, LenProperties
  <2>3. \A i \in 1 .. Len(u) : i \in 1 .. Len(w) \/ i = Len(w) + 1
    BY <2>2
  <2>4. ASSUME NEW f \in Frames(s, d)'
        PROVE  f \in Frames(s, d) \cup {Packet(n, p)}
    <3>1. PICK i \in 1 .. Len(u) : f = u[i]
      BY <2>1 DEF Frames
    <3>2. QED
      BY <2>2, <2>3, <3>1 DEF Frames
  <2>5. QED
    BY <2>1, <2>4
<1>5. QED
  BY <1>3, <1>4

LEMMA TailFrames ==
  ASSUME CoreType, NEW t \in Validator, NEW n \in Validator,
         wire[t][n] # <<>>, wire' = [wire EXCEPT ![t][n] = Tail(@)],
         NEW s \in Validator, NEW d \in Validator
  PROVE  /\ wire'[s][d] \in Seq(Packets)
         /\ Frames(s, d)' \subseteq Frames(s, d)
         /\ Head(wire[t][n]) \in Frames(t, n)
<1>1. wire[t][n] \in Seq(Packets)
  BY DEF CoreType
<1> DEFINE w == wire[t][n]
           u == Tail(w)
<1>2. /\ Head(w) = w[1] /\ Len(w) \in Nat /\ Len(w) > 0
      /\ u \in Seq(Packets) /\ Len(u) = Len(w) - 1
      /\ \A i \in 1 .. Len(u) : u[i] = w[i + 1]
  BY <1>1, HeadTailProperties, EmptySeq, LenProperties
<1>3. Head(w) \in Frames(t, n)
  <2>1. 1 \in 1 .. Len(w) /\ Head(w) = w[1]
    BY <1>2
  <2> QED
    BY <2>1 DEF Frames
<1>4. wire'[s][d] = IF s = t /\ d = n THEN u ELSE wire[s][d]
  BY DEF CoreType
<1>5. CASE s = t /\ d = n
  <2>1. \A i \in 1 .. Len(u) : i + 1 \in 1 .. Len(w) /\ u[i] = w[i + 1]
    BY <1>2
  <2>2. Frames(s, d)' \subseteq Frames(s, d)
    BY <1>4, <1>5, <2>1 DEF Frames
  <2>3. QED
    BY <1>2, <1>3, <1>4, <1>5, <2>2
<1>6. CASE ~(s = t /\ d = n)
  BY <1>3, <1>4, <1>6 DEF Frames, CoreType
<1>7. QED
  BY <1>5, <1>6

LEMMA LoseFrames ==
  ASSUME CoreType, NEW n \in Validator,
         wire' = [s \in Validator |-> [wire[s] EXCEPT ![n] = <<>>]],
         NEW s \in Validator, NEW d \in Validator
  PROVE  /\ wire'[s][d] \in Seq(Packets)
         /\ Frames(s, d)' = IF d = n THEN {} ELSE Frames(s, d)
<1>1. wire'[s][d] = IF d = n THEN <<>> ELSE wire[s][d]
  BY DEF CoreType
<1>2. Len(<<>>) = 0 /\ <<>> \in Seq(Packets)
  BY EmptySeq
<1>3. CASE d = n
  <2>1. 1 .. Len(wire'[s][d]) = {}
    BY <1>1, <1>2, <1>3
  <2>2. QED
    BY <1>1, <1>2, <1>3, <2>1 DEF Frames
<1>4. CASE d # n
  BY <1>1, <1>4 DEF Frames, CoreType
<1>5. QED
  BY <1>3, <1>4

LEMMA FramesTimedSet ==
  FramesTimed <=> \A s, d \in Validator : \A f \in Frames(s, d) :
                    f.round = Time(f.block)
BY DEF FramesTimed, Frames

\* A frame after a core step was there before it, or the step sends it.
LEMMA NewFrames ==
  ASSUME CoreType, CoreStep, NEW s \in Validator, NEW d \in Validator,
         NEW f \in Frames(s, d)'
  PROVE  \/ f \in Frames(s, d)
         \/ \E p \in Proposals : Candidate(s, p) /\ Casts(s, p)
                                  /\ f = Packet(s, p) /\ s # d
<1>1. CASE wire' = wire
  BY <1>1 DEF Frames
<1>2. ASSUME NEW n \in Validator, NEW p \in Proposals,
             Candidate(n, p), Casts(n, p)
      PROVE  \/ f \in Frames(s, d)
             \/ s = n /\ d # n /\ f = Packet(n, p)
  BY <1>2, SendFrames DEF Casts
<1>3. ASSUME NEW t \in Validator, NEW n \in Validator, NEW p \in Proposals,
             Hears(t, n, p)
      PROVE  f \in Frames(s, d)
  BY <1>3, TailFrames DEF Hears
<1>4. ASSUME NEW n \in Validator, NEW j, Loses(n, j)
      PROVE  f \in Frames(s, d)
  BY <1>4, LoseFrames DEF Loses
<1>5. QED
  BY <1>1, <1>2, <1>3, <1>4 DEF CoreStep, LeavesCore, Holds, Counts
----------------------------------------------------------------------------
(***************************************************************************)
(* The invariant that holds whatever RPC clients do: types, proposals that *)
(* extend the head, votes and frames backed by their sender's journal, and *)
(* journal rows that extend their signer's chain.                          *)
(***************************************************************************)
Journaled(n) == \A v \in votes[n] : Vote(pending[n]) \in journal[v].rows

FramesJournaled ==
  \A s, d \in Validator : \A f \in Frames(s, d) :
    f.from = s /\ Vote(f) \in journal[s].rows

RowExtends(v, row) ==
  /\ row.height = Len(row.block)
  /\ row.round = Time(row.block)
  /\ 1 <= Len(row.block) /\ Len(row.block) <= Len(chain[v]) + 1
  /\ \A i \in 1 .. Len(row.block) - 1 : row.block[i] = chain[v][i]

RowsExtend ==
  \A v \in Validator : \A row \in journal[v].rows : RowExtends(v, row)

CoreInv ==
  /\ CoreType
  /\ PendingExtends
  /\ JournalsLatest
  /\ FramesJournaled
  /\ \A n \in Validator : Journaled(n)
  /\ RowsExtend

LEMMA CoreInvTimed ==
  ASSUME CoreInv
  PROVE  Timed
<1>1. ASSUME NEW s \in Validator, NEW d \in Validator, NEW f \in Frames(s, d)
      PROVE  f.round = Time(f.block)
  <2>1. Vote(f) \in journal[s].rows
    BY <1>1 DEF CoreInv, FramesJournaled
  <2>2. RowExtends(s, Vote(f))
    BY <2>1 DEF CoreInv, RowsExtend
  <2>3. QED
    BY <2>2 DEF RowExtends, Vote
<1>2. QED
  BY <1>1, FramesTimedSet DEF CoreInv, Timed

\* The only rows a core step adds are votes for a candidate of the signer.
LEMMA JournalGrows ==
  ASSUME CoreType, JournalsLatest, CoreStep
  PROVE  /\ journal' \in [Validator -> Journals]
         /\ JournalsLatest'
         /\ \A v \in Validator :
              /\ journal[v].rows \subseteq journal'[v].rows
              /\ \A row \in journal'[v].rows \ journal[v].rows :
                   \E p \in Proposals : Candidate(v, p) /\ row = Vote(p)
<1>1. CASE journal' = journal
  BY <1>1 DEF CoreType, JournalsLatest
<1>2. ASSUME NEW n \in Validator, NEW p \in Proposals, Candidate(n, p),
             MaySign(journal[n], Vote(p)),
             journal' = [journal EXCEPT ![n] = GetOrSign(@, Vote(p))]
      PROVE  /\ journal' \in [Validator -> Journals]
             /\ JournalsLatest'
             /\ \A v \in Validator :
                  /\ journal[v].rows \subseteq journal'[v].rows
                  /\ \A row \in journal'[v].rows \ journal[v].rows :
                       v = n /\ row = Vote(p)
  <2>1. Vote(p) \in Rows /\ Vote(p).height > 0
    BY <1>2, ExtendsVote DEF Candidate
  <2>2. journal' \in [Validator -> Journals] /\ JournalsLatest'
    BY <1>2, <2>1, SignKeepsJournals
  <2>3. ASSUME NEW v \in Validator
        PROVE  journal'[v].rows =
                 IF v = n THEN journal[n].rows \cup {Vote(p)}
                          ELSE journal[v].rows
    BY <1>2 DEF CoreType, GetOrSign
  <2>4. QED
    BY <2>2, <2>3
<1>3. ASSUME NEW n \in Validator, NEW p \in Proposals,
             Candidate(n, p), Casts(n, p)
      PROVE  journal' = [journal EXCEPT ![n] = GetOrSign(@, Vote(p))]
             /\ MaySign(journal[n], Vote(p))
  BY <1>3 DEF Casts
<1>4. ASSUME NEW n \in Validator, Loses(n, journal[n])
      PROVE  journal' = journal
  BY <1>4 DEF Loses, CoreType
<1>5. CASE journal' # journal
  <2>1. PICK n \in Validator, p \in Proposals :
          /\ Candidate(n, p)
          /\ MaySign(journal[n], Vote(p))
          /\ journal' = [journal EXCEPT ![n] = GetOrSign(@, Vote(p))]
    BY <1>3, <1>4, <1>5
    DEF CoreStep, LeavesCore, Holds, Hears, Counts, Loses
  <2>2. /\ journal' \in [Validator -> Journals]
        /\ JournalsLatest'
        /\ \A v \in Validator :
             /\ journal[v].rows \subseteq journal'[v].rows
             /\ \A row \in journal'[v].rows \ journal[v].rows :
                  v = n /\ row = Vote(p)
    BY <1>2, <2>1
  <2>3. QED
    BY <2>1, <2>2
<1>6. QED
  BY <1>1, <1>5

(***************************************************************************)
(* The votes of node n become ids, or commit p: each is in a journal.      *)
(***************************************************************************)
Tallied(n, p, ids) ==
  /\ p \in Proposals
  /\ Candidate(n, p)
  /\ ids \in SUBSET Validator
  /\ \A v \in ids : Vote(p) \in journal'[v].rows
  /\ Tally(n, p, ids)

LEMMA HeldJournaled ==
  ASSUME CoreInv, CoreStep, NEW n \in Validator, NEW p, Candidate(n, p),
         NEW v \in Held(n)
  PROVE  v \in Validator /\ Vote(p) \in journal'[v].rows
<1>1. v \in votes[n] /\ p = pending[n] /\ v \in Validator
  BY DEF Held, Candidate, CoreInv, CoreType
<1>2. QED
  BY <1>1, JournalGrows DEF CoreInv, Journaled

LEMMA CoreTally ==
  ASSUME CoreInv, CoreStep
  PROVE  \/ UNCHANGED <<chain, pending, votes>>
         \/ \E n \in Validator, p \in Proposals, ids \in SUBSET Validator :
              Tallied(n, p, ids)
         \/ \E n \in Validator, p \in Proposals :
              Candidate(n, p) /\ Holds(n, p)
         \/ \E n \in Validator : \E j : Loses(n, j)
<1>0. CoreType /\ PendingExtends /\ JournalsLatest
  BY DEF CoreInv
<1>1. ASSUME NEW n \in Validator, NEW p \in Proposals,
             Candidate(n, p), Casts(n, p)
      PROVE  \E ids \in SUBSET Validator : Tallied(n, p, ids)
  <2>1. PICK ids \in {Held(n), Held(n) \cup {n}} : Tally(n, p, ids)
    BY <1>1 DEF Casts
  <2>2. Vote(p) \in journal'[n].rows
    BY <1>0, <1>1 DEF Casts, GetOrSign, CoreType
  <2>3. \A v \in ids : v \in Validator /\ Vote(p) \in journal'[v].rows
    BY <1>1, <2>2, HeldJournaled
  <2>4. QED
    BY <1>1, <2>1, <2>3 DEF Tallied
<1>2. ASSUME NEW s \in Validator, NEW n \in Validator, NEW p \in Proposals,
             Candidate(n, p), Hears(s, n, p)
      PROVE  \E ids \in SUBSET Validator : Tallied(n, p, ids)
  <2> DEFINE f == Head(wire[s][n])
             ids == IF Matches(f, p) THEN Held(n) \cup {s} ELSE Held(n)
  <2>1. f \in Frames(s, n)
    BY <1>0, <1>2, TailFrames DEF Hears
  <2>2. Vote(f) \in journal'[s].rows
    BY <1>2, <2>1 DEF CoreInv, FramesJournaled, Hears
  <2>3. Matches(f, p) => Vote(p) = Vote(f)
    BY DEF Matches, Vote
  <2>4. \A v \in ids : v \in Validator /\ Vote(p) \in journal'[v].rows
    BY <1>2, <2>2, <2>3, HeldJournaled
  <2>5. Tally(n, p, ids)
    BY <1>2 DEF Hears
  <2>6. ids \in SUBSET Validator
    BY <2>4
  <2>7. QED
    BY <1>2, <2>4, <2>5, <2>6 DEF Tallied
<1>3. ASSUME NEW v \in Validator, NEW n \in Validator, Counts(v, n)
      PROVE  \E p \in Proposals, ids \in SUBSET Validator :
               Tallied(n, p, ids)
  <2>1. pending[n] \in Proposals /\ Candidate(n, pending[n])
    BY <1>0, <1>3 DEF Counts, Candidate, PendingExtends, CoreType
  <2>2. \A w \in votes[n] \cup {v} : Vote(pending[n]) \in journal'[w].rows
    BY <1>3 DEF Counts, CoreInv, Journaled
  <2>3. votes[n] \cup {v} \in SUBSET Validator
    BY <1>0 DEF CoreType
  <2>4. QED
    BY <1>3, <2>1, <2>2, <2>3 DEF Tallied, Counts
<1>4. QED
  BY <1>1, <1>2, <1>3 DEF CoreStep, LeavesCore

LEMMA TallyEffect ==
  ASSUME CoreType, NEW n \in Validator, NEW p, NEW ids \in SUBSET Validator,
         Tally(n, p, ids)
  PROVE  \/ /\ ids = Validator
            /\ chain' = [chain EXCEPT ![n] = p.block]
            /\ pending' = [pending EXCEPT ![n] = NoProposal]
            /\ votes' = [votes EXCEPT ![n] = {}]
         \/ /\ chain' = chain
            /\ pending' = [pending EXCEPT ![n] = p]
            /\ votes' = [votes EXCEPT ![n] = ids]
BY QuorumIsAll DEF Tally
----------------------------------------------------------------------------
\* A store changes by the commit of a candidate, signed by every journal.
LEMMA ChainGrows ==
  ASSUME CoreInv, CoreStep, NEW v \in Validator
  PROVE  /\ chain'[v] \in Seq(Nat)
         /\ \/ chain'[v] = chain[v]
            \/ \E p \in Proposals, ids \in SUBSET Validator :
                 /\ Tallied(v, p, ids)
                 /\ ids = Validator
                 /\ chain' = [chain EXCEPT ![v] = p.block]
                 /\ pending' = [pending EXCEPT ![v] = NoProposal]
<1>0. CoreType
  BY DEF CoreInv
<1>1. CASE chain'[v] = chain[v]
  BY <1>0, <1>1 DEF CoreType
<1>2. CASE chain'[v] # chain[v]
  <2>1. PICK n \in Validator, p \in Proposals, ids \in SUBSET Validator :
          Tallied(n, p, ids)
    BY <1>2, CoreTally DEF Holds, Loses
  <2>2. /\ ids = Validator
        /\ chain' = [chain EXCEPT ![n] = p.block]
        /\ pending' = [pending EXCEPT ![n] = NoProposal]
    BY <1>0, <1>2, <2>1, TallyEffect DEF Tallied
  <2>3. n = v
    BY <1>0, <1>2, <2>2 DEF CoreType
  <2>4. chain'[v] = p.block /\ p.block \in Seq(Nat)
    BY <1>0, <2>2, <2>3 DEF CoreType, Proposals
  <2>5. QED
    BY <2>1, <2>2, <2>3, <2>4
<1>3. QED
  BY <1>1, <1>2

\* What a store holds, it holds forever.
LEMMA ChainPrefix ==
  ASSUME CoreInv, CoreStep, NEW v \in Validator
  PROVE  /\ Len(chain[v]) \in Nat /\ Len(chain'[v]) \in Nat
         /\ Len(chain'[v]) \in {Len(chain[v]), Len(chain[v]) + 1}
         /\ \A i \in 1 .. Len(chain[v]) : chain'[v][i] = chain[v][i]
<1>0. CoreType /\ chain[v] \in Seq(Nat) /\ Len(chain[v]) \in Nat
  BY LenProperties DEF CoreInv, CoreType
<1>1. CASE chain'[v] = chain[v]
  BY <1>0, <1>1
<1>2. ASSUME NEW p \in Proposals, Candidate(v, p), chain'[v] = p.block
      PROVE  /\ Len(chain'[v]) = Len(chain[v]) + 1
             /\ \A i \in 1 .. Len(chain[v]) : chain'[v][i] = chain[v][i]
  BY <1>0, <1>2, ExtendsVote DEF Candidate
<1>3. CASE chain'[v] # chain[v]
  <2>1. PICK p \in Proposals : Candidate(v, p) /\ chain'[v] = p.block
    BY <1>0, <1>3, ChainGrows DEF Tallied, CoreType
  <2>2. QED
    BY <1>0, <1>2, <2>1
<1>4. QED
  BY <1>1, <1>3

LEMMA CoreTypeNext ==
  ASSUME CoreInv, CoreStep
  PROVE  CoreType'
<1>0. CoreType
  BY DEF CoreInv
<1>1. journal' \in [Validator -> Journals]
  BY <1>0, JournalGrows DEF CoreInv
<1>2. /\ chain' \in [Validator -> Seq(Nat)]
      /\ pending' \in [Validator -> Proposals]
      /\ votes' \in [Validator -> SUBSET Validator]
  <2>1. CASE UNCHANGED <<chain, pending, votes>>
    BY <1>0, <2>1 DEF CoreType
  <2>2. ASSUME NEW n \in Validator, NEW p \in Proposals,
               NEW ids \in SUBSET Validator, Tallied(n, p, ids)
        PROVE  /\ chain' \in [Validator -> Seq(Nat)]
               /\ pending' \in [Validator -> Proposals]
               /\ votes' \in [Validator -> SUBSET Validator]
    BY <1>0, <2>2, TallyType DEF Tallied
  <2>3. ASSUME NEW n \in Validator, NEW p \in Proposals, Holds(n, p)
        PROVE  /\ chain' \in [Validator -> Seq(Nat)]
               /\ pending' \in [Validator -> Proposals]
               /\ votes' \in [Validator -> SUBSET Validator]
    BY <1>0, <2>3 DEF CoreType, Holds, Held
  <2>4. ASSUME NEW n \in Validator, NEW j, Loses(n, j)
        PROVE  /\ chain' \in [Validator -> Seq(Nat)]
               /\ pending' \in [Validator -> Proposals]
               /\ votes' \in [Validator -> SUBSET Validator]
    <3>1. NoProposal \in Proposals
      BY DEF NoProposal, Proposals
    <3>2. QED
      BY <1>0, <2>4, <3>1 DEF CoreType, Loses
  <2>5. QED
    BY <2>1, <2>2, <2>3, <2>4, CoreTally
<1>3. wire' \in [Validator -> [Validator -> Seq(Packets)]]
  <2>1. CASE wire' = wire
    BY <1>0, <2>1 DEF CoreType
  <2>2. ASSUME NEW n \in Validator, NEW p \in Proposals, Casts(n, p)
        PROVE  wire' \in [Validator -> [Validator -> Seq(Packets)]]
    BY <1>0, <2>2, SendType DEF Casts
  <2>3. ASSUME NEW s \in Validator, NEW n \in Validator, NEW p,
               Hears(s, n, p)
        PROVE  wire' \in [Validator -> [Validator -> Seq(Packets)]]
    <3>1. Tail(wire[s][n]) \in Seq(Packets)
      BY <1>0, <2>3, HeadTailProperties DEF Hears, CoreType
    <3>2. QED
      BY <1>0, <2>3, <3>1 DEF Hears, CoreType
  <2>4. ASSUME NEW n \in Validator, NEW j, Loses(n, j)
        PROVE  wire' \in [Validator -> [Validator -> Seq(Packets)]]
    <3>1. <<>> \in Seq(Packets)
      BY EmptySeq
    <3>2. QED
      BY <1>0, <2>4, <3>1 DEF Loses, CoreType
  <2>5. QED
    BY <2>1, <2>2, <2>3, <2>4 DEF CoreStep, LeavesCore, Holds, Counts
<1>4. QED
  BY <1>1, <1>2, <1>3 DEF CoreType

LEMMA PendingExtendsNext ==
  ASSUME CoreInv, CoreStep
  PROVE  PendingExtends'
<1>0. CoreType /\ PendingExtends
  BY DEF CoreInv
<1>1. CASE UNCHANGED <<chain, pending, votes>>
  BY <1>0, <1>1 DEF PendingExtends, Extends, Idle
<1>2. ASSUME NEW n \in Validator, NEW p \in Proposals,
             NEW ids \in SUBSET Validator, Tallied(n, p, ids)
      PROVE  PendingExtends'
  BY <1>0, <1>2, TallyExtends DEF Tallied, Candidate
<1>3. ASSUME NEW n \in Validator, NEW q \in Proposals, chain' = chain,
             pending' = [pending EXCEPT ![n] = q],
             q = NoProposal \/ Extends(n, q)
      PROVE  PendingExtends'
  <2> SUFFICES ASSUME NEW m \in Validator, ~Idle(m)'
               PROVE  Extends(m, pending[m])'
    BY DEF PendingExtends
  <2>1. pending'[m] = IF m = n THEN q ELSE pending[m]
    BY <1>0, <1>3 DEF CoreType
  <2>2. QED
    BY <1>0, <1>3, <2>1 DEF PendingExtends, Extends, Idle, Time
<1>4. NoProposal \in Proposals
  BY DEF NoProposal, Proposals
<1>5. QED
  BY <1>1, <1>2, <1>3, <1>4, CoreTally DEF Holds, Loses, Candidate

LEMMA FramesJournaledNext ==
  ASSUME CoreInv, CoreStep
  PROVE  FramesJournaled'
<1>0. CoreType /\ JournalsLatest /\ FramesJournaled
  BY DEF CoreInv
<1> SUFFICES ASSUME NEW s \in Validator, NEW d \in Validator,
                    NEW f \in Frames(s, d)'
             PROVE  f.from = s /\ Vote(f) \in journal'[s].rows
  BY DEF FramesJournaled, Vote
<1>1. CASE f \in Frames(s, d)
  BY <1>0, <1>1, JournalGrows DEF FramesJournaled
<1>2. ASSUME NEW p \in Proposals, Casts(s, p), f = Packet(s, p)
      PROVE  f.from = s /\ Vote(f) \in journal'[s].rows
  <2>1. Vote(p) \in journal'[s].rows
    BY <1>0, <1>2 DEF Casts, CoreType, GetOrSign
  <2>2. Vote(f) = Vote(p) /\ f.from = s
    BY <1>2 DEF Vote, Packet
  <2>3. QED
    BY <2>1, <2>2
<1>3. QED
  BY <1>0, <1>1, <1>2, NewFrames

LEMMA JournaledNext ==
  ASSUME CoreInv, CoreStep, NEW m \in Validator
  PROVE  Journaled(m)'
<1>0. CoreType /\ JournalsLatest /\ Journaled(m)
  BY DEF CoreInv
<1>1. \A v \in Validator : journal[v].rows \subseteq journal'[v].rows
  BY <1>0, JournalGrows
<1> SUFFICES ASSUME NEW v \in votes'[m]
             PROVE  Vote(pending'[m]) \in journal'[v].rows
  BY DEF Journaled, Vote
<1>2. CASE votes'[m] = votes[m] /\ pending'[m] = pending[m]
  BY <1>0, <1>1, <1>2 DEF Journaled, CoreType
<1>3. ASSUME NEW n \in Validator, NEW p \in Proposals,
             NEW ids \in SUBSET Validator, Tallied(n, p, ids)
      PROVE  Vote(pending'[m]) \in journal'[v].rows
  <2>0. \/ /\ pending' = [pending EXCEPT ![n] = NoProposal]
           /\ votes' = [votes EXCEPT ![n] = {}]
        \/ /\ pending' = [pending EXCEPT ![n] = p]
           /\ votes' = [votes EXCEPT ![n] = ids]
    BY <1>0, <1>3, TallyEffect DEF Tallied
  <2>1. CASE m # n
    <3>1. votes'[m] = votes[m] /\ pending'[m] = pending[m]
      BY <1>0, <2>0, <2>1 DEF CoreType
    <3>2. QED
      BY <1>2, <3>1
  <2>2. CASE m = n
    <3>1. \/ votes'[m] = {}
          \/ votes'[m] = ids /\ pending'[m] = p
      BY <1>0, <2>0, <2>2 DEF CoreType
    <3>2. QED
      BY <1>3, <3>1 DEF Tallied
  <2>3. QED
    BY <2>1, <2>2
<1>4. ASSUME NEW n \in Validator, NEW p \in Proposals,
             Candidate(n, p), Holds(n, p)
      PROVE  Vote(pending'[m]) \in journal'[v].rows
  <2>1. CASE m # n
    <3>1. votes'[m] = votes[m] /\ pending'[m] = pending[m]
      BY <1>0, <1>4, <2>1 DEF Holds, CoreType
    <3>2. QED
      BY <1>2, <3>1
  <2>2. CASE m = n
    <3>1. votes'[m] = Held(n) /\ pending'[m] = p
      BY <1>0, <1>4, <2>2 DEF Holds, CoreType
    <3>2. QED
      BY <1>4, <3>1, HeldJournaled
  <2>3. QED
    BY <2>1, <2>2
<1>5. ASSUME NEW n \in Validator, NEW j, Loses(n, j)
      PROVE  Vote(pending'[m]) \in journal'[v].rows
  <2>1. m # n /\ votes'[m] = votes[m] /\ pending'[m] = pending[m]
    BY <1>0, <1>5 DEF Loses, CoreType
  <2>2. QED
    BY <1>2, <2>1
<1>6. QED
  BY <1>2, <1>3, <1>4, <1>5, CoreTally

LEMMA RowsExtendNext ==
  ASSUME CoreInv, CoreStep
  PROVE  RowsExtend'
<1>0. CoreType /\ JournalsLatest /\ RowsExtend
  BY DEF CoreInv
<1> SUFFICES ASSUME NEW v \in Validator, NEW row \in journal'[v].rows
             PROVE  RowExtends(v, row)'
  BY DEF RowsExtend
<1>1. /\ Len(chain[v]) \in Nat /\ Len(chain'[v]) \in Nat
      /\ Len(chain'[v]) >= Len(chain[v])
      /\ \A i \in 1 .. Len(chain[v]) : chain'[v][i] = chain[v][i]
  BY ChainPrefix
<1>2. RowExtends(v, row)
  <2>1. CASE row \in journal[v].rows
    BY <1>0, <2>1 DEF RowsExtend
  <2>2. CASE row \notin journal[v].rows
    <3>1. PICK p \in Proposals : Candidate(v, p) /\ row = Vote(p)
      BY <1>0, <2>2, JournalGrows
    <3>2. /\ Len(p.block) = Len(chain[v]) + 1
          /\ \A i \in 1 .. Len(chain[v]) : p.block[i] = chain[v][i]
      BY <1>0, <3>1, ExtendsVote DEF Candidate
    <3>3. row.height = Len(p.block) /\ row.block = p.block
          /\ row.round = Time(p.block)
      BY <3>1 DEF Vote, Candidate, Extends
    <3>4. QED
      BY <1>1, <3>2, <3>3 DEF RowExtends
  <2>3. QED
    BY <2>1, <2>2
<1>3. row.block \in Seq(Nat) /\ Len(row.block) \in Nat
  <2>1. row \in Rows
    BY <1>0, JournalGrows DEF Journals
  <2>2. QED
    BY <2>1, LenProperties DEF Rows
<1>4. \A i \in 1 .. Len(row.block) - 1 : i \in 1 .. Len(chain[v])
  BY <1>1, <1>2, <1>3 DEF RowExtends
<1>5. QED
  BY <1>1, <1>2, <1>3, <1>4 DEF RowExtends, Time

LEMMA CoreInvNext ==
  ASSUME CoreInv, CoreStep
  PROVE  CoreInv'
BY CoreTypeNext, PendingExtendsNext, JournalGrows, FramesJournaledNext,
   JournaledNext, RowsExtendNext DEF CoreInv

\* The initial states satisfy the invariant.
LEMMA CoreInvInit ==
  ASSUME Init
  PROVE  CoreInv
<1>1. \A s, d \in Validator : Frames(s, d) = {}
  BY EmptySeq DEF Init, Frames
<1>2. CoreType
  BY EmptySeq DEF Init, CoreType, EmptyJournal, Journals, Marks, NoProposal,
                  Proposals
<1>3. JournalsLatest
  BY DEF Init, JournalsLatest, StartupAccepts, IsLatest, EmptyJournal
<1>4. QED
  BY <1>1, <1>2, <1>3 DEF Init, CoreInv, PendingExtends, Idle,
     FramesJournaled, Journaled, RowsExtend, EmptyJournal
----------------------------------------------------------------------------
(***************************************************************************)
(* Type correctness.                                                       *)
(***************************************************************************)
LEMMA CommonTypeNext ==
  ASSUME TypeOK, CoreInv, [Next]_vars
  PROVE  TypeOK'
<1>1. CoreType'
  BY CoreInvTimed, NextCore, CoreTypeNext
<1>2. SlotTime \in Nat
  BY SlotTimeType DEF TypeOK
<1>3. /\ clock' \in Nat
      /\ up' \in [Validator -> BOOLEAN]
      /\ attempted' \in [Validator -> Nat]
      /\ succeeded' \in [Validator -> Nat]
      /\ crashes' \in Nat
  <2> USE DEF TypeOK
  <2>1. CASE UNCHANGED vars
    BY <2>1 DEF vars
  <2>2. CASE Tick
    BY <2>2 DEF Tick
  <2>3. ASSUME NEW n \in Validator, NEW failed, RunOnce(n, failed)
        PROVE  /\ UNCHANGED <<clock, up, crashes>>
               /\ attempted' \in [Validator -> Nat]
               /\ succeeded' \in [Validator -> Nat]
    BY <1>2, <2>3 DEF RunOnce, BroadcastVote
  <2>4. ASSUME NEW n \in Validator, NEW failed, RpcBroadcast(n, failed)
        PROVE  UNCHANGED <<clock, up, crashes, attempted, succeeded>>
    BY <2>4 DEF RpcBroadcast, BroadcastVote
  <2>5. ASSUME NEW n \in Validator, RpcPropose(n)
        PROVE  UNCHANGED <<clock, up, crashes, attempted, succeeded>>
    BY <2>5 DEF RpcPropose
  <2>6. ASSUME NEW s \in Validator, NEW n \in Validator,
               Deliver(s, n) \/ RpcSubmit(s, n)
        PROVE  UNCHANGED <<clock, up, crashes, attempted, succeeded>>
    BY <2>6 DEF Deliver, RpcSubmit
  <2>7. ASSUME NEW n \in Validator, NEW j, Lose(n, j)
        PROVE  /\ clock' \in Nat
               /\ up' \in [Validator -> BOOLEAN]
               /\ attempted' \in [Validator -> Nat]
               /\ succeeded' \in [Validator -> Nat]
               /\ crashes' \in Nat
    BY <2>7 DEF Lose
  <2>8. ASSUME NEW n \in Validator, Restart(n)
        PROVE  /\ UNCHANGED <<clock, crashes, attempted, succeeded>>
               /\ up' \in [Validator -> BOOLEAN]
    BY <2>8 DEF Restart
  <2>9. QED
    BY <2>1, <2>2, <2>3, <2>4, <2>5, <2>6, <2>7, <2>8
    DEF Next, NodeNext, Crash, CrashAfterSigning
<1>4. QED
  BY <1>1, <1>3, TypeOKPartsNext

\* The initial states are well typed.
LEMMA TypeOKInit ==
  ASSUME Init
  PROVE  TypeOK
<1>1. CoreType
  BY CoreInvInit DEF CoreInv
<1>2. QED
  BY <1>1, TypeOKParts DEF Init

\* The inductive invariant of the network, under any failures and RPC use.
THEOREM Invariance == Spec => [](TypeOK /\ CoreInv)
<1>1. Init => TypeOK /\ CoreInv
  BY TypeOKInit, CoreInvInit
<1>2. TypeOK /\ CoreInv /\ [Next]_vars => (TypeOK /\ CoreInv)'
  BY CommonTypeNext, CoreInvTimed, NextCore, CoreInvNext
<1>3. QED
  BY <1>1, <1>2, PTL DEF Spec

\* Stores, journals, pending proposals and frames keep their types under any
\* failures, losses and RPC calls.
THEOREM TypeCorrect == Spec => []TypeOK
BY Invariance, PTL

\* No frame, vote or crash makes a validator forget a vote another may count.
THEOREM VotesAreJournaledHolds == Spec => []VotesAreJournaled
<1>1. CoreInv => VotesAreJournaled
  <2> SUFFICES ASSUME CoreInv, NEW n \in Validator, NEW v \in Validator
               PROVE  /\ v \in votes[n] => Vote(pending[n]) \in journal[v].rows
                      /\ \A i \in DOMAIN wire[v][n] :
                           /\ wire[v][n][i].from = v
                           /\ Vote(wire[v][n][i]) \in journal[v].rows
    BY DEF VotesAreJournaled
  <2>1. DOMAIN wire[v][n] = 1 .. Len(wire[v][n])
    BY LenProperties DEF CoreInv, CoreType
  <2>2. \A i \in DOMAIN wire[v][n] : wire[v][n][i] \in Frames(v, n)
    BY <2>1 DEF Frames
  <2>3. QED
    BY <2>2 DEF CoreInv, Journaled, FramesJournaled
<1>2. QED
  BY <1>1, Invariance, PTL

\* A commit at quorum always extends the head of the store.
THEOREM PendingExtendsHeadHolds == Spec => []PendingExtendsHead
<1>1. CoreInv => PendingExtendsHead
  BY DEF CoreInv, PendingExtends, PendingExtendsHead, Extends
<1>2. QED
  BY <1>1, Invariance, PTL
----------------------------------------------------------------------------
(***************************************************************************)
(* Certified: a commit needs the vote of each of the three validators.     *)
(***************************************************************************)
LEMMA PrefixOf ==
  ASSUME NEW b \in Seq(Nat), NEW h \in 1 .. Len(b)
  PROVE  /\ SubSeq(b, 1, h) \in Seq(Nat)
         /\ Len(SubSeq(b, 1, h)) = h
         /\ \A i \in 1 .. h : SubSeq(b, 1, h)[i] = b[i]
<1>1. h \in Nat /\ 1 <= h /\ \A i \in 1 .. h : b[i] \in Nat
  BY ElementOfSeq, LenProperties
<1>2. /\ SubSeq(b, 1, h) \in Seq(Nat)
      /\ Len(SubSeq(b, 1, h)) = IF 1 <= h THEN h - 1 + 1 ELSE 0
      /\ \A i \in 1 .. h - 1 + 1 : SubSeq(b, 1, h)[i] = b[1 + i - 1]
  BY <1>1, SubSeqProperties
<1>3. QED
  BY <1>1, <1>2

LEMMA CertifiedNext ==
  ASSUME CoreInv, CoreStep, Certified
  PROVE  Certified'
<1>0. CoreType /\ JournalsLatest
  BY DEF CoreInv
<1> SUFFICES ASSUME NEW n \in Validator, NEW v \in Validator,
                    NEW h \in DOMAIN chain'[n]
             PROVE  \E row \in journal'[v].rows :
                      row.height = h /\ row.block = SubSeq(chain'[n], 1, h)
  BY DEF Certified
<1>1. journal[v].rows \subseteq journal'[v].rows
  BY <1>0, JournalGrows
<1>2. CASE chain'[n] = chain[n]
  BY <1>1, <1>2 DEF Certified
<1>3. CASE chain'[n] # chain[n]
  <2>1. PICK p \in Proposals :
          /\ Candidate(n, p)
          /\ Vote(p) \in journal'[v].rows
          /\ chain'[n] = p.block
    <3>1. PICK p \in Proposals, ids \in SUBSET Validator :
            /\ Tallied(n, p, ids)
            /\ ids = Validator
            /\ chain' = [chain EXCEPT ![n] = p.block]
      BY <1>3, ChainGrows
    <3>2. chain'[n] = p.block
      BY <1>0, <3>1 DEF CoreType
    <3>3. QED
      BY <3>1, <3>2 DEF Tallied
  <2>2. /\ p.block \in Seq(Nat) /\ chain[n] \in Seq(Nat)
        /\ Len(chain[n]) \in Nat
        /\ Len(p.block) = Len(chain[n]) + 1
        /\ \A i \in 1 .. Len(chain[n]) : p.block[i] = chain[n][i]
    BY <1>0, <2>1, ExtendsVote, LenProperties
    DEF Candidate, CoreType, Proposals
  <2>3. h \in 1 .. Len(p.block)
    BY <2>1, <2>2, LenProperties
  <2>4. CASE h = Len(p.block)
    <3>1. SubSeq(p.block, 1, h) = p.block
      BY <2>2, <2>4, SubSeqFull
    <3>2. QED
      BY <2>1, <2>4, <3>1 DEF Vote
  <2>5. CASE h # Len(p.block)
    <3>1. h \in 1 .. Len(chain[n]) /\ h \in DOMAIN chain[n]
      BY <2>2, <2>3, <2>5, LenProperties
    <3>2. /\ SubSeq(chain[n], 1, h) \in Seq(Nat)
          /\ SubSeq(p.block, 1, h) \in Seq(Nat)
          /\ Len(SubSeq(chain[n], 1, h)) = h
          /\ Len(SubSeq(p.block, 1, h)) = h
          /\ \A i \in 1 .. h : SubSeq(chain[n], 1, h)[i] = chain[n][i]
          /\ \A i \in 1 .. h : SubSeq(p.block, 1, h)[i] = p.block[i]
      BY <2>2, <2>3, <3>1, PrefixOf
    <3>3. SubSeq(chain[n], 1, h) = SubSeq(p.block, 1, h)
      BY <2>2, <3>1, <3>2, SeqEqual
    <3>4. PICK row \in journal[v].rows :
            row.height = h /\ row.block = SubSeq(chain[n], 1, h)
      BY <3>1 DEF Certified
    <3>5. QED
      BY <1>1, <2>1, <3>3, <3>4
  <2>6. QED
    BY <2>4, <2>5
<1>4. QED
  BY <1>2, <1>3

\* Every finalized block stays signed in all three journals.
THEOREM CertifiedHolds == Spec => []Certified
<1>1. Init => Certified
  BY EmptySeq DEF Init, Certified
<1>2. TypeOK /\ CoreInv /\ Certified /\ [Next]_vars => Certified'
  BY CoreInvTimed, NextCore, CertifiedNext
<1>3. QED
  BY <1>1, <1>2, Invariance, PTL DEF Spec

----------------------------------------------------------------------------
(***************************************************************************)
(* Agreement.  Useful(q, p, b): q can still count p's vote for block b, as *)
(* it holds the vote, or finds it in its queue with no other proposal.     *)
(***************************************************************************)
Useful(q, p, b) ==
  /\ Len(b) = Len(chain[q]) + 1
  /\ \/ ~Idle(q) /\ pending[q].block = b /\ p \in votes[q]
     \/ /\ Idle(q) \/ pending[q].block = b
        /\ \E f \in Frames(p, q) : f.block = b

\* Two validators never both wait for the other's vote on different blocks.
Exclusive ==
  \A p, q \in Validator : \A a, b \in Seq(Nat) :
    p # q /\ Len(a) = Len(b) /\ Useful(p, q, a) /\ Useful(q, p, b) => a = b

\* Of a validator one block ahead only the vote for that block is useful.
Bound ==
  \A p, q \in Validator : \A b \in Seq(Nat) :
    p # q /\ Len(chain[p]) = Len(chain[q]) + 1 /\ Useful(q, p, b)
      => b = chain[p]

Aligned ==
  \A p, q \in Validator :
    /\ Len(chain[p]) <= Len(chain[q]) + 1
    /\ \A i \in 1 .. Len(chain[p]) :
         i <= Len(chain[q]) => chain[p][i] = chain[q][i]

AgreeInv == Exclusive /\ Bound /\ Aligned

\* p signed what is useful of it, so it is at most one block behind.
LEMMA UsefulHeight ==
  ASSUME CoreInv, NEW p \in Validator, NEW q \in Validator,
         NEW b \in Seq(Nat),
         Useful(q, p, b) \/ \E f \in Frames(p, q) : f.block = b
  PROVE  Len(b) <= Len(chain[p]) + 1
<1>1. ASSUME NEW r, Vote(r) \in journal[p].rows, r.block = b
      PROVE  Len(b) <= Len(chain[p]) + 1
  BY <1>1 DEF CoreInv, RowsExtend, RowExtends, Vote
<1>2. CASE \E f \in Frames(p, q) : f.block = b
  BY <1>1, <1>2 DEF CoreInv, FramesJournaled
<1>3. CASE pending[q].block = b /\ p \in votes[q]
  BY <1>1, <1>3 DEF CoreInv, Journaled
<1>4. QED
  BY <1>2, <1>3 DEF Useful

\* A store commits only blocks for which every other vote was useful.
LEMMA CommitUseful ==
  ASSUME CoreInv, CoreStep, ~Resubmission,
         NEW q \in Validator, chain'[q] # chain[q],
         NEW p \in Validator, p # q
  PROVE  Useful(q, p, chain'[q])
<1>0. CoreType
  BY DEF CoreInv
<1>1. ASSUME NEW n \in Validator, NEW c \in Proposals, Candidate(n, c),
             NEW ids \in SUBSET Validator, Tally(n, c, ids)
      PROVE  /\ n = q
             /\ chain'[q] = c.block
             /\ ids = Validator
             /\ Len(c.block) = Len(chain[q]) + 1
             /\ p \in Held(q) => Useful(q, p, c.block)
  <2>1. n = q /\ chain'[q] = c.block /\ ids = Validator
    BY <1>0, <1>1, TallyEffect DEF CoreType
  <2>2. Len(c.block) = Len(chain[q]) + 1
    BY <1>0, <1>1, <2>1, ExtendsVote DEF Candidate
  <2>3. p \in Held(q) => ~Idle(q) /\ pending[q] = c /\ p \in votes[q]
    BY <1>1, <2>1 DEF Held, Candidate
  <2>4. QED
    BY <2>1, <2>2, <2>3 DEF Useful
<1>2. ASSUME NEW n \in Validator, NEW c \in Proposals,
             Candidate(n, c), Casts(n, c)
      PROVE  Useful(q, p, chain'[q])
  <2>1. PICK ids \in {Held(n), Held(n) \cup {n}} : Tally(n, c, ids)
    BY <1>2 DEF Casts
  <2>2. ids \in SUBSET Validator
    BY <1>0, <2>1 DEF Held, CoreType
  <2>3. n = q /\ ids = Validator /\ chain'[q] = c.block
    BY <1>1, <1>2, <2>1, <2>2
  <2>4. p \in Held(q)
    BY <2>1, <2>3
  <2>5. QED
    BY <1>1, <1>2, <2>1, <2>2, <2>3, <2>4
<1>3. ASSUME NEW s \in Validator, NEW n \in Validator, NEW c \in Proposals,
             Candidate(n, c), Hears(s, n, c)
      PROVE  Useful(q, p, chain'[q])
  <2> DEFINE f == Head(wire[s][n])
             ids == IF Matches(f, c) THEN Held(n) \cup {s} ELSE Held(n)
  <2>1. Tally(n, c, ids)
    BY <1>3 DEF Hears
  <2>2. ids \in SUBSET Validator
    BY <1>0 DEF Held, CoreType
  <2> HIDE DEF ids
  <2>3. /\ n = q /\ ids = Validator /\ chain'[q] = c.block
        /\ Len(c.block) = Len(chain[q]) + 1
        /\ p \in Held(q) => Useful(q, p, c.block)
    BY <1>1, <1>3, <2>1, <2>2
  <2>4. CASE p \in Held(q)
    BY <2>3, <2>4
  <2>5. CASE p \notin Held(q)
    <3>1. p = s /\ Matches(f, c)
      BY <2>3, <2>5 DEF ids
    <3>2. f \in Frames(p, q) /\ f.block = c.block
      BY <1>0, <1>3, <2>3, <3>1, TailFrames DEF Hears, Matches
    <3>3. Idle(q) \/ pending[q].block = c.block
      BY <1>3, <2>3 DEF Candidate
    <3>4. QED
      BY <2>3, <3>2, <3>3 DEF Useful
  <2>6. QED
    BY <2>4, <2>5
<1>4. QED
  BY <1>2, <1>3 DEF CoreStep, LeavesCore, Holds, Counts, Loses

\* How a vote of p for b becomes useful to q: p sends it, or q, committing,
\* comes to the height of a frame that waits in its queue.
Sends(p, b) ==
  \E c \in Proposals : Candidate(p, c) /\ Casts(p, c) /\ c.block = b

CatchesUp(q, p, b) ==
  /\ chain'[q] # chain[q]
  /\ Len(b) = Len(chain[q]) + 2
  /\ \E f \in Frames(p, q) : f.block = b

\* While q's store and pending proposal stay as they are, a vote of p becomes
\* useful to q only when p sends it.
LEMMA UsefulUnchanged ==
  ASSUME CoreInv, CoreStep, NEW p \in Validator, NEW q \in Validator, p # q,
         NEW b \in Seq(Nat), Useful(q, p, b)',
         chain'[q] = chain[q], pending'[q] = pending[q], votes'[q] = votes[q]
  PROVE  Useful(q, p, b) \/ Sends(p, b)
<1>1. CASE ~Idle(q) /\ pending[q].block = b /\ p \in votes[q]
  BY <1>1 DEF Useful, Idle
<1>2. ASSUME NEW f \in Frames(p, q)', f.block = b,
             Idle(q) \/ pending[q].block = b
      PROVE  Useful(q, p, b) \/ Sends(p, b)
  <2>1. CASE f \in Frames(p, q)
    BY <1>2, <2>1 DEF Useful, Idle
  <2>2. ASSUME NEW c \in Proposals, Candidate(p, c), Casts(p, c),
               f = Packet(p, c)
        PROVE  Sends(p, b)
    BY <1>2, <2>2 DEF Sends, Packet
  <2>3. QED
    BY <2>1, <2>2, NewFrames DEF CoreInv
<1>3. QED
  BY <1>1, <1>2 DEF Useful, Idle

\* The same when q's own tally of c changes its state.
LEMMA UsefulTally ==
  ASSUME CoreInv, CoreStep, NEW p \in Validator, NEW q \in Validator, p # q,
         NEW b \in Seq(Nat), Useful(q, p, b)',
         NEW c \in Proposals, Candidate(q, c),
         NEW ids \in SUBSET Validator, Tally(q, c, ids),
         p \in ids => \/ p \in Held(q)
                      \/ \E f \in Frames(p, q) : f.block = c.block,
         Frames(p, q)' \subseteq Frames(p, q)
  PROVE  Useful(q, p, b) \/ CatchesUp(q, p, b)
<1>0. /\ CoreType
      /\ Len(chain[q]) \in Nat
      /\ Len(c.block) = Len(chain[q]) + 1
  BY ExtendsVote, LenProperties DEF CoreInv, CoreType, Candidate
<1>1. CASE /\ chain' = [chain EXCEPT ![q] = c.block]
           /\ pending' = [pending EXCEPT ![q] = NoProposal]
           /\ votes' = [votes EXCEPT ![q] = {}]
  <2>1. chain'[q] = c.block /\ Idle(q)' /\ votes'[q] = {}
    BY <1>0, <1>1 DEF CoreType, Idle
  <2>2. Len(b) = Len(chain[q]) + 2 /\ \E f \in Frames(p, q)' : f.block = b
    BY <1>0, <2>1 DEF Useful
  <2>3. chain'[q] # chain[q]
    BY <1>0, <2>1
  <2>4. QED
    BY <2>2, <2>3 DEF CatchesUp
<1>2. CASE /\ chain' = chain
           /\ pending' = [pending EXCEPT ![q] = c]
           /\ votes' = [votes EXCEPT ![q] = ids]
  <2>1. pending'[q] = c /\ votes'[q] = ids /\ chain'[q] = chain[q]
    BY <1>0, <1>2 DEF CoreType
  <2>2. c # NoProposal
    BY <1>0, EmptySeq DEF NoProposal
  <2>3. /\ c.block = b
        /\ Len(b) = Len(chain[q]) + 1
        /\ p \in ids \/ \E f \in Frames(p, q) : f.block = b
    BY <2>1, <2>2 DEF Useful, Idle
  <2>4. Idle(q) \/ pending[q].block = b
    BY <2>3 DEF Candidate
  <2>5. p \in Held(q) => ~Idle(q) /\ pending[q] = c /\ p \in votes[q]
    BY DEF Held, Candidate
  <2>6. QED
    BY <2>3, <2>4, <2>5 DEF Useful
<1>3. QED
  BY <1>0, <1>1, <1>2, TallyEffect

\* Where a useful vote of p comes from: it was useful before, p sends it in
\* this step, or q has just caught up with p.
LEMMA UsefulSource ==
  ASSUME CoreInv, CoreStep, ~Resubmission,
         NEW p \in Validator, NEW q \in Validator, p # q,
         NEW b \in Seq(Nat), Useful(q, p, b)'
  PROVE  Useful(q, p, b) \/ Sends(p, b) \/ CatchesUp(q, p, b)
<1>0. CoreType
  BY DEF CoreInv
<1>1. CASE chain'[q] = chain[q] /\ pending'[q] = pending[q]
           /\ votes'[q] = votes[q]
  BY <1>1, UsefulUnchanged
<1>2. ASSUME NEW n \in Validator, NEW c \in Proposals,
             Candidate(n, c), Casts(n, c)
      PROVE  Useful(q, p, b) \/ Sends(p, b) \/ CatchesUp(q, p, b)
  <2>1. PICK ids \in {Held(n), Held(n) \cup {n}}, dests \in SUBSET Validator :
          Tally(n, c, ids) /\ Send(n, c, dests)
    BY <1>2 DEF Casts
  <2>2. ids \in SUBSET Validator
    BY <1>0, <2>1 DEF Held, CoreType
  <2>3. CASE n = q
    <3>1. Frames(p, q)' \subseteq Frames(p, q)
      BY <1>0, <2>1, <2>3, SendFrames
    <3>2. p \in ids => p \in Held(q)
      BY <2>1, <2>3
    <3>3. QED
      BY <1>2, <2>1, <2>2, <2>3, <3>1, <3>2, UsefulTally
  <2>4. CASE n # q
    <3>1. /\ chain'[q] = chain[q] /\ pending'[q] = pending[q]
          /\ votes'[q] = votes[q]
      BY <1>0, <2>1, <2>4 DEF Tally, CoreType
    <3>2. QED
      BY <1>1, <3>1
  <2>5. QED
    BY <2>3, <2>4
<1>3. ASSUME NEW n \in Validator, NEW c \in Proposals,
             Candidate(n, c), Holds(n, c)
      PROVE  Useful(q, p, b) \/ Sends(p, b) \/ CatchesUp(q, p, b)
  <2>1. CASE n = q
    <3>1. /\ chain'[q] = chain[q] /\ pending'[q] = c
          /\ votes'[q] = Held(q)
      BY <1>0, <1>3, <2>1 DEF Holds, CoreType
    <3>2. Frames(p, q)' = Frames(p, q)
      BY <1>3 DEF Holds, Frames
    <3>3. p \in Held(q) => ~Idle(q) /\ pending[q] = c /\ p \in votes[q]
      BY <1>3, <2>1 DEF Held, Candidate
    <3>4. c # NoProposal
      BY <1>0, <1>3, <2>1, ExtendsVote, EmptySeq, LenProperties
      DEF NoProposal, Candidate, CoreType
    <3>5. /\ c.block = b
          /\ Len(b) = Len(chain[q]) + 1
          /\ p \in Held(q) \/ \E f \in Frames(p, q) : f.block = b
      BY <3>1, <3>2, <3>4 DEF Useful, Idle
    <3>6. Idle(q) \/ pending[q].block = b
      BY <1>3, <2>1, <3>5 DEF Candidate
    <3>7. QED
      BY <3>3, <3>5, <3>6 DEF Useful
  <2>2. CASE n # q
    <3>1. /\ chain'[q] = chain[q] /\ pending'[q] = pending[q]
          /\ votes'[q] = votes[q]
      BY <1>0, <1>3, <2>2 DEF Holds, CoreType
    <3>2. QED
      BY <1>1, <3>1
  <2>3. QED
    BY <2>1, <2>2
<1>4. ASSUME NEW s \in Validator, NEW n \in Validator, NEW c \in Proposals,
             Candidate(n, c), Hears(s, n, c)
      PROVE  Useful(q, p, b) \/ Sends(p, b) \/ CatchesUp(q, p, b)
  <2> DEFINE g == Head(wire[s][n])
             ids == IF Matches(g, c) THEN Held(n) \cup {s} ELSE Held(n)
  <2>1. Tally(n, c, ids)
    BY <1>4 DEF Hears
  <2>2. ids \in SUBSET Validator
    BY <1>0 DEF Held, CoreType
  <2>3. Frames(p, q)' \subseteq Frames(p, q) /\ g \in Frames(s, n)
    BY <1>0, <1>4, TailFrames DEF Hears
  <2>4. CASE n = q
    <3>1. p \in ids => \/ p \in Held(q)
                       \/ \E f \in Frames(p, q) : f.block = c.block
      BY <2>3, <2>4 DEF Matches
    <3>2. QED
      BY <1>4, <2>1, <2>2, <2>3, <2>4, <3>1, UsefulTally
  <2>5. CASE n # q
    <3>1. /\ chain'[q] = chain[q] /\ pending'[q] = pending[q]
          /\ votes'[q] = votes[q]
      BY <1>0, <2>1, <2>5 DEF Tally, CoreType
    <3>2. QED
      BY <1>1, <3>1
  <2>6. QED
    BY <2>4, <2>5
<1>5. ASSUME NEW n \in Validator, NEW j, Loses(n, j)
      PROVE  Useful(q, p, b) \/ Sends(p, b) \/ CatchesUp(q, p, b)
  <2>1. CASE n = q
    <3>1. votes'[q] = {} /\ Frames(p, q)' = {}
      BY <1>0, <1>5, <2>1, LoseFrames DEF Loses, CoreType
    <3>2. QED
      BY <3>1 DEF Useful
  <2>2. CASE n # q
    <3>1. /\ chain'[q] = chain[q] /\ pending'[q] = pending[q]
          /\ votes'[q] = votes[q]
      BY <1>0, <1>5, <2>2 DEF Loses, CoreType
    <3>2. QED
      BY <1>1, <3>1
  <2>3. QED
    BY <2>1, <2>2
<1>6. QED
  BY <1>1, <1>2, <1>3, <1>4, <1>5 DEF CoreStep, LeavesCore, Counts

\* After sending its vote for b, p has b pending, or has committed it.
LEMMA SendsEffect ==
  ASSUME CoreInv, NEW p \in Validator, NEW b \in Seq(Nat), Sends(p, b)
  PROVE  /\ Len(b) = Len(chain[p]) + 1
         /\ \/ chain'[p] = b
            \/ chain'[p] = chain[p] /\ pending'[p].block = b /\ ~Idle(p)'
<1>0. CoreType
  BY DEF CoreInv
<1>1. PICK c \in Proposals : Candidate(p, c) /\ Casts(p, c) /\ c.block = b
  BY DEF Sends
<1>2. Len(b) = Len(chain[p]) + 1
  BY <1>0, <1>1, ExtendsVote DEF Candidate
<1>3. c # NoProposal
  BY <1>0, <1>1, <1>2, EmptySeq, LenProperties DEF NoProposal, CoreType
<1>4. PICK ids \in {Held(p), Held(p) \cup {p}} : Tally(p, c, ids)
  BY <1>1 DEF Casts
<1>5. \/ chain'[p] = c.block
      \/ chain'[p] = chain[p] /\ pending'[p] = c
  BY <1>0, <1>4 DEF Tally, CoreType
<1>6. QED
  BY <1>1, <1>2, <1>3, <1>5 DEF Idle
----------------------------------------------------------------------------
\* The heart of agreement: no step makes p's vote for one block useful to q and
\* q's vote for another block of that height useful to p.
LEMMA ExclusiveNext ==
  ASSUME CoreInv, CoreStep, ~Resubmission, AgreeInv
  PROVE  Exclusive'
<1> SUFFICES ASSUME NEW p \in Validator, NEW q \in Validator, p # q,
                    NEW a \in Seq(Nat), NEW b \in Seq(Nat), Len(a) = Len(b),
                    Useful(p, q, a)', Useful(q, p, b)'
             PROVE  a = b
  BY DEF Exclusive
<1>0. Len(a) \in Nat /\ Len(b) \in Nat
  BY LenProperties
<1>1. ASSUME NEW m \in Validator, NEW n \in Validator, m # n,
             NEW x \in Seq(Nat), NEW y \in Seq(Nat), Len(x) = Len(y),
             Useful(m, n, x)', Useful(n, m, y)'
      PROVE  /\ Sends(m, y) => x = y
             /\ CatchesUp(m, n, x) => ~Useful(n, m, y)
             /\ CatchesUp(m, n, x) => ~CatchesUp(n, m, y)
  <2>1. /\ Len(chain[m]) \in Nat /\ Len(chain'[m]) \in Nat
        /\ Len(chain[n]) \in Nat
    BY <1>1, ChainPrefix
  <2>2. ASSUME Sends(m, y)
        PROVE  x = y
    <3>1. CASE chain'[m] = y
      <4>1. Len(x) = Len(chain'[m]) + 1
        BY <1>1 DEF Useful
      <4>2. QED
        BY <1>1, <2>1, <3>1, <4>1
    <3>2. CASE pending'[m].block = y /\ ~Idle(m)'
      <4>1. Idle(m)' \/ pending'[m].block = x
        BY <1>1 DEF Useful
      <4>2. QED
        BY <3>2, <4>1
    <3>3. QED
      BY <1>1, <2>2, <3>1, <3>2, SendsEffect
  <2>3. ASSUME CatchesUp(m, n, x)
        PROVE  ~Useful(n, m, y) /\ ~CatchesUp(n, m, y)
    <3>1. Useful(n, m, y) => Len(y) <= Len(chain[m]) + 1
      BY <1>1, UsefulHeight
    <3>2. CatchesUp(n, m, y) => Len(y) <= Len(chain[m]) + 1
      BY <1>1, UsefulHeight DEF CatchesUp
    <3>3. QED
      BY <1>1, <2>1, <2>3, <3>1, <3>2 DEF CatchesUp
  <2>4. QED
    BY <2>2, <2>3
<1>2. Useful(p, q, a) \/ Sends(q, a) \/ CatchesUp(p, q, a)
  BY UsefulSource
<1>3. Useful(q, p, b) \/ Sends(p, b) \/ CatchesUp(q, p, b)
  BY UsefulSource
<1>4. /\ Sends(p, b) => a = b
      /\ CatchesUp(p, q, a) => ~Useful(q, p, b) /\ ~CatchesUp(q, p, b)
  BY <1>1
<1>5. /\ Sends(q, a) => a = b
      /\ CatchesUp(q, p, b) => ~Useful(p, q, a) /\ ~CatchesUp(p, q, a)
  BY <1>1
<1>6. Useful(p, q, a) /\ Useful(q, p, b) => a = b
  BY DEF AgreeInv, Exclusive
<1>7. QED
  BY <1>2, <1>3, <1>4, <1>5, <1>6

\* At most one store changes in a step.
LEMMA OneCommit ==
  ASSUME CoreInv, CoreStep, NEW p \in Validator, chain'[p] # chain[p],
         NEW q \in Validator, q # p
  PROVE  chain'[q] = chain[q]
BY ChainGrows DEF CoreInv, CoreType

\* Of a validator one block ahead, only the vote for that block stays useful.
LEMMA BoundNext ==
  ASSUME CoreInv, CoreStep, ~Resubmission, AgreeInv
  PROVE  Bound'
<1> SUFFICES ASSUME NEW p \in Validator, NEW q \in Validator, p # q,
                    NEW b \in Seq(Nat), Useful(q, p, b)',
                    Len(chain'[p]) = Len(chain'[q]) + 1
             PROVE  b = chain'[p]
  BY DEF Bound
<1>0. /\ Len(chain[p]) \in Nat /\ Len(chain[q]) \in Nat
      /\ Len(chain'[p]) \in {Len(chain[p]), Len(chain[p]) + 1}
      /\ Len(chain'[q]) \in {Len(chain[q]), Len(chain[q]) + 1}
      /\ chain'[p] \in Seq(Nat) /\ chain'[q] \in Seq(Nat)
      /\ Len(b) = Len(chain'[q]) + 1
  BY ChainPrefix, ChainGrows DEF Useful
<1>1. Useful(q, p, b) \/ Sends(p, b) \/ CatchesUp(q, p, b)
  BY UsefulSource
<1>2. CASE chain'[p] # chain[p]
  <2>1. Useful(p, q, chain'[p])
    BY <1>2, CommitUseful
  <2>2. chain'[q] = chain[q]
    BY <1>2, OneCommit
  <2>3. CASE Useful(q, p, b)
    BY <1>0, <2>1, <2>3 DEF AgreeInv, Exclusive
  <2>4. CASE Sends(p, b)
    BY <1>2, <2>4, SendsEffect
  <2>5. QED
    BY <1>1, <2>2, <2>3, <2>4 DEF CatchesUp
<1>3. CASE chain'[p] = chain[p]
  <2>1. chain'[q] = chain[q]
    <3>1. CASE chain'[q] # chain[q]
      <4>1. Len(chain'[q]) = Len(chain[q]) + 1
        <5>1. Useful(q, p, chain'[q])
          BY <3>1, CommitUseful
        <5>2. QED
          BY <5>1 DEF Useful
      <4>2. Len(chain[p]) <= Len(chain[q]) + 1
        BY DEF AgreeInv, Aligned
      <4>3. QED
        BY <1>0, <1>3, <4>1, <4>2
    <3>2. QED
      BY <3>1
  <2>2. CASE Useful(q, p, b)
    BY <1>0, <1>3, <2>1, <2>2 DEF AgreeInv, Bound
  <2>3. CASE Sends(p, b)
    BY <1>0, <1>3, <2>1, <2>3, SendsEffect
  <2>4. QED
    BY <1>1, <2>1, <2>2, <2>3 DEF CatchesUp
<1>4. QED
  BY <1>2, <1>3

\* When p commits, every other store is at p's old head or at the new one.
LEMMA CommitAligned ==
  ASSUME CoreInv, CoreStep, ~Resubmission, AgreeInv,
         NEW p \in Validator, chain'[p] # chain[p],
         NEW q \in Validator, q # p
  PROVE  /\ Len(chain'[p]) = Len(chain[p]) + 1
         /\ \/ Len(chain[q]) = Len(chain[p])
            \/ chain[q] = chain'[p]
<1>1. /\ Len(chain[p]) \in Nat /\ Len(chain[q]) \in Nat
      /\ chain'[p] \in Seq(Nat)
  BY ChainPrefix, ChainGrows
<1>2. Useful(p, q, chain'[p])
  BY CommitUseful
<1>3. Len(chain'[p]) = Len(chain[p]) + 1
  BY <1>2 DEF Useful
<1>4. Len(chain'[p]) <= Len(chain[q]) + 1
  BY <1>1, <1>2, UsefulHeight
<1>5. Len(chain[q]) <= Len(chain[p]) + 1
  BY DEF AgreeInv, Aligned
<1>6. Len(chain[q]) = Len(chain[p]) + 1 => chain[q] = chain'[p]
  BY <1>1, <1>2 DEF AgreeInv, Bound
<1>7. QED
  BY <1>1, <1>3, <1>4, <1>5, <1>6

\* A step keeps the stores on one chain, at most one block apart.
LEMMA AlignedNext ==
  ASSUME CoreInv, CoreStep, ~Resubmission, AgreeInv
  PROVE  Aligned'
<1> DEFINE Fits(p, q) ==
             /\ Len(chain'[p]) <= Len(chain'[q]) + 1
             /\ \A i \in 1 .. Len(chain'[p]) :
                  i <= Len(chain'[q]) => chain'[p][i] = chain'[q][i]
<1>1. \A p \in Validator :
        /\ Len(chain[p]) \in Nat /\ Len(chain'[p]) \in Nat
        /\ \A i \in 1 .. Len(chain[p]) : chain'[p][i] = chain[p][i]
  BY ChainPrefix
<1>2. \A p, q \in Validator :
        /\ Len(chain[p]) <= Len(chain[q]) + 1
        /\ \A i \in 1 .. Len(chain[p]) :
             i <= Len(chain[q]) => chain[p][i] = chain[q][i]
  BY DEF AgreeInv, Aligned
<1>3. ASSUME NEW p \in Validator, chain'[p] # chain[p],
             NEW q \in Validator, q # p
      PROVE  Fits(p, q) /\ Fits(q, p)
  <2>1. chain'[q] = chain[q]
    BY <1>3, OneCommit
  <2>2. Len(chain'[p]) = Len(chain[p]) + 1
    BY <1>3, CommitAligned
  <2>3. CASE chain[q] = chain'[p]
    BY <1>1, <2>1, <2>3
  <2>4. CASE Len(chain[q]) = Len(chain[p])
    <3>1. \A i \in 1 .. Len(chain[p]) : chain'[p][i] = chain'[q][i]
      BY <1>1, <1>2, <2>1, <2>4
    <3>2. \A i \in 1 .. Len(chain[p]) : chain'[q][i] = chain'[p][i]
      BY <3>1
    <3>3. Len(chain'[q]) = Len(chain[p]) /\ Len(chain[p]) \in Nat
      BY <1>1, <2>1, <2>4
    <3>4. Fits(p, q)
      BY <2>2, <3>1, <3>3
    <3>5. Fits(q, p)
      BY <2>2, <3>2, <3>3
    <3>6. QED
      BY <3>4, <3>5
  <2>5. QED
    BY <1>3, <2>3, <2>4, CommitAligned
<1>4. ASSUME NEW p \in Validator, NEW q \in Validator
      PROVE  Fits(p, q)
  <2>1. CASE p = q
    BY <1>1, <2>1
  <2>2. CASE p # q /\ chain'[p] = chain[p] /\ chain'[q] = chain[q]
    BY <1>2, <2>2
  <2>3. QED
    BY <1>3, <2>1, <2>2
<1>5. QED
  BY <1>4 DEF Aligned

\* At first the stores are empty and nothing is signed.
LEMMA AgreeInvInit ==
  ASSUME Init
  PROVE  AgreeInv
<1>1. \A p, q \in Validator : Frames(p, q) = {} /\ chain[p] = <<>>
  BY EmptySeq DEF Init, Frames
<1>2. \A p \in Validator : votes[p] = {}
  BY DEF Init
<1>3. \A p, q \in Validator, b \in Seq(Nat) : ~Useful(q, p, b)
  BY <1>1, <1>2 DEF Useful
<1>4. Len(<<>>) = 0
  BY EmptySeq
<1>5. QED
  BY <1>1, <1>3, <1>4 DEF AgreeInv, Exclusive, Bound, Aligned

\* The strengthening behind agreement holds for any number of crashes, losses
\* and heights, as long as no RPC client resubmits old votes: a vote that reached
\* a live peer binds its sender until the height is final.
THEOREM AgreementInvariance ==
  ASSUME ~Resubmission
  PROVE  Spec => []AgreeInv
<1>1. Init => AgreeInv
  BY AgreeInvInit
<1>2. TypeOK /\ CoreInv /\ AgreeInv /\ [Next]_vars => AgreeInv'
  BY CoreInvTimed, NextCore, ExclusiveNext, BoundNext, AlignedNext
  DEF AgreeInv
<1>3. QED
  BY <1>1, <1>2, Invariance, PTL DEF Spec

(***************************************************************************)
(* No fork, when no RPC client resubmits a vote of an abandoned proposal.  *)
(***************************************************************************)
THEOREM AgreementHolds ==
  ASSUME ~Resubmission
  PROVE  Spec => []Agreement
<1>1. CoreInv /\ AgreeInv => Agreement
  <2> SUFFICES ASSUME CoreInv, AgreeInv,
                      NEW n \in Validator, NEW m \in Validator,
                      NEW i \in DOMAIN chain[n] \cap DOMAIN chain[m]
               PROVE  chain[n][i] = chain[m][i]
    BY DEF Agreement
  <2>1. i \in 1 .. Len(chain[n]) /\ i \in 1 .. Len(chain[m])
    BY LenProperties DEF CoreInv, CoreType
  <2>2. Len(chain[m]) \in Nat
    BY LenProperties DEF CoreInv, CoreType
  <2>3. QED
    BY <2>1, <2>2 DEF AgreeInv, Aligned
<1>2. QED
  BY <1>1, Invariance, AgreementInvariance, PTL

(***************************************************************************)
(* The stores implement the abstract ledger: append-only copies that grow  *)
(* a block at a time and stay within one block of each other.              *)
(***************************************************************************)
LEMMA LedgerStep ==
  ASSUME CoreInv, CoreStep, ~Resubmission, AgreeInv
  PROVE  [Ledger!Next]_chain
<1>0. CoreType /\ CoreType'
  BY CoreTypeNext DEF CoreInv
<1>1. CASE chain' = chain
  BY <1>1
<1>2. CASE chain' # chain
  <2>1. PICK p \in Validator : chain'[p] # chain[p]
    BY <1>0, <1>2 DEF CoreType
  <2>2. \A q \in Validator : q # p => chain'[q] = chain[q]
    BY <2>1, OneCommit
  <2>3. chain' = [chain EXCEPT ![p] = chain'[p]]
    BY <1>0, <2>2 DEF CoreType
  <2>4. /\ chain[p] \in Seq(Nat) /\ chain'[p] \in Seq(Nat)
        /\ Len(chain[p]) \in Nat
        /\ \A i \in 1 .. Len(chain[p]) : chain'[p][i] = chain[p][i]
    BY <1>0, ChainPrefix DEF CoreType
  <2>5. Len(chain'[p]) = Len(chain[p]) + 1
    <3>1. PICK c \in Proposals, ids \in SUBSET Validator :
            Tallied(p, c, ids) /\ chain' = [chain EXCEPT ![p] = c.block]
      BY <2>1, ChainGrows
    <3>2. chain'[p] = c.block /\ Candidate(p, c)
      BY <1>0, <3>1 DEF Tallied, CoreType
    <3>3. QED
      BY <1>0, <3>2, ExtendsVote DEF Candidate
  <2>6. SubSeq(chain'[p], 1, Len(chain[p])) = chain[p]
    <3>1. CASE Len(chain[p]) = 0
      <4>1. chain[p] = <<>>
        BY <2>4, <3>1, EmptySeq
      <4>2. QED
        BY <3>1, <4>1, SubSeqEmpty
    <3>2. CASE Len(chain[p]) # 0
      <4>1. Len(chain[p]) \in 1 .. Len(chain'[p])
        BY <2>4, <2>5, <3>2
      <4>2. /\ SubSeq(chain'[p], 1, Len(chain[p])) \in Seq(Nat)
            /\ Len(SubSeq(chain'[p], 1, Len(chain[p]))) = Len(chain[p])
            /\ \A i \in 1 .. Len(chain[p]) :
                 SubSeq(chain'[p], 1, Len(chain[p]))[i] = chain'[p][i]
        BY <2>4, <4>1, PrefixOf
      <4>3. QED
        BY <2>4, <4>2, SeqEqual
    <3>3. QED
      BY <3>1, <3>2
  <2>7. ASSUME NEW q \in Validator
        PROVE  chain[q] \in {chain[p], chain'[p]}
    <3>1. CASE q # p /\ Len(chain[q]) = Len(chain[p])
      <4>1. chain[q] \in Seq(Nat)
        BY <1>0 DEF CoreType
      <4>2. \A i \in 1 .. Len(chain[q]) : chain[q][i] = chain[p][i]
        BY <2>4, <3>1 DEF AgreeInv, Aligned
      <4>3. QED
        BY <2>4, <3>1, <4>1, <4>2, SeqEqual
    <3>2. QED
      BY <2>1, <3>1, CommitAligned
  <2>8. Ledger!Extend(p)
    BY <2>3, <2>5, <2>6, <2>7 DEF Ledger!Extend
  <2>9. QED
    BY <2>8 DEF Ledger!Next
<1>3. QED
  BY <1>1, <1>2

\* The three stores implement the abstract ledger: commit_finalized extends one
\* shared chain, a block at a time, and no store runs more than one block ahead.
THEOREM LedgerRefinement ==
  ASSUME ~Resubmission
  PROVE  Spec => LedgerSpec
<1>1. Init => Ledger!Init
  BY DEF Init, Ledger!Init
<1>2. TypeOK /\ CoreInv /\ AgreeInv /\ [Next]_vars => [Ledger!Next]_chain
  BY CoreInvTimed, NextCore, LedgerStep
<1>3. QED
  BY <1>1, <1>2, Invariance, AgreementInvariance, PTL
  DEF Spec, LedgerSpec, Ledger!Spec

(***************************************************************************)
(* No double-sign: with one chain, height, round and the time they stand   *)
(* for leave a single block to sign.                                       *)
(***************************************************************************)
LEMMA SameCoordinate ==
  ASSUME CoreInv, AgreeInv, NEW v \in Validator, NEW w \in Validator,
         NEW r \in journal[v].rows, NEW s \in journal[w].rows,
         Coordinate(r) = Coordinate(s)
  PROVE  r.block = s.block
<1>1. /\ r.block \in Seq(Nat) /\ s.block \in Seq(Nat)
      /\ Len(r.block) \in Nat
      /\ Len(chain[v]) \in Nat /\ Len(chain[w]) \in Nat
  BY LenProperties DEF CoreInv, CoreType, Journals, Rows
<1>2. RowExtends(v, r) /\ RowExtends(w, s)
  BY DEF CoreInv, RowsExtend
<1>3. r.height = s.height /\ r.round = s.round
  BY DEF Coordinate
<1>4. Len(r.block) = Len(s.block) /\ 1 <= Len(r.block)
  BY <1>2, <1>3 DEF RowExtends
<1>5. r.block[Len(r.block)] = s.block[Len(r.block)]
  <2>1. Time(r.block) = Time(s.block)
    BY <1>2, <1>3 DEF RowExtends
  <2>2. r.block # <<>> /\ s.block # <<>>
    BY <1>1, <1>4, EmptySeq
  <2>3. QED
    BY <1>4, <2>1, <2>2 DEF Time
<1>6. ASSUME NEW i \in 1 .. Len(r.block) - 1
      PROVE  r.block[i] = s.block[i]
  <2>1. r.block[i] = chain[v][i] /\ s.block[i] = chain[w][i]
    BY <1>2, <1>4 DEF RowExtends
  <2>2. i \in 1 .. Len(chain[v]) /\ i \in 1 .. Len(chain[w])
    <3>1. /\ Len(r.block) <= Len(chain[v]) + 1
          /\ Len(r.block) <= Len(chain[w]) + 1
      BY <1>2, <1>4 DEF RowExtends
    <3>2. QED
      BY <1>1, <3>1
  <2>3. chain[v][i] = chain[w][i]
    BY <1>1, <2>2 DEF AgreeInv, Aligned
  <2>4. QED
    BY <2>1, <2>3
<1>7. \A i \in 1 .. Len(r.block) : r.block[i] = s.block[i]
  BY <1>1, <1>4, <1>5, <1>6
<1>8. QED
  BY <1>1, <1>4, <1>7, SeqEqual

\* At one height and round all validators sign the same block, and a validator
\* that stops at any point passes the journal's check at its next start.
THEOREM JournalSoundHolds ==
  ASSUME ~Resubmission
  PROVE  Spec => []JournalSound
<1>1. CoreInv /\ AgreeInv => JournalSound
  BY SameCoordinate DEF CoreInv, JournalsLatest, JournalSound
<1>2. QED
  BY <1>1, Invariance, AgreementInvariance, PTL
=============================================================================
