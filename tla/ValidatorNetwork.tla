-------------------------- MODULE ValidatorNetwork --------------------------
(***************************************************************************)
(* The consensus core of the chain: three validator nodes, each with a     *)
(* durable store and signing journal, one pending proposal and its votes   *)
(* in memory, and a finality loop that broadcasts its vote once per        *)
(* wall-clock slot over plain TCP (validator_node.py, validator_runtime.py,*)
(* finality.py, validator_liveness.py).                                    *)
(*                                                                         *)
(* A block hash commits to height, parent and timestamp, and a node of     *)
(* this network executes empty candidates: a block IS the sequence of the  *)
(* timestamps from genesis to it, and equal hashes are equal sequences.    *)
(*                                                                         *)
(* NodeState.consensus_lock serialises what one node does, so an action    *)
(* is one critical section of one node.  A broadcast holds the lock over   *)
(* all its sends; as no send waits for an answer, and wire keeps a queue   *)
(* per pair of nodes, taking the whole broadcast as one step loses no      *)
(* order in which the frames can be processed.                             *)
(***************************************************************************)
EXTENDS Integers, Sequences, FiniteSets, SigningJournal

CONSTANTS
  Validator,     \* validator ids: numbers, so that sorted() is an order
  Interval,      \* clock units in a slot (the manual grid is one unit)
  Recovering,    \* TRUE: the installed loop; FALSE: validator_node's own
  Resubmission,  \* TRUE: RPC clients may submit votes signed earlier
  ManualRpc,     \* TRUE: operators call junca_propose, junca_broadcastVote
  Backlog,       \* bound: frames of one sender waiting in a listen queue
  Lossy,         \* TRUE: during the outage any send may fail
  Isolated,      \* validators cut off from the others during the outage
  OutageEnd,     \* bound: the time the outage is over
  MaxClock,      \* bound: the last clock reading
  MaxHeight,     \* bound: no proposal above this height
  MaxCrashes     \* bound: crashes in a behaviour

ASSUME ValidatorAssumption ==
  /\ Validator \subseteq Nat \ {0}
  /\ IsFiniteSet(Validator)
  /\ Cardinality(Validator) = 3
ASSUME BoundAssumption ==
  /\ Interval \in Nat \ {0}
  /\ {Recovering, Resubmission, ManualRpc, Lossy} \subseteq BOOLEAN
  /\ Isolated \subseteq Validator
  /\ {Backlog, OutageEnd, MaxClock, MaxHeight, MaxCrashes} \subseteq Nat

VARIABLES
  clock,      \* wall-clock time, the same for all
  up,         \* is the process running?
  chain,      \* durable store: the finalized blocks' timestamps
  journal,    \* durable signing journal
  pending,    \* runtime._proposal and _round, or NoProposal
  votes,      \* validators whose vote the pending machine holds
  attempted,  \* last slot the loop attempted, as its timestamp (0: none)
  succeeded,  \* last slot whose broadcast reached every peer (0: none)
  wire,       \* wire[s][d]: frames d's listen queue holds from s
  crashes

vars == <<clock, up, chain, journal, pending, votes, attempted, succeeded,
          wire, crashes>>
----------------------------------------------------------------------------
\* A block without timestamp (junca_propose) has time 0.
NoTime == 0
NoProposal == [block |-> <<>>, round |-> 0]
Idle(n) == pending[n] = NoProposal

\* Nor has genesis one.
Time(block) == IF block = <<>> THEN NoTime ELSE block[Len(block)]
HeadTime(n) == Time(chain[n])

\* The canonical timestamp of the current slot; 0 before the first slot.
SlotTime == (clock \div Interval) * Interval

\* Mutant: two thirds of the power are enough.
WeakQuorum(ids) == Cardinality(ids) * 3 >= Cardinality(Validator) * 2

\* Mutant: the quorum has to be exceeded.
StrictQuorum(ids) == Cardinality(ids) > (Cardinality(Validator) * 2) \div 3 + 1

\* Strictly more than two thirds of the total power; each validator has 1.
Quorum(ids) == Cardinality(ids) >= (Cardinality(Validator) * 2) \div 3 + 1

\* Mutant: rounds count from the head's timestamp.
ExtensionFromHead(n, round, time) ==
  [block |-> Append(chain[n], time), round |-> round - HeadTime(n)]

\* What execute_candidate makes on the current head.
Extension(n, round, time) == [block |-> Append(chain[n], time), round |-> round]

Vote(proposal) ==
  [height |-> Len(proposal.block), round |-> proposal.round,
   block |-> proposal.block]

Packet(n, proposal) ==
  [from |-> n, block |-> proposal.block, round |-> proposal.round]
----------------------------------------------------------------------------
Init ==
  /\ clock = 1
  /\ up = [n \in Validator |-> TRUE]
  /\ chain = [n \in Validator |-> <<>>]
  /\ journal = [n \in Validator |-> EmptyJournal]
  /\ pending = [n \in Validator |-> NoProposal]
  /\ votes = [n \in Validator |-> {}]
  /\ attempted = [n \in Validator |-> 0]
  /\ succeeded = [n \in Validator |-> 0]
  /\ wire = [s \in Validator |-> [d \in Validator |-> <<>>]]
  /\ crashes = 0

Tick ==
  /\ clock < MaxClock
  /\ clock' = clock + 1
  /\ UNCHANGED <<up, chain, journal, pending, votes, attempted, succeeded,
                 wire, crashes>>
----------------------------------------------------------------------------
\* Mutant: a commit leaves the runtime's proposal in place.
TallyKeeping(n, proposal, ids) ==
  /\ pending' = [pending EXCEPT ![n] = proposal]
  /\ votes' = [votes EXCEPT ![n] = ids]
  /\ chain' = IF Quorum(ids) THEN [chain EXCEPT ![n] = proposal.block]
                            ELSE chain

(***************************************************************************)
(* accept_vote at node n: the voters so far and the proposal they vote     *)
(* for become the machine's votes, or, with a quorum, a commit that clears *)
(* the pending proposal.                                                   *)
(***************************************************************************)
Tally(n, proposal, ids) ==
  IF Quorum(ids)
    THEN /\ chain' = [chain EXCEPT ![n] = proposal.block]
         /\ pending' = [pending EXCEPT ![n] = NoProposal]
         /\ votes' = [votes EXCEPT ![n] = {}]
    ELSE /\ pending' = [pending EXCEPT ![n] = proposal]
         /\ votes' = [votes EXCEPT ![n] = ids]
         /\ UNCHANGED chain

(***************************************************************************)
(* PrivateVpcPeerTransport.broadcast visits the validators in sorted order *)
(* and stops at the first peer it cannot send to: failed is that peer, 0   *)
(* for none.  No frame can be sent to a peer that is down, cut off, or     *)
(* whose queue is full; any other send may fail during a lossy outage.     *)
(***************************************************************************)
Reached(failed) == {d \in Validator : failed = 0 \/ d < failed}

Outage == clock < OutageEnd

Reachable(n, d) ==
  /\ up[d]
  /\ Len(wire[n][d]) < Backlog
  /\ ~(Outage /\ {n, d} \cap Isolated # {})

Outcome(n, failed) ==
  /\ failed \in {0} \cup (Validator \ {n})
  /\ \A d \in Reached(failed) \ {n} : Reachable(n, d)
  /\ failed # 0 => ~Reachable(n, failed) \/ (Lossy /\ Outage)

Send(n, proposal, dests) ==
  wire' = [wire EXCEPT ![n] =
             [d \in Validator |->
                IF d \in dests \ {n}
                  THEN Append(wire[n][d], Packet(n, proposal))
                  ELSE wire[n][d]]]

(***************************************************************************)
(* NodeState.broadcast_vote with the given block timestamp: propose when   *)
(* nothing is pending, sign through the journal, send.  A refusal of the   *)
(* journal leaves the proposal pending and sends nothing.  The node hears  *)
(* its own vote at its own place in the order.                             *)
(***************************************************************************)
Target(n, round, time) ==
  IF Idle(n) THEN Extension(n, round, time) ELSE pending[n]

\* Mutant: each vote starts a new finality machine.
HeldNone(n) == {}

Held(n) == IF Idle(n) THEN {} ELSE votes[n]

BroadcastVote(n, proposal, failed) ==
  /\ Len(proposal.block) <= MaxHeight
  /\ Outcome(n, failed)
  /\ IF MaySign(journal[n], Vote(proposal))
       THEN /\ journal' = [journal EXCEPT ![n] = GetOrSign(@, Vote(proposal))]
            /\ Send(n, proposal, Reached(failed))
            /\ Tally(n, proposal,
                     IF n \in Reached(failed) THEN Held(n) \cup {n} ELSE Held(n))
       ELSE /\ pending' = [pending EXCEPT ![n] = proposal]
            /\ votes' = [votes EXCEPT ![n] = Held(n)]
            /\ UNCHANGED <<chain, journal, wire>>
  /\ UNCHANGED <<clock, up, crashes>>

(***************************************************************************)
(* run_once.  Fresh is BoundedFinalityLoop's case: nothing pending, or the *)
(* proposal of this very slot, not yet sent to all.  Stale is what the     *)
(* installed RecoveringBoundedFinalityLoop adds: the proposal of an        *)
(* earlier slot, once per slot.                                            *)
(***************************************************************************)
Fresh(n) ==
  /\ Idle(n) \/ Time(pending[n].block) = SlotTime
  /\ ~(attempted[n] = SlotTime /\ succeeded[n] = SlotTime)

Stale(n) ==
  /\ Recovering
  /\ ~Idle(n)
  /\ Time(pending[n].block) # NoTime
  /\ Time(pending[n].block) < SlotTime
  /\ attempted[n] # SlotTime

LoopReady(n) ==
  /\ up[n]
  /\ SlotTime > 0
  /\ HeadTime(n) < SlotTime
  /\ Fresh(n) \/ Stale(n)

\* Mutant: timestamped proposals, too, are signed at round zero.
RunOnceRoundZero(n, failed) ==
  LET proposal == Target(n, 0, SlotTime)
      sent     == failed = 0 /\ MaySign(journal[n], Vote(proposal))
  IN  /\ LoopReady(n)
      /\ BroadcastVote(n, proposal, failed)
      /\ attempted' = [attempted EXCEPT ![n] = SlotTime]
      /\ succeeded' = IF sent THEN [succeeded EXCEPT ![n] = SlotTime]
                              ELSE succeeded

RunOnce(n, failed) ==
  LET proposal == Target(n, SlotTime, SlotTime)
      sent     == failed = 0 /\ MaySign(journal[n], Vote(proposal))
  IN  /\ LoopReady(n)
      /\ BroadcastVote(n, proposal, failed)
      /\ attempted' = [attempted EXCEPT ![n] = SlotTime]
      /\ succeeded' = IF sent THEN [succeeded EXCEPT ![n] = SlotTime]
                              ELSE succeeded

\* junca_broadcastVote: the same call, on the manual timestamp grid.
RpcBroadcast(n, failed) ==
  /\ ManualRpc
  /\ up[n]
  /\ BroadcastVote(n, Target(n, clock, clock), failed)
  /\ UNCHANGED <<attempted, succeeded>>

\* junca_propose: round 0, no timestamp, no signature.
RpcPropose(n) ==
  /\ ManualRpc
  /\ up[n]
  /\ Idle(n)
  /\ Len(chain[n]) < MaxHeight
  /\ pending' = [pending EXCEPT ![n] = Extension(n, 0, NoTime)]
  /\ votes' = [votes EXCEPT ![n] = {}]
  /\ UNCHANGED <<clock, up, chain, journal, attempted, succeeded, wire,
                 crashes>>
----------------------------------------------------------------------------
\* Mutant: a vote for the same height counts, whatever block it names.
MatchesHeight(p, proposal) == Len(p.block) = Len(proposal.block)

Matches(p, proposal) ==
  p.block = proposal.block /\ p.round = proposal.round

(***************************************************************************)
(* main.receive for one frame of s in d's queue: with nothing pending the  *)
(* node first proposes at the frame's own round and timestamp, and keeps   *)
(* that proposal even when the vote then turns out not to bind it.         *)
(***************************************************************************)
Deliver(s, d) ==
  /\ up[d]
  /\ wire[s][d] # <<>>
  /\ LET p        == Head(wire[s][d])
         proposal == Target(d, p.round, Time(p.block))
     IN  /\ Len(proposal.block) <= MaxHeight
         /\ Tally(d, proposal,
                  IF Matches(p, proposal) THEN Held(d) \cup {s} ELSE Held(d))
  /\ wire' = [wire EXCEPT ![s][d] = Tail(@)]
  /\ UNCHANGED <<clock, up, journal, attempted, succeeded, crashes>>

(***************************************************************************)
(* junca_submitVote: an RPC client presents the packet of any vote v has   *)
(* signed, however old.  Unlike receive it never proposes.                 *)
(***************************************************************************)
RpcSubmit(v, n) ==
  /\ Resubmission
  /\ up[n]
  /\ ~Idle(n)
  /\ Vote(pending[n]) \in journal[v].rows
  /\ Tally(n, pending[n], votes[n] \cup {v})
  /\ UNCHANGED <<clock, up, journal, attempted, succeeded, wire, crashes>>
----------------------------------------------------------------------------
(***************************************************************************)
(* A crash loses the proposal, its votes, the loop's markers and the       *)
(* frames waiting in the listen queue.  It may fall between the journal's  *)
(* commit and the first send: signed is then the vote already recorded.    *)
(***************************************************************************)
Lose(n, j) ==
  /\ up[n]
  /\ crashes < MaxCrashes
  /\ crashes' = crashes + 1
  /\ up' = [up EXCEPT ![n] = FALSE]
  /\ journal' = [journal EXCEPT ![n] = j]
  /\ pending' = [pending EXCEPT ![n] = NoProposal]
  /\ votes' = [votes EXCEPT ![n] = {}]
  /\ attempted' = [attempted EXCEPT ![n] = 0]
  /\ succeeded' = [succeeded EXCEPT ![n] = 0]
  /\ wire' = [s \in Validator |-> [wire[s] EXCEPT ![n] = <<>>]]
  /\ UNCHANGED <<clock, chain>>

Crash(n) == Lose(n, journal[n])

CrashAfterSigning(n) ==
  \E time \in {SlotTime, clock} :
    LET proposal == Target(n, time, time)
    IN  /\ \/ time = SlotTime /\ LoopReady(n)
           \/ time = clock /\ ManualRpc
        /\ Len(proposal.block) <= MaxHeight
        /\ MaySign(journal[n], Vote(proposal))
        /\ Lose(n, GetOrSign(journal[n], Vote(proposal)))

Restart(n) ==
  /\ ~up[n]
  /\ StartupAccepts(Restored(journal[n]))
  /\ journal' = [journal EXCEPT ![n] = Restored(@)]
  /\ up' = [up EXCEPT ![n] = TRUE]
  /\ UNCHANGED <<clock, chain, pending, votes, attempted, succeeded, wire,
                 crashes>>
----------------------------------------------------------------------------
NodeNext(n) ==
  \/ \E failed \in {0} \cup Validator :
       RunOnce(n, failed) \/ RpcBroadcast(n, failed)
  \/ RpcPropose(n)
  \/ \E s \in Validator : Deliver(s, n) \/ RpcSubmit(s, n)
  \/ Crash(n)
  \/ CrashAfterSigning(n)
  \/ Restart(n)

Next == Tick \/ \E n \in Validator : NodeNext(n)

Spec == Init /\ [][Next]_vars
----------------------------------------------------------------------------
Proposals == [block : Seq(Nat), round : Nat]

TypeOK ==
  /\ clock \in Nat
  /\ up \in [Validator -> BOOLEAN]
  /\ chain \in [Validator -> Seq(Nat)]
  /\ journal \in [Validator ->
       [rows : SUBSET [height : Nat, round : Nat, block : Seq(Nat)],
        mark : [height : Nat, round : Nat]]]
  /\ pending \in [Validator -> Proposals]
  /\ votes \in [Validator -> SUBSET Validator]
  /\ attempted \in [Validator -> Nat]
  /\ succeeded \in [Validator -> Nat]
  /\ wire \in [Validator -> [Validator ->
       Seq([from : Validator, block : Seq(Nat), round : Nat])]]
  /\ crashes \in Nat
----------------------------------------------------------------------------
(***************************************************************************)
(* No fork: of any two stores one is a prefix of the other, through        *)
(* crashes, lost frames and proposals that differ between validators.      *)
(***************************************************************************)
Agreement ==
  \A n, m \in Validator : \A i \in DOMAIN chain[n] \cap DOMAIN chain[m] :
    chain[n][i] = chain[m][i]

(***************************************************************************)
(* Every finalized block was signed by all three validators, and all three *)
(* journals still say so: a certificate can be rebuilt after any restart.  *)
(***************************************************************************)
Certified ==
  \A n, v \in Validator : \A h \in DOMAIN chain[n] :
    \E row \in journal[v].rows :
      row.height = h /\ row.block = SubSeq(chain[n], 1, h)

(***************************************************************************)
(* No double-sign, and none that a certificate could later be blamed for:  *)
(* through crashes and diverging proposals, whoever signs at one height    *)
(* and round signs the same block ("every validator derives the same       *)
(* value"), and every journal passes the integrity check of its next       *)
(* start (_validate_persisted_state).                                      *)
(***************************************************************************)
JournalSound ==
  /\ \A v, w \in Validator :
       \A r \in journal[v].rows : \A s \in journal[w].rows :
         Coordinate(r) = Coordinate(s) => r.block = s.block
  /\ \A v \in Validator : StartupAccepts(journal[v])

(***************************************************************************)
(* A vote counted or still on the wire is in its sender's journal: no      *)
(* crash can make a validator forget a vote another one may act on.        *)
(***************************************************************************)
VotesAreJournaled ==
  \A n, v \in Validator :
    /\ v \in votes[n] => Vote(pending[n]) \in journal[v].rows
    /\ \A i \in DOMAIN wire[v][n] :
         /\ wire[v][n][i].from = v
         /\ Vote(wire[v][n][i]) \in journal[v].rows

(***************************************************************************)
(* A pending proposal extends the head the store has now, so that the      *)
(* commit at quorum never raises "proposal no longer extends the head".    *)
(***************************************************************************)
PendingExtendsHead ==
  \A n \in Validator : ~Idle(n) =>
    pending[n].block = Append(chain[n], Time(pending[n].block))

\* The stores together are the abstract finalized ledger.
Ledger == INSTANCE FinalizedLedger WITH ledger <- chain
LedgerSpec == Ledger!Spec
=============================================================================
