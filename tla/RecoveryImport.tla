--------------------------- MODULE RecoveryImport ---------------------------
(***************************************************************************)
(* One validator catching up: it imports a block the others finalized from *)
(* the peer its advertisements select, under a durable recovery journal    *)
(* (ValidatorSyncRecovery in validator_node.py; PeerRegistry,              *)
(* RecoveryJournal and SynchronizedBlockImporter in peer_sync.py), while   *)
(* its own consensus may finalize the same blocks: the node starts its     *)
(* finality loop whatever recover() answered (validator_node.py:1121), so  *)
(* consensus waits neither for an import nor for a retry.                  *)
(*                                                                         *)
(* An import is accepted only with the votes of all three validators, so   *)
(* a block is its height: FinalizedLedger has one block per height, and no *)
(* validator more than one block ahead of this one.  Whether the hash a    *)
(* peer advertises is that block's is the flag honest.                     *)
(***************************************************************************)
EXTENDS Integers, FiniteSets

CONSTANTS
  Peer,        \* peer ids: numbers, as sources are ranked by id
  MaxHeight,   \* bound: the last height
  MaxCrashes   \* bound: crashes in a behaviour

ASSUME PeerAssumption == Peer \subseteq Nat /\ IsFiniteSet(Peer)
ASSUME ImportBounds ==
  /\ MaxHeight \in Nat
  /\ MaxCrashes \in Nat

VARIABLES
  head,      \* durable: the store's finalized height
  network,   \* the largest height finalized by any validator
  up,
  record,    \* durable: the recovery journal's record, or NoRecord
  action,    \* ValidatorSyncRecovery.recovery_action
  peers,     \* PeerRegistry: what each peer advertised, or Unknown
  import,    \* the import under way, NoImport when none
  crashes,
  overtaken  \* history: since the record was written, consensus finalized
             \* a block during its import or before its retry, or the
             \* store had the record's block from the start

vars == <<head, network, up, record, action, peers, import, crashes,
          overtaken>>
----------------------------------------------------------------------------
Unknown  == [height |-> 0, honest |-> TRUE, faults |-> 0, known |-> FALSE]
NoRecord == [status |-> "NONE", peer |-> 0, height |-> 0]
NoImport == [pc |-> "NONE", peer |-> 0, height |-> 0]

Init ==
  /\ head = 0 /\ network = 0
  /\ up = TRUE
  /\ record = NoRecord
  /\ action = "CLEAN"
  /\ peers = [p \in Peer |-> Unknown]
  /\ import = NoImport
  /\ crashes = 0
  /\ overtaken = FALSE

\* The other validators finalize a block this one has not.
OthersFinalize ==
  /\ network = head
  /\ network < MaxHeight
  /\ network' = network + 1
  /\ UNCHANGED <<head, up, record, action, peers, import, crashes,
                 overtaken>>

\* This validator finalizes the next block through its own consensus.
ConsensusCommit ==
  /\ up
  /\ head < MaxHeight
  /\ head' = head + 1
  /\ network' = IF network < head + 1 THEN head + 1 ELSE network
  /\ overtaken' =
       (overtaken \/ /\ record # NoRecord
                     /\ import # NoImport \/ action = "RETRY_REQUIRED")
  /\ UNCHANGED <<up, record, action, peers, import, crashes>>
----------------------------------------------------------------------------
(***************************************************************************)
(* PeerRegistry.observe: a peer's height may not regress, nor its hash for *)
(* one height change; its faults stay.                                     *)
(***************************************************************************)
Observe(p) ==
  /\ up
  /\ \E h \in 0 .. MaxHeight, honest \in BOOLEAN :
       /\ peers[p].known =>
            \/ h > peers[p].height
            \/ h = peers[p].height /\ honest = peers[p].honest
       /\ peers' = [peers EXCEPT ![p] =
                      [height |-> h, honest |-> honest,
                       faults |-> peers[p].faults, known |-> TRUE]]
  /\ UNCHANGED <<head, network, up, record, action, import, crashes,
                 overtaken>>

\* Three faults make a peer ineligible.
FaultLimit == 3

\* Mutant: faults are not looked at.
FaultyToo == {p \in Peer : peers[p].known /\ peers[p].height > head}

Candidates ==
  {p \in Peer : /\ peers[p].known
                /\ peers[p].faults < FaultLimit
                /\ peers[p].height > head}

\* The order of select_source: highest, then least faulty, then id.
Preferred(p, q) ==
  \/ peers[p].height > peers[q].height
  \/ /\ peers[p].height = peers[q].height
     /\ \/ peers[p].faults < peers[q].faults
        \/ peers[p].faults = peers[q].faults /\ p <= q

Selected(p) == p \in Candidates /\ \A q \in Candidates : Preferred(p, q)

Blame(p) == [peers EXCEPT ![p].faults = @ + 1]
----------------------------------------------------------------------------
(***************************************************************************)
(* import_authenticated_finalized for a block executed on this head or an  *)
(* earlier one.  After a restart that asked for a retry, the candidate has *)
(* to be the record's, whose record is then dropped.                       *)
(***************************************************************************)
ImportCall(p) ==
  /\ up
  /\ import = NoImport
  /\ \E h \in 1 .. network :
       /\ h <= head + 1
       /\ action = "RETRY_REQUIRED" =>
            record # NoRecord /\ record.peer = p /\ record.height = h
       /\ import' = [pc |-> "SELECT", peer |-> p, height |-> h]
  /\ record' = IF action = "RETRY_REQUIRED" THEN NoRecord ELSE record
  /\ action' = IF action = "COMMIT_CONFIRMED" THEN "CLEAN" ELSE action
  /\ UNCHANGED <<head, network, up, peers, crashes, overtaken>>

\* The peer advertises this height with another hash.
AdvertisedOther ==
  peers[import.peer].height = import.height /\ ~peers[import.peer].honest

\* import_finalized up to the durable PREPARED record.
ImportPrepare ==
  /\ import.pc = "SELECT"
  /\ Selected(import.peer)
  /\ peers[import.peer].height >= import.height
  /\ ~AdvertisedOther
  /\ record = NoRecord
  /\ record' = [status |-> "PREPARED", peer |-> import.peer,
                height |-> import.height]
  /\ import' = [import EXCEPT !.pc = "PREPARED"]
  /\ overtaken' = (import.height <= head)
  /\ UNCHANGED <<head, network, up, action, peers, crashes>>

\* Every other outcome raises; a source caught lying is charged a fault.
ImportRefuse ==
  /\ import.pc = "SELECT"
  /\ IF Selected(import.peer) /\ AdvertisedOther
     THEN peers' = Blame(import.peer)
     ELSE /\ \/ ~Selected(import.peer)
             \/ peers[import.peer].height < import.height
             \/ record # NoRecord
          /\ UNCHANGED peers
  /\ import' = NoImport
  /\ UNCHANGED <<head, network, up, record, action, crashes, overtaken>>

\* Mutant: the record is marked before the store's commit.
MarkFirst ==
  /\ import.pc = "PREPARED"
  /\ record' = [record EXCEPT !.status = "COMMITTED"]
  /\ import' = [import EXCEPT !.pc = "COMMITTED"]
  /\ UNCHANGED <<head, network, up, action, peers, crashes, overtaken>>

\* commit_finalized stores the block.
ImportCommit ==
  /\ import.pc = "PREPARED"
  /\ head + 1 = import.height
  /\ head' = import.height
  /\ import' = [import EXCEPT !.pc = "COMMITTED"]
  /\ UNCHANGED <<network, up, record, action, peers, crashes, overtaken>>

\* The commit raises: always for a block that no longer extends the head,
\* and then the PREPARED record stays.
ImportFail ==
  /\ import.pc = "PREPARED"
  /\ record' = IF head + 1 = import.height THEN NoRecord ELSE record
  /\ peers' = Blame(import.peer)
  /\ import' = NoImport
  /\ UNCHANGED <<head, network, up, action, crashes, overtaken>>

\* The store has the block: the record may say so.
ImportMark ==
  /\ import.pc = "COMMITTED"
  /\ record' = [record EXCEPT !.status = "COMMITTED"]
  /\ import' = [import EXCEPT !.pc = "MARKED"]
  /\ UNCHANGED <<head, network, up, action, peers, crashes, overtaken>>

\* Mutant: a finished import keeps its record.
FinishKeeping ==
  /\ import.pc = "MARKED"
  /\ import' = NoImport
  /\ action' = "CLEAN"
  /\ UNCHANGED <<head, network, up, record, peers, crashes, overtaken>>

\* The record is removed and the retry, if it was one, is settled.
ImportFinish ==
  /\ import.pc = "MARKED"
  /\ record' = NoRecord
  /\ import' = NoImport
  /\ action' = "CLEAN"
  /\ UNCHANGED <<head, network, up, peers, crashes, overtaken>>
----------------------------------------------------------------------------
\* A crash loses the registry and the import under way.
Crash ==
  /\ up
  /\ crashes < MaxCrashes
  /\ crashes' = crashes + 1
  /\ up' = FALSE
  /\ peers' = [p \in Peer |-> Unknown]
  /\ import' = NoImport
  /\ UNCHANGED <<head, network, record, action, overtaken>>

(***************************************************************************)
(* RecoveryJournal.recover: a record of the head is confirmed, one of the  *)
(* next height is to be retried; with any other the node does not start.   *)
(***************************************************************************)
Reconciles == record = NoRecord \/ record.height \in {head, head + 1}

Restart ==
  /\ ~up
  /\ Reconciles
  /\ up' = TRUE
  /\ record' = IF record.height = head THEN NoRecord ELSE record
  /\ action' = IF record = NoRecord THEN "CLEAN"
               ELSE IF record.height = head THEN "COMMIT_CONFIRMED"
               ELSE "RETRY_REQUIRED"
  /\ UNCHANGED <<head, network, peers, import, crashes, overtaken>>

Next ==
  \/ OthersFinalize
  \/ ConsensusCommit
  \/ \E p \in Peer : Observe(p) \/ ImportCall(p)
  \/ ImportPrepare \/ ImportRefuse
  \/ ImportCommit \/ ImportFail \/ ImportMark \/ ImportFinish
  \/ Crash \/ Restart

Spec == Init /\ [][Next]_vars
----------------------------------------------------------------------------
(***************************************************************************)
(* What recovery_action, the record and the import under way can be.       *)
(***************************************************************************)
TypeOK ==
  /\ head \in 0 .. MaxHeight /\ network \in head .. MaxHeight
  /\ up \in BOOLEAN
  /\ crashes \in 0 .. MaxCrashes /\ overtaken \in BOOLEAN
  /\ action \in {"CLEAN", "RETRY_REQUIRED", "COMMIT_CONFIRMED"}
  /\ record \in {NoRecord} \cup
       [status : {"PREPARED", "COMMITTED"}, peer : Peer,
        height : 1 .. MaxHeight]
  /\ import \in {NoImport} \cup
       [pc : {"SELECT", "PREPARED", "COMMITTED", "MARKED"}, peer : Peer,
        height : 1 .. MaxHeight]
  /\ peers \in [Peer -> [height : 0 .. MaxHeight, honest : BOOLEAN,
                         faults : 0 .. FaultLimit, known : BOOLEAN]]

(***************************************************************************)
(* Crashes alone, at any steps of an import and of its retries, never      *)
(* leave a record that recover() refuses (peer_sync.py:235): it does so    *)
(* only when the head moved past the record's block, and for that          *)
(* consensus finalized a block during the import or before the retry, or   *)
(* the candidate was one the store had.                                    *)
(***************************************************************************)
RestartReconciles == ~Reconciles => overtaken /\ record.height < head

(***************************************************************************)
(* A record says COMMITTED only of a block the store holds, at whatever    *)
(* step the node stopped.                                                  *)
(***************************************************************************)
CommittedIsStored == record.status = "COMMITTED" => head >= record.height

(***************************************************************************)
(* Single flight: from its first write to its last, an import is the one   *)
(* the durable record names; and a process that runs none, and was not     *)
(* told to retry, is blocked by no record but that of an import which      *)
(* failed because the store had its block.                                 *)
(***************************************************************************)
SingleFlight ==
  /\ import.pc \in {"PREPARED", "COMMITTED", "MARKED"} =>
       record.peer = import.peer /\ record.height = import.height
  /\ up /\ import = NoImport /\ action # "RETRY_REQUIRED" =>
       \/ record = NoRecord
       \/ record.status = "PREPARED" /\ record.height <= head
=============================================================================
