------------------------ MODULE RecoveryImportProofs ------------------------
(***************************************************************************)
(* Proofs about the recovery import, for any peers, heights and number of  *)
(* crashes, whatever consensus finalizes meanwhile: its types, and which   *)
(* records a restart can find.                                             *)
(***************************************************************************)
EXTENDS RecoveryImport, TLAPS

----------------------------------------------------------------------------
(***************************************************************************)
(* Types.  A fault is charged to a peer that was below the limit when it   *)
(* was selected and that nobody else can have charged since; a block       *)
(* imported is one the network has finalized; the record stays while the   *)
(* import it was written for runs.                                         *)
(***************************************************************************)
Sourced ==
  /\ import.pc = "PREPARED" => peers[import.peer].faults < FaultLimit
  /\ import.pc \in {"PREPARED", "COMMITTED", "MARKED"} => record # NoRecord
  /\ import # NoImport => up /\ import.height <= network

TypeInv == TypeOK /\ Sourced

\* The initial state is well typed.
LEMMA TypeInit == Init => TypeInv
<1> SUFFICES ASSUME Init PROVE TypeInv
  OBVIOUS
<1> USE ImportBounds DEF Init
<1>1. peers \in [Peer -> [height : 0 .. MaxHeight, honest : BOOLEAN,
                          faults : 0 .. FaultLimit, known : BOOLEAN]]
  BY DEF Unknown, FaultLimit
<1>2. Sourced
  BY DEF Sourced, NoImport
<1>3. up \in BOOLEAN /\ overtaken \in BOOLEAN
  BY Zenon
<1>4. /\ head \in 0 .. MaxHeight /\ network \in head .. MaxHeight
      /\ crashes \in 0 .. MaxCrashes
      /\ action = "CLEAN" /\ record = NoRecord /\ import = NoImport
  OBVIOUS
<1> HIDE DEF Init
<1>5. TypeOK
  BY <1>1, <1>3, <1>4 DEF TypeOK
<1>6. QED
  BY <1>2, <1>5 DEF TypeInv

\* Every step keeps the types.
LEMMA TypeNext ==
  ASSUME TypeInv, [Next]_vars
  PROVE  TypeInv'
<1> USE ImportBounds DEF TypeInv, TypeOK, Sourced, NoRecord, NoImport
<1>1. CASE OthersFinalize
  BY <1>1 DEF OthersFinalize
<1>2. CASE ConsensusCommit
  BY <1>2 DEF ConsensusCommit
<1>3. ASSUME NEW p \in Peer, Observe(p)
      PROVE  TypeInv'
  BY <1>3 DEF Observe
<1>4. ASSUME NEW p \in Peer, ImportCall(p)
      PROVE  TypeInv'
  BY <1>4 DEF ImportCall
<1>5. CASE ImportPrepare
  BY <1>5 DEF ImportPrepare, Selected, Candidates
<1>6. CASE ImportRefuse
  BY <1>6 DEF ImportRefuse, Selected, Candidates, Blame, FaultLimit
<1>7. CASE ImportCommit
  BY <1>7 DEF ImportCommit
<1>8. CASE ImportFail
  BY <1>8 DEF ImportFail, Blame, FaultLimit
<1>9. CASE ImportMark
  <2>1. import.peer \in Peer /\ import.height \in 1 .. MaxHeight
    BY <1>9 DEF ImportMark
  <2>2. record' \in [status : {"PREPARED", "COMMITTED"}, peer : Peer,
                     height : 1 .. MaxHeight]
    BY <1>9 DEF ImportMark
  <2>3. import' \in [pc : {"SELECT", "PREPARED", "COMMITTED", "MARKED"},
                     peer : Peer, height : 1 .. MaxHeight]
    BY <1>9 DEF ImportMark
  <2>4. QED
    BY <1>9, <2>1, <2>2, <2>3 DEF ImportMark
<1>10. CASE ImportFinish
  BY <1>10 DEF ImportFinish
<1>11. CASE Crash
  <2>1. [p \in Peer |-> Unknown] \in
          [Peer -> [height : 0 .. MaxHeight, honest : BOOLEAN,
                    faults : 0 .. FaultLimit, known : BOOLEAN]]
    BY DEF Unknown, FaultLimit
  <2>2. crashes' \in 0 .. MaxCrashes
    BY <1>11 DEF Crash
  <2>3. up' = FALSE /\ UNCHANGED <<head, network, record, action, overtaken>>
    BY <1>11 DEF Crash
  <2>4. import' = NoImport
    BY <1>11 DEF Crash
  <2>5. peers' = [p \in Peer |-> Unknown]
    BY <1>11 DEF Crash
  <2>6. Sourced'
    BY <2>4
  <2>7. QED
    BY <2>1, <2>2, <2>3, <2>4, <2>5, <2>6
<1>12. CASE Restart
  BY <1>12 DEF Restart
<1>13. CASE UNCHANGED vars
  BY <1>13 DEF vars
<1>14. QED
  BY <1>1, <1>2, <1>3, <1>4, <1>5, <1>6, <1>7, <1>8, <1>9, <1>10, <1>11,
     <1>12, <1>13 DEF Next

\* The import's state, its record and the registry keep their types, and no
\* peer is charged a fault beyond the limit.
THEOREM TypeCorrect == Spec => []TypeOK
<1>1. TypeInv => TypeOK
  BY DEF TypeInv
<1>2. QED
  BY <1>1, TypeInit, TypeNext, PTL DEF Spec
----------------------------------------------------------------------------
(***************************************************************************)
(* Restarts.  Each position of the import, and of a process without one,   *)
(* has its relation between record and head.  As long as nothing overtook  *)
(* the record, its block is the one after the head until the store has it, *)
(* and the head from then on.                                              *)
(***************************************************************************)
Positions ==
  /\ record # NoRecord => record.height <= head + 1
  /\ import.pc = "SELECT" =>
       /\ import.height <= head + 1
       /\ record # NoRecord =>
            overtaken /\ record.status = "PREPARED" /\ record.height <= head
  /\ import.pc = "PREPARED" =>
       /\ record.status = "PREPARED"
       /\ import.height <= head \/ import.height = head + 1
       /\ overtaken \/ import.height = head + 1
  /\ import.pc \in {"COMMITTED", "MARKED"} =>
       import.height <= head /\ (overtaken \/ import.height = head)

\* The record of a process that imports nothing.
Idle ==
  import = NoImport /\ record # NoRecord /\ ~overtaken =>
    IF up THEN action = "RETRY_REQUIRED" /\ record.height = head + 1
          ELSE Reconciles

ImportInv ==
  /\ TypeInv
  /\ Positions
  /\ Idle
  /\ SingleFlight
  /\ CommittedIsStored

\* At first there is nothing to reconcile.
LEMMA ImportInit == Init => ImportInv
<1> SUFFICES ASSUME Init PROVE ImportInv
  OBVIOUS
<1>1. TypeInv
  BY TypeInit
<1>2. QED
  BY <1>1 DEF ImportInv, Init, Positions, Idle, SingleFlight,
              CommittedIsStored, NoRecord, NoImport

\* Every step keeps the invariant.
LEMMA ImportNext ==
  ASSUME ImportInv, [Next]_vars
  PROVE  ImportInv'
<1>1. TypeInv'
  BY TypeNext DEF ImportInv
<1>2. (Positions /\ Idle /\ SingleFlight /\ CommittedIsStored)'
  <2> USE DEF ImportInv, TypeInv, TypeOK, Sourced, Positions, Idle,
              SingleFlight, CommittedIsStored, Reconciles, NoRecord, NoImport
  <2>1. CASE OthersFinalize
    BY <2>1 DEF OthersFinalize
  <2>2. CASE ConsensusCommit
    <3> USE <2>2 DEF ConsensusCommit
    <3>1. head' = head + 1 /\ UNCHANGED <<up, record, action, import>>
      OBVIOUS
    <3>2. \/ overtaken'
          \/ /\ overtaken = overtaken'
             /\ \/ record = NoRecord
                \/ import = NoImport /\ action # "RETRY_REQUIRED"
      OBVIOUS
    <3>3. Positions'
      BY <3>1, <3>2
    <3>4. Idle'
      BY <3>1, <3>2
    <3>5. SingleFlight' /\ CommittedIsStored'
      BY <3>1
    <3>6. QED
      BY <3>3, <3>4, <3>5
  <2>3. ASSUME NEW p \in Peer, Observe(p)
        PROVE  (Positions /\ Idle /\ SingleFlight /\ CommittedIsStored)'
    BY <2>3 DEF Observe
  <2>4. ASSUME NEW p \in Peer, ImportCall(p)
        PROVE  (Positions /\ Idle /\ SingleFlight /\ CommittedIsStored)'
    BY <2>4 DEF ImportCall
  <2>5. CASE ImportPrepare
    BY <2>5 DEF ImportPrepare
  <2>6. CASE ImportRefuse
    BY <2>6 DEF ImportRefuse
  <2>7. CASE ImportCommit
    BY <2>7 DEF ImportCommit
  <2>8. CASE ImportFail
    BY <2>8 DEF ImportFail
  <2>9. CASE ImportMark
    BY <2>9 DEF ImportMark
  <2>10. CASE ImportFinish
    BY <2>10 DEF ImportFinish
  <2>11. CASE Crash
    BY <2>11 DEF Crash
  <2>12. CASE Restart
    BY <2>12 DEF Restart
  <2>13. CASE UNCHANGED vars
    BY <2>13 DEF vars
  <2>14. QED
    BY <2>1, <2>2, <2>3, <2>4, <2>5, <2>6, <2>7, <2>8, <2>9, <2>10, <2>11,
       <2>12, <2>13 DEF Next
<1>3. QED
  BY <1>1, <1>2 DEF ImportInv

\* The invariant holds in every reachable state.
THEOREM ImportInvariance == Spec => []ImportInv
<1>1. ImportInv /\ [Next]_vars => ImportInv'
  BY ImportNext
<1>2. QED
  BY <1>1, ImportInit, PTL DEF Spec

\* However often the node stops, and wherever in an import: recover()
\* refuses a record only after consensus overtook its import or its retry,
\* or when the store had its block before it was written.
THEOREM RestartReconcilesHolds == Spec => []RestartReconciles
<1>1. ImportInv => RestartReconciles
  BY DEF ImportInv, TypeInv, TypeOK, Sourced, Positions, Idle, SingleFlight,
         Reconciles, RestartReconciles, NoRecord, NoImport
<1>2. QED
  BY <1>1, ImportInvariance, PTL

\* A record marked COMMITTED is of a block the store has.
THEOREM CommittedIsStoredHolds == Spec => []CommittedIsStored
<1>1. ImportInv => CommittedIsStored
  BY DEF ImportInv
<1>2. QED
  BY <1>1, ImportInvariance, PTL

\* The durable record is the import under way, and a process that was not
\* told to retry is left with no record but that of a block it has.
THEOREM SingleFlightHolds == Spec => []SingleFlight
<1>1. ImportInv => SingleFlight
  BY DEF ImportInv
<1>2. QED
  BY <1>1, ImportInvariance, PTL
=============================================================================
