-------------------------- MODULE BridgeRelayProofs --------------------------
(***************************************************************************)
(* What the relay promises for every set of messages, workers and keys,    *)
(* every limit and any number of crashes, late workers and governance      *)
(* calls.                                                                  *)
(***************************************************************************)
EXTENDS BridgeRelay, FoldProofs, FiniteSetTheorems, SequenceTheorems, TLAPS

(***************************************************************************)
(* The contract remembers what was minted.                                 *)
(***************************************************************************)
Remembered == \A m \in Message : Minted(m) => m.digest \in contract.digests

IInv == TypeOK /\ AtMostOnce /\ Remembered /\ QuorumIsPossible

\* Nothing is queued, in memory or minted at first.
LEMMA InitInvariant == Init => IInv
<1> SUFFICES ASSUME Init PROVE IInv
  OBVIOUS
<1> USE DEF Init
<1>1. TypeOK
  <2>1. queue \in [rows : [Message -> Rows], order : Seq(Message)]
    BY DEF EmptyQueue, Absent, Rows
  <2>2. \A m \in Message :
          queue.rows[m].state = "LEASED" <=> queue.rows[m].owner \in Worker
    BY DeploymentAssumption DEF EmptyQueue, Absent
  <2>3. contract \in Storage
    BY DeploymentAssumption DEF Deployed, Storage
  <2>4. today \in 0..LastDay
    BY RelayBoundAssumption
  <2> QED
    BY <2>1, <2>2, <2>3, <2>4 DEF TypeOK
<1>2. AtMostOnce /\ Remembered
  BY DEF AtMostOnce, Remembered, Minted
<1>3. QuorumIsPossible
  <2>1. Cardinality(Relayers) \in Nat
    BY DeploymentAssumption, FS_Subset, FS_CardinalityType
  <2> QED
    BY <2>1, DeploymentAssumption DEF QuorumIsPossible, Deployed
<1> QED
  BY <1>1, <1>2, <1>3 DEF IInv

----------------------------------------------------------------------------
\* A worker with a task has a message.
LEMMA TaskFacts ==
  ASSUME TypeOK, NEW w \in Worker, task[w].step # "idle"
  PROVE  task[w] \in Tasks /\ task[w].message \in Message
  BY DEF TypeOK, Tasks, Idle

LEMMA ExecuteType ==
  ASSUME NEW c \in Storage, NEW m, NEW day \in Nat,
         m.value \in Nat, m.digest \in Nat, m.tx \in Nat, m.nonce \in Nat
  PROVE  Execute(c, m, day) \in Storage
<1> DEFINE sum == ExecutedSoFar(c, day) + m.value
           supply == c.supply + m.value
           digests == c.digests \cup {m.digest}
           txs == c.txs \cup {m.tx}
           nonces == c.nonces \cup {m.nonce}
<1>1. /\ sum \in Nat /\ supply \in Nat /\ digests \in SUBSET Nat
      /\ txs \in SUBSET Nat /\ nonces \in SUBSET Nat
  BY DEF ExecutedSoFar, Storage
<1>2. Execute(c, m, day) =
        [c EXCEPT !.day = day, !.executedToday = sum, !.supply = supply,
                  !.digests = digests, !.txs = txs, !.nonces = nonces]
  BY DEF Execute
<1> HIDE DEF sum, supply, digests, txs, nonces
<1>3. ASSUME NEW e \in Storage
      PROVE  [e EXCEPT !.day = day, !.executedToday = sum] \in Storage
  BY <1>1 DEF Storage
<1>4. ASSUME NEW e \in Storage
      PROVE  [e EXCEPT !.supply = supply, !.digests = digests] \in Storage
  BY <1>1 DEF Storage
<1>5. ASSUME NEW e \in Storage
      PROVE  [e EXCEPT !.txs = txs, !.nonces = nonces] \in Storage
  BY <1>1 DEF Storage
<1> DEFINE c1 == [c EXCEPT !.day = day, !.executedToday = sum]
           c2 == [c1 EXCEPT !.supply = supply, !.digests = digests]
           c3 == [c2 EXCEPT !.txs = txs, !.nonces = nonces]
<1>6. c3 \in Storage
  <2>1. c1 \in Storage
    BY <1>3
  <2>2. c2 \in Storage
    BY <1>4, <2>1
  <2> QED
    BY <1>5, <2>2
<1>7. Execute(c, m, day) = c3
  BY <1>2
<1> QED
  BY <1>6, <1>7

\* Minting keeps the invariant of the ledger: the message is not in it yet.
LEMMA MintInvariant ==
  ASSUME IInv, NEW m \in Message, NEW signers \in SUBSET Key,
         Executes(contract, m, signers, today, MaxSupply), Mint(m)
  PROVE  /\ contract' \in Storage /\ minted' \in [Message -> Seq(Nat)]
         /\ AtMostOnce' /\ Remembered' /\ QuorumIsPossible'
<1> USE DEF IInv, TypeOK
<1>1. /\ m.digest \in Nat /\ m.tx \in Nat /\ m.nonce \in Nat /\ m.value \in Nat
      /\ today \in Nat
  BY MessageAssumption, RelayBoundAssumption
<1>2. contract' \in Storage
  BY <1>1, ExecuteType DEF Mint
<1>3. /\ contract'.relayers = contract.relayers
      /\ contract'.threshold = contract.threshold
      /\ contract'.digests = contract.digests \cup {m.digest}
  BY DEF Mint, Execute, Storage
<1>4. m.digest \notin contract.digests
  BY DEF Executes, Replayed
<1>5. minted[m] = <<>>
  BY <1>4 DEF Remembered, Minted
<1>6. /\ minted' = [minted EXCEPT ![m] = <<today>>]
      /\ minted' \in [Message -> Seq(Nat)]
  BY <1>1, <1>5 DEF Mint
<1>7. AtMostOnce'
  BY <1>6 DEF AtMostOnce
<1>8. Remembered'
  <2> SUFFICES ASSUME NEW n \in Message, Minted(n)'
               PROVE  n.digest \in contract'.digests
    BY DEF Remembered
  <2>1. CASE n = m
    BY <1>3, <2>1
  <2>2. CASE n # m
    BY <1>3, <1>6, <2>2 DEF Minted, Remembered
  <2> QED
    BY <2>1, <2>2
<1>9. QuorumIsPossible'
  BY <1>3 DEF QuorumIsPossible
<1> QED
  BY <1>2, <1>6, <1>7, <1>8, <1>9

----------------------------------------------------------------------------
\* Steps of the queue's rows and of the workers' memory.
Queued == queue \in [rows : [Message -> Rows], order : Seq(Message)]
Owned == \A m \in Message :
           queue.rows[m].state = "LEASED" <=> queue.rows[m].owner \in Worker
Remember == task \in [Worker -> {Idle} \cup Tasks]

LEMMA EnqueueInvariant ==
  ASSUME IInv, NEW m \in Message, EnqueueMessage(m) PROVE IInv'
<1> USE DEF EnqueueMessage
<1>1. queue.rows[m].state = "ABSENT" /\ queue.rows[m].owner \notin Worker
  BY DEF IInv, TypeOK, MayEnqueue, Present, SameKey, Rows
<1>2. PICK place \in 1..(Len(queue.order) + 1) :
        queue' = Enqueue(queue, m, place)
  OBVIOUS
<1> DEFINE rows  == [queue.rows EXCEPT ![m] = [@ EXCEPT !.state = "PENDING"]]
           order == InsertAt(queue.order, place, m)
<1>3. queue' = [rows |-> rows, order |-> order]
  BY <1>2 DEF Enqueue
<1>4. queue.rows \in [Message -> Rows] /\ queue.order \in Seq(Message)
  BY DEF IInv, TypeOK
<1>5. rows \in [Message -> Rows]
  <2>1. [queue.rows[m] EXCEPT !.state = "PENDING"] \in Rows
    BY <1>4 DEF Rows
  <2> QED
    BY <1>4, <2>1
<1>6. order \in Seq(Message)
  <2>1. \A i \in 1..(place - 1) : i \in 1..Len(queue.order)
    BY <1>2, <1>4
  <2>2. \A i \in place..Len(queue.order) : i \in 1..Len(queue.order)
    BY <1>2, <1>4
  <2>3. /\ SubSeq(queue.order, 1, place - 1) \in Seq(Message)
        /\ SubSeq(queue.order, place, Len(queue.order)) \in Seq(Message)
    BY <1>2, <1>4, <2>1, <2>2, SubSeqProperties
  <2> QED
    BY <2>3 DEF InsertAt
<1>7. Owned'
  <2>1. rows[m].state = "PENDING" /\ rows[m].owner = queue.rows[m].owner
    BY <1>4 DEF Rows
  <2>2. \A n \in Message \ {m} : rows[n] = queue.rows[n]
    BY <1>4
  <2> QED
    BY <1>1, <1>3, <2>1, <2>2 DEF IInv, TypeOK, Owned
<1> HIDE DEF rows, order
<1>8. Queued'
  BY <1>3, <1>5, <1>6 DEF Queued
<1> QED
  BY <1>7, <1>8
  DEF IInv, TypeOK, Queued, Owned, Minted, AtMostOnce, Remembered,
      QuorumIsPossible

\* What a call of the journal on one present row has to respect.
LEMMA RowInvariant ==
  ASSUME IInv, NEW m \in Message, NEW row \in Rows,
         queue' = [queue EXCEPT !.rows[m] = row],
         row.state = "LEASED" <=> row.owner \in Worker
  PROVE  Queued' /\ Owned'
<1>1. queue.rows \in [Message -> Rows] /\ queue.order \in Seq(Message)
  BY DEF IInv, TypeOK
<1>2. /\ queue'.rows = [queue.rows EXCEPT ![m] = row]
      /\ queue'.order = queue.order
      /\ queue' = [rows |-> queue'.rows, order |-> queue'.order]
  BY DEF IInv, TypeOK
<1>3. Queued'
  <2>1. queue'.rows \in [Message -> Rows]
    BY <1>1, <1>2
  <2> QED
    BY <1>1, <1>2, <2>1 DEF Queued
<1>4. Owned'
  BY <1>1, <1>2 DEF IInv, TypeOK, Owned
<1> QED
  BY <1>3, <1>4

LEMMA LeaseInvariant ==
  ASSUME IInv, NEW w \in Worker, LeaseNext(w) PROVE IInv'
<1>1. PICK m \in FirstLeasable(queue, expired) :
        /\ queue' = Lease(queue, m, w)
        /\ expired' = expired \ {m}
        /\ task' = [task EXCEPT ![w] = Task("execute", m)]
  BY DEF LeaseNext
<1>2. m \in Message
  BY DEF FirstLeasable, IInv, TypeOK
<1>3. queue.rows[m] \in Rows
  BY <1>2 DEF IInv, TypeOK
<1> DEFINE row == [state |-> "LEASED", attempts |-> queue.rows[m].attempts + 1,
                   owner |-> w]
<1>4. row \in Rows
  BY <1>3 DEF Rows
<1>5. queue' = [queue EXCEPT !.rows[m] = row]
  BY <1>1 DEF Lease
<1>7. row.state = "LEASED" /\ row.owner \in Worker
  OBVIOUS
<1> HIDE DEF row
<1>8. Queued' /\ Owned'
  BY <1>2, <1>4, <1>5, <1>7, RowInvariant
<1>9. Remember'
  BY <1>1, <1>2 DEF IInv, TypeOK, Remember, Tasks, Task
<1> QED
  BY <1>1, <1>8, <1>9
  DEF LeaseNext, IInv, TypeOK, Queued, Owned, Remember, Minted, AtMostOnce,
      Remembered, QuorumIsPossible

LEMMA SendInvariant ==
  ASSUME IInv, NEW w \in Worker, Send(w) PROVE IInv'
<1>1. PICK m \in Message : m = task[w].message
  BY TaskFacts DEF Send, IInv
<1>2. PICK signers \in SUBSET Key :
        IF Executes(contract, m, signers, today, MaxSupply)
          THEN /\ Mint(m)
               /\ task' = [task EXCEPT ![w] = Task("acknowledge", m)]
          ELSE /\ task' = [task EXCEPT ![w] = Task("fail", m)]
               /\ UNCHANGED <<contract, minted>>
  BY <1>1 DEF Send
<1>3. UNCHANGED <<today, queue, expired, faults, changes, overruns>>
  BY DEF Send
<1>4. CASE Executes(contract, m, signers, today, MaxSupply)
  <2>1. /\ contract' \in Storage /\ minted' \in [Message -> Seq(Nat)]
        /\ AtMostOnce' /\ Remembered' /\ QuorumIsPossible'
    BY <1>1, <1>2, <1>4, MintInvariant
  <2>2. task' = [task EXCEPT ![w] = Task("acknowledge", m)]
    BY <1>2, <1>4
  <2>3. Remember'
    BY <1>1, <2>2 DEF IInv, TypeOK, Remember, Tasks, Task
  <2> QED
    BY <1>3, <2>1, <2>3 DEF IInv, TypeOK, Remember
<1>5. CASE ~Executes(contract, m, signers, today, MaxSupply)
  <2>1. /\ task' = [task EXCEPT ![w] = Task("fail", m)]
        /\ UNCHANGED <<contract, minted>>
    BY <1>2, <1>5
  <2>2. Remember'
    BY <1>1, <2>1 DEF IInv, TypeOK, Remember, Tasks, Task
  <2> QED
    BY <1>3, <2>1, <2>2
    DEF IInv, TypeOK, Remember, Minted, AtMostOnce, Remembered,
        QuorumIsPossible
<1> QED
  BY <1>4, <1>5

\* A worker that lets go of its message.
LEMMA DropKeeps ==
  ASSUME IInv, NEW w \in Worker, Drop(w)
  PROVE  Remember'
  BY DEF IInv, TypeOK, Drop, Remember, Idle

LEMMA ReportInvariant ==
  ASSUME IInv, NEW w \in Worker, ReportSuccess(w) PROVE IInv'
<1> DEFINE m == task[w].message
           row == [queue.rows[m] EXCEPT !.state = "EXECUTED", !.owner = NoOwner]
<1>1. m \in Message
  BY TaskFacts DEF ReportSuccess, IInv
<1>2. Drop(w)
  BY DEF ReportSuccess
<1>3. Remember'
  BY <1>2, DropKeeps
<1>4. queue' = [queue EXCEPT !.rows[m] = row] \/ queue' = queue
  BY DEF ReportSuccess, Acknowledge
<1>5. /\ row \in Rows
      /\ row.state = "EXECUTED" /\ row.owner \notin Worker
  <2>1. queue.rows[m] \in Rows
    BY <1>1 DEF IInv, TypeOK
  <2> QED
    BY <2>1, DeploymentAssumption DEF Rows
<1> HIDE DEF m, row
<1>6. Queued' /\ Owned'
  <2>1. CASE queue' = queue
    BY <2>1 DEF IInv, TypeOK, Queued, Owned
  <2>2. CASE queue' = [queue EXCEPT !.rows[m] = row]
    BY <1>1, <1>5, <2>2, RowInvariant
  <2> QED
    BY <1>4, <2>1, <2>2
<1> QED
  BY <1>3, <1>6
  DEF ReportSuccess, IInv, TypeOK, Queued, Owned, Remember, Minted,
      AtMostOnce, Remembered, QuorumIsPossible

LEMMA ReadFailedInvariant ==
  ASSUME IInv, NEW w \in Worker, ReadFailed(w) PROVE IInv'
<1> DEFINE m == task[w].message
<1>1. m \in Message
  BY TaskFacts DEF ReadFailed, IInv
<1>2. UNCHANGED <<today, queue, expired, contract, minted, faults, changes,
                  overruns>>
  BY DEF ReadFailed
<1>3. Remember'
  <2>1. CASE Owns(queue, m, w)
    <3> DEFINE t == Task(AfterFailure(queue, m, MaxAttempts), m)
    <3>1. t \in Tasks
      BY <1>1 DEF Task, Tasks, AfterFailure
    <3>2. task' = [task EXCEPT ![w] = t]
      BY <2>1 DEF ReadFailed
    <3> HIDE DEF t, m
    <3> QED
      BY <3>1, <3>2 DEF IInv, TypeOK, Remember
  <2>2. CASE ~Owns(queue, m, w)
    BY <2>2, DropKeeps DEF ReadFailed
  <2> QED
    BY <2>1, <2>2
<1> QED
  BY <1>2, <1>3
  DEF IInv, TypeOK, Remember, Minted, AtMostOnce, Remembered,
      QuorumIsPossible

LEMMA WriteFailedInvariant ==
  ASSUME IInv, NEW w \in Worker, WriteFailed(w) PROVE IInv'
<1> DEFINE m == task[w].message
           row == [queue.rows[m] EXCEPT !.state = task[w].step,
                                        !.owner = NoOwner]
<1>1. m \in Message
  BY TaskFacts DEF WriteFailed, IInv
<1>2. Drop(w)
  BY DEF WriteFailed
<1>3. Remember'
  BY <1>2, DropKeeps
<1>4. queue' = [queue EXCEPT !.rows[m] = row]
  BY DEF WriteFailed, Release
<1>5. /\ row \in Rows /\ row.owner \notin Worker
      /\ row.state # "LEASED"
  <2>1. queue.rows[m] \in Rows
    BY <1>1 DEF IInv, TypeOK
  <2> QED
    BY <2>1, DeploymentAssumption DEF WriteFailed, Rows
<1> HIDE DEF m, row
<1>6. Queued' /\ Owned'
  BY <1>1, <1>4, <1>5, RowInvariant
<1> QED
  BY <1>3, <1>6
  DEF WriteFailed, IInv, TypeOK, Queued, Owned, Remember, Minted, AtMostOnce,
      Remembered, QuorumIsPossible

LEMMA CrashInvariant ==
  ASSUME IInv, NEW w \in Worker, Crash(w) PROVE IInv'
<1>1. Remember'
  BY DropKeeps DEF Crash
<1> QED
  BY <1>1
  DEF Crash, IInv, TypeOK, Remember, Minted, AtMostOnce, Remembered,
      QuorumIsPossible

LEMMA ExpireInvariant ==
  ASSUME IInv, NEW m \in Message, Expire(m) PROVE IInv'
  BY DEF Expire, IInv, TypeOK, Minted, AtMostOnce, Remembered,
         QuorumIsPossible

LEMMA ByOtherInvariant ==
  ASSUME IInv, NEW m \in Message, ExecuteByOther(m) PROVE IInv'
<1>1. PICK signers \in SUBSET Key :
        Executes(contract, m, signers, today, MaxSupply)
  BY DEF ExecuteByOther
<1>2. /\ Mint(m)
      /\ UNCHANGED <<today, queue, expired, task, faults, changes, overruns>>
  BY DEF ExecuteByOther
<1>3. /\ contract' \in Storage /\ minted' \in [Message -> Seq(Nat)]
      /\ AtMostOnce' /\ Remembered' /\ QuorumIsPossible'
  BY <1>1, <1>2, MintInvariant
<1> QED
  BY <1>2, <1>3 DEF IInv, TypeOK

----------------------------------------------------------------------------
\* The relayers stay a finite set: a quorum of it can be counted.
LEMMA RelayersAreFinite ==
  ASSUME TypeOK, NEW relayers \in SUBSET Key
  PROVE  IsFiniteSet(relayers) /\ Cardinality(relayers) \in Nat
  BY DeploymentAssumption, FS_Subset, FS_CardinalityType

\* A governance call that keeps the storage's type, what was processed and
\* the possibility of a quorum.
LEMMA ChangesInvariant ==
  ASSUME IInv, NEW c \in Storage, Changes(c), c.digests = contract.digests,
         Cardinality(c.relayers) >= 3,
         c.threshold \in 2..Cardinality(c.relayers),
         changes' \in Nat
  PROVE  IInv'
  BY DEF Changes, IInv, TypeOK, Minted, AtMostOnce, Remembered,
         QuorumIsPossible

LEMMA GovernInvariant ==
  ASSUME IInv, Govern PROVE IInv'
<1>1. contract \in Storage /\ QuorumIsPossible /\ changes' \in Nat
  <2>1. changes' = changes + 1 /\ changes \in Nat
    BY DEF IInv, TypeOK, Govern
  <2> QED
    BY <2>1 DEF IInv, TypeOK
<1>2. CASE Changes([contract EXCEPT !.paused = ~@])
  <2> DEFINE c == [contract EXCEPT !.paused = ~@]
  <2>1. /\ c \in Storage /\ c.digests = contract.digests
        /\ c.relayers = contract.relayers /\ c.threshold = contract.threshold
    BY <1>1 DEF Storage
  <2> HIDE DEF c
  <2>2. Changes(c)
    BY <1>2 DEF c
  <2> QED
    BY <1>1, <2>1, <2>2, ChangesInvariant DEF QuorumIsPossible
<1>3. ASSUME NEW relayers \in SUBSET Key, MaySetRelayers(contract, relayers),
             Changes([contract EXCEPT !.relayers = relayers])
      PROVE  IInv'
  <2> DEFINE c == [contract EXCEPT !.relayers = relayers]
  <2>1. /\ c \in Storage /\ c.digests = contract.digests
        /\ c.relayers = relayers /\ c.threshold = contract.threshold
    BY <1>1 DEF Storage
  <2> HIDE DEF c
  <2>2. Changes(c)
    BY <1>3 DEF c
  <2>3. /\ Cardinality(relayers) >= 3
        /\ contract.threshold \in 2..Cardinality(relayers)
    <3>1. Cardinality(relayers) \in Nat
      BY RelayersAreFinite DEF IInv
    <3>2. Cardinality(contract.relayers) \in Nat
      BY <1>1, RelayersAreFinite DEF IInv, Storage
    <3> QED
      BY <1>1, <1>3, <3>1, <3>2 DEF MaySetRelayers, QuorumIsPossible, Storage
  <2> QED
    BY <1>1, <2>1, <2>2, <2>3, ChangesInvariant
<1>4. ASSUME NEW i \in DOMAIN Thresholds,
             MaySetThreshold(contract, Thresholds[i]),
             Changes([contract EXCEPT !.threshold = Thresholds[i]])
      PROVE  IInv'
  <2> DEFINE c == [contract EXCEPT !.threshold = Thresholds[i]]
  <2>1. Thresholds[i] \in Nat
    BY DeploymentAssumption
  <2>2. /\ c \in Storage /\ c.digests = contract.digests
        /\ c.relayers = contract.relayers /\ c.threshold = Thresholds[i]
    BY <1>1, <2>1 DEF Storage
  <2> HIDE DEF c
  <2>3. Changes(c)
    BY <1>4 DEF c
  <2>4. Cardinality(contract.relayers) \in Nat
    BY <1>1, RelayersAreFinite DEF IInv, Storage
  <2> QED
    BY <1>1, <1>4, <2>1, <2>2, <2>3, <2>4, ChangesInvariant
    DEF MaySetThreshold, QuorumIsPossible
<1>5. ASSUME NEW i \in DOMAIN Limits,
             Changes([contract EXCEPT !.perTransaction = Limits[i][1],
                                      !.daily = Limits[i][2]])
      PROVE  IInv'
  <2> DEFINE c == [contract EXCEPT !.perTransaction = Limits[i][1],
                                   !.daily = Limits[i][2]]
  <2>1. Limits[i][1] \in Nat /\ Limits[i][2] \in Nat
    BY DeploymentAssumption
  <2>2. /\ c \in Storage /\ c.digests = contract.digests
        /\ c.relayers = contract.relayers /\ c.threshold = contract.threshold
    BY <1>1, <2>1 DEF Storage
  <2> HIDE DEF c
  <2>3. Changes(c)
    BY <1>5 DEF c
  <2> QED
    BY <1>1, <2>2, <2>3, ChangesInvariant DEF QuorumIsPossible
<1>6. ASSUME NEW k \in Key,
             LET relayers == IF k \in contract.relayers
                               THEN contract.relayers \ {k}
                               ELSE contract.relayers \cup {k}
             IN  /\ MaySetRelayers(contract, relayers)
                 /\ Changes([contract EXCEPT !.relayers = relayers])
      PROVE  IInv'
  <2>1. CASE k \in contract.relayers
    <3>1. contract.relayers \ {k} \in SUBSET Key
      BY <1>1 DEF Storage
    <3> QED
      BY <1>3, <1>6, <2>1, <3>1
  <2>2. CASE k \notin contract.relayers
    <3>1. contract.relayers \cup {k} \in SUBSET Key
      BY <1>1 DEF Storage
    <3> QED
      BY <1>3, <1>6, <2>2, <3>1
  <2> QED
    BY <2>1, <2>2
<1> QED
  BY <1>2, <1>4, <1>5, <1>6 DEF Govern

LEMMA NextDayInvariant ==
  ASSUME IInv, NextDay PROVE IInv'
  BY RelayBoundAssumption
  DEF NextDay, IInv, TypeOK, Minted, AtMostOnce, Remembered,
      QuorumIsPossible

LEMMA StutterInvariant ==
  ASSUME IInv, UNCHANGED vars PROVE IInv'
  BY DEF vars, IInv, TypeOK, Minted, AtMostOnce, Remembered,
         QuorumIsPossible

LEMMA NextInvariant == IInv /\ [Next]_vars => IInv'
<1> SUFFICES ASSUME IInv, [Next]_vars PROVE IInv'
  OBVIOUS
<1>1. ASSUME NEW m \in Message,
             EnqueueMessage(m) \/ Expire(m) \/ ExecuteByOther(m)
      PROVE  IInv'
  BY <1>1, EnqueueInvariant, ExpireInvariant, ByOtherInvariant
<1>2. ASSUME NEW w \in Worker, WorkerStep(w) \/ Crash(w) PROVE IInv'
  BY <1>2, LeaseInvariant, SendInvariant, ReportInvariant,
     ReadFailedInvariant, WriteFailedInvariant, CrashInvariant
  DEF WorkerStep
<1> QED
  BY <1>1, <1>2, GovernInvariant, NextDayInvariant, StutterInvariant DEF Next

----------------------------------------------------------------------------
(***************************************************************************)
(* The inductive invariant holds in every state of the relay.              *)
(***************************************************************************)
THEOREM Invariance == Spec => []IInv
  BY InitInvariant, NextInvariant, PTL DEF Spec

(***************************************************************************)
(* Every state is well typed; in particular a row has an owner exactly     *)
(* while it is leased.                                                     *)
(***************************************************************************)
THEOREM TypeCorrect == Spec => []TypeOK
<1>1. IInv => TypeOK
  BY DEF IInv
<1> QED
  BY <1>1, Invariance, PTL

(***************************************************************************)
(* No message is minted twice, by workers or by strangers.                 *)
(***************************************************************************)
THEOREM AtMostOnceHolds == Spec => []AtMostOnce
<1>1. IInv => AtMostOnce
  BY DEF IInv
<1> QED
  BY <1>1, Invariance, PTL

(***************************************************************************)
(* Governance can bring the relayers to no setting in which execution      *)
(* needs fewer than two keys or more than there are.                       *)
(***************************************************************************)
THEOREM QuorumIsPossibleHolds == Spec => []QuorumIsPossible
<1>1. IInv => QuorumIsPossible
  BY DEF IInv
<1> QED
  BY <1>1, Invariance, PTL

----------------------------------------------------------------------------
(***************************************************************************)
(* Retries.  A worker is charged with a message when it holds it beyond    *)
(* its lease: it has read the row and may still write it although the      *)
(* lease is another's by now, or its own lease has expired.  Every charged *)
(* worker has cost a fault, and only a charged worker can return to the    *)
(* queue a message that has used up its attempts.                          *)
(***************************************************************************)
HasRead(w, m) ==
  task[w].step \in {"PENDING", "DEAD_LETTER"} /\ task[w].message = m

Charged(m) ==
  {w \in Worker : \/ HasRead(w, m) /\ ~Owns(queue, m, w)
                  \/ HoldsInMemory(w, m) /\ Owns(queue, m, w) /\ m \in expired}

Returning(m) == {w \in Charged(m) : task[w].step = "PENDING"}

\* The message can be leased, or will be as soon as its lease runs out.
Free(m) ==
  LET row == queue.rows[m] IN
    \/ row.state = "PENDING"
    \/ row.state = "LEASED" /\ (m \in expired \/ ~HoldsInMemory(row.owner, m))

Used(m) == queue.rows[m].attempts + Cardinality(Returning(m))

Budgeted(m) ==
  /\ IsFiniteSet(Charged(m)) /\ Cardinality(Charged(m)) <= faults
  /\ Used(m) <= MaxAttempts + faults
  /\ Free(m) => Used(m) < MaxAttempts + faults
  /\ queue.rows[m].state = "ABSENT" => queue.rows[m].attempts = 0
  /\ \A w \in Worker :
       HasRead(w, m) /\ Owns(queue, m, w) /\ task[w].step = "PENDING"
         => queue.rows[m].attempts < MaxAttempts

AllBudgeted == \A m \in Message : Budgeted(m)

\* Counting a set that lost and gained few elements.
LEMMA CountSubset ==
  ASSUME NEW S, IsFiniteSet(S), NEW T, T \subseteq S
  PROVE  /\ IsFiniteSet(T) /\ Cardinality(T) \in Nat /\ Cardinality(S) \in Nat
         /\ Cardinality(T) <= Cardinality(S)
  BY FS_Subset, FS_CardinalityType

LEMMA CountOneMore ==
  ASSUME NEW S, IsFiniteSet(S), NEW x, NEW T, T \subseteq S \cup {x}
  PROVE  /\ IsFiniteSet(T) /\ Cardinality(T) \in Nat /\ Cardinality(S) \in Nat
         /\ Cardinality(T) <= Cardinality(S) + 1
<1>1. /\ IsFiniteSet(S \cup {x}) /\ Cardinality(S) \in Nat
      /\ Cardinality(S \cup {x}) <= Cardinality(S) + 1
  <2>1. Cardinality(S) \in Nat
    BY FS_CardinalityType
  <2> QED
    BY <2>1, FS_AddElement
<1>2. /\ IsFiniteSet(T) /\ Cardinality(T) \in Nat
      /\ Cardinality(S \cup {x}) \in Nat
      /\ Cardinality(T) <= Cardinality(S \cup {x})
  BY <1>1, CountSubset
<1> QED
  BY <1>1, <1>2

LEMMA CountOneLess ==
  ASSUME NEW S, IsFiniteSet(S), NEW w \in S, NEW T, T \subseteq S \ {w}
  PROVE  /\ IsFiniteSet(T) /\ Cardinality(T) \in Nat /\ Cardinality(S) \in Nat
         /\ Cardinality(T) <= Cardinality(S) - 1
<1>1. /\ IsFiniteSet(S \ {w}) /\ Cardinality(S) \in Nat
      /\ Cardinality(S \ {w}) = Cardinality(S) - 1
  BY FS_RemoveElement, FS_CardinalityType
<1>2. /\ IsFiniteSet(T) /\ Cardinality(T) \in Nat
      /\ Cardinality(T) <= Cardinality(S \ {w})
  BY <1>1, CountSubset
<1> QED
  BY <1>1, <1>2

LEMMA CountSwapped ==
  ASSUME NEW S, IsFiniteSet(S), NEW w \in S, NEW x, NEW T,
         T \subseteq (S \ {w}) \cup {x}
  PROVE  /\ IsFiniteSet(T) /\ Cardinality(T) \in Nat /\ Cardinality(S) \in Nat
         /\ Cardinality(T) <= Cardinality(S)
<1>1. /\ IsFiniteSet(S \ {w}) /\ Cardinality(S) \in Nat
      /\ Cardinality(S \ {w}) = Cardinality(S) - 1
  BY FS_RemoveElement, FS_CardinalityType
<1>2. /\ IsFiniteSet(T) /\ Cardinality(T) \in Nat
      /\ Cardinality(T) <= Cardinality(S \ {w}) + 1
  BY <1>1, CountOneMore
<1> QED
  BY <1>1, <1>2

LEMMA BudgetTypes ==
  ASSUME TypeOK, NEW m \in Message, Budgeted(m)
  PROVE  /\ IsFiniteSet(Charged(m)) /\ IsFiniteSet(Returning(m))
         /\ Cardinality(Charged(m)) \in Nat /\ Cardinality(Returning(m)) \in Nat
         /\ Cardinality(Returning(m)) <= Cardinality(Charged(m))
         /\ queue.rows[m] \in Rows /\ queue.rows[m].attempts \in Nat
         /\ faults \in Nat /\ MaxAttempts \in Nat \ {0}
<1>1. IsFiniteSet(Charged(m)) /\ Returning(m) \subseteq Charged(m)
  BY DEF Budgeted, Returning
<1>2. queue.rows[m] \in Rows /\ faults \in Nat
  BY DEF TypeOK
<1> QED
  BY <1>1, <1>2, CountSubset, DeploymentAssumption DEF Rows

\* A step that concerns another message.
Untouched(n) ==
  /\ queue'.rows[n] = queue.rows[n]
  /\ n \in expired' <=> n \in expired
  /\ \A w \in Worker : /\ HoldsInMemory(w, n)' <=> HoldsInMemory(w, n)
                       /\ HoldsInMemory(w, n) => task'[w] = task[w]
  /\ faults' \in {faults, faults + 1}

LEMMA UntouchedBudget ==
  ASSUME TypeOK, NEW n \in Message, Budgeted(n), Untouched(n)
  PROVE  Budgeted(n)'
<1>1. \A w \in Worker : /\ HasRead(w, n) => HoldsInMemory(w, n)
                        /\ HasRead(w, n)' => HoldsInMemory(w, n)'
  BY DEF HasRead, HoldsInMemory
<1>2. \A w \in Worker : /\ HasRead(w, n)' <=> HasRead(w, n)
                        /\ HasRead(w, n) => task'[w] = task[w]
  BY <1>1 DEF Untouched, HasRead
<1>3. \A w : Owns(queue, n, w)' <=> Owns(queue, n, w)
  BY DEF Untouched, Owns
<1>4. Charged(n)' = Charged(n)
  BY <1>2, <1>3 DEF Charged, Untouched
<1>5. Returning(n)' = Returning(n)
  <2>1. \A w \in Charged(n) : task'[w] = task[w]
    BY <1>2 DEF Charged, Untouched
  <2> QED
    BY <1>4, <2>1 DEF Returning
<1>6. Free(n)' <=> Free(n)
  <2>1. queue.rows[n].state = "LEASED" => queue.rows[n].owner \in Worker
    BY DEF TypeOK
  <2> QED
    BY <2>1 DEF Free, Untouched
<1>7. Used(n)' = Used(n) /\ Used(n) \in Nat
  BY <1>5, BudgetTypes DEF Used, Untouched
<1>8. faults \in Nat /\ faults' \in Nat /\ faults <= faults'
  BY DEF Untouched, TypeOK
<1>9. Cardinality(Charged(n)) \in Nat /\ MaxAttempts \in Nat
  BY BudgetTypes
<1>10. \A w \in Worker :
         (HasRead(w, n) /\ Owns(queue, n, w) /\ task[w].step = "PENDING")'
           => queue'.rows[n].attempts < MaxAttempts
  BY <1>2, <1>3 DEF Budgeted, Untouched
<1>11. queue'.rows[n].state = "ABSENT" => queue'.rows[n].attempts = 0
  BY DEF Budgeted, Untouched
<1> QED
  BY <1>4, <1>6, <1>7, <1>8, <1>9, <1>10, <1>11 DEF Budgeted

LEMMA InitBudgeted == Init => AllBudgeted
<1> SUFFICES ASSUME Init, NEW m \in Message PROVE Budgeted(m)
  BY DEF AllBudgeted
<1>1. Charged(m) = {} /\ Returning(m) = {}
  BY DEF Init, Charged, Returning, HasRead, HoldsInMemory, Idle
<1>2. queue.rows[m].state = "ABSENT" /\ queue.rows[m].attempts = 0
  BY DEF Init, EmptyQueue, Absent
<1>3. faults = 0 /\ MaxAttempts \in Nat \ {0}
  BY DeploymentAssumption DEF Init
<1>4. Cardinality({}) = 0 /\ IsFiniteSet({})
  BY FS_EmptySet
<1>5. Used(m) = 0
  BY <1>1, <1>2, <1>4 DEF Used
<1>6. \A w \in Worker : ~HasRead(w, m)
  BY DEF Init, HasRead, Idle
<1> QED
  BY <1>1, <1>2, <1>3, <1>4, <1>5, <1>6 DEF Budgeted, Free

LEMMA EnqueueBudgeted ==
  ASSUME TypeOK, AllBudgeted, NEW m \in Message, EnqueueMessage(m)
  PROVE  AllBudgeted'
<1> USE DEF EnqueueMessage
<1>1. queue.rows[m].state = "ABSENT"
  BY DEF TypeOK, MayEnqueue, Present, SameKey
<1>2. /\ queue'.rows = [queue.rows EXCEPT ![m] = [@ EXCEPT !.state = "PENDING"]]
      /\ queue.rows \in [Message -> Rows]
  BY DEF Enqueue, TypeOK
<1>3. ASSUME NEW n \in Message, n # m PROVE Budgeted(n)'
  <2>1. Untouched(n) 
    BY <1>2, <1>3 DEF Untouched, HoldsInMemory
  <2> QED
    BY <2>1, UntouchedBudget DEF AllBudgeted
<1>4. Budgeted(m)'
  <2>1. Budgeted(m)
    BY DEF AllBudgeted
  <2>2. /\ queue'.rows[m].state = "PENDING"
        /\ queue'.rows[m].attempts = queue.rows[m].attempts
        /\ queue.rows[m].attempts = 0
    BY <1>1, <1>2, <2>1 DEF Rows, Budgeted
  <2>3. Charged(m)' = Charged(m)
    BY <1>1, <2>2 DEF Charged, HasRead, HoldsInMemory, Owns
  <2>4. Returning(m)' = Returning(m)
    BY <2>3 DEF Returning
  <2>5. \A w \in Worker : ~Owns(queue, m, w)'
    BY <2>2 DEF Owns
  <2>6. Used(m)' = Used(m) /\ Used(m) <= faults
    BY <2>1, <2>2, <2>4, BudgetTypes DEF Used, Budgeted
  <2> QED
    BY <2>1, <2>2, <2>3, <2>5, <2>6, BudgetTypes DEF Budgeted, Used
<1> QED
  BY <1>3, <1>4 DEF AllBudgeted

LEMMA ExpireBudgeted ==
  ASSUME TypeOK, AllBudgeted, NEW m \in Message, Expire(m)
  PROVE  AllBudgeted'
<1> USE DEF Expire
<1>1. ASSUME NEW n \in Message, n # m PROVE Budgeted(n)'
  <2>1. Untouched(n)
    BY <1>1 DEF Untouched, HoldsInMemory
  <2> QED
    BY <2>1, UntouchedBudget DEF AllBudgeted
<1> DEFINE w == queue.rows[m].owner
<1>2. w \in Worker
  BY DEF TypeOK
<1>3. Budgeted(m)
  BY DEF AllBudgeted
<1>4. \A v \in Worker : Owns(queue, m, v) <=> v = w
  BY <1>2 DEF Owns
<1>5. queue' = queue /\ task' = task /\ m \in expired' /\ m \notin expired
  OBVIOUS
<1>6. Budgeted(m)'
  <2>1. \A v \in Worker :
          (HasRead(v, m) /\ Owns(queue, m, v) /\ task[v].step = "PENDING")'
             => queue'.rows[m].attempts < MaxAttempts
    BY <1>3, <1>5 DEF Budgeted, HasRead
  <2>2. CASE ~HoldsInMemory(w, m)
    <3>1. Charged(m)' = Charged(m)
      BY <1>4, <1>5, <2>2 DEF Charged, HasRead, HoldsInMemory
    <3>2. Returning(m)' = Returning(m)
      BY <1>5, <3>1 DEF Returning
    <3>3. Free(m) /\ faults' = faults
      BY <2>2 DEF Free
    <3> QED
      BY <1>3, <1>5, <2>1, <3>1, <3>2, <3>3 DEF Budgeted, Used
  <2>3. CASE HoldsInMemory(w, m)
    <3>1. faults' = faults + 1 /\ faults \in Nat
      BY <2>3 DEF TypeOK
    <3>2. Charged(m)' \subseteq Charged(m) \cup {w}
      BY <1>4, <1>5 DEF Charged, HasRead, HoldsInMemory
    <3>3. /\ IsFiniteSet(Charged(m)') /\ Cardinality(Charged(m)') \in Nat
          /\ Cardinality(Charged(m)') <= Cardinality(Charged(m)) + 1
          /\ Cardinality(Charged(m)) \in Nat
      BY <1>3, <3>2, CountOneMore DEF Budgeted
    <3>4. CASE task[w].step = "PENDING"
      <4>1. Returning(m)' \subseteq Returning(m) \cup {w}
        BY <1>5, <3>2 DEF Returning
      <4>2. /\ Cardinality(Returning(m)') \in Nat
            /\ Cardinality(Returning(m)') <= Cardinality(Returning(m)) + 1
        BY <1>3, <4>1, CountOneMore, BudgetTypes
      <4>3. queue.rows[m].attempts < MaxAttempts
        BY <1>2, <1>3, <1>4, <2>3, <3>4 DEF Budgeted, HasRead, HoldsInMemory
      <4> QED
        BY <1>3, <1>5, <2>1, <3>1, <3>3, <4>2, <4>3, BudgetTypes
        DEF Budgeted, Used
    <3>5. CASE task[w].step # "PENDING"
      <4>1. Returning(m)' \subseteq Returning(m)
        BY <1>5, <3>2, <3>5 DEF Returning
      <4>2. /\ Cardinality(Returning(m)') \in Nat
            /\ Cardinality(Returning(m)') <= Cardinality(Returning(m))
        BY <1>3, <4>1, CountSubset, BudgetTypes
      <4> QED
        BY <1>3, <1>5, <2>1, <3>1, <3>3, <4>2, BudgetTypes
        DEF Budgeted, Used
    <3> QED
      BY <3>4, <3>5
  <2> QED
    BY <2>2, <2>3
<1> QED
  BY <1>1, <1>6 DEF AllBudgeted

\* A worker's step concerns the message it has, or takes, in memory.
LEMMA OthersBudgeted ==
  ASSUME TypeOK, AllBudgeted, NEW w \in Worker, NEW m \in Message, NEW t,
         task[w].step = "idle" \/ task[w].message = m,
         task' = [task EXCEPT ![w] = t], t.step = "idle" \/ t.message = m,
         faults' \in {faults, faults + 1},
         NEW n \in Message, n # m,
         queue'.rows[n] = queue.rows[n], n \in expired' <=> n \in expired
  PROVE  Budgeted(n)'
<1>1. \A v \in Worker : /\ HoldsInMemory(v, n)' <=> HoldsInMemory(v, n)
                        /\ HoldsInMemory(v, n) => task'[v] = task[v]
  BY DEF TypeOK, HoldsInMemory
<1>2. Untouched(n)
  BY <1>1 DEF Untouched
<1> QED
  BY <1>2, UntouchedBudget DEF AllBudgeted

LEMMA LeaseBudgeted ==
  ASSUME TypeOK, AllBudgeted, NEW w \in Worker, LeaseNext(w)
  PROVE  AllBudgeted'
<1>1. PICK m \in FirstLeasable(queue, expired) :
        /\ queue' = Lease(queue, m, w)
        /\ expired' = expired \ {m}
        /\ task' = [task EXCEPT ![w] = Task("execute", m)]
  BY DEF LeaseNext
<1>2. m \in Message /\ Leasable(queue, m, expired)
  BY DEF FirstLeasable, TypeOK
<1>3. task[w].step = "idle" /\ faults' = faults
  BY DEF LeaseNext
<1>4. /\ queue'.rows = [queue.rows EXCEPT ![m] =
           [state |-> "LEASED", attempts |-> queue.rows[m].attempts + 1,
            owner |-> w]]
      /\ queue.rows \in [Message -> Rows]
  BY <1>1 DEF Lease, TypeOK
<1>5. ASSUME NEW n \in Message, n # m PROVE Budgeted(n)'
  BY <1>1, <1>2, <1>3, <1>4, <1>5, OthersBudgeted DEF Task
<1>6. Budgeted(m)'
  <2>1. Budgeted(m) /\ Free(m)
    BY <1>2 DEF AllBudgeted, Leasable, Free
  <2>2. /\ queue'.rows[m].state = "LEASED" /\ queue'.rows[m].owner = w
        /\ queue'.rows[m].attempts = queue.rows[m].attempts + 1
        /\ m \notin expired'
    BY <1>1, <1>2, <1>4
  <2>3. task'[w].step = "execute" /\ task'[w].message = m
    BY <1>1 DEF TypeOK, Task
  <2>4. \A v \in Worker : v # w => task'[v] = task[v]
    BY <1>1 DEF TypeOK
  <2>5. Charged(m)' \subseteq Charged(m)
    <3> SUFFICES ASSUME NEW v \in Charged(m)' PROVE v \in Charged(m)
      OBVIOUS
    <3>1. v \in Worker /\ HasRead(v, m)' /\ ~Owns(queue, m, v)'
      BY <2>2 DEF Charged
    <3>2. v # w /\ HasRead(v, m) /\ HoldsInMemory(v, m)
      BY <2>3, <2>4, <3>1 DEF HasRead, HoldsInMemory
    <3> QED
      BY <1>2, <3>1, <3>2 DEF Charged, Leasable, Owns
  <2>6. Returning(m)' \subseteq Returning(m)
    <3>1. w \notin Returning(m)'
      BY <2>3 DEF Returning
    <3> QED
      BY <2>4, <2>5, <3>1 DEF Returning, Charged
  <2>7. /\ IsFiniteSet(Charged(m)') /\ Cardinality(Charged(m)') \in Nat
        /\ Cardinality(Charged(m)') <= Cardinality(Charged(m))
        /\ Cardinality(Returning(m)') \in Nat
        /\ Cardinality(Returning(m)') <= Cardinality(Returning(m))
    BY <1>2, <2>1, <2>5, <2>6, BudgetTypes, CountSubset
  <2>8. ~Free(m)'
    BY <2>2, <2>3 DEF Free, HoldsInMemory
  <2>9. \A v \in Worker : ~(HasRead(v, m) /\ Owns(queue, m, v))'
    BY <2>2, <2>3 DEF HasRead, Owns
  <2> QED
    BY <1>2, <1>3, <2>1, <2>2, <2>7, <2>8, <2>9, BudgetTypes DEF Budgeted, Used
<1> QED
  BY <1>5, <1>6 DEF AllBudgeted

\* The row stays and the worker keeps its message: only its progress counts.
LEMMA SendBudgeted ==
  ASSUME TypeOK, AllBudgeted, NEW w \in Worker, Send(w)
  PROVE  AllBudgeted'
<1>1. PICK m \in Message : m = task[w].message
  BY TaskFacts DEF Send
<1>2. PICK step \in {"acknowledge", "fail"} :
        task' = [task EXCEPT ![w] = Task(step, m)]
  BY <1>1 DEF Send
<1>3. UNCHANGED <<queue, expired, faults>> /\ task[w].step = "execute"
  BY DEF Send
<1>4. ASSUME NEW n \in Message, n # m PROVE Budgeted(n)'
  BY <1>1, <1>2, <1>3, <1>4, OthersBudgeted DEF Task
<1>5. Budgeted(m)'
  <2>1. /\ task'[w].step \in {"acknowledge", "fail"} /\ task'[w].message = m
        /\ \A v \in Worker : v # w => task'[v] = task[v]
    BY <1>2 DEF TypeOK, Task
  <2>2. \A v \in Worker : /\ HoldsInMemory(v, m)' <=> HoldsInMemory(v, m)
                          /\ HasRead(v, m)' <=> HasRead(v, m)
                          /\ HasRead(v, m) => task'[v] = task[v]
    BY <1>1, <1>3, <2>1 DEF HoldsInMemory, HasRead
  <2>3. Charged(m)' = Charged(m)
    BY <1>3, <2>2 DEF Charged
  <2>4. Returning(m)' = Returning(m)
    BY <1>3, <2>1, <2>3 DEF Returning, Charged
  <2>5. Free(m)' <=> Free(m)
    BY <1>3, <2>2 DEF Free, TypeOK
  <2> QED
    BY <1>3, <2>2, <2>3, <2>4, <2>5 DEF AllBudgeted, Budgeted, Used
<1> QED
  BY <1>4, <1>5 DEF AllBudgeted

LEMMA ReportBudgeted ==
  ASSUME TypeOK, AllBudgeted, NEW w \in Worker, ReportSuccess(w)
  PROVE  AllBudgeted'
<1>1. PICK m \in Message : m = task[w].message
  BY TaskFacts DEF ReportSuccess
<1>2. /\ task[w].step = "acknowledge" /\ task' = [task EXCEPT ![w] = Idle]
      /\ queue' = IF Owns(queue, m, w) THEN Acknowledge(queue, m) ELSE queue
      /\ expired' = expired /\ faults' = faults
  BY <1>1 DEF ReportSuccess, Drop
<1>3. /\ queue'.rows = IF Owns(queue, m, w)
                         THEN [queue.rows EXCEPT ![m] =
                                 [@ EXCEPT !.state = "EXECUTED", !.owner = NoOwner]]
                         ELSE queue.rows
      /\ queue.rows \in [Message -> Rows]
  BY <1>2 DEF Acknowledge, TypeOK
<1>4. ASSUME NEW n \in Message, n # m PROVE Budgeted(n)'
  BY <1>1, <1>2, <1>3, <1>4, OthersBudgeted DEF Idle
<1>5. Budgeted(m)'
  <2>1. Budgeted(m)
    BY DEF AllBudgeted
  <2>2. /\ task'[w].step = "idle"
        /\ \A v \in Worker : v # w => task'[v] = task[v]
    BY <1>2 DEF TypeOK, Idle
  <2>3. /\ queue'.rows[m].attempts = queue.rows[m].attempts
        /\ Owns(queue, m, w) => queue'.rows[m].state = "EXECUTED"
        /\ ~Owns(queue, m, w) => queue'.rows[m] = queue.rows[m]
    BY <1>3 DEF Rows
  <2>4. \A v \in Worker : v # w /\ Owns(queue, m, v) => ~Owns(queue, m, w)
    BY DEF Owns
  <2>5. Charged(m)' \subseteq Charged(m)
    BY <1>2, <2>2, <2>3, <2>4 DEF Charged, HasRead, HoldsInMemory, Owns
  <2>6. Returning(m)' \subseteq Returning(m)
    BY <2>2, <2>5 DEF Returning, Charged
  <2>7. /\ IsFiniteSet(Charged(m)') /\ Cardinality(Charged(m)') \in Nat
        /\ Cardinality(Charged(m)') <= Cardinality(Charged(m))
        /\ Cardinality(Returning(m)') \in Nat
        /\ Cardinality(Returning(m)') <= Cardinality(Returning(m))
    BY <2>1, <2>5, <2>6, BudgetTypes, CountSubset
  <2>8. Free(m)' => Free(m)
    BY <1>2, <2>2, <2>3 DEF Free, HoldsInMemory, Owns, TypeOK
  <2>9. \A v \in Worker :
          (HasRead(v, m) /\ Owns(queue, m, v) /\ task[v].step = "PENDING")'
            => queue'.rows[m].attempts < MaxAttempts
    BY <2>1, <2>2, <2>3 DEF Budgeted, HasRead, Owns
  <2>10. queue'.rows[m].state # "ABSENT" \/ queue'.rows[m] = queue.rows[m]
    BY <2>3
  <2> QED
    BY <1>2, <2>1, <2>3, <2>7, <2>8, <2>9, <2>10, BudgetTypes DEF Budgeted, Used
<1> QED
  BY <1>4, <1>5 DEF AllBudgeted

LEMMA CrashBudgeted ==
  ASSUME TypeOK, AllBudgeted, NEW w \in Worker, Crash(w)
  PROVE  AllBudgeted'
<1>1. PICK m \in Message : m = task[w].message
  BY TaskFacts DEF Crash
<1>2. /\ task' = [task EXCEPT ![w] = Idle]
      /\ queue' = queue /\ expired' = expired /\ faults' = faults + 1
  BY DEF Crash, Drop
<1>3. ASSUME NEW n \in Message, n # m PROVE Budgeted(n)'
  BY <1>1, <1>2, <1>3, OthersBudgeted DEF Idle
<1>4. Budgeted(m)'
  <2>1. Budgeted(m)
    BY DEF AllBudgeted
  <2>2. /\ task'[w].step = "idle"
        /\ \A v \in Worker : v # w => task'[v] = task[v]
    BY <1>2 DEF TypeOK, Idle
  <2>3. Charged(m)' \subseteq Charged(m)
    BY <1>2, <2>2 DEF Charged, HasRead, HoldsInMemory
  <2>4. Returning(m)' \subseteq Returning(m)
    BY <2>2, <2>3 DEF Returning, Charged
  <2>5. /\ IsFiniteSet(Charged(m)') /\ Cardinality(Charged(m)') \in Nat
        /\ Cardinality(Charged(m)') <= Cardinality(Charged(m))
        /\ Cardinality(Returning(m)') \in Nat
        /\ Cardinality(Returning(m)') <= Cardinality(Returning(m))
    BY <2>1, <2>3, <2>4, BudgetTypes, CountSubset
  <2>6. \A v \in Worker :
          (HasRead(v, m) /\ Owns(queue, m, v) /\ task[v].step = "PENDING")'
            => queue'.rows[m].attempts < MaxAttempts
    BY <1>2, <2>1, <2>2 DEF Budgeted, HasRead
  <2> QED
    BY <1>2, <2>1, <2>5, <2>6, BudgetTypes DEF Budgeted, Used
<1> QED
  BY <1>3, <1>4 DEF AllBudgeted

\* Reading: a worker whose lease has expired is charged already, so the
\* charged workers leave room for its return.
LEMMA ReadFailedBudgeted ==
  ASSUME TypeOK, AllBudgeted, NEW w \in Worker, ReadFailed(w)
  PROVE  AllBudgeted'
<1>1. PICK m \in Message : m = task[w].message
  BY TaskFacts DEF ReadFailed
<1>2. UNCHANGED <<queue, expired, faults>> /\ task[w].step = "fail"
  BY DEF ReadFailed
<1>3. Budgeted(m)
  BY DEF AllBudgeted
<1>4. CASE ~Owns(queue, m, w)
  <2>1. task' = [task EXCEPT ![w] = Idle]
    BY <1>1, <1>4 DEF ReadFailed, Drop
  <2>2. ASSUME NEW n \in Message, n # m PROVE Budgeted(n)'
    BY <1>1, <1>2, <2>1, <2>2, OthersBudgeted DEF Idle
  <2>3. /\ task'[w].step = "idle"
        /\ \A v \in Worker : v # w => task'[v] = task[v]
    BY <2>1 DEF TypeOK, Idle
  <2>4. Charged(m)' = Charged(m)
    BY <1>2, <1>4, <2>3 DEF Charged, HasRead, HoldsInMemory
  <2>5. Returning(m)' = Returning(m)
    BY <1>2, <2>3, <2>4 DEF Returning, Charged
  <2>6. Free(m)' => Free(m)
    BY <1>2, <1>4, <2>3 DEF Free, HoldsInMemory, Owns, TypeOK
  <2>7. \A v \in Worker :
          (HasRead(v, m) /\ Owns(queue, m, v) /\ task[v].step = "PENDING")'
            => queue'.rows[m].attempts < MaxAttempts
    BY <1>2, <1>3, <2>3 DEF Budgeted, HasRead
  <2> QED
    BY <1>2, <1>3, <2>2, <2>4, <2>5, <2>6, <2>7 DEF AllBudgeted, Budgeted, Used
<1>5. CASE Owns(queue, m, w)
  <2> DEFINE step == AfterFailure(queue, m, MaxAttempts)
  <2>1. task' = [task EXCEPT ![w] = Task(step, m)]
    BY <1>1, <1>5 DEF ReadFailed
  <2>2. /\ step \in {"PENDING", "DEAD_LETTER"}
        /\ step = "PENDING" => queue.rows[m].attempts < MaxAttempts
    BY <1>3, BudgetTypes DEF AfterFailure
  <2> HIDE DEF step
  <2>3. ASSUME NEW n \in Message, n # m PROVE Budgeted(n)'
    BY <1>1, <1>2, <2>1, <2>3, OthersBudgeted DEF Task
  <2>4. /\ task'[w].step = step /\ task'[w].message = m
        /\ \A v \in Worker : v # w => task'[v] = task[v]
    BY <2>1 DEF TypeOK, Task
  <2>5. Charged(m)' = Charged(m)
    BY <1>1, <1>2, <1>5, <2>2, <2>4 DEF Charged, HasRead, HoldsInMemory
  <2>6. Free(m)' <=> Free(m)
    BY <1>1, <1>2, <2>2, <2>4 DEF Free, HoldsInMemory, TypeOK
  <2>7. \A v \in Worker :
          (HasRead(v, m) /\ Owns(queue, m, v) /\ task[v].step = "PENDING")'
            => queue'.rows[m].attempts < MaxAttempts
    BY <1>2, <1>3, <2>2, <2>4 DEF Budgeted, HasRead
  <2>8. CASE step = "PENDING" /\ w \in Charged(m)
    <3>1. w \notin Returning(m) /\ Returning(m) \subseteq Charged(m)
      BY <1>2 DEF Returning
    <3>2. /\ Cardinality(Returning(m)) \in Nat
          /\ Cardinality(Returning(m)) <= Cardinality(Charged(m)) - 1
      BY <1>3, <2>8, <3>1, CountOneLess, BudgetTypes
    <3>3. Returning(m)' \subseteq Returning(m) \cup {w}
      BY <2>4, <2>5 DEF Returning, Charged
    <3>4. /\ Cardinality(Returning(m)') \in Nat
          /\ Cardinality(Returning(m)') <= Cardinality(Returning(m)) + 1
      BY <1>3, <3>3, CountOneMore, BudgetTypes
    <3>5. Used(m)' < MaxAttempts + faults
      BY <1>2, <1>3, <2>2, <2>8, <3>2, <3>4, BudgetTypes DEF Used, Budgeted
    <3> QED
      BY <1>2, <1>3, <2>3, <2>5, <2>6, <2>7, <3>4, <3>5, BudgetTypes
      DEF AllBudgeted, Budgeted, Used
  <2>9. CASE step # "PENDING" \/ w \notin Charged(m)
    <3>1. Returning(m)' = Returning(m)
      <4>1. \A v \in Charged(m) : v # w => task'[v] = task[v]
        BY <2>4 DEF Charged
      <4>2. w \in Charged(m) => task[w].step # "PENDING" /\ task'[w].step # "PENDING"
        BY <1>2, <2>4, <2>9
      <4> QED
        BY <2>5, <4>1, <4>2 DEF Returning
    <3> QED
      BY <1>2, <1>3, <2>3, <2>5, <2>6, <2>7, <3>1 DEF AllBudgeted, Budgeted, Used
  <2> QED
    BY <2>8, <2>9
<1> QED
  BY <1>4, <1>5

\* Writing, over whatever the row has become: the writer's charge passes to
\* the worker it takes the lease from.
LEMMA WriteFailedBudgeted ==
  ASSUME TypeOK, AllBudgeted, NEW w \in Worker, WriteFailed(w)
  PROVE  AllBudgeted'
<1>1. PICK m \in Message : m = task[w].message
  BY TaskFacts DEF WriteFailed
<1> DEFINE step == task[w].step
<1>2. /\ step \in {"PENDING", "DEAD_LETTER"}
      /\ task' = [task EXCEPT ![w] = Idle]
      /\ expired' = expired /\ faults' = faults
  BY DEF WriteFailed, Drop
<1>3. /\ queue'.rows = [queue.rows EXCEPT ![m] =
                          [@ EXCEPT !.state = step, !.owner = NoOwner]]
      /\ queue.rows \in [Message -> Rows]
  BY <1>1 DEF WriteFailed, Release, TypeOK
<1>4. ASSUME NEW n \in Message, n # m PROVE Budgeted(n)'
  BY <1>1, <1>2, <1>3, <1>4, OthersBudgeted DEF Idle
<1>5. Budgeted(m)'
  <2>1. Budgeted(m) /\ HasRead(w, m) /\ HoldsInMemory(w, m)
    BY <1>1, <1>2 DEF AllBudgeted, HasRead, HoldsInMemory
  <2>2. /\ task'[w].step = "idle"
        /\ \A v \in Worker : v # w => task'[v] = task[v]
    BY <1>2 DEF TypeOK, Idle
  <2>3. /\ queue'.rows[m].attempts = queue.rows[m].attempts
        /\ queue'.rows[m].state = step
    BY <1>3 DEF Rows
  <2>4. Charged(m)' = {v \in Worker : v # w /\ HasRead(v, m)}
    BY <1>2, <2>2, <2>3 DEF Charged, HasRead, Owns
  <2>5. Free(m)' => step = "PENDING"
    BY <1>2, <2>3 DEF Free
  <2>6. \A v \in Worker : ~Owns(queue, m, v)'
    BY <1>2, <2>3 DEF Owns
  <2>7. step # "ABSENT"
    BY <1>2
  <2>8. \A v \in Worker : /\ HasRead(v, m) => HoldsInMemory(v, m)
                          /\ HasRead(v, m) /\ ~Owns(queue, m, v)
                                => v \in Charged(m)
    BY DEF HasRead, HoldsInMemory, Charged
  <2> HIDE DEF step
  <2>9. CASE Owns(queue, m, w)
    <3>1. Charged(m)' \subseteq Charged(m)
      BY <2>4, <2>8, <2>9 DEF Owns
    <3>2. /\ IsFiniteSet(Charged(m)') /\ Cardinality(Charged(m)') \in Nat
          /\ Cardinality(Charged(m)') <= Cardinality(Charged(m))
      BY <2>1, <3>1, BudgetTypes, CountSubset
    <3>3. Returning(m)' \subseteq Charged(m)'
      BY DEF Returning
    <3>4. /\ Cardinality(Returning(m)') \in Nat
          /\ Cardinality(Returning(m)') <= Cardinality(Charged(m)')
      BY <3>2, <3>3, CountSubset
    <3>5. CASE step = "PENDING"
      <4>1. queue.rows[m].attempts < MaxAttempts
        BY <2>1, <2>9, <3>5 DEF Budgeted, step
      <4> QED
        BY <1>2, <2>1, <2>3, <2>5, <2>6, <2>7, <3>2, <3>4, <4>1, BudgetTypes
        DEF Budgeted, Used
    <3>6. CASE step # "PENDING"
      <4>1. Returning(m)' \subseteq Returning(m)
        BY <2>2, <2>4, <3>1 DEF Returning
      <4>2. Cardinality(Returning(m)') <= Cardinality(Returning(m))
        BY <2>1, <4>1, BudgetTypes, CountSubset
      <4> QED
        BY <1>2, <2>1, <2>3, <2>5, <2>6, <2>7, <3>2, <3>4, <3>6, <4>2,
           BudgetTypes DEF Budgeted, Used
    <3> QED
      BY <3>5, <3>6
  <2>10. CASE ~Owns(queue, m, w)
    <3> DEFINE x == queue.rows[m].owner
    <3>1. w \in Charged(m) /\ (step = "PENDING" => w \in Returning(m))
      BY <2>1, <2>10 DEF Charged, Returning, step
    <3>2. \A v \in Worker : Owns(queue, m, v) => v = x
      BY DEF Owns
    <3>3. Charged(m)' \subseteq (Charged(m) \ {w}) \cup {x}
      BY <2>4, <2>8, <3>2
    <3>4. /\ IsFiniteSet(Charged(m)') /\ Cardinality(Charged(m)') \in Nat
          /\ Cardinality(Charged(m)') <= Cardinality(Charged(m))
      BY <2>1, <3>1, <3>3, BudgetTypes, CountSwapped
    <3>5. Returning(m)' \subseteq Charged(m)'
      BY DEF Returning
    <3>6. /\ Cardinality(Returning(m)') \in Nat
          /\ Cardinality(Returning(m)') <= Cardinality(Charged(m)')
      BY <3>4, <3>5, CountSubset
    <3>7. CASE x \in Worker /\ Owns(queue, m, x) /\ HasRead(x, m)
                 /\ task[x].step = "PENDING"
      <4>1. queue.rows[m].attempts < MaxAttempts
        BY <2>1, <3>7 DEF Budgeted
      <4> QED
        BY <1>2, <2>1, <2>3, <2>6, <2>7, <3>4, <3>6, <4>1, BudgetTypes
        DEF Budgeted, Used
    <3>8. CASE ~(x \in Worker /\ Owns(queue, m, x) /\ HasRead(x, m)
                   /\ task[x].step = "PENDING")
      <4>1. Returning(m)' \subseteq Returning(m) \ {w}
        <5> SUFFICES ASSUME NEW v \in Returning(m)'
                     PROVE  v \in Returning(m) /\ v # w
          OBVIOUS
        <5>1. v \in Worker /\ v # w /\ HasRead(v, m) /\ task[v].step = "PENDING"
          BY <2>2, <2>4 DEF Returning
        <5> QED
          BY <2>8, <3>2, <3>8, <5>1 DEF Returning
      <4>2. Cardinality(Returning(m)') <= Cardinality(Returning(m))
        BY <2>1, <4>1, BudgetTypes, CountSubset
      <4>3. step = "PENDING" =>
              Cardinality(Returning(m)') <= Cardinality(Returning(m)) - 1
        BY <2>1, <3>1, <4>1, BudgetTypes, CountOneLess
      <4> QED
        BY <1>2, <2>1, <2>3, <2>5, <2>6, <2>7, <3>4, <3>6, <4>2, <4>3,
           BudgetTypes DEF Budgeted, Used
    <3> QED
      BY <3>7, <3>8
  <2> QED
    BY <2>9, <2>10
<1> QED
  BY <1>4, <1>5 DEF AllBudgeted

\* Nothing the relay does beside the queue concerns the retries.
LEMMA OutsideBudgeted ==
  ASSUME TypeOK, AllBudgeted, UNCHANGED <<queue, expired, task, faults>>
  PROVE  AllBudgeted'
<1> SUFFICES ASSUME NEW n \in Message PROVE Budgeted(n)'
  BY DEF AllBudgeted
<1>1. Untouched(n)
  BY DEF Untouched, HoldsInMemory
<1> QED
  BY <1>1, UntouchedBudget DEF AllBudgeted

LEMMA NextBudgeted == TypeOK /\ AllBudgeted /\ [Next]_vars => AllBudgeted'
<1> SUFFICES ASSUME TypeOK, AllBudgeted, [Next]_vars PROVE AllBudgeted'
  OBVIOUS
<1>1. ASSUME NEW m \in Message,
             EnqueueMessage(m) \/ Expire(m) \/ ExecuteByOther(m)
      PROVE  AllBudgeted'
  BY <1>1, EnqueueBudgeted, ExpireBudgeted, OutsideBudgeted DEF ExecuteByOther
<1>2. ASSUME NEW w \in Worker, WorkerStep(w) \/ Crash(w) PROVE AllBudgeted'
  BY <1>2, LeaseBudgeted, SendBudgeted, ReportBudgeted, ReadFailedBudgeted,
     WriteFailedBudgeted, CrashBudgeted DEF WorkerStep
<1>3. CASE Govern \/ NextDay \/ UNCHANGED vars
  BY <1>3, OutsideBudgeted DEF Govern, Changes, NextDay, vars
<1> QED
  BY <1>1, <1>2, <1>3 DEF Next

(***************************************************************************)
(* A message is leased max_attempts times and once more for each fault,    *)
(* for any number of workers that hold it at once and write over each      *)
(* other's reports.                                                        *)
(***************************************************************************)
THEOREM RetriesAreBoundedHolds == Spec => []RetriesAreBounded
<1>1. TypeOK /\ AllBudgeted => RetriesAreBounded
  <2> SUFFICES ASSUME TypeOK, AllBudgeted, NEW m \in Message
               PROVE  queue.rows[m].attempts <= MaxAttempts + faults
    BY DEF RetriesAreBounded
  <2>1. Budgeted(m)
    BY DEF AllBudgeted
  <2> QED
    BY <2>1, BudgetTypes DEF Budgeted, Used
<1> QED
  BY <1>1, InitBudgeted, NextBudgeted, TypeCorrect, PTL DEF Spec
----------------------------------------------------------------------------
(***************************************************************************)
(* Exclusion.  A worker is overdue with a message when it works on it      *)
(* under a lease that is another's, nobody's or expired.  Whoever leases   *)
(* the message finds every other holder overdue already, so what has to be *)
(* counted are the overdue ones: a lease that expires under its worker     *)
(* adds one and an overrun, and an overdue worker's fail() that frees the  *)
(* lease makes the lease's owner overdue in its own place.                 *)
(***************************************************************************)
Overdue(m) ==
  {w \in Worker : /\ HoldsInMemory(w, m)
                  /\ ~Owns(queue, m, w) \/ m \in expired}

Counted(m) ==
  IsFiniteSet(Overdue(m)) /\ Cardinality(Overdue(m)) <= overruns

AllCounted == \A m \in Message : Counted(m)

LEMMA InitCounted == Init => AllCounted
<1> SUFFICES ASSUME Init, NEW m \in Message PROVE Counted(m)
  BY DEF AllCounted
<1>1. Overdue(m) = {}
  BY DEF Init, Overdue, HoldsInMemory, Idle
<1> QED
  BY <1>1, FS_EmptySet DEF Init, Counted

\* A step that makes nobody overdue.
LEMMA CountedStays ==
  ASSUME TypeOK, NEW m \in Message, Counted(m),
         Overdue(m)' \subseteq Overdue(m),
         overruns' \in {overruns, overruns + 1}
  PROVE  Counted(m)'
<1>1. overruns \in Nat
  BY DEF TypeOK
<1> QED
  BY <1>1, CountSubset DEF Counted

LEMMA EnqueueCounted ==
  ASSUME TypeOK, AllCounted, NEW m \in Message, EnqueueMessage(m)
  PROVE  AllCounted'
<1>1. /\ \A n \in Message :
           queue'.rows[n] =
             IF n = m THEN [queue.rows[m] EXCEPT !.state = "PENDING"]
                      ELSE queue.rows[n]
      /\ queue.rows[m] \in Rows
  BY DEF EnqueueMessage, Enqueue, TypeOK
<1>2. queue.rows[m].state = "ABSENT"
  BY DEF EnqueueMessage, MayEnqueue, Present, SameKey, TypeOK
<1>3. \A n \in Message, w \in Worker : Owns(queue, n, w)' <=> Owns(queue, n, w)
  BY <1>1, <1>2 DEF Owns, Rows
<1>4. UNCHANGED <<task, expired, overruns>>
  BY DEF EnqueueMessage
<1>5. ASSUME NEW n \in Message PROVE Overdue(n)' = Overdue(n)
  BY <1>3, <1>4 DEF Overdue, HoldsInMemory
<1> QED
  BY <1>4, <1>5, CountedStays DEF AllCounted

LEMMA LeaseCounted ==
  ASSUME TypeOK, AllCounted, NEW w \in Worker, LeaseNext(w)
  PROVE  AllCounted'
<1>1. PICK m \in FirstLeasable(queue, expired) :
        /\ queue' = Lease(queue, m, w)
        /\ expired' = expired \ {m}
        /\ task' = [task EXCEPT ![w] = Task("execute", m)]
  BY DEF LeaseNext
<1>2. m \in Message /\ Leasable(queue, m, expired)
  BY DEF FirstLeasable, TypeOK
<1>3. task[w].step = "idle" /\ overruns' = overruns
  BY DEF LeaseNext
<1>4. /\ \A n \in Message \ {m} : queue'.rows[n] = queue.rows[n]
      /\ queue'.rows[m].state = "LEASED" /\ queue'.rows[m].owner = w
  BY <1>1, <1>2 DEF Lease, TypeOK
<1>5. /\ \A v \in Worker \ {w} : task'[v] = task[v]
      /\ task'[w].message = m
  BY <1>1 DEF TypeOK, Task
<1>6. ASSUME NEW n \in Message PROVE Overdue(n)' \subseteq Overdue(n)
  <2> SUFFICES ASSUME NEW v \in Worker, v \in Overdue(n)'
               PROVE  v \in Overdue(n)
    BY DEF Overdue
  <2>1. CASE n = m
    <3>1. v # w
      BY <1>1, <1>4, <2>1 DEF Overdue, Owns
    <3>2. HoldsInMemory(v, n)
      BY <1>5, <3>1 DEF Overdue, HoldsInMemory
    <3> QED
      BY <1>2, <2>1, <3>2 DEF Overdue, Owns, Leasable
  <2>2. CASE n # m
    <3>1. v # w
      BY <1>5, <2>2 DEF Overdue, HoldsInMemory
    <3> QED
      BY <1>1, <1>4, <1>5, <2>2, <3>1 DEF Overdue, HoldsInMemory, Owns
  <2> QED
    BY <2>1, <2>2
<1> QED
  BY <1>3, <1>6, CountedStays DEF AllCounted

LEMMA SendCounted ==
  ASSUME TypeOK, AllCounted, NEW w \in Worker, Send(w)
  PROVE  AllCounted'
<1>1. PICK step \in {"acknowledge", "fail"} :
        task' = [task EXCEPT ![w] = Task(step, task[w].message)]
  BY DEF Send
<1>2. /\ task[w].step = "execute"
      /\ UNCHANGED <<queue, expired, overruns>>
  BY DEF Send
<1>3. \A n \in Message, v \in Worker :
        HoldsInMemory(v, n)' <=> HoldsInMemory(v, n)
  BY <1>1, <1>2 DEF HoldsInMemory, Task, TypeOK
<1>4. ASSUME NEW n \in Message PROVE Overdue(n)' = Overdue(n)
  BY <1>2, <1>3 DEF Overdue, Owns
<1> QED
  BY <1>2, <1>4, CountedStays DEF AllCounted

\* A worker that lets go of its message, or goes on with it, and leaves the
\* table alone.
LEMMA LetGoCounted ==
  ASSUME TypeOK, AllCounted, NEW w \in Worker,
         Drop(w) \/ \E step : task' = [task EXCEPT ![w] =
                                         Task(step, task[w].message)],
         task[w].step # "idle",
         UNCHANGED <<queue, expired, overruns>>
  PROVE  AllCounted'
<1>1. \A n \in Message, v \in Worker :
        HoldsInMemory(v, n)' => HoldsInMemory(v, n)
  <2>1. \A v \in Worker \ {w} : task'[v] = task[v]
    BY DEF Drop, TypeOK
  <2>2. task'[w].step = "idle" \/ task'[w].message = task[w].message
    <3>1. CASE Drop(w)
      BY <3>1 DEF Drop, Idle, TypeOK
    <3>2. ASSUME NEW step,
                 task' = [task EXCEPT ![w] = Task(step, task[w].message)]
          PROVE  task'[w].message = task[w].message
      BY <3>2 DEF Task, TypeOK
    <3> QED
      BY <3>1, <3>2
  <2> QED
    BY <2>1, <2>2 DEF HoldsInMemory
<1>2. ASSUME NEW n \in Message PROVE Overdue(n)' \subseteq Overdue(n)
  BY <1>1 DEF Overdue, Owns
<1> QED
  BY <1>2, CountedStays DEF AllCounted

\* A worker reports on its message, which nobody owns from then on: the
\* owner if that was another becomes overdue instead of the worker.
LEMMA FreedCounted ==
  ASSUME TypeOK, AllCounted, NEW w \in Worker, Drop(w),
         task[w].step # "idle", NEW row \in Rows, row.state # "LEASED",
         queue' = [queue EXCEPT !.rows[task[w].message] = row],
         UNCHANGED <<expired, overruns>>
  PROVE  AllCounted'
<1>1. PICK m \in Message : m = task[w].message
  BY TaskFacts
<1> DEFINE owner == queue.rows[m].owner
<1>2. /\ \A n \in Message \ {m} : queue'.rows[n] = queue.rows[n]
      /\ queue'.rows[m].state # "LEASED"
  BY <1>1 DEF TypeOK
<1>3. /\ task'[w].step = "idle"
      /\ \A v \in Worker \ {w} : task'[v] = task[v]
  BY DEF Drop, Idle, TypeOK
<1>4. ASSUME NEW n \in Message, n # m PROVE Counted(n)'
  <2>1. Overdue(n)' \subseteq Overdue(n)
    BY <1>2, <1>3, <1>4 DEF Overdue, Owns, HoldsInMemory
  <2> QED
    BY <2>1, CountedStays DEF AllCounted
<1>5. Counted(m)'
  <2>1. HoldsInMemory(w, m)
    BY <1>1 DEF HoldsInMemory
  <2>2. Overdue(m)' \subseteq (Overdue(m) \ {w}) \cup {owner}
    BY <1>3 DEF Overdue, HoldsInMemory, Owns
  <2>3. CASE Owns(queue, m, w)
    <3>1. owner = w /\ w \notin Overdue(m)'
      BY <1>3, <2>3 DEF Owns, Overdue, HoldsInMemory
    <3>2. Overdue(m)' \subseteq Overdue(m)
      BY <2>2, <3>1
    <3> QED
      BY <3>2, CountedStays DEF AllCounted
  <2>4. CASE ~Owns(queue, m, w)
    <3>1. w \in Overdue(m)
      BY <2>1, <2>4 DEF Overdue
    <3>2. Counted(m)
      BY DEF AllCounted
    <3>3. /\ IsFiniteSet(Overdue(m)') /\ Cardinality(Overdue(m)') \in Nat
          /\ Cardinality(Overdue(m)) \in Nat
          /\ Cardinality(Overdue(m)') <= Cardinality(Overdue(m))
      BY <2>2, <3>1, <3>2, CountSwapped DEF Counted
    <3> QED
      BY <3>2, <3>3 DEF Counted, TypeOK
  <2> QED
    BY <2>3, <2>4
<1> QED
  BY <1>4, <1>5 DEF AllCounted

LEMMA ReportCounted ==
  ASSUME TypeOK, AllCounted, NEW w \in Worker, ReportSuccess(w)
  PROVE  AllCounted'
<1> DEFINE m == task[w].message
           row == [queue.rows[m] EXCEPT !.state = "EXECUTED", !.owner = NoOwner]
<1>1. /\ Drop(w) /\ task[w].step # "idle"
      /\ UNCHANGED <<expired, overruns>>
  BY DEF ReportSuccess
<1>2. queue' = queue \/ queue' = [queue EXCEPT !.rows[m] = row]
  BY DEF ReportSuccess, Acknowledge
<1>3. row \in Rows /\ row.state # "LEASED"
  <2>1. queue.rows[m] \in Rows
    BY <1>1, TaskFacts DEF TypeOK
  <2> QED
    BY <2>1 DEF Rows
<1> HIDE DEF row
<1> QED
  BY <1>1, <1>2, <1>3, LetGoCounted, FreedCounted

LEMMA ReadFailedCounted ==
  ASSUME TypeOK, AllCounted, NEW w \in Worker, ReadFailed(w)
  PROVE  AllCounted'
  BY LetGoCounted DEF ReadFailed

LEMMA WriteFailedCounted ==
  ASSUME TypeOK, AllCounted, NEW w \in Worker, WriteFailed(w)
  PROVE  AllCounted'
<1> DEFINE m == task[w].message
           row == [queue.rows[m] EXCEPT !.state = task[w].step,
                                        !.owner = NoOwner]
<1>1. /\ Drop(w) /\ task[w].step \in {"PENDING", "DEAD_LETTER"}
      /\ queue' = [queue EXCEPT !.rows[m] = row]
      /\ UNCHANGED <<expired, overruns>>
  BY DEF WriteFailed, Release
<1>2. row \in Rows /\ row.state # "LEASED"
  <2>1. queue.rows[m] \in Rows
    BY <1>1, TaskFacts DEF TypeOK
  <2> QED
    BY <1>1, <2>1 DEF Rows
<1> HIDE DEF row
<1> QED
  BY <1>1, <1>2, FreedCounted

LEMMA ExpireCounted ==
  ASSUME TypeOK, AllCounted, NEW m \in Message, Expire(m)
  PROVE  AllCounted'
<1> DEFINE owner == queue.rows[m].owner
<1>1. /\ expired' = expired \cup {m} /\ UNCHANGED <<queue, task>>
      /\ overruns' = IF HoldsInMemory(owner, m) THEN overruns + 1 ELSE overruns
  BY DEF Expire
<1>2. ASSUME NEW n \in Message, n # m PROVE Counted(n)'
  <2>1. Overdue(n)' = Overdue(n)
    BY <1>1, <1>2 DEF Overdue, HoldsInMemory, Owns
  <2> QED
    BY <1>1, <2>1, CountedStays DEF AllCounted
<1>3. Counted(m)'
  <2>1. Overdue(m)' \subseteq Overdue(m) \cup {owner}
    BY <1>1 DEF Overdue, HoldsInMemory, Owns
  <2>2. Counted(m) /\ overruns \in Nat
    BY DEF AllCounted, TypeOK
  <2>3. CASE HoldsInMemory(owner, m)
    <3>1. /\ IsFiniteSet(Overdue(m)') /\ Cardinality(Overdue(m)') \in Nat
          /\ Cardinality(Overdue(m)) \in Nat
          /\ Cardinality(Overdue(m)') <= Cardinality(Overdue(m)) + 1
      BY <2>1, <2>2, CountOneMore DEF Counted
    <3> QED
      BY <1>1, <2>2, <2>3, <3>1 DEF Counted
  <2>4. CASE ~HoldsInMemory(owner, m)
    <3>1. owner \notin Overdue(m)'
      BY <1>1, <2>4 DEF Overdue, HoldsInMemory
    <3>2. Overdue(m)' \subseteq Overdue(m)
      BY <2>1, <3>1
    <3> QED
      BY <1>1, <2>2, <3>2, CountedStays
  <2> QED
    BY <2>3, <2>4
<1> QED
  BY <1>2, <1>3 DEF AllCounted

LEMMA NextCounted == TypeOK /\ AllCounted /\ [Next]_vars => AllCounted'
<1> SUFFICES ASSUME TypeOK, AllCounted, [Next]_vars PROVE AllCounted'
  OBVIOUS
<1>1. ASSUME NEW m \in Message, EnqueueMessage(m) \/ Expire(m)
      PROVE  AllCounted'
  BY <1>1, EnqueueCounted, ExpireCounted
<1>2. ASSUME NEW w \in Worker, WorkerStep(w) PROVE AllCounted'
  BY <1>2, LeaseCounted, SendCounted, ReportCounted, ReadFailedCounted,
     WriteFailedCounted
  DEF WorkerStep
<1>3. ASSUME NEW w \in Worker, Crash(w) PROVE AllCounted'
  BY <1>3, LetGoCounted DEF Crash
<1>4. CASE \/ \E m \in Message : ExecuteByOther(m)
           \/ Govern \/ NextDay \/ UNCHANGED vars
  <2>1. UNCHANGED <<queue, expired, task, overruns>>
    BY <1>4 DEF ExecuteByOther, Govern, Changes, NextDay, vars
  <2>2. \A n \in Message : Overdue(n)' = Overdue(n)
    BY <2>1 DEF Overdue, HoldsInMemory, Owns
  <2> QED
    BY <2>1, <2>2, CountedStays DEF AllCounted
<1> QED
  BY <1>1, <1>2, <1>3, <1>4 DEF Next

(***************************************************************************)
(* No two workers are at work on a message, for any number of them, beyond *)
(* one more for each lease that ran out under a living worker.             *)
(***************************************************************************)
THEOREM LeasesExcludeHolds == Spec => []LeasesExclude
<1>1. TypeOK /\ AllCounted => LeasesExclude
  <2> SUFFICES ASSUME TypeOK, AllCounted, NEW m \in Message
               PROVE  Cardinality({w \in Worker : HoldsInMemory(w, m)})
                        <= 1 + overruns
    BY DEF LeasesExclude
  <2> DEFINE holders == {w \in Worker : HoldsInMemory(w, m)}
             owner == queue.rows[m].owner
  <2>1. holders \subseteq Overdue(m) \cup {owner}
    BY DEF Overdue, Owns
  <2>2. Counted(m) /\ overruns \in Nat
    BY DEF AllCounted, TypeOK
  <2> HIDE DEF holders
  <2>3. /\ Cardinality(holders) \in Nat /\ Cardinality(Overdue(m)) \in Nat
        /\ Cardinality(holders) <= Cardinality(Overdue(m)) + 1
    BY <2>1, <2>2, CountOneMore DEF Counted
  <2> QED
    BY <2>2, <2>3 DEF Counted, holders
<1> QED
  BY <1>1, InitCounted, NextCounted, TypeCorrect, PTL DEF Spec
----------------------------------------------------------------------------
(***************************************************************************)
(* The books.  Nothing was minted after the contract's day, so on a new    *)
(* day the counter rightly starts from nothing.                            *)
(***************************************************************************)
On(day) == {m \in Message : \E i \in DOMAIN minted[m] : minted[m][i] = day}

Value == [m \in Message |-> m.value]

Booked ==
  /\ IsFiniteSet({m \in Message : Minted(m)})
  /\ contract.day <= today
  /\ \A m \in Message : \A i \in DOMAIN minted[m] :
       minted[m][i] <= contract.day
  /\ ProcessedIsMinted

LEMMA InitBooked == Init => Booked
<1> SUFFICES ASSUME Init PROVE Booked
  OBVIOUS
<1>1. \A m \in Message : minted[m] = <<>>
  BY DEF Init
<1>2. {m \in Message : Minted(m)} = {} /\ \A day : On(day) = {}
  BY <1>1 DEF Minted, On
<1>3. IsFiniteSet({})
  BY FS_EmptySet
<1>4. /\ contract.day = 0 /\ contract.executedToday = 0
      /\ contract.digests = {} /\ today = 0
  BY DEF Init, Deployed
<1>5. MintedOn(contract.day) = 0
  BY <1>2, SumEmpty DEF MintedOn, On
<1>6. ProcessedIsMinted
  BY <1>2, <1>4, <1>5 DEF ProcessedIsMinted
<1>7. \A m \in Message : DOMAIN minted[m] = {}
  BY <1>1
<1>8. IsFiniteSet({m \in Message : Minted(m)})
  BY <1>2, <1>3
<1> QED
  BY <1>4, <1>6, <1>7, <1>8 DEF Booked

\* A mint is entered under today, after all that was minted before.
LEMMA MintBooked ==
  ASSUME IInv, Booked, NEW m \in Message, NEW signers \in SUBSET Key,
         Executes(contract, m, signers, today, MaxSupply), Mint(m),
         today' = today
  PROVE  Booked' /\ MintedOn(today)' <= contract.daily
<1>1. /\ m.digest \in Nat /\ m.value \in Nat /\ today \in Nat
      /\ contract \in Storage
  BY MessageAssumption, RelayBoundAssumption DEF IInv, TypeOK
<1>2. minted[m] = <<>>
  <2>1. m.digest \notin contract.digests
    BY DEF Executes, Replayed
  <2> QED
    BY <2>1 DEF IInv, Remembered, Minted
<1>3. /\ minted' = [minted EXCEPT ![m] = <<today>>]
      /\ minted \in [Message -> Seq(Nat)]
  BY <1>2 DEF Mint, IInv, TypeOK
<1>4. /\ contract'.day = today
      /\ contract'.executedToday = ExecutedSoFar(contract, today) + m.value
      /\ contract'.digests = contract.digests \cup {m.digest}
  BY <1>1 DEF Mint, Execute, Storage
<1>5. {n \in Message : Minted(n)}' = {n \in Message : Minted(n)} \cup {m}
  BY <1>3 DEF Minted
<1>6. IsFiniteSet({n \in Message : Minted(n)}')
  BY <1>5, FS_AddElement DEF Booked
<1>7. \A n \in Message : \A i \in DOMAIN minted'[n] : minted'[n][i] <= today
  <2> SUFFICES ASSUME NEW n \in Message, NEW i \in DOMAIN minted'[n]
               PROVE  minted'[n][i] <= today
    OBVIOUS
  <2>1. CASE n = m
    BY <1>1, <1>3, <2>1
  <2>2. CASE n # m
    <3>1. minted'[n] = minted[n] /\ minted[n] \in Seq(Nat)
      BY <1>3, <2>2
    <3>2. minted[n][i] \in Nat /\ contract.day \in Nat
      BY <1>1, <3>1 DEF Storage
    <3> QED
      BY <1>1, <3>1, <3>2 DEF Booked
  <2> QED
    BY <2>1, <2>2
<1>8. On(today)' = On(today) \cup {m} /\ m \notin On(today)
  BY <1>2, <1>3 DEF On
<1>9. IsFiniteSet(On(today))
  <2>1. On(today) \subseteq {n \in Message : Minted(n)}
    BY <1>3 DEF On, Minted
  <2> QED
    BY <2>1, FS_Subset DEF Booked
<1>10. \A n \in Message : Value[n] \in Int
  BY MessageAssumption DEF Value
<1>11. SumFunctionOnSet(Value, On(today) \cup {m}) =
         SumFunctionOnSet(Value, On(today)) + Value[m]
  <2>1. On(today) \cup {m} \subseteq Message
    BY DEF On
  <2> QED
    BY <1>8, <1>9, <1>10, <2>1, SumAdd
<1>12. SumFunctionOnSet(Value, On(today)) = ExecutedSoFar(contract, today)
  <2>1. CASE today = contract.day
    BY <2>1 DEF Booked, ProcessedIsMinted, MintedOn, On, Value, ExecutedSoFar
  <2>2. CASE today # contract.day
    <3>1. On(today) = {}
      <4> SUFFICES ASSUME NEW n \in Message, NEW i \in DOMAIN minted[n],
                          minted[n][i] = today
                   PROVE  FALSE
        BY DEF On
      <4>1. contract.day < today /\ contract.day \in Nat
        BY <1>1, <2>2 DEF Booked, Storage
      <4> QED
        BY <1>1, <4>1 DEF Booked
    <3> QED
      BY <2>2, <3>1, SumEmpty DEF ExecutedSoFar
  <2> QED
    BY <2>1, <2>2
<1>13. MintedOn(today)' = ExecutedSoFar(contract, today) + m.value
  BY <1>8, <1>11, <1>12 DEF MintedOn, On, Value
<1>14. ProcessedIsMinted'
  <2>1. contract'.executedToday = MintedOn(contract.day)'
    BY <1>4, <1>13
  <2>2. contract'.digests =
          {n.digest : n \in {k \in Message : Minted(k)}'}
    BY <1>4, <1>5 DEF Booked, ProcessedIsMinted
  <2> QED
    BY <2>1, <2>2 DEF ProcessedIsMinted
<1>15. ExecutedSoFar(contract, today) + m.value <= contract.daily
  BY DEF Executes, WithinLimits
<1> QED
  BY <1>1, <1>4, <1>6, <1>7, <1>13, <1>14, <1>15 DEF Booked

\* What keeps the mints keeps the books: governance touches none of them.
LEMMA OtherwiseBooked ==
  ASSUME IInv, Booked, minted' = minted, today' \in {today, today + 1},
         contract'.day = contract.day, contract'.digests = contract.digests,
         contract'.executedToday = contract.executedToday
  PROVE  Booked'
<1>1. today \in Nat /\ contract.day \in Nat
  BY RelayBoundAssumption DEF IInv, TypeOK, Storage
<1>2. contract'.day <= today'
  BY <1>1 DEF Booked
<1>3. MintedOn(contract.day)' = MintedOn(contract.day)
  BY DEF MintedOn
<1> QED
  BY <1>2, <1>3 DEF Booked, ProcessedIsMinted, Minted

\* Every step mints one message within the day's limit, or none.
LEMMA NextBooked ==
  ASSUME IInv, Booked, [Next]_vars
  PROVE  Booked' /\ (minted' # minted => MintedOn(today)' <= contract.daily)
<1> DEFINE Quiet ==
      /\ minted' = minted /\ today' \in {today, today + 1}
      /\ contract'.day = contract.day /\ contract'.digests = contract.digests
      /\ contract'.executedToday = contract.executedToday
<1> SUFFICES
      \/ Quiet
      \/ \E m \in Message, signers \in SUBSET Key :
           /\ Executes(contract, m, signers, today, MaxSupply)
           /\ Mint(m) /\ today' = today
  BY MintBooked, OtherwiseBooked
<1>1. ASSUME NEW m \in Message, EnqueueMessage(m) \/ Expire(m) PROVE Quiet
  BY <1>1 DEF EnqueueMessage, Expire
<1>2. ASSUME NEW m \in Message, ExecuteByOther(m)
      PROVE  \E signers \in SUBSET Key :
               /\ Executes(contract, m, signers, today, MaxSupply)
               /\ Mint(m) /\ today' = today
  BY <1>2 DEF ExecuteByOther
<1>3. ASSUME NEW w \in Worker, Send(w)
      PROVE  \/ Quiet
             \/ \E m \in Message, signers \in SUBSET Key :
                  /\ Executes(contract, m, signers, today, MaxSupply)
                  /\ Mint(m) /\ today' = today
  <2>1. PICK m \in Message : m = task[w].message
    BY <1>3, TaskFacts DEF Send, IInv
  <2>2. PICK signers \in SUBSET Key :
          IF Executes(contract, m, signers, today, MaxSupply)
            THEN Mint(m) ELSE UNCHANGED <<contract, minted>>
    BY <1>3, <2>1 DEF Send
  <2>3. today' = today
    BY <1>3 DEF Send
  <2> QED
    BY <2>2, <2>3
<1>4. ASSUME NEW w \in Worker,
             \/ LeaseNext(w) \/ ReportSuccess(w) \/ ReadFailed(w)
             \/ WriteFailed(w) \/ Crash(w)
      PROVE  Quiet
  BY <1>4 DEF LeaseNext, ReportSuccess, ReadFailed, WriteFailed, Crash
<1>5. CASE Govern
  <2>1. contract \in Storage /\ minted' = minted /\ today' = today
    BY <1>5 DEF Govern, Changes, IInv, TypeOK
  <2>2. /\ contract'.day = contract.day /\ contract'.digests = contract.digests
        /\ contract'.executedToday = contract.executedToday
    BY <1>5, <2>1 DEF Govern, Changes, Storage
  <2> QED
    BY <2>1, <2>2
<1>6. CASE NextDay \/ UNCHANGED vars
  BY <1>6 DEF NextDay, vars
<1> HIDE DEF Quiet
<1> QED
  BY <1>1, <1>2, <1>3, <1>4, <1>5, <1>6 DEF Next, WorkerStep

(***************************************************************************)
(* The contract's marks are the minted messages, and its counter is what   *)
(* was minted on its day.                                                  *)
(***************************************************************************)
THEOREM ProcessedIsMintedHolds == Spec => []ProcessedIsMinted
<1>1. Booked => ProcessedIsMinted
  BY DEF Booked
<1>2. IInv /\ Booked /\ [Next]_vars => Booked'
  BY NextBooked
<1> QED
  BY <1>1, <1>2, InitBooked, Invariance, PTL DEF Spec

(***************************************************************************)
(* No day's mints exceed the limit in force at the last of them, for any   *)
(* number of messages, days and changes of the limits.                     *)
(***************************************************************************)
THEOREM WithinDailyLimitHolds == Spec => WithinDailyLimit
<1>1. IInv /\ Booked /\ [Next]_vars => Booked'
  BY NextBooked
<1>2. IInv /\ Booked /\ [Next]_vars
        => [minted' # minted => MintedOn(today)' <= contract.daily]_vars
  BY NextBooked
<1> QED
  BY <1>1, <1>2, InitBooked, Invariance, PTL DEF Spec, WithinDailyLimit
=============================================================================
