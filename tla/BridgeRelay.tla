---------------------------- MODULE BridgeRelay ----------------------------
(***************************************************************************)
(* Delivery of finalized bridge messages: workers lease them from the      *)
(* shared relayer journal, send them to the destination contract and       *)
(* report the outcome to the journal (relayer_journal.py,                  *)
(* JuncaTestnetBridge.sol).  Workers crash at any point and are slower     *)
(* than their lease; anybody may execute a signed message; governance      *)
(* pauses the contract and changes relayers, threshold and limits.         *)
(*                                                                         *)
(* The worker is not part of the repository: it is what the journal's      *)
(* calls are made for, with one message at a time.                         *)
(***************************************************************************)
EXTENDS RelayerJournal, BridgeContract, FiniteSetsExt

CONSTANTS
  Message,       \* records: digest, tx, nonce, value, deadline (a day)
  Worker,        \* lease owners
  Key,           \* every signer that may become a relayer
  Relayers,      \* the relayers the contract is deployed with
  Thresholds,    \* the thresholds governance tries; the first is deployed
  Limits,        \* the pairs of limits it tries; the first is deployed
  MaxAttempts,   \* RelayerJournal.max_attempts
  MaxSupply,     \* the token's cap
  LastDay,       \* bound: days
  MaxFaults,     \* bound: worker crashes, and leases shorter than the work
  MaxChanges     \* bound: calls of governance and guardian

ASSUME MessageAssumption ==
  /\ Message \subseteq [digest : Nat, tx : Nat, nonce : Nat,
                        value : Nat \ {0}, deadline : Nat]
  /\ \A m, n \in Message : m.digest = n.digest => m = n
ASSUME DeploymentAssumption ==
  /\ Relayers \subseteq Key /\ IsFiniteSet(Key)
  /\ Thresholds \in Seq(Nat) /\ Thresholds # <<>>
  /\ Limits \in Seq(Nat \X Nat) /\ Limits # <<>>
  /\ Cardinality(Relayers) >= 3
  /\ 2 <= Thresholds[1] /\ Thresholds[1] <= Cardinality(Relayers)
  /\ 0 < Limits[1][1] /\ Limits[1][1] <= Limits[1][2]
  /\ MaxAttempts \in Nat \ {0} /\ MaxSupply \in Nat
  /\ NoOwner \notin Worker
ASSUME RelayBoundAssumption ==
  {LastDay, MaxFaults, MaxChanges} \subseteq Nat

VARIABLES
  today,
  queue,      \* the journal's table
  expired,    \* messages whose lease has expired
  task,       \* task[w]: what worker w has in memory
  contract,   \* the contract's storage
  minted,     \* minted[m]: the days on which m was minted, in order
  faults,
  changes,
  overruns    \* history: the leases that ran out under a living worker

vars == <<today, queue, expired, task, contract, minted, faults, changes,
          overruns>>
----------------------------------------------------------------------------
Idle == [step |-> "idle"]
Task(step, m) == [step |-> step, message |-> m]

HoldsInMemory(w, m) == task[w].step # "idle" /\ task[w].message = m

Init ==
  /\ today = 0
  /\ queue = EmptyQueue(Message)
  /\ expired = {}
  /\ task = [w \in Worker |-> Idle]
  /\ contract = Deployed(Relayers, Thresholds[1], Limits[1][1], Limits[1][2])
  /\ minted = [m \in Message |-> <<>>]
  /\ faults = 0 /\ changes = 0 /\ overruns = 0

EnqueueMessage(m) ==
  /\ MayEnqueue(queue, m)
  /\ \E place \in 1..(Len(queue.order) + 1) :
       queue' = Enqueue(queue, m, place)
  /\ UNCHANGED <<today, expired, task, contract, minted, faults, changes,
                 overruns>>
----------------------------------------------------------------------------
LeaseNext(w) ==
  /\ task[w].step = "idle"
  /\ \E m \in FirstLeasable(queue, expired) :
       /\ queue' = Lease(queue, m, w)
       /\ expired' = expired \ {m}
       /\ task' = [task EXCEPT ![w] = Task("execute", m)]
  /\ UNCHANGED <<today, contract, minted, faults, changes, overruns>>

Mint(m) ==
  /\ contract' = Execute(contract, m, today)
  /\ minted' = [minted EXCEPT ![m] = Append(@, today)]

\* The worker hands on the signatures it has, which the relayers may have
\* given under other settings, and learns how the transaction ended.
Send(w) ==
  LET m == task[w].message IN
    /\ task[w].step = "execute"
    /\ \E signers \in SUBSET Key :
         IF Executes(contract, m, signers, today, MaxSupply)
           THEN /\ Mint(m)
                /\ task' = [task EXCEPT ![w] = Task("acknowledge", m)]
           ELSE /\ task' = [task EXCEPT ![w] = Task("fail", m)]
                /\ UNCHANGED <<contract, minted>>
    /\ UNCHANGED <<today, queue, expired, faults, changes, overruns>>

Drop(w) == task' = [task EXCEPT ![w] = Idle]

\* A report without the lease raises: the worker drops the message.
ReportSuccess(w) ==
  LET m == task[w].message IN
    /\ task[w].step = "acknowledge"
    /\ Drop(w)
    /\ queue' = IF Owns(queue, m, w) THEN Acknowledge(queue, m) ELSE queue
    /\ UNCHANGED <<today, expired, contract, minted, faults, changes,
                   overruns>>

\* fail() reads the row before its transaction begins (sqlite3 begins one
\* at the first write) and looks at neither state nor owner again: between
\* the two steps the journal is anybody's.
ReadFailed(w) ==
  LET m == task[w].message IN
    /\ task[w].step = "fail"
    /\ IF Owns(queue, m, w)
         THEN task' = [task EXCEPT ![w] =
                         Task(AfterFailure(queue, m, MaxAttempts), m)]
         ELSE Drop(w)
    /\ UNCHANGED <<today, queue, expired, contract, minted, faults, changes,
                   overruns>>

WriteFailed(w) ==
  LET m == task[w].message IN
    /\ task[w].step \in {"PENDING", "DEAD_LETTER"}
    /\ Drop(w)
    /\ queue' = Release(queue, m, task[w].step)
    /\ UNCHANGED <<today, expired, contract, minted, faults, changes,
                   overruns>>

\* A worker dies and starts anew, with nothing in memory.
Crash(w) ==
  /\ faults < MaxFaults
  /\ task[w].step # "idle"
  /\ faults' = faults + 1
  /\ Drop(w)
  /\ UNCHANGED <<today, queue, expired, contract, minted, changes, overruns>>

\* A lease runs out: its worker is dead, or late.
Expire(m) ==
  LET row == queue.rows[m] IN
    /\ row.state = "LEASED"
    /\ m \notin expired
    /\ expired' = expired \cup {m}
    /\ IF HoldsInMemory(row.owner, m)
         THEN /\ faults < MaxFaults
              /\ faults' = faults + 1 /\ overruns' = overruns + 1
         ELSE UNCHANGED <<faults, overruns>>
    /\ UNCHANGED <<today, queue, task, contract, minted, changes>>
----------------------------------------------------------------------------
\* execute is open to everybody who has the signatures.
ExecuteByOther(m) ==
  /\ \E signers \in SUBSET Key :
       Executes(contract, m, signers, today, MaxSupply)
  /\ Mint(m)
  /\ UNCHANGED <<today, queue, expired, task, faults, changes, overruns>>

Changes(c) ==
  /\ contract' = c
  /\ UNCHANGED <<today, queue, expired, task, minted, faults, overruns>>

\* setPaused, setRelayer, setSignatureThreshold and setLimits.
Govern ==
  /\ changes < MaxChanges
  /\ changes' = changes + 1
  /\ \/ Changes([contract EXCEPT !.paused = ~@])
     \/ \E k \in Key :
          LET relayers == IF k \in contract.relayers
                            THEN contract.relayers \ {k}
                            ELSE contract.relayers \cup {k}
          IN  /\ MaySetRelayers(contract, relayers)
              /\ Changes([contract EXCEPT !.relayers = relayers])
     \/ \E i \in DOMAIN Thresholds :
          /\ Thresholds[i] # contract.threshold
          /\ MaySetThreshold(contract, Thresholds[i])
          /\ Changes([contract EXCEPT !.threshold = Thresholds[i]])
     \/ \E i \in DOMAIN Limits :
          /\ Limits[i] # <<contract.perTransaction, contract.daily>>
          /\ MaySetLimits(Limits[i][1], Limits[i][2])
          /\ Changes([contract EXCEPT !.perTransaction = Limits[i][1],
                                      !.daily = Limits[i][2]])

NextDay ==
  /\ today < LastDay
  /\ today' = today + 1
  /\ UNCHANGED <<queue, expired, task, contract, minted, faults, changes,
                 overruns>>
----------------------------------------------------------------------------
WorkerStep(w) ==
  \/ LeaseNext(w) \/ Send(w)
  \/ ReportSuccess(w) \/ ReadFailed(w) \/ WriteFailed(w)

Next ==
  \/ \E m \in Message : EnqueueMessage(m) \/ Expire(m) \/ ExecuteByOther(m)
  \/ \E w \in Worker : WorkerStep(w) \/ Crash(w)
  \/ Govern \/ NextDay

\* Workers poll and time passes; a dead worker's lease runs out.
Spec ==
  /\ Init /\ [][Next]_vars
  /\ \A w \in Worker : WF_vars(WorkerStep(w))
  /\ \A m \in Message : WF_vars(Expire(m))
----------------------------------------------------------------------------
Rows ==
  [state : {"ABSENT", "PENDING", "LEASED", "EXECUTED", "DEAD_LETTER"},
   attempts : Nat, owner : Worker \cup {NoOwner}]

Tasks ==
  [step : {"execute", "acknowledge", "fail", "PENDING", "DEAD_LETTER"},
   message : Message]

Storage ==
  [paused : BOOLEAN, relayers : SUBSET Key, threshold : Nat,
   perTransaction : Nat, daily : Nat, day : Nat, executedToday : Nat,
   supply : Nat, digests : SUBSET Nat, txs : SUBSET Nat, nonces : SUBSET Nat]

TypeOK ==
  /\ today \in 0..LastDay
  /\ queue \in [rows : [Message -> Rows], order : Seq(Message)]
  /\ \A m \in Message :
       queue.rows[m].state = "LEASED" <=> queue.rows[m].owner \in Worker
  /\ expired \subseteq Message
  /\ task \in [Worker -> {Idle} \cup Tasks]
  /\ contract \in Storage
  /\ minted \in [Message -> Seq(Nat)]
  /\ {faults, changes, overruns} \subseteq Nat
----------------------------------------------------------------------------
Minted(m) == minted[m] # <<>>

(***************************************************************************)
(* At most once: however many workers, strangers and repeated leases try,  *)
(* no message is minted twice.                                             *)
(***************************************************************************)
AtMostOnce == \A m \in Message : Len(minted[m]) <= 1

(***************************************************************************)
(* Leases exclude: the workers at work on one message are one, and one     *)
(* more for each lease that ran out under a living worker.  No crash lets  *)
(* two meet; and a late worker whose fail() frees the lease of the worker  *)
(* that took over lets in no more than its own lateness allows.            *)
(***************************************************************************)
LeasesExclude ==
  \A m \in Message :
    Cardinality({w \in Worker : HoldsInMemory(w, m)}) <= 1 + overruns

(***************************************************************************)
(* What the contract marks as processed is exactly what was minted, and    *)
(* its day counter exactly what was minted on its day: a revert by the     *)
(* token leaves neither mark nor count behind.                             *)
(***************************************************************************)
MintedOn(day) ==
  SumFunctionOnSet(
    [m \in Message |-> m.value],
    {m \in Message : \E i \in DOMAIN minted[m] : minted[m][i] = day})

ProcessedIsMinted ==
  /\ contract.digests = {m.digest : m \in {n \in Message : Minted(n)}}
  /\ contract.executedToday = MintedOn(contract.day)

(***************************************************************************)
(* No day's mints exceed the limit in force at the last of them, across    *)
(* the end of a day and changes of the limits.                             *)
(***************************************************************************)
WithinDailyLimit ==
  [][minted' # minted => MintedOn(today)' <= contract.daily]_vars

(***************************************************************************)
(* Whatever governance does and in whatever order, at least two relayers   *)
(* have to agree and enough are in office to do so: execution can neither  *)
(* fall to one key nor become impossible.                                  *)
(***************************************************************************)
QuorumIsPossible ==
  /\ Cardinality(contract.relayers) >= 3
  /\ contract.threshold \in 2..Cardinality(contract.relayers)

(***************************************************************************)
(* "Bounded retries": a message is leased max_attempts times, and once     *)
(* more for each worker that crashed or was late.                          *)
(***************************************************************************)
RetriesAreBounded ==
  \A m \in Message : queue.rows[m].attempts <= MaxAttempts + faults

Settled(m) == queue.rows[m].state \in {"EXECUTED", "DEAD_LETTER"}

(***************************************************************************)
(* A settled message stays as it is, its execution as well as its          *)
(* isolation as a dead letter: a late worker's report undoes neither.      *)
(***************************************************************************)
SettledIsFinal ==
  [][\A m \in Message : Settled(m) => queue'.rows[m] = queue.rows[m]]_vars

(***************************************************************************)
(* "Crash-recoverable": every queued message ends executed or as a dead    *)
(* letter; none is left behind a crashed worker or another message.        *)
(***************************************************************************)
EveryMessageSettles ==
  \A m \in Message :
    queue.rows[m].state = "PENDING" ~> Settled(m)
=============================================================================
