------------------------- MODULE ExecutionPipeline -------------------------
(***************************************************************************)
(* One node's transaction pool, execution pipeline and state store, beside *)
(* the chain the validators finalize (mempool.py, node_pipeline.py,        *)
(* state_store.py).  The node admits, replaces and prunes transactions,    *)
(* proposes the pool's candidate, commits it under a certificate, crashes, *)
(* restores its pool from a snapshot, and, with an empty disk, its store   *)
(* from a checkpoint.                                                      *)
(*                                                                         *)
(* A block hash commits to the parent, the candidate's hashes and the      *)
(* state root: path, the hashes of every block since genesis, and accounts *)
(* stand for it.                                                           *)
(***************************************************************************)
EXTENDS ProtocolKernel

CONSTANTS
  Transactions,     \* what clients may submit
  GenesisAccounts,
  GenesisFee,
  MaxTransactions,  \* the mempool policy: capacity
  MaxPerSender,
  MaxNonceGap,
  BumpPercent,
  MaxHeight         \* bound: no block above this height

ASSUME PipelineAssumption ==
  /\ Transactions \subseteq
       [sender : Address, recipient : Address, nonce : Nat, value : Nat,
        gas : Nat, cap : Nat, tip : Nat, hash : Nat]
  /\ \A t, u \in Transactions : t.hash = u.hash => t = u
  /\ GenesisAccounts \in [Address -> [balance : Nat, nonce : Nat]]
  /\ GenesisFee \in Nat \ {0}
  /\ {MaxTransactions, MaxPerSender, MaxNonceGap, BumpPercent} \subseteq Nat \ {0}
  /\ MaxHeight \in Nat

VARIABLES
  pool,        \* TransactionPool._transactions
  hashes,      \* TransactionPool._hashes
  head,        \* the store's last block
  pending,     \* the runtime's executed proposal, or NoProposal
  snapshot,    \* the last exported pool, {} before
  checkpoint,  \* the last exported checkpoint, at first the genesis state
  certified    \* the blocks the validators have finalized, from height 1

vars == <<pool, hashes, head, pending, snapshot, checkpoint, certified>>
----------------------------------------------------------------------------
Hashes(txs) == {tx.hash : tx \in txs}
Height(block) == Len(block.path)

Genesis == [path |-> <<>>, baseFee |-> GenesisFee, gas |-> 0,
            accounts |-> GenesisAccounts, fees |-> 0]

NoProposal == [txs |-> <<>>, block |-> Genesis]

Extension(parent, txs) ==
  LET fee    == NextBaseFee(parent.baseFee, parent.gas)
      result == ExecuteBlock(parent.accounts, txs, fee)
  IN  [valid |-> result.valid,
       block |-> [path     |-> Append(parent.path,
                                      [i \in DOMAIN txs |-> txs[i].hash]),
                  baseFee  |-> fee,
                  gas      |-> result.gas,
                  accounts |-> result.accounts,
                  fees     |-> result.fees]]

Selected(txs, parent) == Candidate(txs, parent.accounts, parent.baseFee)
----------------------------------------------------------------------------
Init ==
  /\ pool = {} /\ hashes = {}
  /\ head = Genesis
  /\ pending = NoProposal
  /\ snapshot = {}
  /\ checkpoint = Genesis
  /\ certified = <<>>

(***************************************************************************)
(* Admission, at the head's accounts and base fee.  The funds are compared *)
(* with this one transaction's worst case.                                 *)
(***************************************************************************)
WithinBoundary(tx) ==
  LET account == head.accounts[tx.sender]
  IN  /\ tx.nonce >= account.nonce
      /\ tx.nonce - account.nonce <= MaxNonceGap
      /\ IntrinsicGas <= tx.gas /\ tx.gas <= BlockGasLimit
      /\ tx.cap >= head.baseFee
      /\ tx.tip <= tx.cap
      /\ account.balance >= tx.value + tx.gas * tx.cap

Bumped(amount) == (amount * (100 + BumpPercent) + 99) \div 100

Replaces(tx, current) ==
  tx.cap >= Bumped(current.cap) /\ tx.tip >= Bumped(current.tip)

Rivals(tx, txs) == {t \in txs : t.sender = tx.sender /\ t.nonce = tx.nonce}

HasRoom(tx, txs) ==
  /\ Cardinality(txs) < MaxTransactions
  /\ Cardinality({t \in txs : t.sender = tx.sender}) < MaxPerSender

\* Mutant: a replaced transaction's hash stays known.
AdmitKeeping(tx) ==
  /\ WithinBoundary(tx)
  /\ tx.hash \notin hashes
  /\ IF Rivals(tx, pool) = {} THEN HasRoom(tx, pool)
                              ELSE \A t \in Rivals(tx, pool) : Replaces(tx, t)
  /\ pool' = (pool \ Rivals(tx, pool)) \cup {tx}
  /\ hashes' = hashes \cup {tx.hash}
  /\ UNCHANGED <<head, pending, snapshot, checkpoint, certified>>

Admit(tx) ==
  /\ WithinBoundary(tx)
  /\ tx.hash \notin hashes
  /\ IF Rivals(tx, pool) = {} THEN HasRoom(tx, pool)
                              ELSE \A t \in Rivals(tx, pool) : Replaces(tx, t)
  /\ pool' = (pool \ Rivals(tx, pool)) \cup {tx}
  /\ hashes' = (hashes \ Hashes(Rivals(tx, pool))) \cup {tx.hash}
  /\ UNCHANGED <<head, pending, snapshot, checkpoint, certified>>

Obsolete(tx) ==
  LET account == head.accounts[tx.sender]
  IN  \/ tx.nonce < account.nonce
      \/ tx.cap < head.baseFee
      \/ tx.nonce - account.nonce > MaxNonceGap

Prune ==
  LET removed == {tx \in pool : Obsolete(tx)}
  IN  /\ removed # {}
      /\ pool' = pool \ removed
      /\ hashes' = hashes \ Hashes(removed)
      /\ UNCHANGED <<head, pending, snapshot, checkpoint, certified>>
----------------------------------------------------------------------------
(***************************************************************************)
(* execute_candidate: selection at the head's base fee, execution at the   *)
(* next one.  A candidate that does not execute raises and leaves the pool *)
(* as it is.                                                               *)
(***************************************************************************)
Propose ==
  LET txs == Selected(pool, head)
  IN  /\ pending = NoProposal
      /\ Height(head) < MaxHeight
      /\ Extension(head, txs).valid
      /\ pending' = [txs |-> txs, block |-> Extension(head, txs).block]
      /\ UNCHANGED <<pool, hashes, head, snapshot, checkpoint, certified>>

\* A certificate names the node's block: the next one, or one already final.
Finalizes(block) ==
  \/ /\ Height(block) = Len(certified) + 1
     /\ certified' = Append(certified, block)
  \/ /\ Height(block) <= Len(certified)
     /\ certified[Height(block)] = block
     /\ UNCHANGED certified

\* commit_finalized: the block goes into the store, its transactions leave
\* the pool, those replaced in the meantime excepted.
Commit ==
  /\ pending # NoProposal
  /\ pending.block.path = Append(head.path, Last(pending.block.path))
  /\ Finalizes(pending.block)
  /\ head' = pending.block
  /\ pending' = NoProposal
  /\ pool' = pool \ ToSet(pending.txs)
  /\ hashes' = hashes \ (Hashes(ToSet(pending.txs) \cap pool))
  /\ UNCHANGED <<snapshot, checkpoint>>

\* The other validators finalize the candidate of some other pool.
OthersFinalize ==
  LET tip == IF certified = <<>> THEN Genesis ELSE Last(certified)
  IN  /\ Len(certified) < MaxHeight
      /\ \E txs \in SUBSET Transactions :
           LET next == Extension(tip, Selected(txs, tip))
           IN  /\ IsFiniteSet(txs)
               /\ \A tx \in txs : Rivals(tx, txs) = {tx}
               /\ next.valid
               /\ certified' = Append(certified, next.block)
      /\ UNCHANGED <<pool, hashes, head, pending, snapshot, checkpoint>>
----------------------------------------------------------------------------
ExportSnapshot ==
  /\ pool # {}
  /\ snapshot' = pool
  /\ UNCHANGED <<pool, hashes, head, pending, checkpoint, certified>>

\* The process dies: the pool and the proposal were in memory.
Restart ==
  /\ pool' = {} /\ hashes' = {}
  /\ pending' = NoProposal
  /\ UNCHANGED <<head, snapshot, checkpoint, certified>>

\* Mutant: a snapshot is taken back without the admission checks.
RestoreUnchecked ==
  /\ pool = {}
  /\ snapshot # {}
  /\ pool' = snapshot
  /\ hashes' = Hashes(snapshot)
  /\ UNCHANGED <<head, pending, snapshot, checkpoint, certified>>

\* restore_snapshot: every transaction passes admission again, or none is
\* taken.  The snapshot's own pool was within the limits.
RestoreSnapshot ==
  /\ pool = {}
  /\ snapshot # {}
  /\ \A tx \in snapshot : WithinBoundary(tx)
  /\ pool' = snapshot
  /\ hashes' = Hashes(snapshot)
  /\ UNCHANGED <<head, pending, snapshot, checkpoint, certified>>

\* Mutant: the checkpoint does not say how much gas its block used.
CheckpointWithoutGas(block) == [block EXCEPT !.gas = 0, !.fees = 0]

\* A checkpoint has all of a block but its receipts.
CheckpointOf(block) == [block EXCEPT !.fees = 0]

ExportCheckpoint ==
  /\ checkpoint' = CheckpointOf(head)
  /\ UNCHANGED <<pool, hashes, head, pending, snapshot, certified>>

\* The disk is replaced and the store restored from the checkpoint.
RestoreCheckpoint ==
  /\ head' = checkpoint
  /\ pool' = {} /\ hashes' = {}
  /\ pending' = NoProposal
  /\ UNCHANGED <<snapshot, checkpoint, certified>>
----------------------------------------------------------------------------
Next ==
  \/ \E tx \in Transactions : Admit(tx)
  \/ Prune \/ Propose \/ Commit \/ OthersFinalize
  \/ ExportSnapshot \/ Restart \/ RestoreSnapshot
  \/ ExportCheckpoint \/ RestoreCheckpoint

Spec == Init /\ [][Next]_vars
----------------------------------------------------------------------------
Blocks ==
  [path : Seq(Seq(Nat)), baseFee : Nat \ {0}, gas : 0..BlockGasLimit,
   accounts : [Address -> [balance : Nat, nonce : Nat]], fees : Nat]

TypeOK ==
  /\ pool \subseteq Transactions
  /\ hashes \subseteq Nat
  /\ head \in Blocks
  /\ pending \in [txs : Seq(Transactions), block : Blocks]
  /\ snapshot \subseteq Transactions
  /\ checkpoint \in Blocks
  /\ certified \in Seq(Blocks)
----------------------------------------------------------------------------
(***************************************************************************)
(* The pool's second index agrees with it through replacement, inclusion,  *)
(* pruning and restore, it holds one transaction for a sender and nonce    *)
(* and stays within its limits: a hash left behind would refuse that       *)
(* transaction for ever.                                                   *)
(***************************************************************************)
PoolSound ==
  /\ hashes = Hashes(pool)
  /\ \A tx \in pool : Rivals(tx, pool) = {tx}
  /\ Cardinality(pool) <= MaxTransactions
  /\ \A a \in Address :
       Cardinality({tx \in pool : tx.sender = a}) <= MaxPerSender

(***************************************************************************)
(* What a node has included is never pooled again: neither by commit, nor  *)
(* by a snapshot taken before the commit, nor by a client's resubmission.  *)
(***************************************************************************)
InPath(block) == UNION {ToSet(block.path[i]) : i \in DOMAIN block.path}

IncludedLeavesPool == hashes \cap InPath(head) = {}

(***************************************************************************)
(* No replay: no transaction is in the chain twice, and an account's nonce *)
(* is the number of its transactions there (test:72, "nonce gap and replay *)
(* are rejected").                                                         *)
(***************************************************************************)
Sent(block, a) ==
  {tx \in Transactions : tx.sender = a /\ tx.hash \in InPath(block)}

NoReplay ==
  \A h \in DOMAIN certified :
    LET block == certified[h] IN
      /\ \A i, j \in 1..h : \A k \in DOMAIN block.path[i] :
           \A l \in DOMAIN block.path[j] :
             block.path[i][k] = block.path[j][l] => <<i, k>> = <<j, l>>
      /\ \A a \in Address :
           block.accounts[a].nonce =
             GenesisAccounts[a].nonce + Cardinality(Sent(block, a))

(***************************************************************************)
(* No coin is made or lost: after every block the balances and all fees so *)
(* far add up to the genesis supply.                                       *)
(***************************************************************************)
Balances(accounts) == [a \in Address |-> accounts[a].balance]

SupplyConserved ==
  \A h \in DOMAIN certified :
    SumFunction(Balances(certified[h].accounts))
      + SumFunction([i \in 1..h |-> certified[i].fees])
    = SumFunction(Balances(GenesisAccounts))

(***************************************************************************)
(* A candidate that does not execute fails on the two things selection     *)
(* does not look at: the next block's base fee and what the sender's       *)
(* earlier transactions leave of its balance.                              *)
(***************************************************************************)
CandidateFailsOnFeeOrFunds ==
  LET txs == Selected(pool, head)
      fee == NextBaseFee(head.baseFee, head.gas)
      ran(i) == ExecuteBlock(head.accounts, SubSeq(txs, 1, i), fee)
  IN  \A i \in DOMAIN txs : ran(i - 1).valid /\ ~ran(i).valid =>
        \/ txs[i].cap < fee
        \/ ran(i - 1).accounts[txs[i].sender].balance
             < txs[i].value + Fee(txs[i], fee)

(***************************************************************************)
(* A node that is behind, or was restored from a checkpoint, computes the  *)
(* blocks the others finalized: executed on its head, the transactions of  *)
(* the next finalized block give that very block.                          *)
(***************************************************************************)
ByHash(h) == CHOOSE tx \in Transactions : tx.hash = h

FollowsChain ==
  Height(head) < Len(certified) =>
    LET next == certified[Height(head) + 1]
        txs  == [i \in DOMAIN Last(next.path) |-> ByHash(Last(next.path)[i])]
    IN  Extension(head, txs) = [valid |-> TRUE, block |-> next]
=============================================================================
