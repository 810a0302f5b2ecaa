# Verification of the JUNCA Social Ecosystem Chain

TLA+ models of the parts of this repository whose correctness depends on the
order in which things happen, the TLC runs that check them on small instances,
and TLAPS proofs of the results that matter most for every value of the
parameters. Paths without a directory are under
`src/jaios/social_ecosystem_chain/`.

Contents: [the system](#the-system), [inventory](#inventory),
[modules](#modules), [runs](#runs), [bounds and
fairness](#bounds-and-fairness), [proofs](#proofs), [what the runs
found](#what-the-runs-found), [limits](#limits), [not modelled](#not-modelled).

## The system

Three validators run `validator_node.py` (started by `scripts/junca-chain-node`,
which installs the loop of `validator_liveness.py`). Each has a durable SQLite
store of finalized blocks (`state_store.py`), a durable journal of the votes it
signed (`consensus_signing_journal.py`), and in memory one pending proposal with
a finality machine that collects votes for it (`validator_runtime.py`,
`finality.py`). All three have power 1 and a quorum is *more than two thirds*:
all three.

    loop thread            receiving thread          RPC threads
        | broadcast_vote        | receive                 | propose / submitVote / broadcastVote
        +-----------------------+-------- consensus_lock -+
                                |
              runtime: pending proposal, round, votes
               |                 |                 |
        signing journal    peer transport     state store
          (SQLite)        (TCP, no answer)      (SQLite)

There is no leader. Once a wall-clock slot each node proposes, or keeps
its pending proposal, signs a vote and sends it to its peers one after another,
stopping at the first that cannot be reached. A node with nothing pending that
receives a vote makes the proposal the vote is about: a candidate executed on
its own head with the vote's timestamp. Since the node never admits a
transaction to its pool, two candidates on one head differ only in their
timestamp. At a quorum the block is committed and the pending state dropped.

A validator that fell behind can import blocks the others finalized from a
selected peer, under a recovery journal of its own (`peer_sync.py`,
`ValidatorSyncRecovery`). Bridges to other networks run through a message engine
(`bridge_protocol.py`), a queue of relayer jobs (`relayer_journal.py`), an
indexer of foreign events (`event_indexer.py`) and Solidity contracts.

## Inventory

| Component | State | Operations | Interacts with | What makes it hard | What makes it correct |
|---|---|---|---|---|---|
| Signing journal `consensus_signing_journal.py` | table of votes keyed by height and round, watermark | `get_or_sign`, watermark restore and check at start | called under the consensus lock by `sign_vote` | crash between signature and send; two tables that must agree | never two signatures for one coordinate; a start never refuses its own past |
| Consensus `validator_node.py`, `validator_runtime.py`, `finality.py`, `validator_liveness.py`, `node_pipeline.py`, `state_store.py` | store, journal, pending proposal, votes, loop markers, listen queue | loop iteration, broadcast, receive, three RPC methods | peers by TCP frames; journal and store by calls | lost and stale frames, partial broadcasts, nodes in different slots, crashes, operators | no fork, certified blocks, progress in a timely network |
| Recovery import `peer_sync.py`, `ValidatorSyncRecovery` | record on disk, `recovery_action`, peer registry in memory | observe, import, recover | the same store as consensus | five durable steps with crashes between; the head moves meanwhile | every restart reconciles; a retry is possible; one import at a time |
| Bridge engine `bridge_protocol.py` | a record per message, used transactions and nonces, executed value, pause | observe, apply_confirmations, attest, prepare, mark_executed, reject, set_paused | its callers only; no lock | calls in any order | replay protection, quorum and finality before execution, limits |
| Relayer journal `relayer_journal.py` | queue rows with lease, owner, attempts, state | enqueue, lease, acknowledge, fail, recover | workers that send destination transactions | a lease that expires under a live worker; workers that die | at most one effect per message; bounded retries |
| Bridge contracts `contracts/.../*.sol` | replay maps, relayer set and threshold, daily window, roles | execute, administration | relayers, asset adapter, tokens | reconfiguration between signing and execution | a message executes once, within the window's limit |
| Event indexer `event_indexer.py` | blocks and events, finalized flags, checkpoint | ingest, rollback | bridge observers | reorganisations near the finality depth | finalized blocks never change |
| Mempool and kernel `mempool.py`, `protocol_kernel.py` | transactions by sender and nonce; accounts | admit, replace, select, execute | proposals (production nodes propose empty blocks) | admission against one state, execution against another | a selected block executes; value is conserved |
| Sync protocol `consensus_sync.py`, `sync_runtime.py`, `wire_protocol.py`, `sync_finality.py` | sessions with sequence numbers, fork choice, catch-up plan | accept, plan, verify ranges | peers; not used by the node yet | a plan outlives the state it was made for | only certified ranges anchored at the head |
| Development gossip `finality_gossip.py`, `development_liveness.py` | seen votes, latest finalization | gossip, loop | the local test network | duplicates, marking before processing | as for consensus |
| Gateway, health, explorer `public_gateway.py`, ... | none between requests | read | one node | - | - |
| Governance, genesis, release and deployment checks | none: documents in, verdict out | validate | - | - | pure functions |
| Migration and operations scripts | cloud state | - | AWS | outside the repository | - |

`PROJECT.json` lists every component with its sources and status, and under
`hazards` the places where each can go wrong in a way a test would hardly reach.

## Modules

**`SigningJournal`** - pure operators on the journal's two tables. `MaySign` is
the set of refusals of `get_or_sign`, `GetOrSign` its one SQLite transaction: a
vote signed before is answered from its row *without* looking at the watermark,
a new coordinate must not lie below it. `Restored` and `StartupAccepts` are what
a start does.

**`ValidatorNetwork`** - the consensus core. One action is one critical section
of one node, because everything a node does runs under
`NodeState.consensus_lock`.

| Code | Definition |
|---|---|
| store: blocks and their timestamps | `chain[n]`, the sequence of timestamps; a block *is* the chain up to it, as its hash commits to parent, height and timestamp and its candidates are empty |
| `ConsensusSigningJournal` | `journal[n]` |
| `ValidatorRuntime._proposal`, `_round`; finality machine | `pending[n]`, `votes[n]` |
| loop markers `_last_attempted_*`, `_last_successful_*` | `attempted[n]`, `succeeded[n]` |
| frames in a listen queue | `wire[s][d]`, a queue per pair |
| `BoundedFinalityLoop.run_once`, and what `RecoveringBoundedFinalityLoop` adds | `RunOnce` with `Fresh`, `Stale` |
| `NodeState.broadcast_vote`, transport `broadcast` | `BroadcastVote`, `Outcome`, `Send`, `Tally` |
| `main.receive` | `Deliver` |
| `junca_broadcastVote`, `junca_propose`, `junca_submitVote` | `RpcBroadcast`, `RpcPropose`, `RpcSubmit` |
| process death, also between journal commit and send; start | `Crash`, `CrashAfterSigning`, `Restart` |

`Outcome(n, failed)` is the one place where the network fails: `failed` is the
first peer in sorted order that could not be reached, everything after it gets
nothing. The node hears its own vote at its own place in that order, so it may
have counted a vote its peers never see, or the reverse.

**`FinalizedLedger`** - the abstract specification: copies of one chain that
grow a block at a time, each extended only when all others hold the parent.
`ValidatorNetwork` implements it with `ledger <- chain`.

**`TimelyNetwork`** - the same network on schedule, with fairness, for liveness.

**`RecoveryImport`** - one validator's import with its record and its restarts.
The store is a height, because a certificate needs all three votes and
agreement gives one block per height; whether the hash a peer advertises is
that block's is a flag. `import` is the position in
`import_authenticated_finalized`: `SELECT`, `PREPARED`, `COMMITTED`, `MARKED`
stand between the durable steps, where `Crash` may fall. Consensus waits for
nothing: the node starts its finality loop whatever `recover()` answered
(`validator_node.py:1121-1162`), so it may finalize a block at any step of an
import, and before a retry. The history variable `overtaken` records that this
happened to the block of the present record, or that the store had the
candidate already; no action reads it.

**`BridgeProtocol`** - the message engine, an action per public method. A source
transaction has several accepted spellings, since the engine's validator admits
an optional `0x` and either case (`bridge_protocol.py:229`); what it compares
and remembers is the text, `SourceText`. `MCBridgeProtocol` gives it messages
that replay each other, one of them in another spelling.

**`ProtocolKernel`** - operators: the fee rule `NextBaseFee`, the checks and the
transfer of `execute_block`, and the selection of `build_candidate`.
**`ExecutionPipeline`** composes them with one node's pool, proposal and store
beside the chain the validators finalize.

| Code | Definition |
|---|---|
| `DeterministicMempool._transactions`, `_by_hash` | `pool`, `hashes` |
| `admit`, with its replacement rule; `prune` | `Admit` with `WithinBoundary`, `Replaces`; `Prune` |
| `execute_candidate`; `commit_finalized` of pipeline and store | `Propose`; `Commit` |
| `export_snapshot`, `restore_snapshot` | `ExportSnapshot`, `RestoreSnapshot` |
| `export_checkpoint`, `restore_checkpoint` | `ExportCheckpoint`, `RestoreCheckpoint` |
| the other validators' blocks (external) | `OthersFinalize` |

A block is the path of transaction hashes since genesis with its accounts, base
fee and gas: what its hash commits to. `MCExecution` has the transactions.

**`EventIndexer`** - `ingest_block` with its rollback (`IngestKnown`,
`IngestNew`), the source chain it indexes and the feeder that calls it, which
reads the chain at one moment (`view`) and presents blocks later. The feeder is
external: it presents the blocks of its view in any order, and the flag
`rescans` tells whether it may present a block already stored while blocks of
an abandoned branch are stored above it.

**`RelayerJournal`** and **`BridgeContract`** - operators on the relayers' queue
table and on the storage of the destination contract. **`BridgeRelay`** composes
them with workers, which lease a message, send it, and report how it ended;
with strangers who execute signed messages on their own; and with governance.
`fail()` takes two steps, `ReadFailed` and `WriteFailed`, because SQLite begins
its transaction only at the write. `Enqueue` puts a row at any place of the
order in which rows are leased, by creation time and digest: workers' clocks
may differ, and digests break ties. The history variable `overruns` counts the
leases that ran out under a living worker. `MCBridgeRelay` has the messages.

**`CatchupSync`** - a validator catching up with its peers: status frames, the
finalized fork choice and the discipline of peers (`ReceiveStatus`), the plan
for a block range or a snapshot (`Plan`), and the judgement of the reply
(`ReceiveBlockRange`, `ReceiveSnapshot`). A frame is sound; or false, when the
session reads it but its certificates or fields do not hold; or unreadable, when
`session.receive` itself raises before it counts the frame
(`wire_protocol.py:163-207`). A frame that is lost, refused unread or unreadable
leaves the session out of step for good (`ReadFrame`, `Refuse`, `Lose`). Peers are external and may be on different
branches. `MCCatchupSync` has two of them.

**`ValidatorNetworkProofs`** (with the lemmas on the signing journal and the
agreement proof), **`RecoveryImportProofs`, `BridgeProtocolProofs`,
`EventIndexerProofs`, `BridgeRelayProofs`, `CatchupSyncProofs`,
`ExecutionPipelineProofs`** - the theorems. **`FoldProofs`** - lemmas on folds,
sums and recursive functions that the last and the relay's use.

Definitions introduced by a comment `Mutant:` are deliberately wrong variants of
the definition that follows. No specification uses them; `PROJECT.json` names,
for each checked property, the one that breaks it, which shows that the
property can fail.

## Runs

| Run | What it shows |
|---|---|
| `net_safety` | 1.4 million states: three nodes with the installed loop, any send lossy in the first slot, one crash anywhere. No fork (`Agreement`), no two blocks signed at one coordinate by anyone and every journal restartable (`JournalSound`), no counted vote forgotten (`VotesAreJournaled`), the commit at quorum never refused (`PendingExtendsHead`), and the refinement `LedgerSpec`. |
| `net_rpc` | 95 thousand states: the basic loop together with operators proposing and broadcasting on the manual time grid and clients resubmitting any vote ever signed. Every finalized block stays in all three journals (`Certified`). |
| `net_timely` | When each slot's frames are processed in the slot and nothing fails, every pending proposal is finalized (`ProposalsFinalize`) and all stores reach the bound (`HeightsAdvance`). |
| `outage_recovery` | *Violated:* after one slot without connections and a perfect network from then on, two nodes wait for ever. |
| `import_recovery` | 285 thousand states: crashes at every step of an import and its retry while consensus goes on. A start is refused only where consensus overtook the record's block or the candidate was stale (`RestartReconciles`; the refusal does occur in the run), a COMMITTED record is never ahead of the store (`CommittedIsStored`), and the record is that of the import under way or of a failed stale one (`SingleFlight`). |
| `bridge_protocol` | 25 thousand states: all calls in any order on four messages that replay each other. Nothing unfinal or unattested is executed (`ExecutionIsAttested`), nothing complete is left waiting (`NoneLeftPending`), and no nonce, and no transaction in one spelling, is taken twice (`NoReplay`). |
| `execution` | 224 thousand states: replacement, pruning, stale snapshots, restarts and checkpoints in any order. No balance or fee leaves its range (`TypeOK`), the pool's two indexes agree (`PoolSound`), what is included is never pooled or included again (`IncludedLeavesPool`, `NoReplay`), value is conserved (`SupplyConserved`), a pool's candidate fails for the fee or the funds only (`CandidateFailsOnFeeOrFunds`), and a node that lags, restarts or is restored stays on the chain (`FollowsChain`). |
| `execution_replay` | *Violated:* a transfer to oneself is executed again and again. |
| `indexer` | 72 thousand states: a source chain that reorganises twice, read at any moment and presented late. What is finalized is settled on the source (`FinalizedIsSettled`), is a prefix of the index (`FinalizedIsPrefix`), only grows (`FinalizedOnlyGrows`), and comes to be all that settles (`SettledIsReported`). |
| `relay` | 459 thousand states: two workers, one crash or late worker, two governance calls, a day's end. No message is minted twice (`AtMostOnce`), two workers have one message in hand only if a lease ran out under a living one (`LeasesExclude`), the contract's marks and counter are what was minted (`ProcessedIsMinted`), no day exceeds its limit (`WithinDailyLimit`), governance cannot lose the quorum (`QuorumIsPossible`), attempts are bounded (`RetriesAreBounded`), and every message settles (`EveryMessageSettles`). |
| `relay_settled` | *Violated:* a late report of a failure undoes an execution. |
| `sync` | 456 thousand states: two peers on branches that part, with a lost, false or unreadable frame, an overwritten plan or a store that moved. What is applied is one path (`StoreIsPath`), a quarantined peer has no say (`QuarantineHolds`), a reply that fits is applied in full (`FittingReplyIsApplied`), and the validator catches up unless every peer is quarantined or itself behind (`CatchesUp`): a session out of step does not excuse a peer from being found out. |

Deadlock checking is off: every behaviour of these models ends where a bound
stops it, and a real node whose pending proposal nobody shares does stop.

## Bounds and fairness

*Network.* Two heights and two slots are the least in which a proposal of an old
slot meets one of a new slot and a commit meets a vote for the block after it.
`Backlog` 1 is a queue that holds one frame of each sender; the second frame's
send then fails, which the code treats like an unreachable peer. One crash
covers a restart of any node at any point; theorems cover any number. The
outage bound limits in which slots sends may fail at will, keeping later slots
to failures that have a cause. `net_rpc` uses slots of two clock units, as the
manual grid is finer than the slot grid, and ends after three of them: a slot
boundary falls between manual proposals. It has one height and no crash: what
it checks relates votes to journals at one height, and `CertifiedHolds` covers
the rest.
Slot timestamps count from a genesis time of 0 and clocks of different nodes
are equal; that nodes act in different slots comes from interleaving, since a
tick may fall between any two steps.

`net_timely` has as many slots as heights, so its last slot ends with every store at
the bound.

*Import.* Three heights let consensus overtake a candidate by two, two peers
make source selection a choice, two crashes interrupt an import and its retry.

*Bridge.* Three relayers with a threshold of two, counts to the required depth,
limits that two messages reach together, and a message for each way to repeat
another: same transaction, same nonce, same transaction spelled differently.

*Execution.* Five transfers of two accounts: a replacement with and one without
the required bump, two nonces of each sender, values that a balance covers one
by one but not together, caps that a rising fee passes. A pool of two makes
its limits bind; blocks of at most two transfers with a target of one let the
fee rise and fall; after three blocks the node can be two behind the others and
its snapshot two behind it.

*Indexer.* Two confirmations and five blocks: finality advances three times and
the two reorganisations can meet at the same depth. Two events make branches
differ.

*Relay.* Two messages that fill the larger daily limit together and exceed the
smaller, two days, thresholds two and three of three relayers with a fourth
key to add, two attempts, one fault: one crash or one lost lease makes two
workers meet at a message. The theorems cover any number of faults.
The token's cap, `MaxSupply`, is never reached in this run; its revert is one
more refusal of `Executes`, which the theorems cover for every cap.

*Sync.* A fork above the first of three heights, ranges of two blocks and
snapshots from a distance of three, so that each mode is planned, a range ends
below its target, and both cross the fork. One disturbance is enough for every
single loss, bad frame or overlap; two faults quarantine a peer, and the
second comes from its being out of step.

*Fairness.* `TimelyNetwork`: weak fairness of each loop thread
and of each receiving thread, which are daemons that poll at least five times
per slot (`min(1, interval / 5)` seconds) and block on `accept`; strong fairness
of time, as a retry may disable the quiet moment a tick waits for but cannot
hold up the clock. `LaterSlot` stands for all slots after the last time the
bound tells apart: it re-arms the loop markers as a new slot would, so that
the clock bound is not what stops a retry. `EventIndexer`: the feeder keeps
reading the chain and presenting what it read. `BridgeRelay`: each worker takes
its next step and time passes the end of a lease; that anybody's signatures
suffice is *not* assumed, since a message may as well settle as a dead letter.
`CatchupSync`: the caller handles what arrives and plans when nothing is owed,
and a peer answers soundly if it goes on being asked. These callers are
outside the repository; without them nothing would happen at all.

## Proofs

The network's theorems hold for every interval, height, clock, backlog, number of crashes
and outage, for both loops. Assumptions: exactly three validators of equal power
(`ValidatorAssumption`; `validator_node.py:132` and `:632` demand three) and the types of the
other constants (`BoundAssumption`). The import's hold for every finite set of peers, the
engine's for every set of messages and every policy `_validate_policy` accepts, the
indexer's for every number of confirmations and history of the source chain, the relay's
for every set of messages, workers and keys and any sequence of limits and thresholds
governance tries, the sync's for any peers, branches, limits and disturbances, the
execution's for every set of addresses and transactions, every policy of the pool and
every setting of the fee rule. The bounds of the runs are constants of the theorems.

Every safety property of every passing run is the statement of a theorem.

`ValidatorNetworkProofs` reduces the actions to a few kinds of *core step*
(`CoreStep`): a node casts its vote or holds a proposal unsent, hears a frame,
counts a resubmitted vote, dies with or without having signed, or does nothing
to the consensus state; `NextCore` shows every action is one of these.
The invariant `CoreInv` says that frames, held votes and rows extend what the
node has stored, and that whatever is held or in flight is in its sender's
journal. Neither `VotesAreJournaled` nor `Certified` is inductive alone: that a
commit leaves three signed journals behind needs that held votes are
journalled, which needs that frames are, which needs that a crash drops the
queue but never a row.

- `TypeCorrect`, `VotesAreJournaledHolds`, `PendingExtendsHeadHolds` and
  `CertifiedHolds` need no more, and hold under resubmission and operator calls.
- `AgreementHolds` assumes `~Resubmission`. It rests on *usefulness*: p's vote
  for b is useful to q if q holds it, or has it in its queue with no other
  proposal pending. `Exclusive` says that of two validators never both find the
  other's vote useful for different blocks of one height. This is why the
  stores cannot fork although the journal permits different blocks at one height
  in different rounds: with a quorum of all three, a commit needs each pair to
  find the other useful, and a vote once sent keeps binding its sender, who has
  the block pending, until that height is final. A crash breaks the sender's
  memory, but also empties what others had sent it. `Bound` and `Aligned` add
  that stores stay within one block of each other.
- `LedgerRefinement` follows: each step extends at most one store, by one block,
  onto a parent all stores hold, with the block any store ahead already has.
- `JournalSoundHolds`: a round is the block's timestamp, so at one height and
  round only one block *can* be proposed on the one chain the stores agree on.
- `RecoveryImportProofs`: `TypeCorrect` needs `Sourced`, that the fault limit
  read when the source was selected still holds when it is charged. The three
  other theorems follow from `ImportInv`, for consensus and candidates of any
  timing. It gives each position of the import its relation between record and
  head (`Positions`): unless the import was overtaken, its block is the next
  before the commit and the head after it. `Idle` carries this over crashes:
  a record that was not overtaken and that no import holds either is the next
  block's, in a process told to retry, or is one the next start reconciles.
- `BridgeProtocolProofs`: `ExecutionIsAttested` and `NoneLeftPending` are the
  two directions of one invariant on each record; `NoReplay` needs that the sets
  of used texts and nonces remember every record ever taken. It speaks of a
  transaction in one spelling, and no more than that is true.
- `EventIndexerProofs`: that what is finalized is settled needs that the final
  positions begin the index (`FinalInOrder`), that the settled blocks begin the
  source chain and reach to its confirmed depth (`SourceSettles`), and that
  what the feeder takes for confirmed is settled although its view is old
  (`ViewSettles`). `FinalizedOnlyGrows` follows step by step.
- `BridgeRelayProofs`: at-most-once needs that the contract remembers every
  mint (`Remembered`).
  `LeasesExclude` counts: a worker that has a message in hand either owns its
  running lease, and only one can, or is overdue (`Overdue`), and there are at
  most as many of those as overruns (`Counted`). That a late `fail()` frees the
  lease of the worker that took over makes that worker overdue as well, but
  takes the late one out of the count.
  `QuorumIsPossible` is inductive with the types once relayers are finite.
  `RetriesAreBounded` needs `Budgeted`: every worker that may still write a row
  whose lease it no longer holds has cost a fault, only such a worker can return
  to the queue a message that has used up its attempts, and attempts made plus
  returns still possible stay within `max_attempts` plus the faults so far.
  `ProcessedIsMinted` is inductive with `Booked`:
  no mint bears a day later than the contract's, so the first mint of a day
  starts from an empty sum. `WithinDailyLimit` is the action property that
  follows from it.
- `CatchupSyncProofs`: `StoreIsPath` needs that every range under way is a run of
  consecutive blocks of one branch (`Underway`) and every canonical block a
  proper one; `RunContinues` is the heart of it: a run whose first block's
  parent is the tip continues the tip's path, also across the fork.
  `QuarantineHoldsAlways` is an action property over the same invariant, and so
  is `FittingReplyIsAppliedHolds`, which also needs that a peer has one plan
  only (`OnePlan`): the plan the reply fits is the one it is judged against.
- `ExecutionPipelineProofs`: the invariant has four parts. The pool and the
  snapshot are sound and the index of hashes is the pool's (`Pooled`); the
  chain is built block by block by the kernel's own rules, and the node's head
  and checkpoint are on it (`Following`); a pending proposal is what its
  transactions give on the head (`Proposed`); and the types. Execution of a
  block is a fold; `ExecuteBlockRun` turns it into the last entry of a *run*,
  the sequence of intermediate results, about which lemmas speak step by step:
  what a run has seen, how nonces count, what the sums of balances and fees do.
  `TypeCorrect`, `PoolSoundHolds` and `FollowsChainHolds` follow for all
  transactions. The other four assume `NoSelfTransfer`, that no sender is its own
  recipient. The code does not ensure this, and `execution_replay` shows that
  `NoReplay` and `SupplyConserved` really fail without it; the theorems say
  that nothing else breaks them. `CandidateFailsHolds` rests on
  `CandidateFacts`: whatever the pool holds, what it selects is in nonce order
  for each sender, starting at the account's nonce, and within the block's
  gas. `IncludedLeavesPoolHolds` rests on included nonces being below the
  account's, while whatever enters the pool, by admission or by restore, is at
  or above it.
  `SupplyConservedHolds` also assumes finitely many addresses, without which
  there is no sum.
- `FoldProofs`: the library states induction for predicates passed as operators,
  which the provers cannot instantiate. Here a claim for all naturals or all
  finite sets is argued from the *set* of its counterexamples, which has a least
  element (`LeastNumber`, `MinimalSet`, from the well-foundedness of strict
  inclusion on finite sets); `UpTo` packs this as step-by-step induction
  along a range. `RecursionExists` and `IterationExists` give the recursive
  functions the folds are made of, `SumDefined`, `SumSplit`, `SumAdd` and
  `SumChange` the laws of `SumFunctionOnSet`.

*Only model-checked.* Liveness, which is out of the prover's reach:
`ProposalsFinalize` and `HeightsAdvance` of the network, `SettledIsReported` of
the indexer, `EveryMessageSettles` of the relay, `CatchesUp` of the sync.

## What the runs found

1. `outage_recovery` - `validator_liveness.py:6-8` promises that the pending
   proposal is retried until quorum finalizes it. The node that finalizes first
   stops retrying the vote the others miss, and they wait for it for ever.
2. `execution_replay` - `protocol_kernel.py:227` reads the recipient before the
   sender is written. When both are one account, the second write discards the
   debit and the nonce: the transfer mints its value and can be included again.
3. `relay_settled` - `relayer_journal.py:167` checks lease and owner before the
   transaction begins, and its update names the digest only. A lease that
   expires in between lets the late report undo another worker's execution.

Noticed while modelling, and contradicted by no document or kept by no run:

- Consensus: a slot boundary between two broadcasts makes validators propose different
  blocks, and they then wait for each other until an operator restarts one. A
  duplicate frame processed after its height is final makes an idle node
  propose the next height on the old timestamp (`validator_node.py:1137`,
  against `:846`, "at most one deterministic height per canonical time slot").
  Agreement under resubmitted votes depends on the operators not replaying old
  packets across several crashes.
- Recovery: consensus does not wait for a retry (`validator_node.py:1121-1162`).
  After a crash that leaves a PREPARED record, a start and two blocks finalized
  by consensus, the next start finds a record below its head and refuses
  (`peer_sync.py:235`); so it does when consensus overtakes an import by two
  blocks. The record is also written before the block is known to extend the
  head (`peer_sync.py:294`), and a stale candidate leaves one that a later
  start refuses. `RestartReconciles` says that these are the only ways. A retry clears the record that authorises it before a source
  is selected (`validator_node.py:488`). The running node does not call the
  import yet, only its `recover()` at start.
- Bridge engine: a source transaction is compared as text (`bridge_protocol.py:150`,
  `:155`) whose validator admits an optional `0x` and either case (`:229`), so one
  transaction in two spellings, with another nonce, is taken twice, against the
  "source-transaction and nonce replay protection" of
  `docs/JUNCA_SOCIAL_ECOSYSTEM_CHAIN_INTEROPERABILITY.md:57-61`. The module has
  the spellings and `bridge_protocol` contains such behaviours; `NoReplay` states
  the protection the code does give. The daily limit is compared when a message is prepared and counted when
  it is executed (`bridge_protocol.py:190`), so messages prepared together
  exceed it; `executed_value` is never reset, so the daily limit is a limit for
  ever; an attestation after preparation moves a message back to ATTESTED;
  pausing does not stop `mark_executed`.
- Execution: one transaction of the candidate that the next base fee prices out,
  or that is affordable alone but not after its sender's others, fails the
  whole block, and the pool offers the same candidate again until it is pruned.
- Indexer: a known ancestor presented again with a larger head finalizes what is
  stored above it, blocks of an abandoned branch included; the properties
  exclude feeders that do so.
- Relay: a message that a crashed worker minted cannot be executed again, so its
  next leases fail and it ends as a dead letter although its value has moved.
- Sync: a status is compared with the canonical blocks of its own height and the
  one below only; its claim is authenticated but not certificate-verified; a
  reply that came too late for the head or the store is charged to an honest
  peer (`sync_runtime.py:211`); a frame refused before the session reads it
  leaves the session out of step, and the peer cannot register again
  (`sync_runtime.py:92`); planning and receiving go on after a safety halt.

## Limits

- Signatures, hashes and certificates are ideal; the KMS answers.
- Blocks of the consensus model are empty, as in the node, whose pool never
  admits a transaction; `ExecutionPipeline` has transactions and takes from
  consensus that a certificate names one block per height (`Agreement`).
- `advance_round`, validator rotation and evidence exist in the libraries, but
  no path of the node calls them.
- The stores' and journals' SQLite transactions are atomic and durable.
- Frames from one sender stay in order; the code opens a connection per frame
  and serves them one after another. A frame in the listen queue is lost with
  its process.
- Contract time is counted in days; a signature is its signer; each message of the
  relay run has a nonce and source transaction of its own.
- A lease expires by the calling worker's clock; `Expire` may happen at any
  time, and counts as a fault when its owner still works.
- In `CatchupSync` a frame is sound, false or unreadable, whatever is wrong with
  it, and heights are small; `Plan` twice without an answer counts as a
  disturbance.

## Not modelled

- *Adapter and token pauses, the hand-over of governance and guardian, asset
  policies, ERC-721*: role changes and refusals that only add reverts to
  `execute`; a revert changes nothing, which `Send` and `ExecuteByOther` allow
  already.
- *Wire handshake and encodings, `evaluate_sync_acceptance`, validator set
  schedules, `verify_checkpoint`, `integrity_check`*: checks of one document
  each, with no state between calls.
- *Development gossip* (`finality_gossip.py`, `development_liveness.py`): the
  local network's variant of the vote exchange; not part of the production node.
- *Gateway, health, explorer, RPC connectors*: read-only views of one node.
- *Token genesis and governance, runtime, release and deployment evidence*: by
  far the largest part of the repository's lines, and all of it pure functions
  from a document to a verdict. A model of a field-by-field comparison would
  repeat the code; there is no order of events to check.
- *Migration, rollout and operations scripts*: shell over cloud services whose
  behaviour the repository does not contain.
