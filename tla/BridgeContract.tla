--------------------------- MODULE BridgeContract ---------------------------
(***************************************************************************)
(* The destination contract (JuncaTestnetBridge.sol) and the supply cap of *)
(* the token behind its adapter, as operators on a record of its storage.  *)
(* A call that does not satisfy its conditions reverts and changes nothing.*)
(*                                                                         *)
(* Time is counted in days.  A signature is its signer: the ones handed to *)
(* execute are a set, since a second one of one signer reverts.            *)
(***************************************************************************)
EXTENDS Integers, Sequences, FiniteSets

Deployed(relayers, threshold, perTransaction, daily) ==
  [paused |-> TRUE, relayers |-> relayers, threshold |-> threshold,
   perTransaction |-> perTransaction, daily |-> daily,
   day |-> 0, executedToday |-> 0, supply |-> 0,
   digests |-> {}, txs |-> {}, nonces |-> {}]

Replayed(c, m) ==
  m.digest \in c.digests \/ m.tx \in c.txs \/ m.nonce \in c.nonces

SignaturesHold(c, signers) ==
  signers \subseteq c.relayers /\ Cardinality(signers) >= c.threshold

\* Mutant: the counter is not reset with the day.
ExecutedSoFarEver(c, today) == c.executedToday

ExecutedSoFar(c, today) == IF today = c.day THEN c.executedToday ELSE 0

\* Mutant: what was executed before does not count.
WithinLimitsAlone(c, m, today) ==
  m.value <= c.perTransaction /\ m.value <= c.daily

WithinLimits(c, m, today) ==
  /\ m.value <= c.perTransaction
  /\ ExecutedSoFar(c, today) + m.value <= c.daily

\* bridgeMint of the token, reached through releaseOrMint.
Mintable(c, m, maxSupply) == c.supply + m.value <= maxSupply

Executes(c, m, signers, today, maxSupply) ==
  /\ ~c.paused
  /\ today <= m.deadline
  /\ ~Replayed(c, m)
  /\ SignaturesHold(c, signers)
  /\ WithinLimits(c, m, today)
  /\ Mintable(c, m, maxSupply)

\* Mutant: the message is not marked as processed.
ExecuteUnmarked(c, m, today) ==
  [c EXCEPT !.day = today,
            !.executedToday = ExecutedSoFar(c, today) + m.value,
            !.supply = @ + m.value]

Execute(c, m, today) ==
  [c EXCEPT !.day = today,
            !.executedToday = ExecutedSoFar(c, today) + m.value,
            !.supply = @ + m.value,
            !.digests = @ \cup {m.digest},
            !.txs = @ \cup {m.tx},
            !.nonces = @ \cup {m.nonce}]
----------------------------------------------------------------------------
\* setRelayer, with the relayers it leads to.
\* Mutant: the minimum of three relayers is forgotten.
MaySetRelayersAlone(c, relayers) == c.threshold <= Cardinality(relayers)

MaySetRelayers(c, relayers) ==
  Cardinality(relayers) >= 3 /\ c.threshold <= Cardinality(relayers)

MaySetThreshold(c, threshold) ==
  2 <= threshold /\ threshold <= Cardinality(c.relayers)

MaySetLimits(perTransaction, daily) ==
  0 < perTransaction /\ perTransaction <= daily
=============================================================================
