--------------------------- MODULE ProtocolKernel ---------------------------
(***************************************************************************)
(* The block transition: fee rule, transaction checks and transfers        *)
(* (protocol_kernel.py), and the selection of a candidate from the pool    *)
(* (mempool.py), as operators.                                             *)
(*                                                                         *)
(* A transaction is a record of sender, recipient, nonce, value, gas (its  *)
(* limit), cap (fee per gas), tip (priority fee per gas) and hash; equal   *)
(* hashes are equal transactions.  Its chain id, signature, addresses and  *)
(* data are taken as valid: both the pool and the kernel refuse the others.*)
(* Accounts the state does not hold have no balance and nonce 0.           *)
(***************************************************************************)
EXTENDS Integers, Sequences, FiniteSets, SequencesExt

CONSTANTS
  Address,
  BlockGasLimit,
  TargetGas,
  IntrinsicGas,     \* what every transfer uses
  FeeDenominator    \* base_fee_change_denominator

ASSUME KernelAssumption ==
  /\ {BlockGasLimit, TargetGas, IntrinsicGas, FeeDenominator} \subseteq Nat \ {0}
  /\ TargetGas <= BlockGasLimit

Greater(a, b) == IF a >= b THEN a ELSE b
Smaller(a, b) == IF a <= b THEN a ELSE b

(***************************************************************************)
(* The base fee after a block that burned fee per gas and used gas.        *)
(***************************************************************************)
FeeDelta(fee, distance) == ((fee * distance) \div TargetGas) \div FeeDenominator

NextBaseFee(fee, gas) ==
  CASE gas = TargetGas -> fee
    [] gas > TargetGas -> fee + Greater(FeeDelta(fee, gas - TargetGas), 1)
    [] gas < TargetGas -> Greater(fee - FeeDelta(fee, TargetGas - gas), 1)

\* What the validator earns per gas; only for a cap of at least the base fee.
Reward(tx, baseFee) == Smaller(tx.tip, tx.cap - baseFee)

Fee(tx, baseFee) == IntrinsicGas * (baseFee + Reward(tx, baseFee))
----------------------------------------------------------------------------
(***************************************************************************)
(* execute_block: the transactions in order on the parent's accounts.  One *)
(* that fails any check raises, and the block with it: valid is then FALSE.*)
(***************************************************************************)
\* Mutant: the funds are compared with the value alone.
AcceptableWithoutFee(result, tx, baseFee) ==
  /\ baseFee <= tx.cap /\ tx.tip <= tx.cap
  /\ tx.hash \notin result.seen
  /\ result.gas + IntrinsicGas <= BlockGasLimit
  /\ tx.nonce = result.accounts[tx.sender].nonce
  /\ result.accounts[tx.sender].balance >= tx.value

Acceptable(result, tx, baseFee) ==
  /\ IntrinsicGas <= tx.gas /\ tx.gas <= BlockGasLimit
  /\ baseFee <= tx.cap
  /\ tx.tip <= tx.cap
  /\ tx.hash \notin result.seen
  /\ result.gas + IntrinsicGas <= BlockGasLimit
  /\ tx.nonce = result.accounts[tx.sender].nonce
  /\ result.accounts[tx.sender].balance >= tx.value + Fee(tx, baseFee)

\* Mutant: the tip is not taken from the sender.
TransferTipless(accounts, tx, baseFee) ==
  [accounts EXCEPT
     ![tx.sender]    = [balance |-> @.balance - tx.value - IntrinsicGas * baseFee,
                        nonce   |-> @.nonce + 1],
     ![tx.recipient] = [@ EXCEPT !.balance = accounts[tx.recipient].balance
                                             + tx.value]]

\* Mutant: the nonce stays.
TransferSameNonce(accounts, tx, baseFee) ==
  [accounts EXCEPT
     ![tx.sender].balance = @ - tx.value - Fee(tx, baseFee),
     ![tx.recipient].balance = @ + tx.value]

\* The recipient's account is read before the sender's is written and is
\* written after it.
Transfer(accounts, tx, baseFee) ==
  LET sender    == accounts[tx.sender]
      recipient == accounts[tx.recipient]
  IN  [accounts EXCEPT
         ![tx.sender]    = [balance |-> sender.balance - tx.value
                                          - Fee(tx, baseFee),
                            nonce   |-> sender.nonce + 1],
         ![tx.recipient] = [balance |-> recipient.balance + tx.value,
                            nonce   |-> recipient.nonce]]

ApplyTransaction(result, tx, baseFee) ==
  IF ~(result.valid /\ Acceptable(result, tx, baseFee))
    THEN [result EXCEPT !.valid = FALSE]
    ELSE [valid    |-> TRUE,
          accounts |-> Transfer(result.accounts, tx, baseFee),
          gas      |-> result.gas + IntrinsicGas,
          fees     |-> result.fees + Fee(tx, baseFee),
          seen     |-> result.seen \cup {tx.hash}]

ExecuteBlock(accounts, txs, baseFee) ==
  FoldLeft(LAMBDA result, tx : ApplyTransaction(result, tx, baseFee),
           [valid |-> TRUE, accounts |-> accounts, gas |-> 0, fees |-> 0,
            seen |-> {}],
           txs)
----------------------------------------------------------------------------
(***************************************************************************)
(* build_candidate: again and again the best-paying transaction among each *)
(* sender's next one, equal rewards in the order of the hashes, while      *)
(* another transfer fits in the block.                                     *)
(***************************************************************************)
\* Mutant: a sender's transactions are taken in any order.
NextOfAnyNonce(pool, accounts, chosen, baseFee) ==
  {tx \in pool : tx.cap >= baseFee /\ tx \notin ToSet(chosen)}

NextNonce(accounts, chosen, sender) ==
  LET own == {i \in DOMAIN chosen : chosen[i].sender = sender}
  IN  IF own = {} THEN accounts[sender].nonce ELSE chosen[Max(own)].nonce + 1

NextOfSenders(pool, accounts, chosen, baseFee) ==
  {tx \in pool : /\ tx.nonce = NextNonce(accounts, chosen, tx.sender)
                 /\ tx.cap >= baseFee}

BestOf(txs, baseFee) ==
  CHOOSE tx \in txs : \A other \in txs \ {tx} :
    \/ Reward(tx, baseFee) > Reward(other, baseFee)
    \/ Reward(tx, baseFee) = Reward(other, baseFee) /\ tx.hash < other.hash

Candidate(pool, accounts, baseFee) ==
  LET chosen[k \in 0..(BlockGasLimit \div IntrinsicGas)] ==
        IF k = 0 THEN <<>>
        ELSE LET next == NextOfSenders(pool, accounts, chosen[k - 1], baseFee)
             IN  IF next = {} THEN chosen[k - 1]
                 ELSE Append(chosen[k - 1], BestOf(next, baseFee))
  IN  chosen[BlockGasLimit \div IntrinsicGas]
=============================================================================
