---------------------------- MODULE MCExecution ----------------------------
(***************************************************************************)
(* Two accounts and transfers that replace each other, that are affordable *)
(* one by one but not together, and that a rising base fee prices out.     *)
(***************************************************************************)
EXTENDS ExecutionPipeline

Tx(from, to, nonce, value, cap, tip, hash) ==
  [sender |-> from, recipient |-> to, nonce |-> nonce, value |-> value,
   gas |-> 1, cap |-> cap, tip |-> tip, hash |-> hash]

Transfers ==
  {Tx(1, 2, 0, 3, 4, 1, 1), Tx(1, 2, 0, 1, 5, 2, 2), Tx(1, 2, 1, 4, 3, 1, 3),
   Tx(2, 1, 0, 1, 1, 0, 4), Tx(2, 1, 1, 1, 2, 1, 5)}

SelfTransfers == {Tx(1, 1, 0, 1, 4, 1, 1), Tx(2, 1, 0, 1, 4, 1, 2)}

Accounts == [a \in Address |-> [balance |-> IF a = 1 THEN 10 ELSE 6, nonce |-> 0]]
=============================================================================
