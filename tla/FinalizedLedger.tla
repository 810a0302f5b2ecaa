-------------------------- MODULE FinalizedLedger --------------------------
(***************************************************************************)
(* What three-of-three finality promises about the validators' stores: the *)
(* copies of the ledger only grow, a block at a time; a validator extends  *)
(* its copy only when every copy holds the parent, and then with the block *)
(* any copy ahead of it already holds.  So the copies never fork and never *)
(* drift more than one block apart.                                        *)
(***************************************************************************)
EXTENDS Integers, Sequences

CONSTANT Validator
VARIABLE ledger        \* [Validator -> Seq(timestamp)], a finalized chain each

Init == ledger = [v \in Validator |-> <<>>]

Extend(v) ==
  /\ ledger' = [ledger EXCEPT ![v] = ledger'[v]]
  /\ Len(ledger'[v]) = Len(ledger[v]) + 1
  /\ SubSeq(ledger'[v], 1, Len(ledger[v])) = ledger[v]
  /\ \A w \in Validator : ledger[w] \in {ledger[v], ledger'[v]}

Next == \E v \in Validator : Extend(v)

Spec == Init /\ [][Next]_ledger
=============================================================================
