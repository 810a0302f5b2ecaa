-------------------------- MODULE MCBridgeProtocol --------------------------
(***************************************************************************)
(* Messages for model checking: the second replays the first one's source  *)
(* transaction and the third its nonce; the fourth is the second in        *)
(* another spelling.                                                       *)
(***************************************************************************)
EXTENDS BridgeProtocol

Msg(transaction, spelling, network, nonce, value) ==
  [transaction |-> transaction, spelling |-> spelling, network |-> network,
   nonce |-> nonce, value |-> value]

MCMessage == {Msg(1, 1, 1, 1, 1), Msg(1, 1, 2, 1, 2), Msg(2, 1, 1, 1, 2),
              Msg(1, 2, 2, 1, 2)}
=============================================================================
