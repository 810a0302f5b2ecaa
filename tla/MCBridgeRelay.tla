--------------------------- MODULE MCBridgeRelay ---------------------------
(***************************************************************************)
(* Two transfers that are within the first of the daily limits together,   *)
(* but not within the second.                                              *)
(***************************************************************************)
EXTENDS BridgeRelay

Msg(digest, value) ==
  [digest |-> digest, tx |-> digest, nonce |-> digest, value |-> value,
   deadline |-> 1]

Messages == {Msg(1, 2), Msg(2, 2)}
TwoOrThree == <<2, 3>>
LimitPairs == <<<<2, 4>>, <<2, 3>>>>
=============================================================================
