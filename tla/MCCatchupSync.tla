--------------------------- MODULE MCCatchupSync ---------------------------
(***************************************************************************)
(* Two peers whose branches part above the first block.                    *)
(***************************************************************************)
EXTENDS CatchupSync, TLC

CONSTANTS p1, p2

Branches == p1 :> "a" @@ p2 :> "b"
=============================================================================
