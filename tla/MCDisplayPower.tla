--------------------------- MODULE MCDisplayPower ---------------------------
(* Instances of DisplayPower for TLC. *)
EXTENDS DisplayPower

CONSTANTS game, hd

OneDisplay == {{hd}}
HdBuffers == [b \in {game} |-> hd]
NoBuffers == [b \in {} |-> hd]
=============================================================================
