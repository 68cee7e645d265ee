---------------------------- MODULE MCKmsOutput ----------------------------
(* Instances of KmsOutput for TLC. *)
EXTENDS KmsOutput

CONSTANTS hd, uhd

TwoDisplays == {{hd}, {uhd}}
HdDisplay   == {{hd}}
NoBuffers   == [b \in {} |-> hd]
=============================================================================
