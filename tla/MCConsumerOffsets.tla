------------------------- MODULE MCConsumerOffsets --------------------------
(* Instances of ConsumerOffsets for TLC.                                   *)
EXTENDS ConsumerOffsets

CONSTANTS p1, p2
=============================================================================
