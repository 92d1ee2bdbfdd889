------------------------ MODULE MCOffsetCommitQueue -------------------------
(* A bounded instance of the commit queue and the consumer it commits with. *)
EXTENDS ManualCommit

MCOffsets == -1..3
=============================================================================
