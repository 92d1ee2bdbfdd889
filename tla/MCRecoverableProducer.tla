----------------------- MODULE MCRecoverableProducer ------------------------
(* Instances of KafkaRecoverableProducer for TLC.                          *)
EXTENDS KafkaRecoverableProducer

CONSTANTS r1, r2, t1, t2, poll, none

MCModes == {[auto |-> FALSE, timeouts |-> FALSE, callbacks |-> "never", capacity |-> 2]}
=============================================================================
