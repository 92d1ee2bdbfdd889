------------------------ MODULE MCConsumerAssignment ------------------------
(* An instance for TLC of ConsumerAssignment and of ConsumerSeek: what a    *)
(* behaviour is about is chosen at its start.                              *)
EXTENDS ConsumerAssignment, ConsumerSeek

CONSTANTS p1, p2, topicsA, topicsB, none

VARIABLE about

MCInit == about \in {"groups", "seek"} /\ Init /\ SeekInit

Groups == about = "groups" /\ Next /\ UNCHANGED <<about, seekVars>>
Seeks == about = "seek" /\ SeekNext /\ UNCHANGED <<about, vars>>

MCSpec == MCInit /\ [][Groups \/ Seeks]_<<about, vars, seekVars>> /\ Fairness /\ SeekFairness

(* subscribe(), unsubscribe() and close() return: the event they wait for   *)
(* comes, and no stray event makes them miss it.  seek() returns or throws, *)
(* however often librdkafka times out.                                      *)
EveryCallReturns == CallsReturn /\ (~Free ~> Free)
=============================================================================
