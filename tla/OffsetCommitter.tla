-------------------------- MODULE OffsetCommitter ---------------------------
(***************************************************************************)
(* What a consumer that hands records to unordered handlers needs from an   *)
(* offset commit queue: records are waited for and acked, in any order, and *)
(* the offset popped to commit is always the frontier of the acked prefix.  *)
(***************************************************************************)
EXTENDS Integers

CONSTANT Offsets

VARIABLES waited,       \* offsets of the records handed to the handlers
          acked,        \* those of them that a handler has acked
          committed     \* the offset popped last, -1 if none

vars == <<waited, acked, committed>>

Init ==
    /\ waited = {}
    /\ acked = {}
    /\ committed = -1

(* The prefix of the records up to o is acked.                             *)
PrefixAcked(o) == \A w \in waited : w <= o => w \in acked

(* f is one past the last record of the longest acked prefix.              *)
IsFrontier(f) ==
    /\ f - 1 \in waited
    /\ PrefixAcked(f - 1)
    /\ \A w \in waited : w >= f => ~PrefixAcked(w)

Wait(o) ==
    /\ o >= 0
    /\ \A w \in waited : w < o
    /\ waited' = waited \cup {o}
    /\ UNCHANGED <<acked, committed>>

Ack(o) ==
    /\ o \in waited \ acked
    /\ acked' = acked \cup {o}
    /\ UNCHANGED <<waited, committed>>

Pop ==
    /\ \E w \in waited :
          /\ IsFrontier(w + 1)
          /\ committed' = w + 1
    /\ committed' > committed
    /\ UNCHANGED <<waited, acked>>

Next ==
    \/ \E o \in Offsets : Wait(o) \/ Ack(o)
    \/ Pop

Spec == Init /\ [][Next]_vars
=============================================================================
