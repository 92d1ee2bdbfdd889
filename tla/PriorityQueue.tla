--------------------------- MODULE PriorityQueue ----------------------------
(***************************************************************************)
(* What Heap<T> promises to UnorderedOffsetCommitQueue: a bag of elements   *)
(* from which only a minimum can be removed.                                *)
(***************************************************************************)
EXTENDS Integers, Bags

CONSTANT Elements

VARIABLE queue

Init == queue = EmptyBag

Push(t) == queue' = queue (+) SetToBag({t})

IsFront(m) ==
    /\ BagIn(m, queue)
    /\ \A e \in BagToSet(queue) : m <= e

PopFront ==
    \E m \in BagToSet(queue) :
        /\ IsFront(m)
        /\ queue' = queue (-) SetToBag({m})

Next == (\E t \in Elements : Push(t)) \/ PopFront

Spec == Init /\ [][Next]_queue
=============================================================================
