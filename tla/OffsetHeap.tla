----------------------------- MODULE OffsetHeap -----------------------------
(***************************************************************************)
(* Heap<Offset> of addons/UnorderedOffsetCommitQueue.h: a binary min-heap   *)
(* in a vector.  push() and pop_front() are loops; every iteration is one   *)
(* step here, with "phase" the loop being executed and "current" the loop's *)
(* indexCurrent.  The heap is used by one thread, so a new call starts only *)
(* when the previous one has returned (phase = "idle").                     *)
(*                                                                         *)
(* Indices: the code counts from 0 and TLA+ sequences from 1, so            *)
(* ((i+1)/2)-1 becomes i \div 2 and the children of i are 2*i and 2*i+1.    *)
(***************************************************************************)
EXTENDS Integers, Sequences, FiniteSets, Bags

CONSTANTS Elements,     \* the values pushed
          MaxSize       \* bound on the vector's length, for TLC

ASSUME ElementsAreIntegers == Elements \subseteq Int
ASSUME MaxSizeIsNatural    == MaxSize \in Nat

VARIABLES data,         \* std::vector<T> data
          phase,        \* "idle", or the loop being executed: "up" or "down"
          current       \* indexCurrent

heapVars == <<data, phase, current>>

HeapInit ==
    /\ data = << >>
    /\ phase = "idle"
    /\ current = 1

Swap(s, i, j) == [s EXCEPT ![i] = s[j], ![j] = s[i]]

Parent(i)     == i \div 2
LeftChild(i)  == 2 * i
RightChild(i) == 2 * i + 1

(* Faulty: the right child is never considered.                            *)
LeftChildOnly(i) == LeftChild(i)

(* The smaller child; the right one on a tie, as in the code.              *)
MinChild(i) ==
    IF RightChild(i) > Len(data) \/ data[LeftChild(i)] < data[RightChild(i)]
    THEN LeftChild(i)
    ELSE RightChild(i)

-----------------------------------------------------------------------------
(* push(t): append, then sift up until the parent is not larger.           *)
Push(t) ==
    /\ phase = "idle"
    /\ Len(data) < MaxSize
    /\ data' = Append(data, t)
    /\ current' = Len(data) + 1
    /\ phase' = "up"

SiftUp ==
    /\ phase = "up"
    /\ current > 1
    /\ data[current] < data[Parent(current)]
    /\ data' = Swap(data, current, Parent(current))
    /\ current' = Parent(current)
    /\ UNCHANGED phase

SiftUpDone ==
    /\ phase = "up"
    /\ current > 1 => ~(data[current] < data[Parent(current)])
    /\ phase' = "idle"
    /\ current' = 1
    /\ UNCHANGED data

(* pop_front(): the last element replaces the first, then sinks.           *)
PopFront ==
    /\ phase = "idle"
    /\ data # << >>
    /\ data' = SubSeq([data EXCEPT ![1] = data[Len(data)]], 1, Len(data) - 1)
    /\ current' = 1
    /\ phase' = IF Len(data) = 1 THEN "idle" ELSE "down"

SiftDown ==
    /\ phase = "down"
    /\ LeftChild(current) <= Len(data)
    /\ data[MinChild(current)] < data[current]
    /\ data' = Swap(data, current, MinChild(current))
    /\ current' = MinChild(current)
    /\ UNCHANGED phase

SiftDownDone ==
    /\ phase = "down"
    /\ LeftChild(current) <= Len(data) => ~(data[MinChild(current)] < data[current])
    /\ phase' = "idle"
    /\ current' = 1
    /\ UNCHANGED data

HeapNext ==
    \/ \E t \in Elements : Push(t)
    \/ SiftUp
    \/ SiftUpDone
    \/ PopFront
    \/ SiftDown
    \/ SiftDownDone

HeapSpec == HeapInit /\ [][HeapNext]_heapVars

-----------------------------------------------------------------------------
(* Loop invariants of push() and pop_front(): the order between a parent   *)
(* and its child may be broken only at the element being moved (against    *)
(* its parent on the way up, against its children on the way down), and    *)
(* the children of the moving element are never smaller than its parent.   *)
HeapOrder ==
    /\ \A i \in 2..Len(data) :
          \/ data[Parent(i)] <= data[i]
          \/ phase = "up" /\ i = current
          \/ phase = "down" /\ Parent(i) = current
    /\ phase # "idle" =>
          /\ current <= Len(data)
          /\ \A i \in 2..Len(data) :
                Parent(i) = current /\ current > 1 => data[Parent(current)] <= data[i]

(* The vector's content as a bag.                                          *)
BagOf(s) == [e \in {s[i] : i \in DOMAIN s} |-> Cardinality({i \in DOMAIN s : s[i] = e})]

Content == BagOf(data)

(* What a priority queue promises: elements go in, a minimum comes out.    *)
PQ == INSTANCE PriorityQueue WITH queue <- Content

(* The heap implements the priority queue: each push() adds exactly its    *)
(* argument, each pop_front() removes exactly one minimum, and sifting     *)
(* neither loses nor duplicates an element.                                *)
ImplementsPriorityQueue == PQ!Spec
=============================================================================
