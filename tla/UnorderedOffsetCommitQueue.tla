--------------------- MODULE UnorderedOffsetCommitQueue ---------------------
(***************************************************************************)
(* addons/UnorderedOffsetCommitQueue.h: which offset may be committed when  *)
(* the records of a partition are acked out of order.                       *)
(*                                                                         *)
(* The object belongs to one thread: a call runs to its end before the next *)
(* one starts.  ackOffset() contains a loop; each iteration is a step, and  *)
(* no call starts while "draining".  _offsetsToCommit is a Heap<Offset>: a  *)
(* bag whose front() is a minimum, which module OffsetHeap shows the heap   *)
(* to be.                                                                   *)
(*                                                                         *)
(* back() and front() of an empty deque are undefined behaviour.  The value *)
(* read is then any offset, and "undefinedRead" records that it happened.   *)
(***************************************************************************)
EXTENDS Integers, Sequences

CONSTANT Offsets        \* offsets the callers may name, invalid ones included

ASSUME OffsetsAreIntegers == Offsets \subseteq Int

INVALID_OFFSET == -1

VARIABLES offsetsReceived,  \* std::deque<Offset> _offsetsReceived
          offsetsToCommit,  \* Heap<Offset> _offsetsToCommit, as a multiplicity
          toCommit,         \* _toCommit
          committed,        \* _committed
          draining,         \* ackOffset() is in its loop
          undefinedRead,    \* an empty deque has been read
          waited,           \* history: offsets that waitOffset() accepted
          acked             \* history: offsets passed to ackOffset()

vars == <<offsetsReceived, offsetsToCommit, toCommit, committed, draining,
          undefinedRead, waited, acked>>

Init ==
    /\ offsetsReceived = << >>
    /\ offsetsToCommit = [o \in Offsets |-> 0]
    /\ toCommit = INVALID_OFFSET
    /\ committed = INVALID_OFFSET
    /\ draining = FALSE
    /\ undefinedRead = FALSE
    /\ waited = {}
    /\ acked = {}

Back(s) == s[Len(s)]

IsHeapFront(m) ==
    /\ offsetsToCommit[m] > 0
    /\ \A o \in Offsets : offsetsToCommit[o] > 0 => m <= o

HeapEmpty == \A o \in Offsets : offsetsToCommit[o] = 0

-----------------------------------------------------------------------------
(* waitOffset(offset): refuses a negative offset and one that is not above *)
(* the last offset still in the deque.                                     *)
AcceptsAnyOrder(o) == o >= 0                        \* faulty
AcceptsWait(o) ==
    ~(o < 0 \/ (offsetsReceived # << >> /\ o <= Back(offsetsReceived)))

waitOffset(o) ==
    /\ ~draining
    /\ IF AcceptsWait(o)
       THEN /\ offsetsReceived' = Append(offsetsReceived, o)
            /\ waited' = waited \cup {o}
       ELSE UNCHANGED <<offsetsReceived, waited>>
    /\ UNCHANGED <<offsetsToCommit, toCommit, committed, draining,
                   undefinedRead, acked>>

(* ackOffset(offset), up to its loop.  _offsetsReceived.back() is read     *)
(* only to report an ack beyond everything received; the ack is pushed in  *)
(* any case.                                                               *)
ackOffset(o) ==
    /\ ~draining
    /\ undefinedRead' = (undefinedRead \/ offsetsReceived = << >>)
    /\ offsetsToCommit' = [offsetsToCommit EXCEPT ![o] = @ + 1]
    /\ draining' = TRUE
    /\ acked' = acked \cup {o}
    /\ UNCHANGED <<offsetsReceived, toCommit, committed, waited>>

(* The values _offsetsReceived.front() may yield.                          *)
ReadFront ==
    IF offsetsReceived = << >> THEN Offsets ELSE {Head(offsetsReceived)}

(* The parts of an iteration.                                              *)
SmallerCounts(m, e) == m <= e                       \* faulty
IsExpected(m, e) == m = e

SameOffset(e) == e                                  \* faulty
NextOffset(e) == e + 1

AckKept(m) == offsetsToCommit                                   \* faulty
AckPopped(m) == [offsetsToCommit EXCEPT ![m] = @ - 1]

GoesOn == ~HeapEmpty'

(* One iteration of ackOffset()'s loop: m is the smallest offset acked,    *)
(* e the smallest one received.                                            *)
CommitFront(m, e) ==
    /\ draining
    /\ IsHeapFront(m)
    /\ IsExpected(m, e)
    /\ toCommit' = NextOffset(e)
    /\ offsetsToCommit' = AckPopped(m)
    /\ offsetsReceived' = IF offsetsReceived = << >> THEN << >>
                          ELSE Tail(offsetsReceived)
    /\ draining' = GoesOn
    /\ undefinedRead' = (undefinedRead \/ offsetsReceived = << >>)
    /\ UNCHANGED <<committed, waited, acked>>

DropStaleAck(m, e) ==
    /\ draining
    /\ IsHeapFront(m)
    /\ m < e
    /\ offsetsToCommit' = AckPopped(m)
    /\ draining' = GoesOn
    /\ undefinedRead' = (undefinedRead \/ offsetsReceived = << >>)
    /\ UNCHANGED <<offsetsReceived, toCommit, committed, waited, acked>>

StopDraining(m, e) ==
    /\ draining
    /\ IsHeapFront(m)
    /\ m > e
    /\ draining' = FALSE
    /\ undefinedRead' = (undefinedRead \/ offsetsReceived = << >>)
    /\ UNCHANGED <<offsetsReceived, offsetsToCommit, toCommit, committed,
                   waited, acked>>

(* popOffsetToCommit(), when it returns an offset.                         *)
popOffsetToCommit ==
    /\ ~draining
    /\ committed # toCommit
    /\ committed' = toCommit
    /\ UNCHANGED <<offsetsReceived, offsetsToCommit, toCommit, draining,
                   undefinedRead, waited, acked>>

(* What lastPoppedOffset() returns, and whether it returns anything.       *)
lastPoppedOffset == IF committed # INVALID_OFFSET THEN {committed} ELSE {}

-----------------------------------------------------------------------------
(* The callers.  Records of a partition arrive with growing offsets; a     *)
(* queue that is not empty refuses the others by itself.                   *)
GrowingWait(o) ==
    /\ offsetsReceived = << >> => \A w \in waited : w < o
    /\ waitOffset(o)

(* The contract of the class comment: every record waited for is acked     *)
(* once.                                                                   *)
AckOnce(o) ==
    /\ o \in waited \ acked
    /\ ackOffset(o)

Drain ==
    \E m \in Offsets : \E e \in ReadFront :
        CommitFront(m, e) \/ DropStaleAck(m, e) \/ StopDraining(m, e)

Next ==
    \/ \E o \in Offsets : GrowingWait(o) \/ AckOnce(o)
    \/ Drain
    \/ popOffsetToCommit

Spec == Init /\ [][Next]_vars

(* Callers that ack anything at any time: twice, too early, too high.      *)
AnyAckNext ==
    \/ \E o \in Offsets : GrowingWait(o) \/ ackOffset(o)
    \/ Drain
    \/ popOffsetToCommit

AnyAckSpec == Init /\ [][AnyAckNext]_vars

-----------------------------------------------------------------------------
TypeOK ==
    /\ offsetsReceived \in Seq(Offsets)
    /\ offsetsToCommit \in [Offsets -> Nat]
    /\ toCommit \in Int
    /\ committed \in Int
    /\ draining \in BOOLEAN
    /\ undefinedRead \in BOOLEAN
    /\ waited \subseteq Offsets
    /\ acked \subseteq Offsets

(* No record is lost: what has been popped to commit never passes a record *)
(* that no handler has acked yet, however the acks were ordered, repeated  *)
(* or misdirected, as long as no empty deque has been read.                *)
CommitNeverPassesUnacked ==
    ~undefinedRead =>
        \A w \in waited : w < toCommit \/ w < committed => w \in acked

(* Callers that respect the contract never make the class read an empty    *)
(* deque.                                                                  *)
NoUndefinedRead == ~undefinedRead

(* popOffsetToCommit() never returns a smaller offset than it did before.  *)
CommittedGrows == [][committed' >= committed]_committed

(* The queue commits exactly the acked prefix, neither more nor less: it   *)
(* implements OffsetCommitter.  A pop between an ack and the next call     *)
(* returns the frontier of everything acked so far.                        *)
OC == INSTANCE OffsetCommitter
ImplementsOffsetCommitter == OC!Spec
=============================================================================
