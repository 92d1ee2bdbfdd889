------------------------- MODULE CommitQueueProofs --------------------------
(***************************************************************************)
(* Proofs about UnorderedOffsetCommitQueue, for every set of offsets, and   *)
(* about ManualCommit, which composes it with the consumer that commits     *)
(* what it pops, for all bounds.                                            *)
(***************************************************************************)
EXTENDS ManualCommit, TLAPS

(* The inductive invariant for callers that ack anything.                  *)
Received(o) == \E i \in 1..Len(offsetsReceived) : offsetsReceived[i] = o

ReceivedGrows ==
    \A i, j \in 1..Len(offsetsReceived) :
        i < j => offsetsReceived[i] < offsetsReceived[j]

ReceivedIsWaited ==
    \A i \in 1..Len(offsetsReceived) :
        /\ offsetsReceived[i] \in waited
        /\ offsetsReceived[i] >= toCommit
        /\ offsetsReceived[i] >= 0

PendingIsAcked == \A o \in Offsets : offsetsToCommit[o] > 0 => o \in acked

WaitedIsReceivedOrDone ==
    \A w \in waited : Received(w) \/ (w < toCommit /\ w \in acked)

CommittedBehind ==
    /\ -1 <= committed
    /\ committed <= toCommit
    /\ toCommit = INVALID_OFFSET \/ toCommit - 1 \in waited

QueueInv ==
    ~undefinedRead =>
        /\ ReceivedGrows
        /\ ReceivedIsWaited
        /\ PendingIsAcked
        /\ WaitedIsReceivedOrDone
        /\ CommittedBehind

(* What holds in addition when every record is acked once: the pending     *)
(* acks are those of records still in the deque, and between two calls the *)
(* first record of the deque is not acked.                                 *)
PendingIsReceived ==
    \A o \in Offsets :
        /\ offsetsToCommit[o] > 0 => Received(o)
        /\ offsetsToCommit[o] <= 1
        /\ Received(o) /\ o \in acked => offsetsToCommit[o] > 0

FrontUnacked ==
    ~draining /\ offsetsReceived # << >> => offsetsReceived[1] \notin acked

ContractInv ==
    /\ ~undefinedRead
    /\ PendingIsReceived
    /\ acked \subseteq waited
    /\ FrontUnacked

-----------------------------------------------------------------------------
(* Every caller that respects the contract is one that acks anything.      *)
LEMMA ContractStep == [Next]_vars => [AnyAckNext]_vars
  BY DEF Next, AnyAckNext, AckOnce

-----------------------------------------------------------------------------
(* The types of the fields are preserved by every method, for callers that *)
(* ack anything.                                                           *)
LEMMA TypeStep == TypeOK /\ [AnyAckNext]_vars => TypeOK'
<1> SUFFICES ASSUME TypeOK, [AnyAckNext]_vars
             PROVE  TypeOK'
  OBVIOUS
<1> USE OffsetsAreIntegers DEF TypeOK
<1>1. ASSUME NEW o \in Offsets, GrowingWait(o)
      PROVE  TypeOK'
  <2>1. offsetsReceived' \in {offsetsReceived, Append(offsetsReceived, o)}
    BY <1>1 DEF GrowingWait, waitOffset
  <2>2. offsetsReceived' \in Seq(Offsets)
    BY <2>1
  <2>3. waited' \subseteq Offsets
    BY <1>1 DEF GrowingWait, waitOffset
  <2> QED BY <1>1, <2>2, <2>3 DEF GrowingWait, waitOffset
<1>2. ASSUME NEW o \in Offsets, ackOffset(o)
      PROVE  TypeOK'
  BY <1>2 DEF ackOffset
<1>3. ASSUME Drain
      PROVE  TypeOK'
  <2> PICK m \in Offsets, e \in ReadFront :
             CommitFront(m, e) \/ DropStaleAck(m, e) \/ StopDraining(m, e)
    BY <1>3 DEF Drain
  <2>1. offsetsToCommit[m] > 0 => offsetsToCommit[m] - 1 \in Nat
    OBVIOUS
  <2>2. e \in Int
    BY DEF ReadFront
  <2>3. CASE CommitFront(m, e)
    BY <2>1, <2>2, <2>3 DEF CommitFront, IsExpected, NextOffset, AckPopped,
                            GoesOn, IsHeapFront
  <2>4. CASE DropStaleAck(m, e)
    BY <2>1, <2>4 DEF DropStaleAck, AckPopped, GoesOn, IsHeapFront
  <2>5. CASE StopDraining(m, e)
    BY <2>5 DEF StopDraining
  <2> QED BY <2>3, <2>4, <2>5
<1>4. CASE popOffsetToCommit
  BY <1>4 DEF popOffsetToCommit
<1>5. CASE UNCHANGED vars
  BY <1>5 DEF vars
<1> QED BY <1>1, <1>2, <1>3, <1>4, <1>5 DEF AnyAckNext

LEMMA TypeInit == Init => TypeOK
<1>1. Init => draining \in BOOLEAN /\ undefinedRead \in BOOLEAN
  BY DEF Init
<1> QED BY <1>1 DEF Init, TypeOK, INVALID_OFFSET

(* Type correctness of the queue, whatever its callers ack.                *)
THEOREM TypeCorrect == AnyAckSpec => []TypeOK
  BY TypeInit, TypeStep, PTL DEF AnyAckSpec

-----------------------------------------------------------------------------
(* Facts about the deque, as a sequence of offsets.                        *)
LEMMA DequeFacts ==
    ASSUME TypeOK
    PROVE  /\ Len(offsetsReceived) \in Nat
           /\ Len(offsetsReceived) = 0 <=> offsetsReceived = << >>
           /\ \A i \in 1..Len(offsetsReceived) : offsetsReceived[i] \in Int
<1>1. \A i \in 1..Len(offsetsReceived) : offsetsReceived[i] \in Offsets
  BY DEF TypeOK
<1>2. Len(offsetsReceived) = 0 <=> offsetsReceived = << >>
  BY DEF TypeOK
<1>3. Len(offsetsReceived) \in Nat
  BY DEF TypeOK
<1>4. \A i \in 1..Len(offsetsReceived) : offsetsReceived[i] \in Int
  BY <1>1, OffsetsAreIntegers
<1> QED BY <1>2, <1>3, <1>4

LEMMA AppendFacts ==
    ASSUME TypeOK, NEW o \in Offsets
    PROVE  LET n == Len(offsetsReceived)
               s == Append(offsetsReceived, o)
           IN  /\ Len(s) = n + 1
               /\ s[n + 1] = o
               /\ \A i \in 1..n : s[i] = offsetsReceived[i]
<1>1. Append(offsetsReceived, o)[Len(offsetsReceived) + 1] = o
  BY DEF TypeOK
<1>2. \A i \in 1..Len(offsetsReceived) :
          Append(offsetsReceived, o)[i] = offsetsReceived[i]
  BY DEF TypeOK
<1> QED BY <1>1, <1>2 DEF TypeOK

LEMMA TailFacts ==
    ASSUME TypeOK, offsetsReceived # << >>
    PROVE  LET n == Len(offsetsReceived)
               s == Tail(offsetsReceived)
           IN  /\ Len(s) = n - 1
               /\ \A i \in 1..(n - 1) : s[i] = offsetsReceived[i + 1]
<1>1. Len(Tail(offsetsReceived)) = Len(offsetsReceived) - 1
  BY DEF TypeOK
<1> QED BY <1>1 DEF TypeOK

(* What a step does to the deque, for the steps that touch it.             *)
LEMMA WaitStep ==
    ASSUME TypeOK, NEW o \in Offsets, GrowingWait(o)
    PROVE  \/ UNCHANGED vars
           \/ /\ o >= 0
              /\ offsetsReceived # << >> => o > Back(offsetsReceived)
              /\ offsetsReceived = << >> => \A w \in waited : w < o
              /\ offsetsReceived' = Append(offsetsReceived, o)
              /\ waited' = waited \cup {o}
              /\ ~draining
              /\ UNCHANGED <<offsetsToCommit, toCommit, committed, draining,
                             undefinedRead, acked>>
<1>1. CASE ~AcceptsWait(o)
  BY <1>1 DEF GrowingWait, waitOffset, vars
<1>2. CASE AcceptsWait(o)
  <2>1. o \in Int /\ (offsetsReceived # << >> => Back(offsetsReceived) \in Int)
    BY OffsetsAreIntegers, DequeFacts DEF Back
  <2>2. o >= 0 /\ (offsetsReceived # << >> => o > Back(offsetsReceived))
    BY <1>2, <2>1 DEF AcceptsWait
  <2> QED BY <1>2, <2>2 DEF GrowingWait, waitOffset
<1> QED BY <1>1, <1>2

(* The invariant for callers that ack anything, step by step.  After the   *)
(* first undefined read nothing is claimed, and an undefined read is never *)
(* forgotten.                                                              *)
LEMMA QueueInvStep == TypeOK /\ QueueInv /\ [AnyAckNext]_vars => QueueInv'
<1> SUFFICES ASSUME TypeOK, QueueInv, [AnyAckNext]_vars, ~undefinedRead'
             PROVE  QueueInv'
  BY DEF QueueInv
<1> USE OffsetsAreIntegers
<1>1. ASSUME NEW o \in Offsets, GrowingWait(o)
      PROVE  QueueInv'
  <2>1. CASE UNCHANGED vars
    BY <2>1 DEF vars, QueueInv, ReceivedGrows, ReceivedIsWaited, PendingIsAcked,
                WaitedIsReceivedOrDone, CommittedBehind, Received
  <2>2. CASE ~UNCHANGED vars
    <3> DEFINE n == Len(offsetsReceived)
    <3>1. /\ o >= 0
          /\ offsetsReceived # << >> => o > offsetsReceived[n]
          /\ offsetsReceived = << >> => \A w \in waited : w < o
          /\ offsetsReceived' = Append(offsetsReceived, o)
          /\ waited' = waited \cup {o}
          /\ UNCHANGED <<offsetsToCommit, toCommit, committed, undefinedRead, acked>>
      BY <1>1, <2>2, WaitStep DEF Back
    <3>2. /\ Len(offsetsReceived') = n + 1 /\ n \in Nat
          /\ offsetsReceived'[n + 1] = o
          /\ \A i \in 1..n : offsetsReceived'[i] = offsetsReceived[i]
          /\ n = 0 <=> offsetsReceived = << >>
          /\ \A i \in 1..n : offsetsReceived[i] \in Int
      BY <3>1, DequeFacts, AppendFacts
    <3> HIDE DEF n
    <3>3. ReceivedGrows /\ ReceivedIsWaited /\ PendingIsAcked
          /\ WaitedIsReceivedOrDone /\ CommittedBehind
      BY <3>1 DEF QueueInv
    <3>4. \A i \in 1..n : offsetsReceived[i] < o
      BY <3>1, <3>2, <3>3 DEF ReceivedGrows, n
    <3>5. toCommit <= o /\ toCommit \in Int
      <4>1. CASE n = 0
        BY <3>1, <3>2, <3>3, <4>1 DEF CommittedBehind, INVALID_OFFSET, TypeOK
      <4>2. CASE n # 0
        BY <3>2, <3>3, <3>4, <4>2 DEF ReceivedIsWaited, TypeOK, n
      <4> QED BY <4>1, <4>2
    <3>6. ReceivedGrows'
      BY <3>2, <3>3, <3>4 DEF ReceivedGrows, n
    <3>7. ReceivedIsWaited'
      BY <3>1, <3>2, <3>3, <3>5 DEF ReceivedIsWaited, n
    <3>8. WaitedIsReceivedOrDone'
      <4> SUFFICES ASSUME NEW w \in waited'
                   PROVE  Received(w)' \/ (w < toCommit /\ w \in acked)
        BY <3>1 DEF WaitedIsReceivedOrDone
      <4>1. CASE w = o
        BY <3>2, <4>1 DEF Received
      <4>2. CASE w # o
        <5>1. w \in waited
          BY <3>1, <4>2
        <5>2. Received(w) => Received(w)'
          BY <3>2 DEF Received, n
        <5> QED BY <3>3, <5>1, <5>2 DEF WaitedIsReceivedOrDone
      <4> QED BY <4>1, <4>2
    <3>9. PendingIsAcked' /\ CommittedBehind'
      BY <3>1, <3>3 DEF PendingIsAcked, CommittedBehind
    <3> QED BY <3>6, <3>7, <3>8, <3>9 DEF QueueInv
  <2> QED BY <2>1, <2>2
<1>2. ASSUME NEW o \in Offsets, ackOffset(o)
      PROVE  QueueInv'
  <2>1. PendingIsAcked'
    BY <1>2 DEF ackOffset, QueueInv, PendingIsAcked, TypeOK
  <2>2. ReceivedGrows' /\ ReceivedIsWaited' /\ CommittedBehind'
    BY <1>2 DEF ackOffset, QueueInv, ReceivedGrows, ReceivedIsWaited, CommittedBehind
  <2>3. WaitedIsReceivedOrDone'
    BY <1>2 DEF ackOffset, QueueInv, WaitedIsReceivedOrDone, Received
  <2> QED BY <2>1, <2>2, <2>3 DEF QueueInv
<1>3. ASSUME NEW m \in Offsets, NEW e \in ReadFront, CommitFront(m, e)
      PROVE  QueueInv'
  <2> DEFINE n == Len(offsetsReceived)
  <2>1. offsetsReceived # << >>
    BY <1>3 DEF CommitFront, IsExpected, NextOffset, AckPopped, GoesOn
  <2>2. /\ n \in Nat /\ n > 0
        /\ e = offsetsReceived[1] /\ m = e
        /\ offsetsReceived' = Tail(offsetsReceived)
        /\ toCommit' = e + 1
        /\ UNCHANGED <<committed, waited, acked>>
    BY <1>3, <2>1 DEF CommitFront, IsExpected, NextOffset, AckPopped, GoesOn,
                      ReadFront, TypeOK
  <2>3. /\ Len(offsetsReceived') = n - 1
        /\ \A i \in 1..(n - 1) : offsetsReceived'[i] = offsetsReceived[i + 1]
        /\ \A i \in 1..n : offsetsReceived[i] \in Int
        /\ m \in acked
    <3>1. m \in acked
      BY <1>3 DEF CommitFront, IsExpected, NextOffset, AckPopped, GoesOn,
                  IsHeapFront, QueueInv, PendingIsAcked
    <3> QED BY <2>1, <2>2, <3>1, DequeFacts, TailFacts
  <2>4. ReceivedGrows /\ ReceivedIsWaited /\ PendingIsAcked
        /\ WaitedIsReceivedOrDone /\ CommittedBehind
    BY <1>3 DEF CommitFront, IsExpected, NextOffset, AckPopped, GoesOn, QueueInv
  <2> HIDE DEF n
  <2>5. \A i \in 2..n : offsetsReceived[i] > e
    BY <2>2, <2>4 DEF ReceivedGrows, n
  <2>6. ReceivedGrows'
    BY <2>2, <2>3, <2>4 DEF ReceivedGrows, n
  <2>7. ReceivedIsWaited'
    BY <2>2, <2>3, <2>4, <2>5 DEF ReceivedIsWaited, n
  <2>8. PendingIsAcked'
    <3>1. offsetsToCommit' = [offsetsToCommit EXCEPT ![m] = @ - 1]
      BY <1>3 DEF CommitFront, IsExpected, NextOffset, AckPopped, GoesOn
    <3> QED BY <2>2, <2>3, <2>4, <3>1 DEF PendingIsAcked, TypeOK
  <2>9. toCommit <= e /\ toCommit \in Int /\ e \in waited /\ e >= 0
    BY <2>2, <2>4 DEF ReceivedIsWaited, TypeOK, n
  <2>10. WaitedIsReceivedOrDone'
    <3> SUFFICES ASSUME NEW w \in waited
                 PROVE  Received(w)' \/ (w < e + 1 /\ w \in acked)
      BY <2>2 DEF WaitedIsReceivedOrDone
    <3>1. w \in Int
      BY DEF TypeOK
    <3>2. CASE Received(w)
      <4> PICK i \in 1..n : offsetsReceived[i] = w
        BY <3>2 DEF Received, n
      <4>1. CASE i = 1
        BY <2>2, <2>3, <4>1
      <4>2. CASE i # 1
        <5>1. i - 1 \in 1..(n - 1)
          BY <2>2, <4>2
        <5>2. offsetsReceived'[i - 1] = w
          BY <2>3, <5>1
        <5> QED BY <2>3, <5>1, <5>2 DEF Received
      <4> QED BY <4>1, <4>2
    <3>3. CASE ~Received(w)
      BY <2>4, <2>9, <3>1, <3>3 DEF WaitedIsReceivedOrDone
    <3> QED BY <3>2, <3>3
  <2>11. CommittedBehind'
    BY <2>2, <2>4, <2>9 DEF CommittedBehind, TypeOK
  <2> QED BY <2>6, <2>7, <2>8, <2>10, <2>11 DEF QueueInv
<1>4. ASSUME NEW m \in Offsets, NEW e \in ReadFront, DropStaleAck(m, e)
      PROVE  QueueInv'
  <2>1. PendingIsAcked'
    <3>1. offsetsToCommit' = [offsetsToCommit EXCEPT ![m] = @ - 1]
          /\ UNCHANGED acked /\ PendingIsAcked
      BY <1>4 DEF DropStaleAck, AckPopped, GoesOn, QueueInv
    <3> QED BY <1>4, <3>1 DEF DropStaleAck, AckPopped, GoesOn, IsHeapFront,
                              PendingIsAcked, TypeOK
  <2>2. ReceivedGrows' /\ ReceivedIsWaited' /\ CommittedBehind'
    BY <1>4 DEF DropStaleAck, AckPopped, GoesOn, QueueInv, ReceivedGrows,
                ReceivedIsWaited, CommittedBehind
  <2>3. WaitedIsReceivedOrDone'
    BY <1>4 DEF DropStaleAck, AckPopped, GoesOn, QueueInv,
                WaitedIsReceivedOrDone, Received
  <2> QED BY <2>1, <2>2, <2>3 DEF QueueInv
<1>5. ASSUME NEW m \in Offsets, NEW e \in ReadFront, StopDraining(m, e)
      PROVE  QueueInv'
  BY <1>5 DEF StopDraining, QueueInv, ReceivedGrows, ReceivedIsWaited, PendingIsAcked,
              WaitedIsReceivedOrDone, CommittedBehind, Received
<1>6. CASE popOffsetToCommit
  <2>1. CommittedBehind'
    BY <1>6 DEF popOffsetToCommit, QueueInv, CommittedBehind, INVALID_OFFSET, TypeOK
  <2> QED BY <1>6, <2>1 DEF popOffsetToCommit, QueueInv, ReceivedGrows, ReceivedIsWaited,
              PendingIsAcked, WaitedIsReceivedOrDone, Received
<1>7. CASE UNCHANGED vars
  BY <1>7 DEF vars, QueueInv, ReceivedGrows, ReceivedIsWaited, PendingIsAcked,
              WaitedIsReceivedOrDone, CommittedBehind, Received
<1> QED BY <1>1, <1>2, <1>3, <1>4, <1>5, <1>6, <1>7 DEF AnyAckNext, Drain

LEMMA QueueInit == Init => QueueInv
  BY DEF Init, QueueInv, ReceivedGrows, ReceivedIsWaited, PendingIsAcked,
         WaitedIsReceivedOrDone, CommittedBehind, INVALID_OFFSET

(* Whatever the callers ack, and in whatever order, the offset to commit   *)
(* never passes a record that nobody has acked.                            *)
THEOREM CommitSafety == AnyAckSpec => []CommitNeverPassesUnacked
<1>1. TypeOK /\ QueueInv => CommitNeverPassesUnacked
  BY OffsetsAreIntegers DEF TypeOK, QueueInv, ReceivedIsWaited, WaitedIsReceivedOrDone,
         CommittedBehind, Received, CommitNeverPassesUnacked
<1> QED BY <1>1, TypeInit, TypeStep, QueueInit, QueueInvStep, PTL DEF AnyAckSpec

-----------------------------------------------------------------------------
(* The part of the invariant that needs the contract "ack every record     *)
(* once".                                                                  *)
LEMMA ContractPreserved ==
    TypeOK /\ QueueInv /\ ContractInv /\ [Next]_vars => ContractInv'
<1> SUFFICES ASSUME TypeOK, QueueInv, ContractInv, [Next]_vars
             PROVE  ContractInv'
  OBVIOUS
<1> USE OffsetsAreIntegers
<1> DEFINE n == Len(offsetsReceived)
<1>a. ReceivedGrows /\ ReceivedIsWaited /\ WaitedIsReceivedOrDone /\ CommittedBehind
  BY DEF QueueInv, ContractInv
<1>b. /\ n \in Nat
      /\ n = 0 <=> offsetsReceived = << >>
      /\ \A i \in 1..n : offsetsReceived[i] \in Int
  BY DequeFacts
<1>c. ASSUME UNCHANGED <<offsetsReceived, offsetsToCommit, acked>>
      PROVE  PendingIsReceived'
  BY <1>c DEF ContractInv, PendingIsReceived, Received
<1>1. ASSUME NEW o \in Offsets, GrowingWait(o)
      PROVE  ContractInv'
  <2>1. CASE UNCHANGED vars
    BY <1>c, <2>1 DEF vars, ContractInv, FrontUnacked
  <2>2. CASE ~UNCHANGED vars
    <3>1. /\ offsetsReceived # << >> => o > offsetsReceived[n]
          /\ offsetsReceived = << >> => \A w \in waited : w < o
          /\ offsetsReceived' = Append(offsetsReceived, o)
          /\ waited' = waited \cup {o}
          /\ ~draining
          /\ UNCHANGED <<offsetsToCommit, draining, undefinedRead, acked>>
      BY <1>1, <2>2, WaitStep DEF Back
    <3>2. /\ Len(offsetsReceived') = n + 1
          /\ offsetsReceived'[n + 1] = o
          /\ \A i \in 1..n : offsetsReceived'[i] = offsetsReceived[i]
      BY <3>1, AppendFacts
    <3> HIDE DEF n
    <3>3. o \notin waited
      <4>1. CASE n = 0
        BY <1>b, <3>1, <4>1
      <4>2. CASE n # 0
        <5>1. \A i \in 1..n : offsetsReceived[i] < o
          BY <1>a, <1>b, <3>1, <4>2 DEF ReceivedGrows, n
        <5>2. ~Received(o)
          BY <1>b, <5>1 DEF Received, n
        <5>3. toCommit <= o
          BY <1>a, <1>b, <4>2, <5>1 DEF ReceivedIsWaited, TypeOK, n
        <5> QED BY <1>a, <5>2, <5>3 DEF WaitedIsReceivedOrDone, TypeOK
      <4> QED BY <4>1, <4>2
    <3>4. o \notin acked
      BY <3>3 DEF ContractInv
    <3>5. \A p \in Offsets : Received(p)' <=> Received(p) \/ p = o
      BY <1>b, <3>2 DEF Received, n
    <3>6. PendingIsReceived'
      BY <3>1, <3>4, <3>5 DEF ContractInv, PendingIsReceived
    <3>7. FrontUnacked'
      BY <1>b, <3>1, <3>2, <3>4 DEF ContractInv, FrontUnacked, n
    <3> QED BY <3>1, <3>6, <3>7 DEF ContractInv
  <2> QED BY <2>1, <2>2
<1>2. ASSUME NEW o \in Offsets, AckOnce(o)
      PROVE  ContractInv'
  <2>1. /\ o \in waited /\ o \notin acked
        /\ offsetsToCommit' = [offsetsToCommit EXCEPT ![o] = @ + 1]
        /\ draining'
        /\ acked' = acked \cup {o}
        /\ undefinedRead' = (undefinedRead \/ offsetsReceived = << >>)
        /\ UNCHANGED <<offsetsReceived, waited>>
    BY <1>2 DEF AckOnce, ackOffset
  <2>2. Received(o)
    BY <1>a, <2>1 DEF WaitedIsReceivedOrDone
  <2>3. offsetsReceived # << >>
    BY <1>b, <2>2 DEF Received
  <2>4. offsetsToCommit[o] = 0
    <3>1. offsetsToCommit[o] > 0 => o \in acked
      BY DEF QueueInv, ContractInv, PendingIsAcked
    <3> QED BY <2>1, <3>1 DEF TypeOK
  <2>5. \A p \in Offsets : Received(p)' <=> Received(p)
    BY <2>1 DEF Received
  <2>6. PendingIsReceived'
    BY <2>1, <2>2, <2>4, <2>5 DEF ContractInv, PendingIsReceived, TypeOK
  <2> QED BY <2>1, <2>3, <2>6 DEF ContractInv, FrontUnacked
<1>3. ASSUME Drain
      PROVE  ContractInv'
  <2> PICK m \in Offsets, e \in ReadFront :
             CommitFront(m, e) \/ DropStaleAck(m, e) \/ StopDraining(m, e)
    BY <1>3 DEF Drain
  <2>1. Received(m)
    BY DEF CommitFront, IsExpected, NextOffset, AckPopped, GoesOn,
           DropStaleAck, StopDraining, IsHeapFront, ContractInv,
           PendingIsReceived
  <2>2. n > 0 /\ offsetsReceived # << >> /\ e = offsetsReceived[1]
    BY <1>b, <2>1 DEF Received, ReadFront
  <2>3. e <= m
    BY <1>a, <1>b, <2>1, <2>2 DEF ReceivedGrows, Received
  <2>4. CASE CommitFront(m, e)
    <3>1. /\ m = e
          /\ offsetsToCommit' = [offsetsToCommit EXCEPT ![m] = @ - 1]
          /\ offsetsReceived' = Tail(offsetsReceived)
          /\ draining' = ~HeapEmpty'
          /\ undefinedRead' = (undefinedRead \/ offsetsReceived = << >>)
          /\ UNCHANGED <<waited, acked>>
      BY <2>2, <2>4 DEF CommitFront, IsExpected, NextOffset, AckPopped, GoesOn
    <3>2. /\ Len(offsetsReceived') = n - 1
          /\ \A i \in 1..(n - 1) : offsetsReceived'[i] = offsetsReceived[i + 1]
      BY <2>2, <3>1, TailFacts
    <3> HIDE DEF n
    <3>3. ASSUME NEW p \in Offsets
          PROVE  Received(p)' <=> Received(p) /\ p # m
      <4>1. ASSUME Received(p)'
            PROVE  Received(p) /\ p # m
        <5> PICK i \in 1..(n - 1) : offsetsReceived'[i] = p
          BY <3>2, <4>1 DEF Received
        <5>1. i + 1 \in 1..n /\ offsetsReceived[i + 1] = p
          BY <1>b, <3>2
        <5>2. offsetsReceived[1] < offsetsReceived[i + 1]
          BY <1>a, <1>b, <2>2, <5>1 DEF ReceivedGrows, n
        <5> QED BY <1>b, <2>2, <3>1, <5>1, <5>2 DEF Received, n
      <4>2. ASSUME Received(p), p # m
            PROVE  Received(p)'
        <5> PICK i \in 1..n : offsetsReceived[i] = p
          BY <4>2 DEF Received, n
        <5>1. i - 1 \in 1..(n - 1)
          BY <1>b, <2>2, <3>1, <4>2
        <5>2. offsetsReceived'[i - 1] = p
          BY <3>2, <5>1
        <5> QED BY <3>2, <5>1, <5>2 DEF Received
      <4> QED BY <4>1, <4>2
    <3>4. offsetsToCommit[m] = 1
      BY <2>4 DEF CommitFront, IsExpected, NextOffset, AckPopped, GoesOn,
                  IsHeapFront, ContractInv, PendingIsReceived, TypeOK
    <3>5. PendingIsReceived'
      BY <3>1, <3>3, <3>4 DEF ContractInv, PendingIsReceived, TypeOK
    <3>6. FrontUnacked'
      <4> SUFFICES ASSUME HeapEmpty', offsetsReceived' # << >>
                   PROVE  offsetsReceived'[1] \notin acked'
        BY <3>1 DEF FrontUnacked
      <4>1. TypeOK'
        BY TypeStep, ContractStep
      <4>2. Len(offsetsReceived') > 0 /\ offsetsReceived'[1] \in Offsets
        BY <4>1 DEF TypeOK
      <4> PICK f \in Offsets : f = offsetsReceived'[1]
        BY <4>2
      <4>3. Received(f)'
        BY <1>b, <3>2, <4>2 DEF Received
      <4>4. f \notin acked'
        BY <3>5, <4>3 DEF PendingIsReceived, HeapEmpty
      <4> QED BY <4>4
    <3> QED BY <2>2, <3>1, <3>5, <3>6 DEF ContractInv
  <2>5. CASE DropStaleAck(m, e)
    BY <1>b, <2>2, <2>3, <2>5 DEF DropStaleAck, AckPopped, GoesOn
  <2>6. CASE StopDraining(m, e)
    <3>1. /\ ~(offsetsToCommit[e] > 0)
          /\ e \in Offsets
      BY <1>b, <2>2, <2>6 DEF StopDraining, IsHeapFront, TypeOK
    <3>2. Received(e)
      BY <1>b, <2>2 DEF Received
    <3>3. e \notin acked
      BY <3>1, <3>2 DEF ContractInv, PendingIsReceived
    <3> QED BY <1>c, <2>2, <2>6, <3>3 DEF StopDraining, ContractInv, FrontUnacked
  <2> QED BY <2>4, <2>5, <2>6
<1>4. CASE popOffsetToCommit
  BY <1>4, <1>c DEF popOffsetToCommit, ContractInv, FrontUnacked
<1>5. CASE UNCHANGED vars
  BY <1>5, <1>c DEF vars, ContractInv, FrontUnacked
<1> QED BY <1>1, <1>2, <1>3, <1>4, <1>5 DEF Next

LEMMA ContractInit == Init => ContractInv
  BY DEF Init, ContractInv, PendingIsReceived, FrontUnacked, Received

(* All invariants of the queue under its contract.                         *)
LEMMA AllInvariants == Spec => [](TypeOK /\ QueueInv /\ ContractInv)
  BY TypeInit, TypeStep, QueueInit, QueueInvStep, ContractInit, ContractPreserved,
     ContractStep, PTL DEF Spec

(* Callers that ack each record once never make the class read an empty    *)
(* deque.                                                                  *)
THEOREM ContractSafety == Spec => []NoUndefinedRead
<1>1. ContractInv => NoUndefinedRead
  BY DEF ContractInv, NoUndefinedRead
<1> QED BY <1>1, AllInvariants, PTL

-----------------------------------------------------------------------------
(* Every step of the queue is a step of OffsetCommitter or leaves its      *)
(* variables alone.                                                        *)
LEMMA StepSimulation ==
    TypeOK /\ QueueInv /\ ContractInv /\ [Next]_vars => [OC!Next]_(OC!vars)
<1> SUFFICES ASSUME TypeOK, QueueInv, ContractInv, [Next]_vars
             PROVE  [OC!Next]_(OC!vars)
  OBVIOUS
<1> USE OffsetsAreIntegers
<1>a. ReceivedGrows /\ ReceivedIsWaited /\ WaitedIsReceivedOrDone /\ CommittedBehind
  BY DEF QueueInv, ContractInv
<1>1. ASSUME NEW o \in Offsets, GrowingWait(o)
      PROVE  [OC!Next]_(OC!vars)
  <2>1. CASE UNCHANGED vars
    BY <2>1 DEF vars, OC!vars
  <2>2. CASE ~UNCHANGED vars
    <3> DEFINE n == Len(offsetsReceived)
    <3>1. /\ o >= 0
          /\ offsetsReceived # << >> => o > offsetsReceived[n]
          /\ offsetsReceived = << >> => \A w \in waited : w < o
          /\ waited' = waited \cup {o}
          /\ UNCHANGED <<committed, acked>>
      BY <1>1, <2>2, WaitStep DEF Back
    <3>2. ASSUME NEW w \in waited
          PROVE  w < o
      <4>1. n \in Nat /\ (n = 0 <=> offsetsReceived = << >>)
            /\ \A i \in 1..n : offsetsReceived[i] \in Int
        BY DequeFacts
      <4>2. CASE n = 0
        BY <3>1, <4>1, <4>2
      <4>3. CASE n # 0
        <5>1. \A i \in 1..n : offsetsReceived[i] < o
          BY <1>a, <3>1, <4>1, <4>3 DEF ReceivedGrows
        <5>2. toCommit <= o /\ w \in Int
          BY <1>a, <4>1, <4>3, <5>1 DEF ReceivedIsWaited, TypeOK
        <5> QED BY <1>a, <5>1, <5>2 DEF WaitedIsReceivedOrDone, Received, TypeOK
      <4> QED BY <4>2, <4>3
    <3> QED BY <3>1, <3>2 DEF OC!Next, OC!Wait
  <2> QED BY <2>1, <2>2
<1>2. ASSUME NEW o \in Offsets, AckOnce(o)
      PROVE  [OC!Next]_(OC!vars)
  BY <1>2 DEF AckOnce, ackOffset, OC!Next, OC!Ack
<1>3. CASE Drain
  BY <1>3 DEF Drain, CommitFront, IsExpected, NextOffset, AckPopped, GoesOn,
              DropStaleAck, StopDraining, OC!vars
<1>4. CASE popOffsetToCommit
  <2>1. /\ committed' = toCommit /\ committed # toCommit /\ ~draining
        /\ UNCHANGED <<waited, acked>>
    BY <1>4 DEF popOffsetToCommit
  <2>2. toCommit > committed /\ toCommit - 1 \in waited /\ toCommit \in Int
    BY <1>a, <2>1 DEF CommittedBehind, INVALID_OFFSET, TypeOK
  <2>3. OC!PrefixAcked(toCommit - 1)
    BY <1>a, <2>2 DEF OC!PrefixAcked, ReceivedIsWaited, WaitedIsReceivedOrDone,
                      Received, TypeOK
  <2>4. ASSUME NEW w \in waited, w >= toCommit
        PROVE  ~OC!PrefixAcked(w)
    <3>1. Received(w)
      BY <1>a, <2>2, <2>4 DEF WaitedIsReceivedOrDone, TypeOK
    <3>2. /\ Len(offsetsReceived) \in Nat /\ Len(offsetsReceived) > 0
          /\ offsetsReceived # << >>
          /\ \A i \in 1..Len(offsetsReceived) : offsetsReceived[i] \in Int
      BY <3>1, DequeFacts DEF Received
    <3>3. offsetsReceived[1] <= w /\ offsetsReceived[1] \in waited
      BY <1>a, <3>1, <3>2 DEF Received, ReceivedGrows, ReceivedIsWaited
    <3>4. offsetsReceived[1] \notin acked
      BY <2>1, <3>2 DEF ContractInv, FrontUnacked
    <3> QED BY <3>3, <3>4 DEF OC!PrefixAcked
  <2>5. OC!IsFrontier((toCommit - 1) + 1)
    <3>1. (toCommit - 1) + 1 = toCommit
      BY <2>2
    <3> QED BY <2>2, <2>3, <2>4, <3>1 DEF OC!IsFrontier
  <2> QED BY <2>1, <2>2, <2>5 DEF OC!Next, OC!Pop
<1>5. CASE UNCHANGED vars
  BY <1>5 DEF vars, OC!vars
<1> QED BY <1>1, <1>2, <1>3, <1>4, <1>5 DEF Next

(* The queue, used as its class comment asks, implements OffsetCommitter:  *)
(* what popOffsetToCommit() returns is always the frontier of the acked    *)
(* prefix, for every set of offsets and every order of acks.               *)
THEOREM Refinement == Spec => ImplementsOffsetCommitter
<1>1. Init => OC!Init
  BY DEF Init, OC!Init, INVALID_OFFSET
<1> QED BY <1>1, AllInvariants, StepSimulation, PTL
         DEF Spec, OC!Spec, ImplementsOffsetCommitter

(* popOffsetToCommit() never goes back.                                    *)
THEOREM PopGrows == Spec => CommittedGrows
<1>1. TypeOK /\ QueueInv /\ ContractInv /\ [Next]_vars => [committed' >= committed]_committed
  <2> SUFFICES ASSUME TypeOK, QueueInv, ContractInv, [Next]_vars, committed' # committed
               PROVE  committed' >= committed
    OBVIOUS
  <2>1. popOffsetToCommit
    BY DEF Next, vars, GrowingWait, waitOffset, AckOnce, ackOffset, Drain,
           CommitFront, IsExpected, NextOffset, AckPopped, GoesOn,
           DropStaleAck, StopDraining
  <2> QED BY <2>1 DEF popOffsetToCommit, QueueInv, ContractInv, CommittedBehind, TypeOK
<1> QED BY <1>1, AllInvariants, PTL DEF Spec, CommittedGrows

-----------------------------------------------------------------------------
(* ManualCommit: the consumer, its requests and the queue of its callbacks. *)
Request == [commit : Commit \cup {Sync}, offset : Int]

CommitsTypeOK ==
    /\ background \in BOOLEAN
    /\ pc \in {"running", "sync", "stopping", "closing", "draining", "closed"}
    /\ numCommits \in 0..MaxCommits
    /\ requests \in Seq(Request)
    /\ cbQueue \in Seq(Commit) /\ calls \in Seq(Commit)
    /\ opaque \in [Commit -> {"none", "held", "leaked", "deleted"}]
    /\ calling \in ({"thread", "app"} \X Commit) \cup {Nobody}
    /\ group \in Int /\ synced \in Int /\ errors \in Nat

(* The inductive invariant of the callbacks.  A commit goes through the     *)
(* requests, the callback queue and the calls, and none overtakes another.  *)
Called(c) == \E i \in 1..Len(calls) : calls[i] = c
Queued(c) == \E i \in 1..Len(cbQueue) : cbQueue[i] = c
Asked(c) == \E i \in 1..Len(requests) : requests[i].commit = c

CommitsInOrder ==
    /\ \A i, j \in 1..Len(calls) : i < j => calls[i] < calls[j]
    /\ \A i, j \in 1..Len(cbQueue) : i < j => cbQueue[i] < cbQueue[j]
    /\ \A i, j \in 1..Len(requests) :
          i < j /\ requests[j].commit # Sync => requests[i].commit < requests[j].commit
StagesInOrder ==
    /\ \A c, d \in Commit : Called(c) /\ (Queued(d) \/ Asked(d)) => c < d
    /\ \A c, d \in Commit : Queued(c) /\ Asked(d) => c < d
    /\ \A c \in Commit : Called(c) \/ Queued(c) \/ Asked(c) => c <= numCommits

(* The request of commitSync() is the last one while the call waits.        *)
SyncIsLast ==
    \A i \in 1..Len(requests) : requests[i].commit = Sync => pc = "sync" /\ i = Len(requests)

HeldSomewhere ==
    \A c \in Commit :
        /\ opaque[c] = "held" => Asked(c) \/ Queued(c) \/ calling[2] = c
        /\ c > numCommits => opaque[c] = "none"
CallingCalled == calling # Nobody => Called(calling[2])

NothingLeft ==
    /\ pc \in {"draining", "closed"} => requests = <<>>
    /\ pc = "closed" => cbQueue = <<>> /\ calling = Nobody

CallbackInv ==
    /\ CallbackOncePerCommit
    /\ CommitsInOrder /\ StagesInOrder /\ SyncIsLast
    /\ HeldSomewhere /\ CallingCalled /\ NothingLeft

(* That of the offsets: the group is behind the requests, which grow, and   *)
(* these are behind what has been popped.                                   *)
RequestsGrow ==
    /\ \A i \in 1..Len(requests) :
          group <= requests[i].offset /\ requests[i].offset <= committed
    /\ \A i, j \in 1..Len(requests) : i < j => requests[i].offset <= requests[j].offset

GroupInv == synced <= group /\ group <= committed /\ RequestsGrow

-----------------------------------------------------------------------------
(* A queue gets an element at its end and loses its first.                  *)
LEMMA Appended ==
    ASSUME NEW S, NEW s \in Seq(S), NEW e \in S
    PROVE  /\ Append(s, e) \in Seq(S)
           /\ Len(s) \in Nat
           /\ Len(Append(s, e)) = Len(s) + 1
           /\ \A i \in 1..Len(s) : s[i] \in S /\ Append(s, e)[i] = s[i]
           /\ Append(s, e)[Len(s) + 1] = e
  OBVIOUS

LEMMA Shortened ==
    ASSUME NEW S, NEW s \in Seq(S), s # <<>>
    PROVE  /\ Tail(s) \in Seq(S)
           /\ Head(s) \in S /\ Head(s) = s[1]
           /\ Len(s) \in Nat /\ Len(s) >= 1
           /\ \A i \in 1..Len(s) : s[i] \in S
           /\ Len(Tail(s)) = Len(s) - 1
           /\ \A i \in 1..(Len(s) - 1) : Tail(s)[i] = s[i + 1]
  OBVIOUS

-----------------------------------------------------------------------------
(* The application uses the queue within its contract, so that everything   *)
(* proved about Spec holds of the consumer that commits what it pops.       *)
LEMMA QueueUsed == [CommitsNext]_allVars => [Next]_vars
<1> SUFFICES ASSUME [CommitsNext]_allVars
             PROVE  [Next]_vars
  OBVIOUS
<1>1. CASE QueueStep
  BY <1>1 DEF QueueStep, Next
<1>2. CASE CommitPopped
  BY <1>2 DEF CommitPopped, Next
<1>3. CASE ~QueueStep /\ ~CommitPopped
  BY <1>3 DEF CommitsNext, allVars, commitSync, CoordinatorAnswers, PollStep, CallbackReturns,
              pollCallbacks, close, CloseStep, PollThreadStopped, ConsumerClosed, CloseReturns
<1> QED BY <1>1, <1>2, <1>3

(* The manual committer is a contract-abiding caller of the queue: with it  *)
(* the class implements OffsetCommitter as well, and no empty deque is      *)
(* read.                                                                    *)
THEOREM WithinContract ==
    CommitsSpec => []NoUndefinedRead /\ ImplementsOffsetCommitter /\ CommittedGrows
<1>1. CommitsSpec => Spec
  BY QueueUsed, PTL DEF CommitsSpec, InitCommits, Spec
<1> QED BY <1>1, ContractSafety, Refinement, PopGrows, PTL

LEMMA QueueInvariants == CommitsSpec => [](TypeOK /\ QueueInv /\ ContractInv)
  BY AllInvariants, QueueUsed, PTL DEF CommitsSpec, InitCommits, Spec

-----------------------------------------------------------------------------
LEMMA CommitsTypeInit == InitCommits => CommitsTypeOK
  BY ManualCommitConstants DEF InitCommits, CommitsTypeOK, Commit, INVALID_OFFSET

LEMMA CommitsTypeStep == TypeOK /\ CommitsTypeOK /\ [CommitsNext]_allVars => CommitsTypeOK'
<1> SUFFICES ASSUME TypeOK, CommitsTypeOK, [CommitsNext]_allVars
             PROVE  CommitsTypeOK'
  OBVIOUS
<1> USE DEF CommitsTypeOK
<1>1. CASE QueueStep
  BY <1>1 DEF QueueStep, commitVars
<1>2. CASE CommitPopped
  <2>1. committed' \in Int /\ numCommits' \in 0..MaxCommits /\ numCommits + 1 \in Commit
    BY <1>2, ManualCommitConstants DEF CommitPopped, popOffsetToCommit, commitAsync, TypeOK, Commit
  <2>2. [commit |-> numCommits + 1, offset |-> committed'] \in Request
    BY <2>1 DEF Request
  <2>3. requests' \in Seq(Request) /\ errors' \in Nat
    <3>1. Append(requests, [commit |-> numCommits + 1, offset |-> committed']) \in Seq(Request)
      BY <2>2, Appended
    <3>2. requests' \in {requests, Append(requests, [commit |-> numCommits + 1,
                                                    offset |-> committed'])}
      BY <1>2, Zenon DEF CommitPopped, commitAsync
    <3>3. errors' \in Nat
      BY <1>2 DEF CommitPopped, commitAsync
    <3> QED BY <3>1, <3>2, <3>3
  <2>4. opaque' \in [Commit -> {"none", "held", "leaked", "deleted"}]
    BY <1>2, <2>1 DEF CommitPopped, commitAsync
  <2> QED BY <1>2, <2>1, <2>3, <2>4 DEF CommitPopped
<1>3. ASSUME NEW o \in lastPoppedOffset, commitSync(o)
      PROVE  CommitsTypeOK'
  <2>1. [commit |-> Sync, offset |-> o] \in Request
    BY DEF lastPoppedOffset, TypeOK, Request
  <2>2. requests' \in Seq(Request)
    BY <1>3, <2>1, Appended DEF commitSync
  <2> QED BY <1>3, <2>2 DEF commitSync
<1>4. CASE CoordinatorAnswers
  <2>1. Head(requests) \in Request /\ Tail(requests) \in Seq(Request)
    BY <1>4, Shortened DEF CoordinatorAnswers
  <2>2. Head(requests).offset \in Int /\ Head(requests).commit \in Commit \cup {Sync}
    BY <2>1 DEF Request
  <2>3. group' \in Int /\ errors' \in Nat /\ requests' = Tail(requests)
    BY <1>4, <2>2 DEF CoordinatorAnswers
  <2>4. pc' \in {pc, "running"} /\ synced' \in Int
    BY <1>4, <2>2 DEF CoordinatorAnswers
  <2>5. cbQueue' \in Seq(Commit)
    <3>1. CASE Head(requests).commit = Sync
      BY <1>4, <3>1 DEF CoordinatorAnswers
    <3>2. CASE Head(requests).commit # Sync
      <4>1. Append(cbQueue, Head(requests).commit) \in Seq(Commit)
        BY <2>2, <3>2, Appended
      <4> QED BY <1>4, <3>2, <4>1 DEF CoordinatorAnswers
    <3> QED BY <3>1, <3>2
  <2> QED BY <1>4, <2>1, <2>3, <2>4, <2>5 DEF CoordinatorAnswers
<1>5. ASSUME NEW who \in {"thread", "app"}, pollCallbacks(who)
      PROVE  CommitsTypeOK'
  <2>1. Head(cbQueue) \in Commit /\ Tail(cbQueue) \in Seq(Commit)
    BY <1>5 DEF pollCallbacks
  <2> QED BY <1>5, <2>1 DEF pollCallbacks
<1>6. CASE CallbackReturns
  BY <1>6 DEF CallbackReturns, Deleted
<1>7. CASE close \/ CloseStep
  BY <1>7 DEF close, CloseStep, PollThreadStopped, ConsumerClosed, CloseReturns
<1>8. CASE UNCHANGED allVars
  BY <1>8 DEF allVars, commitVars
<1> QED BY <1>1, <1>2, <1>3, <1>4, <1>5, <1>6, <1>7, <1>8 DEF CommitsNext, PollStep

-----------------------------------------------------------------------------
LEMMA CallbackInit == InitCommits => CallbackInv
  BY DEF InitCommits, CallbackInv, CallbackOncePerCommit, CommitsInOrder, StagesInOrder,
         SyncIsLast, HeldSomewhere, CallingCalled, NothingLeft, Called, Queued, Asked, Nobody,
         Commit

(* A step that touches neither the requests, the queue, the copies nor the  *)
(* calls, and does not end close().                                         *)
LEMMA CallbacksUntouched ==
    ASSUME CallbackInv,
           UNCHANGED <<numCommits, requests, cbQueue, opaque, calls, calling>>,
           pc' # "closed", pc' = "draining" => requests = <<>>, pc = "sync" => pc' = "sync"
    PROVE  CallbackInv'
  BY DEF CallbackInv, CallbackOncePerCommit, CommitsInOrder, StagesInOrder, SyncIsLast,
         HeldSomewhere, CallingCalled, NothingLeft, Called, Queued, Asked

LEMMA RequestAccepted ==
    ASSUME CommitsTypeOK, CallbackInv, pc = "running", numCommits < MaxCommits,
           NEW o \in Int,
           numCommits' = numCommits + 1,
           requests' = Append(requests, [commit |-> numCommits + 1, offset |-> o]),
           opaque' = [opaque EXCEPT ![numCommits + 1] = "held"],
           UNCHANGED <<pc, cbQueue, calls, calling>>
    PROVE  CallbackInv'
<1> DEFINE n == Len(requests)
           new == numCommits + 1
<1>1. /\ n \in Nat /\ Len(requests') = n + 1
      /\ \A i \in 1..n : requests[i] \in Request /\ requests'[i] = requests[i]
      /\ requests'[n + 1].commit = new
      /\ new \in Commit /\ numCommits \in Nat
  <2>1. new \in Commit /\ numCommits \in Nat
    BY ManualCommitConstants DEF CommitsTypeOK, Commit
  <2>2. [commit |-> new, offset |-> o] \in Request /\ requests \in Seq(Request)
    BY <2>1 DEF Request, CommitsTypeOK
  <2> QED BY <2>1, <2>2, Appended
<1>2. \A i \in 1..n : requests[i].commit \in Commit /\ requests[i].commit <= numCommits
  BY <1>1 DEF CallbackInv, SyncIsLast, StagesInOrder, Asked, Request
<1>3. /\ \A c \in Commit : Asked(c)' <=> Asked(c) \/ c = new
      /\ \A c : Called(c)' <=> Called(c)
      /\ \A c : Queued(c)' <=> Queued(c)
  <2>1. ASSUME NEW c \in Commit
        PROVE  Asked(c)' <=> Asked(c) \/ c = new
    BY <1>1 DEF Asked
  <2> QED BY <2>1 DEF Called, Queued
<1>4. \A c \in Commit : Called(c) \/ Queued(c) => c < new
  BY <1>1 DEF CallbackInv, StagesInOrder, Commit
<1> HIDE DEF new
<1>5. CommitsInOrder'
  <2>1. ASSUME NEW i \in 1..(n + 1), NEW j \in 1..(n + 1), i < j
        PROVE  requests'[i].commit < requests'[j].commit
    <3>1. i \in 1..n /\ requests'[i] = requests[i]
      BY <1>1, <2>1
    <3>2. CASE j = n + 1
      BY <1>1, <1>2, <3>1, <3>2 DEF Commit, new
    <3>3. CASE j \in 1..n
      BY <1>1, <1>2, <2>1, <3>1, <3>3 DEF CallbackInv, CommitsInOrder, Commit, Sync
    <3> QED BY <1>1, <3>2, <3>3
  <2> QED BY <1>1, <2>1 DEF CallbackInv, CommitsInOrder
<1>6. StagesInOrder'
  BY <1>1, <1>3, <1>4 DEF CallbackInv, StagesInOrder, Commit, new
<1>7. SyncIsLast'
  BY <1>1, <1>2 DEF SyncIsLast, Commit, Sync
<1>8. HeldSomewhere'
  BY <1>1, <1>3 DEF CallbackInv, HeldSomewhere, CommitsTypeOK, Commit, new
<1>9. CallbackOncePerCommit'
  <2>1. ~Called(new)
    BY <1>1, <1>4 DEF Commit
  <2>2. ASSUME NEW c \in Commit
        PROVE  (opaque[c] = "deleted" <=> Called(c) /\ calling[2] # c)'
    BY <1>1, <1>3, <2>1 DEF CallbackInv, CallbackOncePerCommit, Called, CommitsTypeOK, new
  <2> QED BY <2>2 DEF CallbackInv, CallbackOncePerCommit, Called
<1>10. CallingCalled' /\ NothingLeft'
  BY <1>3 DEF CallbackInv, CallingCalled, NothingLeft
<1> QED BY <1>5, <1>6, <1>7, <1>8, <1>9, <1>10 DEF CallbackInv

(* A request that is refused at once: the copy of its callback is lost.     *)
LEMMA RequestRefused ==
    ASSUME CommitsTypeOK, CallbackInv, numCommits < MaxCommits,
           numCommits' = numCommits + 1,
           opaque' = [opaque EXCEPT ![numCommits + 1] = "leaked"],
           UNCHANGED <<pc, requests, cbQueue, calls, calling>>
    PROVE  CallbackInv'
<1>1. numCommits + 1 \in Commit /\ numCommits \in Nat
  BY ManualCommitConstants DEF CommitsTypeOK, Commit
<1>2. ~Called(numCommits + 1)
  BY <1>1 DEF CallbackInv, StagesInOrder, Commit
<1>3. UNCHANGED <<pc, requests, cbQueue, calls, calling>>
  OBVIOUS
<1>4. CommitsInOrder' /\ SyncIsLast' /\ CallingCalled' /\ NothingLeft'
  BY DEF CallbackInv, CommitsInOrder, SyncIsLast, CallingCalled, NothingLeft, Called
<1>5. StagesInOrder'
  BY <1>1 DEF CallbackInv, StagesInOrder, Called, Queued, Asked, Commit
<1>6. HeldSomewhere'
  BY <1>1 DEF CallbackInv, HeldSomewhere, Called, Queued, Asked, CommitsTypeOK, Commit
<1>7. CallbackOncePerCommit'
  BY <1>1, <1>2 DEF CallbackInv, CallbackOncePerCommit, Called, CommitsTypeOK
<1> QED BY <1>4, <1>5, <1>6, <1>7 DEF CallbackInv

LEMMA SyncRequested ==
    ASSUME CommitsTypeOK, CallbackInv, pc = "running", NEW o \in Int,
           requests' = Append(requests, [commit |-> Sync, offset |-> o]), pc' = "sync",
           UNCHANGED <<numCommits, cbQueue, opaque, calls, calling>>
    PROVE  CallbackInv'
<1> DEFINE n == Len(requests)
<1>1. /\ n \in Nat /\ Len(requests') = n + 1
      /\ \A i \in 1..n : requests[i] \in Request /\ requests'[i] = requests[i]
      /\ requests'[n + 1].commit = Sync
  <2>1. [commit |-> Sync, offset |-> o] \in Request /\ requests \in Seq(Request)
    BY DEF Request, CommitsTypeOK
  <2> QED BY <2>1, Appended
<1>2. \A i \in 1..n : requests[i].commit # Sync
  BY <1>1 DEF CallbackInv, SyncIsLast
<1>3. ASSUME NEW c \in Commit
      PROVE  Asked(c)' <=> Asked(c)
  BY <1>1 DEF Asked, Commit, Sync
<1>4. \A c : (Called(c)' <=> Called(c)) /\ (Queued(c)' <=> Queued(c))
  BY DEF Called, Queued
<1>5. CommitsInOrder'
  <2>1. ASSUME NEW i \in 1..(n + 1), NEW j \in 1..(n + 1), i < j, requests'[j].commit # Sync
        PROVE  requests'[i].commit < requests'[j].commit
    <3>1. i \in 1..n /\ j \in 1..n
      BY <1>1, <2>1
    <3>2. requests'[i] = requests[i] /\ requests'[j] = requests[j]
      BY <1>1, <3>1
    <3> QED BY <2>1, <3>1, <3>2 DEF CallbackInv, CommitsInOrder
  <2> QED BY <1>1, <2>1 DEF CallbackInv, CommitsInOrder
<1>6. SyncIsLast'
  <2> SUFFICES ASSUME NEW i \in 1..(n + 1), requests'[i].commit = Sync PROVE i = n + 1
    BY <1>1 DEF SyncIsLast
  <2>1. i \in 1..n => requests'[i].commit # Sync
    BY <1>1, <1>2
  <2> QED BY <1>1, <2>1
<1>7. StagesInOrder'
  BY <1>3, <1>4 DEF CallbackInv, StagesInOrder
<1>8. HeldSomewhere'
  BY <1>3, <1>4 DEF CallbackInv, HeldSomewhere
<1>9. CallbackOncePerCommit' /\ CallingCalled' /\ NothingLeft'
  BY <1>4 DEF CallbackInv, CallbackOncePerCommit, CallingCalled, NothingLeft
<1> QED BY <1>5, <1>6, <1>7, <1>8, <1>9 DEF CallbackInv

(* The coordinator answers commitSync(): it was the only request.           *)
LEMMA SyncAnswered ==
    ASSUME CommitsTypeOK, CallbackInv, requests # <<>>, Head(requests).commit = Sync,
           requests' = Tail(requests), pc' = "running",
           UNCHANGED <<numCommits, cbQueue, opaque, calls, calling>>
    PROVE  CallbackInv'
<1>1. /\ Len(requests) \in Nat /\ Len(requests) >= 1
      /\ Head(requests) = requests[1]
      /\ Len(requests') = Len(requests) - 1
      /\ requests \in Seq(Request)
  BY Shortened DEF CommitsTypeOK
<1>2. Len(requests) = 1 /\ Len(requests') = 0
  <2>1. 1 \in 1..Len(requests) /\ requests[1].commit = Sync
    BY <1>1
  <2>2. 1 = Len(requests)
    BY <2>1 DEF CallbackInv, SyncIsLast
  <2> QED BY <1>1, <2>2
<1>3. \A c \in Commit : ~Asked(c) /\ ~Asked(c)'
  BY <1>1, <1>2 DEF Asked, Commit, Sync
<1>4. \A c : (Called(c)' <=> Called(c)) /\ (Queued(c)' <=> Queued(c))
  BY DEF Called, Queued
<1>5. CommitsInOrder' /\ SyncIsLast'
  BY <1>1, <1>2 DEF CallbackInv, CommitsInOrder, SyncIsLast
<1>6. StagesInOrder' /\ HeldSomewhere'
  BY <1>3, <1>4 DEF CallbackInv, StagesInOrder, HeldSomewhere
<1>7. CallbackOncePerCommit' /\ CallingCalled' /\ NothingLeft'
  BY <1>4 DEF CallbackInv, CallbackOncePerCommit, CallingCalled, NothingLeft
<1> QED BY <1>5, <1>6, <1>7 DEF CallbackInv

(* It answers commitAsync(): the callback goes from the requests to the     *)
(* callback queue.                                                          *)
LEMMA AsyncAnswered ==
    ASSUME CommitsTypeOK, CallbackInv, requests # <<>>, Head(requests).commit # Sync,
           requests' = Tail(requests), cbQueue' = Append(cbQueue, Head(requests).commit),
           UNCHANGED <<pc, numCommits, opaque, calls, calling>>
    PROVE  CallbackInv'
<1> DEFINE n == Len(requests)
           m == Len(cbQueue)
           first == Head(requests).commit
<1>1. /\ n \in Nat /\ n >= 1 /\ Len(requests') = n - 1
      /\ \A i \in 1..n : requests[i] \in Request
      /\ \A i \in 1..(n - 1) : requests'[i] = requests[i + 1]
      /\ first = requests[1].commit /\ first \in Commit
  <2>1. requests \in Seq(Request)
    BY DEF CommitsTypeOK
  <2>2. first \in Commit
    <3>1. Head(requests) \in Request
      BY <2>1, Shortened
    <3> QED BY <3>1 DEF Request
  <2> QED BY <2>1, <2>2, Shortened
<1>2. /\ m \in Nat /\ Len(cbQueue') = m + 1
      /\ \A i \in 1..m : cbQueue[i] \in Commit /\ cbQueue'[i] = cbQueue[i]
      /\ cbQueue'[m + 1] = first
  BY <1>1, Appended DEF CommitsTypeOK
<1> HIDE DEF first
<1>3. Asked(first)
  BY <1>1 DEF Asked
<1>4. ASSUME NEW c \in Commit
      PROVE  /\ Asked(c)' => Asked(c) /\ first < c
             /\ Asked(c) => c = first \/ Asked(c)'
  <2>1. ASSUME Asked(c)'
        PROVE  Asked(c) /\ first < c
    <3>1. PICK i \in 1..(n - 1) : requests'[i].commit = c
      BY <1>1, <2>1 DEF Asked
    <3>2. i + 1 \in 1..n /\ 1 < i + 1 /\ 1 \in 1..n /\ requests[i + 1].commit = c /\ c # Sync
      BY <1>1, <3>1 DEF Commit, Sync
    <3> QED BY <1>1, <3>2 DEF Asked, CallbackInv, CommitsInOrder
  <2>2. ASSUME Asked(c), c # first
        PROVE  Asked(c)'
    <3>1. PICK i \in 1..n : requests[i].commit = c
      BY <2>2 DEF Asked
    <3>2. i - 1 \in 1..(n - 1) /\ (i - 1) + 1 = i
      BY <1>1, <2>2, <3>1
    <3>3. requests'[i - 1].commit = c
      BY <1>1, <3>1, <3>2
    <3> QED BY <1>1, <3>2, <3>3 DEF Asked
  <2> QED BY <2>1, <2>2
<1>5. ASSUME NEW c \in Commit
      PROVE  Queued(c)' <=> Queued(c) \/ c = first
  BY <1>2 DEF Queued
<1>6. \A c : Called(c)' <=> Called(c)
  BY DEF Called
<1>7. CommitsInOrder'
  <2>1. \A i, j \in 1..Len(cbQueue') : i < j => cbQueue'[i] < cbQueue'[j]
    <3>1. \A i \in 1..m : cbQueue[i] < first
      BY <1>1, <1>2, <1>3 DEF CallbackInv, StagesInOrder, Queued
    <3>2. \A i, j \in 1..m : i < j => cbQueue[i] < cbQueue[j]
      BY DEF CallbackInv, CommitsInOrder
    <3> HIDE DEF m
    <3> SUFFICES ASSUME NEW i \in 1..(m + 1), NEW j \in 1..(m + 1), i < j
                 PROVE  cbQueue'[i] < cbQueue'[j]
      BY <1>2
    <3>3. i \in 1..m /\ (j \in 1..m \/ j = m + 1)
      BY <1>2
    <3> QED BY <1>2, <3>1, <3>2, <3>3
  <2>2. \A i, j \in 1..Len(requests') :
           i < j /\ requests'[j].commit # Sync => requests'[i].commit < requests'[j].commit
    BY <1>1 DEF CallbackInv, CommitsInOrder
  <2> QED BY <2>1, <2>2 DEF CallbackInv, CommitsInOrder
<1>8. StagesInOrder'
  BY <1>1, <1>3, <1>4, <1>5, <1>6 DEF CallbackInv, StagesInOrder
<1>9. SyncIsLast'
  <2> SUFFICES ASSUME NEW i \in 1..(n - 1), requests'[i].commit = Sync
               PROVE  pc = "sync" /\ i = n - 1
    BY <1>1 DEF SyncIsLast
  <2>1. i + 1 \in 1..n /\ requests[i + 1].commit = Sync
    BY <1>1
  <2>2. pc = "sync" /\ i + 1 = n
    BY <2>1 DEF CallbackInv, SyncIsLast
  <2> HIDE DEF n
  <2> QED BY <1>1, <2>2
<1>10. HeldSomewhere'
  BY <1>4, <1>5 DEF CallbackInv, HeldSomewhere
<1>11. CallbackOncePerCommit' /\ CallingCalled' /\ NothingLeft'
  BY <1>6 DEF CallbackInv, CallbackOncePerCommit, CallingCalled, NothingLeft
<1> QED BY <1>7, <1>8, <1>9, <1>10, <1>11 DEF CallbackInv

(* A callback is taken from the queue and called.                           *)
LEMMA CallbackTaken ==
    ASSUME CommitsTypeOK, CallbackInv, NEW who \in {"thread", "app"}, pc # "closed",
           calling = Nobody, cbQueue # <<>>,
           cbQueue' = Tail(cbQueue), calls' = Append(calls, Head(cbQueue)),
           calling' = <<who, Head(cbQueue)>>,
           UNCHANGED <<pc, numCommits, requests, opaque>>
    PROVE  CallbackInv'
<1> DEFINE n == Len(cbQueue)
           m == Len(calls)
           first == Head(cbQueue)
<1>1. /\ n \in Nat /\ n >= 1 /\ Len(cbQueue') = n - 1
      /\ \A i \in 1..n : cbQueue[i] \in Commit
      /\ \A i \in 1..(n - 1) : cbQueue'[i] = cbQueue[i + 1]
      /\ first = cbQueue[1] /\ first \in Commit
  BY Shortened DEF CommitsTypeOK
<1>2. /\ m \in Nat /\ Len(calls') = m + 1
      /\ \A i \in 1..m : calls[i] \in Commit /\ calls'[i] = calls[i]
      /\ calls'[m + 1] = first
  BY <1>1, Appended DEF CommitsTypeOK
<1>3. calling[2] = 0 /\ calling'[2] = first /\ Queued(first)
  BY <1>1 DEF Nobody, Queued
<1> HIDE DEF first, n, m
<1>4. ASSUME NEW c \in Commit
      PROVE  /\ Queued(c)' => Queued(c) /\ first < c
             /\ Queued(c) => c = first \/ Queued(c)'
  <2>1. ASSUME Queued(c)'
        PROVE  Queued(c) /\ first < c
    <3>1. PICK i \in 1..(n - 1) : cbQueue'[i] = c
      BY <1>1, <2>1 DEF Queued
    <3>2. i + 1 \in 1..n /\ 1 < i + 1 /\ 1 \in 1..n /\ cbQueue[i + 1] = c
      BY <1>1, <3>1
    <3> QED BY <1>1, <3>2 DEF Queued, CallbackInv, CommitsInOrder, n
  <2>2. ASSUME Queued(c), c # first
        PROVE  Queued(c)'
    <3>1. PICK i \in 1..n : cbQueue[i] = c
      BY <2>2 DEF Queued, n
    <3>2. i - 1 \in 1..(n - 1) /\ (i - 1) + 1 = i
      BY <1>1, <2>2, <3>1
    <3>3. cbQueue'[i - 1] = c
      BY <1>1, <3>1, <3>2
    <3> QED BY <1>1, <3>2, <3>3 DEF Queued
  <2> QED BY <2>1, <2>2
<1>5. ASSUME NEW c \in Commit
      PROVE  Called(c)' <=> Called(c) \/ c = first
  BY <1>2 DEF Called, m
<1>6. \A c : Asked(c)' <=> Asked(c)
  BY DEF Asked
<1>7. \A i, j \in 1..Len(calls') : i < j => calls'[i] < calls'[j]
  <2>1. \A i \in 1..m : calls[i] < first
    BY <1>1, <1>2, <1>3 DEF CallbackInv, StagesInOrder, Called, m
  <2>2. ASSUME NEW i \in 1..(m + 1), NEW j \in 1..(m + 1), i < j
        PROVE  calls'[i] < calls'[j]
    <3>1. i \in 1..m /\ calls'[i] = calls[i]
      BY <1>2, <2>2
    <3>2. CASE j = m + 1
      BY <1>2, <2>1, <3>1, <3>2
    <3>3. CASE j \in 1..m
      BY <1>2, <2>2, <3>1, <3>3 DEF CallbackInv, CommitsInOrder, m
    <3> QED BY <1>2, <3>2, <3>3
  <2> QED BY <1>2, <2>2
<1>8. CommitsInOrder'
  <2>1. \A i, j \in 1..Len(cbQueue') : i < j => cbQueue'[i] < cbQueue'[j]
    BY <1>1 DEF CallbackInv, CommitsInOrder, n
  <2> QED BY <1>7, <2>1 DEF CallbackInv, CommitsInOrder
<1>9. StagesInOrder'
  BY <1>1, <1>3, <1>4, <1>5, <1>6 DEF CallbackInv, StagesInOrder
<1>10. HeldSomewhere'
  BY <1>3, <1>4, <1>6 DEF CallbackInv, HeldSomewhere, Commit
<1>11. CallbackOncePerCommit'
  <2>1. ~Called(first)
    BY <1>1, <1>3 DEF CallbackInv, StagesInOrder, Commit
  <2>2. ASSUME NEW c \in Commit
        PROVE  opaque[c] = "deleted" <=> Called(c)' /\ calling'[2] # c
    BY <1>3, <1>5, <2>1, <2>2 DEF CallbackInv, CallbackOncePerCommit, Called, Commit
  <2> QED BY <1>7, <2>2 DEF CallbackOncePerCommit, Called
<1>12. CallingCalled'
  BY <1>1, <1>3, <1>5 DEF CallingCalled
<1>13. SyncIsLast' /\ NothingLeft'
  BY DEF CallbackInv, SyncIsLast, NothingLeft
<1> QED BY <1>8, <1>9, <1>10, <1>11, <1>12, <1>13 DEF CallbackInv

(* It returns, and its copy is deleted.                                     *)
LEMMA CallbackOver ==
    ASSUME CommitsTypeOK, CallbackInv, CallbackReturns
    PROVE  CallbackInv'
<1>1. calling[2] \in Commit /\ Called(calling[2]) /\ calling'[2] = 0 /\ calling' = Nobody
  BY DEF CommitsTypeOK, CallbackInv, CallingCalled, CallbackReturns, Nobody
<1>2. /\ UNCHANGED <<pc, numCommits, requests, cbQueue, calls>>
      /\ opaque' = [opaque EXCEPT ![calling[2]] = "deleted"]
  BY DEF CallbackReturns, Deleted
<1>3. CommitsInOrder' /\ SyncIsLast' /\ CallingCalled' /\ NothingLeft'
  BY <1>1, <1>2 DEF CallbackInv, CommitsInOrder, SyncIsLast, CallingCalled, NothingLeft
<1>4. StagesInOrder'
  BY <1>2 DEF CallbackInv, StagesInOrder, Called, Queued, Asked
<1>5. HeldSomewhere'
  <2>1. calling[2] <= numCommits
    BY <1>1 DEF CallbackInv, StagesInOrder
  <2>2. ASSUME NEW c \in Commit
        PROVE  opaque'[c] = IF c = calling[2] THEN "deleted" ELSE opaque[c]
    BY <1>1, <1>2 DEF CommitsTypeOK
  <2>3. (\A c : Queued(c)' <=> Queued(c)) /\ (\A c : Asked(c)' <=> Asked(c))
    BY <1>2 DEF Queued, Asked
  <2>4. ASSUME NEW c \in Commit
        PROVE  /\ opaque'[c] = "held" => Asked(c)' \/ Queued(c)' \/ calling'[2] = c
               /\ c > numCommits' => opaque'[c] = "none"
    <3>1. /\ opaque[c] = "held" => Asked(c) \/ Queued(c) \/ calling[2] = c
          /\ c > numCommits => opaque[c] = "none"
      BY DEF CallbackInv, HeldSomewhere
    <3>2. c > numCommits => c # calling[2]
      BY <1>1, <2>1 DEF CommitsTypeOK, Commit
    <3> QED BY <1>2, <2>2, <2>3, <3>1, <3>2
  <2> QED BY <2>4 DEF HeldSomewhere
<1>6. CallbackOncePerCommit'
  BY <1>1, <1>2 DEF CallbackInv, CallbackOncePerCommit, Called, CommitsTypeOK, Commit
<1> QED BY <1>3, <1>4, <1>5, <1>6 DEF CallbackInv

LEMMA CallbackStep ==
    TypeOK /\ CommitsTypeOK /\ CallbackInv /\ [CommitsNext]_allVars => CallbackInv'
<1> SUFFICES ASSUME TypeOK, CommitsTypeOK, CallbackInv, [CommitsNext]_allVars
             PROVE  CallbackInv'
  OBVIOUS
<1>1. CASE QueueStep
  BY <1>1, CallbacksUntouched DEF QueueStep, AppFree, commitVars
<1>2. CASE CommitPopped
  <2>1. committed' \in Int /\ pc = "running"
    BY <1>2 DEF CommitPopped, AppFree, popOffsetToCommit, TypeOK
  <2>2. commitAsync(committed') /\ UNCHANGED <<pc, cbQueue, calls, calling>>
    BY <1>2 DEF CommitPopped
  <2> QED BY <2>1, <2>2, RequestAccepted, RequestRefused DEF commitAsync
<1>3. ASSUME NEW o \in lastPoppedOffset, commitSync(o)
      PROVE  CallbackInv'
  <2>1. o \in Int
    BY DEF lastPoppedOffset, TypeOK
  <2> QED BY <1>3, <2>1, SyncRequested DEF commitSync, AppFree
<1>4. CASE CoordinatorAnswers
  <2>1. CASE Head(requests).commit = Sync
    BY <1>4, <2>1, SyncAnswered DEF CoordinatorAnswers
  <2>2. CASE Head(requests).commit # Sync
    BY <1>4, <2>2, AsyncAnswered DEF CoordinatorAnswers
  <2> QED BY <2>1, <2>2
<1>5. ASSUME NEW who \in {"thread", "app"}, pollCallbacks(who)
      PROVE  CallbackInv'
  BY <1>5, CallbackTaken DEF pollCallbacks, MayPoll
<1>6. CASE CallbackReturns
  BY <1>6, CallbackOver
<1>7. CASE close \/ PollThreadStopped \/ ConsumerClosed
  BY <1>7, CallbacksUntouched DEF close, AppFree, PollThreadStopped, ConsumerClosed
<1>8. CASE CloseReturns
  <2>1. \A c \in Commit : opaque[c] # "held"
    BY <1>8 DEF CloseReturns, Drained, CallbackInv, HeldSomewhere, NothingLeft, Asked, Queued,
                Nobody, Commit
  <2> QED BY <1>8, <2>1 DEF CloseReturns, Drained, CallbackInv, CallbackOncePerCommit,
             CommitsInOrder, StagesInOrder, SyncIsLast, HeldSomewhere, CallingCalled, NothingLeft,
             Called, Queued, Asked
<1>9. CASE UNCHANGED allVars
  BY <1>9 DEF allVars, commitVars, CallbackInv, CallbackOncePerCommit, CommitsInOrder,
              StagesInOrder, SyncIsLast, HeldSomewhere, CallingCalled, NothingLeft, Called,
              Queued, Asked
<1> QED BY <1>1, <1>2, <1>3, <1>4, <1>5, <1>6, <1>7, <1>8, <1>9
        DEF CommitsNext, PollStep, CloseStep

(* Every commitAsync() that did not throw has its callback called at most   *)
(* once, in the order of the calls, and its copy deleted after that; close() *)
(* returns only when all have been called.  For any number of commits, with *)
(* either way of polling, and with requests refused at any point.           *)
THEOREM CallbacksOnceInOrder == CommitsSpec => []CallbackOncePerCommit
<1>1. CallbackInv => CallbackOncePerCommit
  BY DEF CallbackInv
<1> QED BY <1>1, QueueInvariants, CommitsTypeInit, CommitsTypeStep, CallbackInit, CallbackStep,
           PTL DEF CommitsSpec

-----------------------------------------------------------------------------
LEMMA GroupInit == InitCommits => GroupInv
  BY DEF InitCommits, Init, GroupInv, RequestsGrow, INVALID_OFFSET

(* The queue's committed offset grows, and a request is made for it.        *)
LEMMA RequestIsLatest ==
    ASSUME TypeOK, CommitsTypeOK, GroupInv, NEW c \in Commit \cup {Sync},
           committed' \in Int, committed <= committed',
           requests' = Append(requests, [commit |-> c, offset |-> committed']),
           UNCHANGED <<group, synced>>
    PROVE  GroupInv'
<1> DEFINE n == Len(requests)
<1>1. /\ n \in Nat /\ Len(requests') = n + 1
      /\ \A i \in 1..n : requests[i] \in Request /\ requests'[i] = requests[i]
      /\ requests'[n + 1].offset = committed'
  <2>1. [commit |-> c, offset |-> committed'] \in Request /\ requests \in Seq(Request)
    BY DEF Request, CommitsTypeOK
  <2> QED BY <2>1, Appended
<1>2. \A i \in 1..n : requests[i].offset \in Int
  BY <1>1 DEF Request
<1>3. group \in Int /\ synced \in Int /\ committed \in Int
  BY DEF TypeOK, CommitsTypeOK
<1> HIDE DEF n
<1>4. ASSUME NEW i \in 1..(n + 1), NEW j \in 1..(n + 1), i < j
      PROVE  requests'[i].offset <= requests'[j].offset
  <2>1. i \in 1..n /\ requests'[i] = requests[i]
    BY <1>1, <1>4
  <2>2. CASE j = n + 1
    BY <1>1, <1>2, <1>3, <2>1, <2>2 DEF GroupInv, RequestsGrow, n
  <2>3. CASE j \in 1..n
    BY <1>1, <1>4, <2>1, <2>3 DEF GroupInv, RequestsGrow, n
  <2> QED BY <1>1, <2>2, <2>3
<1>5. ASSUME NEW i \in 1..(n + 1)
      PROVE  group <= requests'[i].offset /\ requests'[i].offset <= committed'
  <2>1. CASE i = n + 1
    BY <1>1, <1>3, <2>1 DEF GroupInv
  <2>2. CASE i \in 1..n
    BY <1>1, <1>2, <1>3, <2>2 DEF GroupInv, RequestsGrow, n
  <2> QED BY <1>1, <2>1, <2>2
<1> QED BY <1>1, <1>3, <1>4, <1>5 DEF GroupInv, RequestsGrow

LEMMA GroupStep ==
    TypeOK /\ QueueInv /\ ContractInv /\ CommitsTypeOK /\ GroupInv /\ [CommitsNext]_allVars
        => GroupInv'
<1> SUFFICES ASSUME TypeOK, QueueInv, ContractInv, CommitsTypeOK, GroupInv,
                    [CommitsNext]_allVars
             PROVE  GroupInv'
  OBVIOUS
<1>1. CASE QueueStep
  <2>1. UNCHANGED <<committed, group, synced, requests>>
    BY <1>1 DEF QueueStep, commitVars, GrowingWait, waitOffset, AckOnce, ackOffset, Drain,
                CommitFront, DropStaleAck, StopDraining
  <2> QED BY <2>1 DEF GroupInv, RequestsGrow
<1>2. CASE CommitPopped
  <2>1. committed' \in Int /\ committed <= committed'
    BY <1>2 DEF CommitPopped, popOffsetToCommit, TypeOK, QueueInv, ContractInv, CommittedBehind
  <2>2. commitAsync(committed') /\ UNCHANGED <<group, synced>>
    BY <1>2 DEF CommitPopped
  <2>3. CASE requests' = Append(requests, [commit |-> numCommits + 1, offset |-> committed'])
    <3>1. numCommits + 1 \in Commit
      BY <2>2, ManualCommitConstants DEF commitAsync, CommitsTypeOK, Commit
    <3> QED BY <2>1, <2>2, <2>3, <3>1, RequestIsLatest
  <2>4. CASE UNCHANGED requests
    <3>1. \A i \in 1..Len(requests) : requests[i].offset \in Int
      <4>1. \A i \in 1..Len(requests) : requests[i] \in Request
        BY DEF CommitsTypeOK
      <4> QED BY <4>1 DEF Request
    <3> QED BY <2>1, <2>2, <2>4, <3>1 DEF GroupInv, RequestsGrow, TypeOK, CommitsTypeOK
  <2> QED BY <2>2, <2>3, <2>4 DEF commitAsync
<1>3. ASSUME NEW o \in lastPoppedOffset, commitSync(o)
      PROVE  GroupInv'
  <2>1. /\ o = committed' /\ committed' = committed /\ committed \in Int
        /\ UNCHANGED <<group, synced>>
        /\ requests' = Append(requests, [commit |-> Sync, offset |-> o])
    BY <1>3 DEF commitSync, lastPoppedOffset, TypeOK, vars
  <2> QED BY <2>1, RequestIsLatest
<1>4. CASE CoordinatorAnswers
  <2> DEFINE n == Len(requests)
  <2>1. /\ n \in Nat /\ n >= 1 /\ Len(requests') = n - 1
        /\ \A i \in 1..n : requests[i] \in Request
        /\ \A i \in 1..(n - 1) : requests'[i] = requests[i + 1]
        /\ Head(requests) = requests[1]
    BY <1>4, Shortened DEF CoordinatorAnswers, CommitsTypeOK
  <2>2. \A i \in 1..n : requests[i].offset \in Int
    BY <2>1 DEF Request
  <2>3. /\ group \in Int /\ synced \in Int /\ committed \in Int /\ committed' = committed
        /\ errors \in Nat
    BY <1>4 DEF TypeOK, CommitsTypeOK, CoordinatorAnswers, vars
  <2>4. \/ group' = requests[1].offset /\ synced' \in {synced, requests[1].offset}
        \/ group' = group /\ synced' = synced
    BY <1>4, <2>1, <2>3 DEF CoordinatorAnswers
  <2> HIDE DEF n
  <2>5. \A i \in 1..n : group <= requests[i].offset /\ requests[i].offset <= committed
    BY DEF GroupInv, RequestsGrow, n
  <2>6. \A i, j \in 1..n : i < j => requests[i].offset <= requests[j].offset
    BY DEF GroupInv, RequestsGrow, n
  <2>7. synced <= group /\ group <= requests[1].offset /\ requests[1].offset <= committed
    BY <2>1, <2>5 DEF GroupInv
  <2>8. ASSUME NEW i \in 1..(n - 1)
        PROVE  group' <= requests'[i].offset /\ requests'[i].offset <= committed'
    <3>1. i + 1 \in 1..n /\ 1 \in 1..n /\ 1 < i + 1 /\ requests'[i] = requests[i + 1]
      BY <2>1
    <3> QED BY <2>3, <2>4, <2>5, <2>6, <3>1
  <2>9. ASSUME NEW i \in 1..(n - 1), NEW j \in 1..(n - 1), i < j
        PROVE  requests'[i].offset <= requests'[j].offset
    <3>1. /\ i + 1 \in 1..n /\ j + 1 \in 1..n /\ i + 1 < j + 1
          /\ requests'[i] = requests[i + 1] /\ requests'[j] = requests[j + 1]
      <4>1. n \in Nat
        BY <2>1
      <4>2. requests'[i] = requests[i + 1] /\ requests'[j] = requests[j + 1]
        BY <2>1
      <4> QED BY <2>9, <4>1, <4>2
    <3>2. requests[i + 1].offset <= requests[j + 1].offset
      BY <2>6, <3>1
    <3> QED BY <3>1, <3>2
  <2>10. synced' <= group' /\ group' <= committed'
    BY <2>1, <2>2, <2>3, <2>4, <2>7
  <2> QED BY <2>1, <2>8, <2>9, <2>10 DEF GroupInv, RequestsGrow
<1>5. CASE PollStep \/ close \/ CloseStep \/ UNCHANGED allVars
  <2>1. UNCHANGED <<committed, group, synced, requests>>
    BY <1>5 DEF PollStep, CallbackReturns, pollCallbacks, close, CloseStep, PollThreadStopped,
                ConsumerClosed, CloseReturns, vars, allVars, commitVars
  <2> QED BY <2>1 DEF GroupInv, RequestsGrow
<1> QED BY <1>1, <1>2, <1>3, <1>4, <1>5 DEF CommitsNext

(* What the group has committed never passes a record that is not acked,    *)
(* although requests are refused and commits overlap, and it is never less  *)
(* than what commitSync() has returned for.                                 *)
THEOREM GroupOffsetIsSafe == CommitsSpec => []GroupFollowsAcks
<1>1. TypeOK /\ QueueInv /\ ContractInv /\ CommitsTypeOK /\ GroupInv => GroupFollowsAcks
  <2> SUFFICES ASSUME TypeOK, QueueInv, ContractInv, CommitsTypeOK, GroupInv
               PROVE  GroupFollowsAcks
    OBVIOUS
  <2>1. synced <= group /\ group <= toCommit /\ synced \in Int /\ group \in Int
    BY DEF TypeOK, CommitsTypeOK, GroupInv, QueueInv, ContractInv, CommittedBehind
  <2>2. \A w \in waited : w < toCommit => w \in acked
    BY OffsetsAreIntegers DEF TypeOK, QueueInv, ContractInv, ReceivedIsWaited,
           WaitedIsReceivedOrDone, Received
  <2>3. \A w \in waited : w \in Int
    BY OffsetsAreIntegers DEF TypeOK
  <2> QED BY <2>1, <2>2, <2>3 DEF GroupFollowsAcks, TypeOK
<1> QED BY <1>1, QueueInvariants, CommitsTypeInit, CommitsTypeStep, GroupInit, GroupStep,
           PTL DEF CommitsSpec
=============================================================================
