----------------------- MODULE ConsumerOffsetsProofs ------------------------
(***************************************************************************)
(* Proofs about ConsumerOffsets, for any set of partitions and any bounds.  *)
(***************************************************************************)
EXTENDS ConsumerOffsets, TLAPS

(* What makes AtLeastOnce true: every place an offset passes through on its *)
(* way to the group is behind the application's processing, or at least    *)
(* behind what it has been given.                                          *)
Given(p, n) == \A o \in 0..(n - 1) : o \in processed[p] \/ <<p, o>> \in batch

BehindProcessing(p) ==
    /\ Done(p, group[p])
    /\ p \in owned => Given(p, position[p])
    /\ ~fatal /\ offsetsToStore[p] # NoOffset => Given(p, offsetsToStore[p] + 1)
    /\ \A i \in 1..Len(inflight) :
         Covers(inflight[i], p) => Done(p, inflight[i][p])

OffsetsInv ==
    /\ batch # {} => pc = "idle"
    /\ \A p \in Partition : BehindProcessing(p)

(* The way of an offset to the group: what was handed out is in              *)
(* _offsetsToStore, in the last request that names the partition, or        *)
(* committed, whichever of these comes last.                                *)
LastRequest(p, i) ==
    /\ i \in 1..Len(inflight) /\ Covers(inflight[i], p)
    /\ \A j \in 1..Len(inflight) : Covers(inflight[j], p) => j <= i

OnItsWay(p, n) ==
    IF offsetsToStore[p] # NoOffset THEN n <= offsetsToStore[p] + 1
    ELSE IF AwaitsAnswer(p)
         THEN \E i \in 1..Len(inflight) : LastRequest(p, i) /\ n <= inflight[i][p]
    ELSE n <= group[p]

PipelineInv ==
    /\ \A p \in Partition : handed[p] <= logEnd[p]
    /\ \A p \in Partition : failures = 0 /\ ~fatal => OnItsWay(p, handed[p])
    /\ pc \in {"closing", "closed"} /\ ~fatal => offsetsToStore = EmptyStore
    /\ pc = "closed" => inflight = <<>>

(* Why it only grows: each stage is ahead of the ones it will replace, and  *)
(* a partition leaves with no entry of _offsetsToStore behind it.           *)
AheadOf(p, n) ==
    /\ group[p] <= n
    /\ \A i \in 1..Len(inflight) : Covers(inflight[i], p) => inflight[i][p] <= n

StagesGrow(p) ==
    /\ p \in owned => AheadOf(p, position[p] + 1)
    /\ ~fatal /\ offsetsToStore[p] # NoOffset =>
           /\ p \in owned
           /\ offsetsToStore[p] <= position[p]
           /\ AheadOf(p, offsetsToStore[p] + 1)
    /\ \A i \in 1..Len(inflight) :
         Covers(inflight[i], p) => group[p] <= inflight[i][p]
    /\ \A i, j \in 1..Len(inflight) :
         i < j /\ Covers(inflight[i], p) /\ Covers(inflight[j], p) =>
             inflight[i][p] <= inflight[j][p]

MonotoneInv ==
    "subscribe" \notin events =>
        /\ pc \notin {"subscribe", "unsubscribe"}
        /\ pc = "consume" => offsetsToStore = EmptyStore
        /\ pc \in {"closing", "closed"} /\ ~fatal => offsetsToStore = EmptyStore
        /\ \A p \in Partition : StagesGrow(p)

-----------------------------------------------------------------------------
(* The requests under way, as a sequence: one is added, the first answered. *)
LEMMA RequestAdded ==
    ASSUME NEW S, NEW s \in Seq(S), NEW e \in S
    PROVE  /\ Append(s, e) \in Seq(S)
           /\ Len(s) \in Nat
           /\ Len(Append(s, e)) = Len(s) + 1
           /\ \A i \in 1..Len(s) : Append(s, e)[i] = s[i]
           /\ Append(s, e)[Len(s) + 1] = e
  OBVIOUS

LEMMA RequestAnswered ==
    ASSUME NEW S, NEW s \in Seq(S), s # <<>>
    PROVE  /\ Tail(s) \in Seq(S)
           /\ Head(s) \in S /\ Head(s) = s[1]
           /\ Len(s) \in Nat /\ Len(s) >= 1
           /\ Len(Tail(s)) = Len(s) - 1
           /\ \A i \in 1..(Len(s) - 1) : Tail(s)[i] = s[i + 1]
  OBVIOUS

-----------------------------------------------------------------------------
(* storeOffsetsIfNecessary(): the offset stored is that of the marker, if   *)
(* there is one, and that of the last record otherwise.                     *)
LEMMA StoredOffset ==
    ASSUME TypeOK, NEW n \in [Partition -> 0..MaxPollRecords], NEW eof \in SUBSET owned,
           PollReturns(n, eof), NEW p \in Partition
    PROVE  /\ p \in eof => offsetsToStore'[p] = logEnd[p]
           /\ p \notin eof /\ p \in owned /\ n[p] > 0 =>
                offsetsToStore'[p] = position[p] + n[p] - 1
           /\ p \notin eof /\ ~(p \in owned /\ n[p] > 0) =>
                offsetsToStore'[p] = offsetsToStore[p]
<1> DEFINE records == Data(n) \cup Markers(eof)
           last == IF p \in eof THEN logEnd[p] ELSE position[p] + n[p] - 1
<1>1. /\ MaxOffset \in Nat
      /\ position[p] \in Nat /\ n[p] \in Nat /\ logEnd[p] \in 0..MaxOffset
      /\ p \in eof => p \in owned /\ position[p] + n[p] = logEnd[p]
      /\ p \in owned => position[p] + n[p] <= logEnd[p]
  BY ConsumerConstants DEF PollReturns, TypeOK, Offset
<1>2. offsetsToStore'[p] =
        IF \E o \in 0..MaxOffset : <<p, o>> \in records THEN LastOffsetIn(records, p)
        ELSE offsetsToStore[p]
  BY DEF PollReturns, storeOffsets
<1>3. \A o \in 0..MaxOffset : <<p, o>> \in records <=>
               \/ p \in owned /\ o \in position[p]..(position[p] + n[p] - 1)
               \/ p \in eof /\ o = logEnd[p]
  BY DEF Data, Markers
<1> HIDE DEF records
<1>4. CASE p \in eof \/ (p \in owned /\ n[p] > 0)
  <2>1. last \in 0..MaxOffset /\ <<p, last>> \in records
    BY <1>1, <1>3, <1>4
  <2>2. \A q \in 0..MaxOffset : <<p, q>> \in records => q <= last
    BY <1>1, <1>3, <1>4
  <2> HIDE DEF last
  <2>3. \A o \in 0..MaxOffset :
          (<<p, o>> \in records /\ \A q \in 0..MaxOffset : <<p, q>> \in records => q <= o)
            => o = last
    BY <2>1, <2>2
  <2>4. LastOffsetIn(records, p) = last
    BY <2>1, <2>2, <2>3 DEF LastOffsetIn
  <2> QED BY <1>2, <1>4, <2>1, <2>4 DEF last
<1>5. CASE p \notin eof /\ ~(p \in owned /\ n[p] > 0)
  <2>1. ASSUME NEW o \in 0..MaxOffset, <<p, o>> \in records
        PROVE  FALSE
    <3>1. p \in owned /\ o \in position[p]..(position[p] + n[p] - 1)
      BY <1>3, <1>5, <2>1
    <3>2. n[p] = 0
      BY <1>1, <1>5, <3>1
    <3> QED BY <1>1, <3>1, <3>2
  <2> QED BY <1>2, <1>5, <2>1
<1> QED BY <1>4, <1>5

-----------------------------------------------------------------------------
LEMMA TypeInit == Init => TypeOK
<1> SUFFICES ASSUME Init
             PROVE  TypeOK
  OBVIOUS
<1>1. EmptyStore \in Commits
  BY DEF EmptyStore, Commits
<1>2. fatal \in BOOLEAN
  BY DEF Init
<1> QED BY <1>1, <1>2, ConsumerConstants DEF Init, TypeOK, Offset

(* The stored offsets are committed, or the commit throws.                  *)
LEMMA CommitTypes ==
    ASSUME TypeOK, CommitStored \/ CommitThrows
    PROVE  offsetsToStore' \in Commits /\ inflight' \in Seq(Commits)
<1>1. Incremented \in Commits /\ EmptyStore \in Commits
  BY DEF TypeOK, Commits, Incremented, EmptyStore, NoOffset
<1>2. Append(inflight, Incremented) \in Seq(Commits)
  BY <1>1, RequestAdded DEF TypeOK
<1> QED BY <1>1, <1>2 DEF TypeOK, CommitStored, CommitThrows

LEMMA ConsumeTypes ==
    ASSUME TypeOK, NEW n \in [Partition -> 0..MaxPollRecords], NEW eof \in SUBSET owned,
           PollReturns(n, eof)
    PROVE  TypeOK'
<1> USE ConsumerConstants
<1>1. offsetsToStore' \in Commits
  <2>1. \A p \in Partition : offsetsToStore'[p] \in Nat \cup {NoOffset}
    <3> TAKE p \in Partition
    <3>1. /\ position[p] \in Nat /\ n[p] \in Nat /\ logEnd[p] \in Nat
          /\ offsetsToStore[p] \in Nat \cup {NoOffset}
      BY DEF TypeOK, Offset, Commits
    <3>2. \/ offsetsToStore'[p] = logEnd[p]
          \/ n[p] > 0 /\ offsetsToStore'[p] = position[p] + n[p] - 1
          \/ offsetsToStore'[p] = offsetsToStore[p]
      BY StoredOffset
    <3> QED BY <3>1, <3>2
  <2>2. offsetsToStore' = [p \in Partition |-> offsetsToStore'[p]]
    BY DEF PollReturns, storeOffsets
  <2> QED BY <2>1, <2>2 DEF Commits
<1>2. Data(n) \subseteq Partition \X Offset
  <2> SUFFICES ASSUME NEW p \in owned, NEW o \in position[p]..(position[p] + n[p] - 1)
               PROVE  p \in Partition /\ o \in 0..MaxOffset
    BY DEF Data, Offset
  <2>1. /\ p \in Partition /\ position[p] \in Nat /\ n[p] \in Nat
        /\ logEnd[p] \in 0..MaxOffset /\ position[p] + n[p] <= logEnd[p]
    BY DEF TypeOK, Offset, PollReturns
  <2> QED BY <2>1
<1>3. position' \in [Partition -> Nat] /\ handed' \in [Partition -> Nat]
  BY DEF TypeOK, PollReturns
<1> QED BY <1>1, <1>2, <1>3 DEF TypeOK, PollReturns, brokerVars

(* Every call, answer, rebalance, crash and other member's commit keeps the *)
(* types.                                                                   *)
LEMMA TypeStep == TypeOK /\ [Next]_vars => TypeOK'
<1> SUFFICES ASSUME TypeOK, [Next]_vars
             PROVE  TypeOK'
  OBVIOUS
<1> USE ConsumerConstants DEF appVars, rkVars, brokerVars
<1>1. CASE poll
  BY <1>1, CommitTypes DEF poll, TypeOK
<1>2. CASE PollThrows
  BY <1>2, CommitTypes DEF PollThrows, TypeOK
<1>3. CASE Consume
  BY <1>3, ConsumeTypes DEF Consume
<1>4. CASE subscribe
  BY <1>4 DEF subscribe, TypeOK
<1>5. CASE SubscribeReturns
  BY <1>5 DEF SubscribeReturns, TypeOK
<1>6. ASSUME NEW S \in SUBSET Partition, Assign(S)
      PROVE  TypeOK'
  BY <1>6 DEF Assign, TypeOK
<1>7. ASSUME NEW S \in SUBSET Partition, Revoke(S)
      PROVE  TypeOK'
  BY <1>7 DEF Revoke, TypeOK
<1>8. CASE close
  BY <1>8, CommitTypes DEF close, TypeOK
<1>9. CASE CloseReturns
  BY <1>9 DEF CloseReturns, TypeOK
<1>10. ASSUME NEW p \in Partition, NEW o \in 0..MaxOffset, Process(p, o)
       PROVE  TypeOK'
  BY <1>10 DEF Process, TypeOK, Offset
<1>11. CASE Crash
  <2>1. EmptyStore \in Commits /\ fatal' \in BOOLEAN
    BY <1>11 DEF Crash, EmptyStore, Commits
  <2> QED BY <1>11, <2>1 DEF Crash, TypeOK
<1>12. CASE FatalError
  <2>1. fatal' \in BOOLEAN
    BY <1>12 DEF FatalError
  <2> QED BY <1>12, <2>1 DEF FatalError, TypeOK
<1>13. CASE CommitAccepted
  <2>1. Head(inflight) \in Commits /\ Tail(inflight) \in Seq(Commits)
    BY <1>13, RequestAnswered DEF CommitAccepted, TypeOK
  <2>2. group' \in [Partition -> Nat]
    BY <1>13, <2>1 DEF CommitAccepted, TypeOK, Commits, Covers
  <2> QED BY <1>13, <2>1, <2>2 DEF CommitAccepted, TypeOK
<1>14. CASE CommitRefused
  <2>1. Tail(inflight) \in Seq(Commits)
    BY <1>14, RequestAnswered DEF CommitRefused, TypeOK
  <2> QED BY <1>14, <2>1 DEF CommitRefused, TypeOK
<1>15. ASSUME NEW p \in Partition, OtherMember(p)
       PROVE  TypeOK'
  <2>1. group[p] \in Nat /\ logEnd[p] \in 0..MaxOffset /\ group[p] < logEnd[p]
    BY <1>15 DEF OtherMember, TypeOK, Offset
  <2>2. group[p] \in Offset /\ group[p] + 1 \in Nat
    BY <2>1 DEF Offset
  <2> QED BY <1>15, <2>2 DEF OtherMember, TypeOK
<1>16. ASSUME NEW p \in Partition, Produce(p)
       PROVE  TypeOK'
  BY <1>16 DEF Produce, TypeOK, Offset
<1>17. CASE UNCHANGED vars
  BY <1>17 DEF vars, TypeOK
<1> QED BY <1>1, <1>2, <1>3, <1>4, <1>5, <1>6, <1>7, <1>8, <1>9, <1>10, <1>11,
           <1>12, <1>13, <1>14, <1>15, <1>16, <1>17 DEF Next

(* Type correctness, whatever happens around the consumer.                  *)
THEOREM TypeCorrect == Spec => []TypeOK
  BY TypeInit, TypeStep, PTL DEF Spec

-----------------------------------------------------------------------------
(* At-least-once.                                                           *)
LEMMA OffsetsInit == Init => OffsetsInv
  BY DEF Init, OffsetsInv, BehindProcessing, Done, Given, EmptyStore

(* With nothing left to process, what has been given has been processed.    *)
LEMMA NothingLeft ==
    ASSUME batch = {}, NEW p, NEW n, Given(p, n)
    PROVE  Done(p, n)
  BY DEF Done, Given

(* The stored offsets are incremented into a request, or in place by a      *)
(* commit that throws.                                                      *)
LEMMA CommitStep ==
    ASSUME TypeOK, OffsetsInv, Ready, CommitStored \/ CommitThrows,
           UNCHANGED <<appVars, rkVars, group>>
    PROVE  \A p \in Partition : BehindProcessing(p)'
<1> SUFFICES ASSUME NEW p \in Partition
             PROVE  BehindProcessing(p)'
  OBVIOUS
<1> USE DEF appVars, rkVars
<1>1. BehindProcessing(p) /\ batch = {}
  BY DEF OffsetsInv, Ready
<1>2. (Done(p, group[p]))' /\ (p \in owned => Given(p, position[p]))'
  BY <1>1 DEF BehindProcessing, Done, Given
<1>3. CASE offsetsToStore' = EmptyStore /\ ~fatal /\ inflight' = Append(inflight, Incremented)
  <2>1. Incremented \in Commits
    BY DEF TypeOK, Commits, Incremented, NoOffset
  <2> DEFINE len == Len(inflight)
  <2>2. /\ len \in Nat /\ Len(inflight') = len + 1
        /\ \A i \in 1..len : inflight'[i] = inflight[i]
        /\ inflight'[len + 1] = Incremented
    BY <1>3, <2>1, RequestAdded DEF TypeOK
  <2>3. ASSUME NEW i \in 1..Len(inflight'), Covers(inflight'[i], p)
        PROVE  Done(p, inflight[i][p])'
    <3>1. CASE i \in 1..len
      BY <1>1, <2>2, <2>3, <3>1 DEF BehindProcessing, Done
    <3>2. CASE i = len + 1
      <4>1. offsetsToStore[p] # NoOffset /\ inflight'[i][p] = offsetsToStore[p] + 1
        BY <2>2, <2>3, <3>2 DEF Covers, Incremented
      <4>2. Done(p, offsetsToStore[p] + 1)
        BY <1>1, <1>3, <4>1, NothingLeft DEF BehindProcessing
      <4> QED BY <4>1, <4>2 DEF Done
    <3> QED BY <2>2, <3>1, <3>2
  <2>4. offsetsToStore'[p] = NoOffset
    BY <1>3 DEF EmptyStore
  <2> QED BY <1>2, <2>3, <2>4 DEF BehindProcessing
<1>4. CASE UNCHANGED <<offsetsToStore, inflight>>
  BY <1>1, <1>4 DEF BehindProcessing, Done, Given
<1>5. CASE fatal /\ UNCHANGED inflight
  BY <1>1, <1>2, <1>5 DEF BehindProcessing, Done
<1> QED BY <1>3, <1>4, <1>5 DEF CommitStored, CommitThrows

LEMMA ConsumeStep ==
    ASSUME TypeOK, OffsetsInv, "eof" \notin events,
           NEW n \in [Partition -> 0..MaxPollRecords], NEW eof \in SUBSET owned,
           PollReturns(n, eof), NEW p \in Partition
    PROVE  BehindProcessing(p)'
<1>1. BehindProcessing(p) /\ batch = {}
  BY DEF OffsetsInv, PollReturns
<1>2. p \notin eof
  BY DEF PollReturns
<1>3. /\ position[p] \in Nat /\ n[p] \in Nat
      /\ offsetsToStore[p] \in Int
      /\ \A o : <<p, o>> \in batch' <=> p \in owned /\ o \in position[p]..(position[p] + n[p] - 1)
      /\ position'[p] = IF p \in owned THEN position[p] + n[p] ELSE position[p]
      /\ UNCHANGED <<processed, group, owned, inflight, fatal>>
  BY DEF TypeOK, PollReturns, Data, brokerVars, Commits, NoOffset
<1>4. ASSUME p \in owned
      PROVE  \A o \in 0..(position[p] + n[p] - 1) : o \in processed'[p] \/ <<p, o>> \in batch'
  BY <1>1, <1>3, <1>4 DEF BehindProcessing, Given
<1>5. ASSUME ~fatal, offsetsToStore'[p] # NoOffset
      PROVE  Given(p, offsetsToStore[p] + 1)'
  <2>1. CASE p \in owned /\ n[p] > 0
    <3>1. offsetsToStore'[p] = position[p] + n[p] - 1
      BY <1>2, <2>1, StoredOffset
    <3>2. (offsetsToStore'[p] + 1) - 1 = position[p] + n[p] - 1
      BY <1>3, <3>1
    <3> QED BY <1>4, <2>1, <3>2 DEF Given
  <2>2. CASE ~(p \in owned /\ n[p] > 0)
    <3>1. offsetsToStore'[p] = offsetsToStore[p]
      BY <1>2, <2>2, StoredOffset
    <3> QED BY <1>1, <1>3, <1>5, <3>1 DEF BehindProcessing, Given
  <2> QED BY <2>1, <2>2
<1> QED BY <1>1, <1>3, <1>4, <1>5 DEF BehindProcessing, Done, Given

(* A request is answered: the others move up.                               *)
LEMMA AnswerStep ==
    ASSUME TypeOK, OffsetsInv, CommitAccepted \/ CommitRefused, NEW p \in Partition
    PROVE  BehindProcessing(p)'
<1> USE DEF appVars, rkVars
<1>1. BehindProcessing(p)
  BY DEF OffsetsInv
<1>2. /\ Len(inflight) \in Nat /\ Len(inflight) >= 1 /\ Len(inflight') = Len(inflight) - 1
      /\ \A i \in 1..(Len(inflight) - 1) : inflight'[i] = inflight[i + 1]
      /\ Head(inflight) = inflight[1]
  BY RequestAnswered DEF TypeOK, CommitAccepted, CommitRefused
<1>3. ASSUME NEW i \in 1..Len(inflight'), Covers(inflight'[i], p)
      PROVE  Done(p, inflight[i][p])'
  <2>1. i + 1 \in 1..Len(inflight) /\ inflight'[i] = inflight[i + 1]
    BY <1>2
  <2> QED BY <1>1, <1>3, <2>1 DEF BehindProcessing, Done, CommitAccepted, CommitRefused
<1>4. Done(p, group[p])'
  <2>1. \/ group'[p] = group[p]
        \/ Covers(inflight[1], p) /\ group'[p] = inflight[1][p]
    BY <1>2 DEF TypeOK, CommitAccepted, CommitRefused
  <2> QED BY <1>1, <1>2, <2>1 DEF BehindProcessing, Done, CommitAccepted, CommitRefused
<1> QED BY <1>1, <1>3, <1>4 DEF BehindProcessing, Given, CommitAccepted, CommitRefused

LEMMA OffsetsStep ==
    TypeOK /\ OffsetsInv /\ "eof" \notin events /\ [Next]_vars => OffsetsInv'
<1> SUFFICES ASSUME TypeOK, OffsetsInv, "eof" \notin events, [Next]_vars
             PROVE  OffsetsInv'
  OBVIOUS
<1> USE DEF appVars, rkVars, brokerVars
<1>1. CASE poll
  BY <1>1, CommitStep DEF poll, OffsetsInv, Ready
<1>2. CASE PollThrows
  BY <1>2, CommitStep DEF PollThrows, OffsetsInv, Ready
<1>3. CASE Consume
  BY <1>3, ConsumeStep DEF Consume, PollReturns, OffsetsInv
<1>4. CASE subscribe
  BY <1>4 DEF subscribe, Ready, OffsetsInv, BehindProcessing, Done, Given
<1>5. CASE SubscribeReturns
  BY <1>5 DEF SubscribeReturns, OffsetsInv, BehindProcessing, Done, Given
<1>6. ASSUME NEW S \in SUBSET Partition, Assign(S)
      PROVE  OffsetsInv'
  BY <1>6 DEF Assign, TypeOK, OffsetsInv, BehindProcessing, Done, Given
<1>7. ASSUME NEW S \in SUBSET Partition, Revoke(S)
      PROVE  OffsetsInv'
  BY <1>7 DEF Revoke, OffsetsInv, BehindProcessing, Done, Given
<1>8. CASE close
  BY <1>8, CommitStep DEF close, OffsetsInv, Ready
<1>9. CASE CloseReturns
  BY <1>9 DEF CloseReturns, OffsetsInv, BehindProcessing, Done, Given
<1>10. ASSUME NEW p \in Partition, NEW o \in 0..MaxOffset, Process(p, o)
       PROVE  OffsetsInv'
  BY <1>10 DEF Process, TypeOK, OffsetsInv, BehindProcessing, Done, Given
<1>11. CASE Crash
  BY <1>11 DEF Crash, OffsetsInv, BehindProcessing, Done, Given, EmptyStore
<1>12. CASE FatalError
  BY <1>12 DEF FatalError, OffsetsInv, BehindProcessing, Done, Given
<1>13. CASE CommitAccepted \/ CommitRefused
  BY <1>13, AnswerStep DEF CommitAccepted, CommitRefused, OffsetsInv
<1>14. ASSUME NEW p \in Partition, OtherMember(p)
       PROVE  OffsetsInv'
  BY <1>14 DEF OtherMember, TypeOK, OffsetsInv, BehindProcessing, Done, Given
<1>15. ASSUME NEW p \in Partition, Produce(p)
       PROVE  OffsetsInv'
  BY <1>15 DEF Produce, OffsetsInv, BehindProcessing, Done, Given
<1>16. CASE UNCHANGED vars
  BY <1>16 DEF vars, OffsetsInv, BehindProcessing, Done, Given
<1> QED BY <1>1, <1>2, <1>3, <1>4, <1>5, <1>6, <1>7, <1>8, <1>9, <1>10, <1>11,
           <1>12, <1>13, <1>14, <1>15, <1>16 DEF Next

(* What the behaviour has besides polling and rebalancing is fixed.         *)
LEMMA EventsFixed == [Next]_vars => UNCHANGED events
  BY DEF Next, vars, poll, PollThrows, Consume, PollReturns, subscribe, SubscribeReturns,
         Assign, Revoke, close, CloseReturns, Process, Crash, FatalError, CommitAccepted,
         CommitRefused, OtherMember, Produce

(* Without end-of-partition markers no record is lost: whatever crashes, is *)
(* refused, is revoked or fails for good, the committed offset of a         *)
(* partition never passes a record that no member has processed.            *)
THEOREM NoRecordLost == Spec => []("eof" \notin events => AtLeastOnce)
<1> DEFINE Inv == "eof" \notin events => OffsetsInv
<1>1. Init => Inv
  BY OffsetsInit
<1>2. TypeOK /\ Inv /\ [Next]_vars => Inv'
  BY OffsetsStep, EventsFixed
<1>3. Inv => ("eof" \notin events => AtLeastOnce)
  BY DEF OffsetsInv, BehindProcessing, AtLeastOnce
<1> QED BY <1>1, <1>2, <1>3, TypeCorrect, PTL DEF Spec

-----------------------------------------------------------------------------
(* What close() leaves committed.                                           *)
LEMMA PipelineInit == Init => PipelineInv
  BY DEF Init, PipelineInv, OnItsWay, AwaitsAnswer, EmptyStore

(* What was stored becomes the last request of its partitions.              *)
LEMMA StoredIsRequested ==
    ASSUME TypeOK, CommitStored, NEW p \in Partition, OnItsWay(p, handed[p]),
           UNCHANGED <<handed, group>>
    PROVE  OnItsWay(p, handed[p])'
<1>1. CASE UNCHANGED <<offsetsToStore, inflight>>
  BY <1>1 DEF OnItsWay, AwaitsAnswer, LastRequest
<1>2. CASE offsetsToStore' = EmptyStore /\ inflight' = Append(inflight, Incremented)
  <2>1. Incremented \in Commits
    BY DEF TypeOK, Commits, Incremented, NoOffset
  <2> DEFINE len == Len(inflight)
  <2>2. /\ len \in Nat /\ Len(inflight') = len + 1
        /\ \A i \in 1..len : inflight'[i] = inflight[i]
        /\ inflight'[len + 1] = Incremented
    BY <1>2, <2>1, RequestAdded DEF TypeOK
  <2>3. offsetsToStore'[p] = NoOffset
    BY <1>2 DEF EmptyStore
  <2> HIDE DEF len
  <2>4. CASE offsetsToStore[p] # NoOffset
    <3>1. Incremented[p] = offsetsToStore[p] + 1 /\ Incremented[p] # NoOffset
      BY <2>4 DEF Incremented, TypeOK, Commits, NoOffset
    <3>2. handed[p] <= Incremented[p]
      BY <2>4, <3>1 DEF OnItsWay
    <3>3. len + 1 \in 1..Len(inflight') /\ \A j \in 1..Len(inflight') : j <= len + 1
      BY <2>2
    <3> QED BY <2>2, <2>3, <3>1, <3>2, <3>3 DEF OnItsWay, AwaitsAnswer, LastRequest, Covers
  <2>5. CASE offsetsToStore[p] = NoOffset
    <3>1. ~Covers(Incremented, p)
      BY <2>5 DEF Incremented, Covers
    <3>2. \A i \in 1..Len(inflight') :
            Covers(inflight'[i], p) => i \in 1..len /\ inflight'[i] = inflight[i]
      BY <2>2, <3>1
    <3>3. \A i \in 1..len : i \in 1..Len(inflight')
      BY <2>2
    <3>4. CASE AwaitsAnswer(p)
      <4> PICK i \in 1..len : LastRequest(p, i) /\ handed[p] <= inflight[i][p]
        BY <2>5, <3>4 DEF OnItsWay, len
      <4>1. i \in 1..Len(inflight') /\ inflight'[i] = inflight[i]
        BY <2>2, <3>3
      <4>2. LastRequest(p, i)'
        BY <3>2, <4>1 DEF LastRequest, len
      <4> QED BY <2>3, <4>1, <4>2 DEF OnItsWay, AwaitsAnswer, LastRequest
    <3>5. CASE ~AwaitsAnswer(p)
      <4>1. ~AwaitsAnswer(p)'
        BY <3>2, <3>5 DEF AwaitsAnswer, len
      <4> QED BY <2>3, <2>5, <3>5, <4>1 DEF OnItsWay
    <3> QED BY <3>4, <3>5
  <2> QED BY <2>4, <2>5
<1> QED BY <1>1, <1>2 DEF CommitStored

(* The oldest request becomes the group's offset, if it was the last one.   *)
LEMMA RequestIsCommitted ==
    ASSUME TypeOK, CommitAccepted, NEW p \in Partition, OnItsWay(p, handed[p])
    PROVE  OnItsWay(p, handed[p])'
<1> USE DEF appVars, rkVars
<1> DEFINE len == Len(inflight)
<1>1. /\ len \in Nat /\ len >= 1 /\ Len(inflight') = len - 1
      /\ \A i \in 1..(len - 1) : inflight'[i] = inflight[i + 1]
      /\ Head(inflight) = inflight[1]
  BY RequestAnswered DEF TypeOK, CommitAccepted
<1>2. /\ UNCHANGED <<offsetsToStore, handed>>
      /\ group'[p] = IF Covers(inflight[1], p) THEN inflight[1][p] ELSE group[p]
  BY <1>1 DEF CommitAccepted
<1> HIDE DEF len
<1>3. CASE offsetsToStore[p] # NoOffset
  BY <1>2, <1>3 DEF OnItsWay
<1>4. CASE offsetsToStore[p] = NoOffset /\ AwaitsAnswer(p)
  <2> PICK i \in 1..len : LastRequest(p, i) /\ handed[p] <= inflight[i][p]
    BY <1>4 DEF OnItsWay, len
  <2>1. CASE i = 1
    <3>1. \A j \in 1..Len(inflight') : ~Covers(inflight'[j], p)
      <4> SUFFICES ASSUME NEW j \in 1..Len(inflight'), Covers(inflight'[j], p)
                   PROVE  FALSE
        OBVIOUS
      <4>1. j + 1 \in 1..len /\ inflight'[j] = inflight[j + 1] /\ ~(j + 1 <= 1)
        BY <1>1
      <4> QED BY <2>1, <4>1 DEF LastRequest, len
    <3> QED BY <1>2, <1>4, <2>1, <3>1 DEF OnItsWay, AwaitsAnswer, LastRequest
  <2>2. CASE i # 1
    <3>1. i - 1 \in 1..Len(inflight') /\ inflight'[i - 1] = inflight[i]
      BY <1>1, <2>2
    <3>2. ASSUME NEW j \in 1..Len(inflight'), Covers(inflight'[j], p)
          PROVE  j <= i - 1
      <4>1. j + 1 \in 1..len /\ inflight'[j] = inflight[j + 1]
        BY <1>1
      <4>2. j + 1 <= i
        BY <3>2, <4>1 DEF LastRequest, len
      <4> QED BY <4>2, <1>1
    <3>3. LastRequest(p, i - 1)'
      BY <3>1, <3>2 DEF LastRequest
    <3> QED BY <1>2, <1>4, <3>1, <3>3 DEF OnItsWay, AwaitsAnswer, LastRequest
  <2> QED BY <2>1, <2>2
<1>5. CASE offsetsToStore[p] = NoOffset /\ ~AwaitsAnswer(p)
  <2>1. ~Covers(inflight[1], p)
    BY <1>1, <1>5 DEF AwaitsAnswer, len
  <2>2. ~AwaitsAnswer(p)'
    <3> SUFFICES ASSUME NEW j \in 1..Len(inflight'), Covers(inflight'[j], p)
                 PROVE  FALSE
      BY DEF AwaitsAnswer
    <3>1. j + 1 \in 1..len /\ inflight'[j] = inflight[j + 1]
      BY <1>1
    <3> QED BY <1>5, <3>1 DEF AwaitsAnswer, len
  <2> QED BY <1>2, <1>5, <2>1, <2>2 DEF OnItsWay
<1> QED BY <1>3, <1>4, <1>5

(* What poll() hands out is stored.                                         *)
LEMMA HandedIsStored ==
    ASSUME TypeOK, NEW n \in [Partition -> 0..MaxPollRecords], NEW eof \in SUBSET owned,
           PollReturns(n, eof), NEW p \in Partition, handed[p] <= logEnd[p]
    PROVE  /\ (handed[p] <= logEnd[p])'
           /\ OnItsWay(p, handed[p]) => OnItsWay(p, handed[p])'
<1>1. /\ position[p] \in Nat /\ n[p] \in Nat /\ logEnd[p] \in Nat /\ handed[p] \in Nat
      /\ p \in owned => position[p] + n[p] <= logEnd[p]
      /\ p \in eof => p \in owned /\ position[p] + n[p] = logEnd[p]
      /\ handed'[p] = IF p \in owned /\ n[p] > 0 THEN position[p] + n[p] ELSE handed[p]
      /\ UNCHANGED <<logEnd, inflight, group>>
  BY ConsumerConstants DEF TypeOK, Offset, PollReturns, brokerVars
<1>2. handed'[p] <= logEnd'[p] /\ handed'[p] \in Nat
  BY <1>1
<1>3. CASE p \in eof
  <2>1. offsetsToStore'[p] = logEnd[p]
    BY <1>3, StoredOffset
  <2>2. offsetsToStore'[p] # NoOffset /\ handed'[p] <= offsetsToStore'[p] + 1
    BY <1>1, <1>2, <2>1 DEF NoOffset
  <2> QED BY <1>2, <2>2 DEF OnItsWay
<1>4. CASE p \notin eof /\ p \in owned /\ n[p] > 0
  <2>1. offsetsToStore'[p] = position[p] + n[p] - 1
    BY <1>4, StoredOffset
  <2>2. offsetsToStore'[p] # NoOffset /\ handed'[p] <= offsetsToStore'[p] + 1
    BY <1>1, <1>4, <2>1 DEF NoOffset
  <2> QED BY <1>2, <2>2 DEF OnItsWay
<1>5. CASE p \notin eof /\ ~(p \in owned /\ n[p] > 0)
  <2>1. offsetsToStore'[p] = offsetsToStore[p]
    BY <1>5, StoredOffset
  <2>2. handed'[p] = handed[p]
    BY <1>1, <1>5
  <2> QED BY <1>1, <1>2, <2>1, <2>2 DEF OnItsWay, AwaitsAnswer, LastRequest
<1> QED BY <1>3, <1>4, <1>5

LEMMA PipelineStep == TypeOK /\ PipelineInv /\ [Next]_vars => PipelineInv'
<1> SUFFICES ASSUME TypeOK, PipelineInv, [Next]_vars
             PROVE  PipelineInv'
  OBVIOUS
<1> USE DEF appVars, rkVars, brokerVars
<1>1. CASE poll
  BY <1>1, StoredIsRequested DEF poll, Ready, PipelineInv
<1>2. CASE PollThrows
  BY <1>2 DEF PollThrows, Ready, CommitThrows, PipelineInv
<1>3. CASE Consume
  <2> PICK n \in [Partition -> 0..MaxPollRecords], eof \in SUBSET owned : PollReturns(n, eof)
    BY <1>3 DEF Consume
  <2>1. \A p \in Partition : /\ (handed[p] <= logEnd[p])'
                             /\ OnItsWay(p, handed[p]) => OnItsWay(p, handed[p])'
    BY HandedIsStored DEF PipelineInv
  <2>2. pc' = "idle" /\ UNCHANGED <<failures, fatal>>
    BY DEF PollReturns
  <2> QED BY <2>1, <2>2 DEF PipelineInv
<1>4. CASE subscribe
  BY <1>4 DEF subscribe, PipelineInv, OnItsWay, AwaitsAnswer, LastRequest
<1>5. CASE SubscribeReturns
  BY <1>5 DEF SubscribeReturns, PipelineInv, OnItsWay, AwaitsAnswer, LastRequest
<1>6. ASSUME NEW S \in SUBSET Partition, Assign(S)
      PROVE  PipelineInv'
  BY <1>6 DEF Assign, PipelineInv, OnItsWay, AwaitsAnswer, LastRequest
<1>7. ASSUME NEW S \in SUBSET Partition, Revoke(S)
      PROVE  PipelineInv'
  BY <1>7 DEF Revoke, PipelineInv, OnItsWay, AwaitsAnswer, LastRequest
<1>8. CASE close
  <2>1. CASE CommitStored
    BY <1>8, <2>1, StoredIsRequested DEF close, CommitStored, PipelineInv
  <2>2. CASE CommitThrows
    BY <1>8, <2>2 DEF close, CommitThrows, PipelineInv
  <2> QED BY <1>8, <2>1, <2>2 DEF close
<1>9. CASE CloseReturns
  BY <1>9 DEF CloseReturns, PipelineInv, OnItsWay, AwaitsAnswer, LastRequest
<1>10. ASSUME NEW p \in Partition, NEW o \in 0..MaxOffset, Process(p, o)
       PROVE  PipelineInv'
  BY <1>10 DEF Process, PipelineInv, OnItsWay, AwaitsAnswer, LastRequest
<1>11. CASE Crash
  BY <1>11 DEF Crash, TypeOK, Offset, PipelineInv, OnItsWay, AwaitsAnswer, EmptyStore
<1>12. CASE FatalError
  BY <1>12 DEF FatalError, PipelineInv
<1>13. CASE CommitAccepted
  BY <1>13, RequestIsCommitted DEF CommitAccepted, PipelineInv
<1>14. CASE CommitRefused
  <2>1. failures' # 0
    BY <1>14, ConsumerConstants DEF CommitRefused, TypeOK
  <2> QED BY <1>14, <2>1 DEF CommitRefused, PipelineInv
<1>15. ASSUME NEW p \in Partition, OtherMember(p)
       PROVE  PipelineInv'
  <2>1. \A q \in Partition : group'[q] \in Nat /\ group[q] \in Nat /\ group[q] <= group'[q]
    BY <1>15 DEF OtherMember, TypeOK
  <2>2. \A q \in Partition : OnItsWay(q, handed[q]) => OnItsWay(q, handed[q])'
    BY <1>15, <2>1 DEF OtherMember, TypeOK, OnItsWay, AwaitsAnswer, LastRequest
  <2> QED BY <1>15, <2>2 DEF OtherMember, PipelineInv
<1>16. ASSUME NEW p \in Partition, Produce(p)
       PROVE  PipelineInv'
  <2>1. \A q \in Partition : handed[q] \in Nat /\ logEnd[q] \in Nat /\ logEnd[q] <= logEnd'[q]
                             /\ logEnd'[q] \in Nat
    BY <1>16 DEF Produce, TypeOK, Offset
  <2> QED BY <1>16, <2>1 DEF Produce, PipelineInv, OnItsWay, AwaitsAnswer, LastRequest
<1>17. CASE UNCHANGED vars
  BY <1>17 DEF vars, PipelineInv, OnItsWay, AwaitsAnswer, LastRequest
<1> QED BY <1>1, <1>2, <1>3, <1>4, <1>5, <1>6, <1>7, <1>8, <1>9, <1>10, <1>11,
           <1>12, <1>13, <1>14, <1>15, <1>16, <1>17 DEF Next

(* When close() has returned and no commit was refused, everything this     *)
(* process was handed is committed, markers and changes of the subscription *)
(* included.                                                                *)
THEOREM CloseCommits == Spec => []ClosedCommitted
<1>1. TypeOK /\ PipelineInv => ClosedCommitted
  <2> SUFFICES ASSUME TypeOK, PipelineInv, pc = "closed", failures = 0, ~fatal,
                      NEW p \in Partition
               PROVE  group[p] >= handed[p]
    BY DEF ClosedCommitted
  <2>1. offsetsToStore[p] = NoOffset /\ inflight = <<>>
    BY DEF PipelineInv, EmptyStore
  <2>2. ~AwaitsAnswer(p)
    BY <2>1 DEF AwaitsAnswer
  <2> QED BY <2>1, <2>2 DEF PipelineInv, OnItsWay, TypeOK
<1> QED BY <1>1, PipelineInit, PipelineStep, TypeCorrect, PTL DEF Spec

-----------------------------------------------------------------------------
(* The group's offset never goes back.                                      *)
LEMMA MonotoneInit == Init => MonotoneInv
  BY DEF Init, MonotoneInv, StagesGrow, AheadOf, EmptyStore

(* What is stored is ahead of every request, so that it may follow them.    *)
LEMMA StagesCommit ==
    ASSUME TypeOK, CommitStored \/ CommitThrows, UNCHANGED <<group, owned, position, fatal>>,
           NEW p \in Partition, StagesGrow(p)
    PROVE  StagesGrow(p)'
<1>1. CASE UNCHANGED <<offsetsToStore, inflight>>
  BY <1>1 DEF StagesGrow, AheadOf
<1>2. CASE fatal /\ UNCHANGED inflight
  BY <1>2 DEF StagesGrow, AheadOf
<1>3. CASE offsetsToStore' = EmptyStore /\ ~fatal /\ inflight' = Append(inflight, Incremented)
  <2>1. Incremented \in Commits
    BY DEF TypeOK, Commits, Incremented, NoOffset
  <2> DEFINE len == Len(inflight)
  <2>2. /\ len \in Nat /\ Len(inflight') = len + 1
        /\ \A i \in 1..len : inflight'[i] = inflight[i]
        /\ inflight'[len + 1] = Incremented
    BY <1>3, <2>1, RequestAdded DEF TypeOK
  <2>3. offsetsToStore'[p] = NoOffset
    BY <1>3 DEF EmptyStore
  <2>4. ASSUME Covers(Incremented, p)
        PROVE  /\ p \in owned /\ Incremented[p] \in Int
               /\ Incremented[p] <= position[p] + 1 /\ AheadOf(p, Incremented[p])
    <3>1. offsetsToStore[p] # NoOffset /\ Incremented[p] = offsetsToStore[p] + 1
      BY <2>4 DEF Covers, Incremented
    <3>2. offsetsToStore[p] \in Nat /\ position[p] \in Nat
      BY <3>1 DEF TypeOK, Commits
    <3> QED BY <1>3, <3>1, <3>2 DEF StagesGrow
  <2>5. \A i \in 1..Len(inflight') : i \in 1..len \/ i = len + 1
    BY <2>2
  <2> HIDE DEF len
  <2>6. p \in owned => AheadOf(p, position[p] + 1)'
    BY <2>2, <2>4, <2>5 DEF StagesGrow, AheadOf, len
  <2>7. \A i \in 1..Len(inflight') : Covers(inflight'[i], p) => group[p] <= inflight'[i][p]
    BY <2>2, <2>4, <2>5 DEF StagesGrow, AheadOf, len
  <2>8. ASSUME NEW i \in 1..Len(inflight'), NEW j \in 1..Len(inflight'), i < j,
               Covers(inflight'[i], p), Covers(inflight'[j], p)
        PROVE  inflight'[i][p] <= inflight'[j][p]
    <3>1. i \in 1..len
      BY <2>2, <2>5, <2>8
    <3>2. CASE j \in 1..len
      BY <2>2, <2>8, <3>1, <3>2 DEF StagesGrow, len
    <3>3. CASE j = len + 1
      BY <2>2, <2>4, <2>8, <3>1, <3>3 DEF AheadOf, len
    <3> QED BY <2>5, <3>2, <3>3
  <2> QED BY <2>3, <2>6, <2>7, <2>8 DEF StagesGrow
<1> QED BY <1>1, <1>2, <1>3 DEF CommitStored, CommitThrows

LEMMA StagesConsume ==
    ASSUME TypeOK, offsetsToStore = EmptyStore,
           NEW n \in [Partition -> 0..MaxPollRecords], NEW eof \in SUBSET owned,
           PollReturns(n, eof), NEW p \in Partition, StagesGrow(p)
    PROVE  StagesGrow(p)'
<1>1. /\ position[p] \in Nat /\ n[p] \in Nat /\ logEnd[p] \in Nat /\ group[p] \in Nat
      /\ \A i \in 1..Len(inflight) : inflight[i][p] \in Int
      /\ p \in eof => p \in owned /\ position[p] + n[p] = logEnd[p]
      /\ position'[p] = IF p \in owned THEN position[p] + n[p] ELSE position[p]
      /\ UNCHANGED <<owned, fatal, inflight, group>>
  BY ConsumerConstants DEF TypeOK, Offset, Commits, NoOffset, PollReturns, brokerVars
<1>2. ASSUME NEW m \in Int, m >= position[p] + 1, p \in owned
      PROVE  AheadOf(p, m)'
  BY <1>1, <1>2 DEF StagesGrow, AheadOf
<1>3. p \in owned => AheadOf(p, position[p] + 1)'
  <2>1. p \in owned => position'[p] + 1 \in Int /\ position'[p] + 1 >= position[p] + 1
    BY <1>1
  <2> QED BY <1>2, <2>1 DEF AheadOf
<1>4. ASSUME offsetsToStore'[p] # NoOffset
      PROVE  /\ p \in owned /\ offsetsToStore'[p] <= position'[p]
             /\ offsetsToStore'[p] + 1 \in Int /\ offsetsToStore'[p] + 1 >= position[p] + 1
  <2>1. CASE p \in eof
    BY <1>1, <2>1, StoredOffset
  <2>2. CASE p \notin eof /\ p \in owned /\ n[p] > 0
    <3>1. offsetsToStore'[p] = position[p] + n[p] - 1
      BY <2>2, StoredOffset
    <3> QED BY <1>1, <2>2, <3>1
  <2>3. CASE p \notin eof /\ ~(p \in owned /\ n[p] > 0)
    <3>1. offsetsToStore'[p] = NoOffset
      BY <2>3, StoredOffset DEF EmptyStore
    <3> QED BY <1>4, <3>1
  <2> QED BY <2>1, <2>2, <2>3
<1>5. offsetsToStore'[p] # NoOffset => AheadOf(p, offsetsToStore[p] + 1)'
  BY <1>2, <1>4 DEF AheadOf
<1> QED BY <1>1, <1>3, <1>4, <1>5 DEF StagesGrow

(* The oldest request is ahead of the group and behind the others.          *)
LEMMA StagesAnswered ==
    ASSUME TypeOK, CommitAccepted \/ CommitRefused, NEW p \in Partition, StagesGrow(p)
    PROVE  StagesGrow(p)' /\ group[p] <= group'[p]
<1> USE DEF appVars, rkVars
<1> DEFINE len == Len(inflight)
<1>1. /\ len \in Nat /\ len >= 1 /\ Len(inflight') = len - 1
      /\ \A i \in 1..(len - 1) : inflight'[i] = inflight[i + 1]
      /\ Head(inflight) = inflight[1]
  BY RequestAnswered DEF TypeOK, CommitAccepted, CommitRefused
<1>2. /\ UNCHANGED <<offsetsToStore, owned, position, fatal>>
      /\ group[p] \in Nat
      /\ group'[p] = group[p] \/ (Covers(inflight[1], p) /\ group'[p] = inflight[1][p])
  BY <1>1 DEF TypeOK, CommitAccepted, CommitRefused
<1>3. \A i \in 1..Len(inflight') : /\ i + 1 \in 1..len /\ 1 \in 1..len /\ 1 < i + 1
                                   /\ inflight'[i] = inflight[i + 1]
  BY <1>1
<1>4. group[p] <= group'[p]
  BY <1>1, <1>2 DEF StagesGrow
<1> HIDE DEF len
<1>5. \A i \in 1..Len(inflight') : Covers(inflight'[i], p) => group'[p] <= inflight'[i][p]
  BY <1>2, <1>3 DEF StagesGrow, len
<1>6. ASSUME NEW i \in 1..Len(inflight'), NEW j \in 1..Len(inflight'), i < j,
             Covers(inflight'[i], p), Covers(inflight'[j], p)
      PROVE  inflight'[i][p] <= inflight'[j][p]
  <2>1. i + 1 < j + 1
    BY <1>1, <1>6
  <2> QED BY <1>3, <1>6, <2>1 DEF StagesGrow, len
<1>7. ASSUME NEW m, AheadOf(p, m)
      PROVE  AheadOf(p, m)'
  <2>1. group'[p] <= m
    BY <1>1, <1>2, <1>3, <1>7 DEF AheadOf, len
  <2> QED BY <1>3, <1>7, <2>1 DEF AheadOf, len
<1>8. p \in owned => AheadOf(p, position[p] + 1)'
  BY <1>2, <1>7 DEF StagesGrow, AheadOf
<1>9. ~fatal /\ offsetsToStore[p] # NoOffset => AheadOf(p, offsetsToStore[p] + 1)'
  BY <1>2, <1>7 DEF StagesGrow, AheadOf
<1> QED BY <1>2, <1>4, <1>5, <1>6, <1>8, <1>9 DEF StagesGrow

LEMMA MonotoneStep == TypeOK /\ MonotoneInv /\ [Next]_vars => MonotoneInv'
<1> SUFFICES ASSUME TypeOK, MonotoneInv, [Next]_vars, "subscribe" \notin events
             PROVE  MonotoneInv'
  BY EventsFixed DEF MonotoneInv
<1> USE DEF appVars, rkVars, brokerVars
<1>1. CASE poll
  BY <1>1, StagesCommit DEF poll, CommitStored, MonotoneInv
<1>2. CASE PollThrows
  BY <1>2, StagesCommit DEF PollThrows, Ready, MonotoneInv
<1>3. CASE Consume
  <2> PICK n \in [Partition -> 0..MaxPollRecords], eof \in SUBSET owned : PollReturns(n, eof)
    BY <1>3 DEF Consume
  <2>1. pc = "consume" /\ pc' = "idle"
    BY DEF PollReturns
  <2>2. \A p \in Partition : StagesGrow(p)'
    BY <2>1, StagesConsume DEF MonotoneInv
  <2> QED BY <2>1, <2>2 DEF MonotoneInv
<1>4. CASE subscribe
  BY <1>4 DEF subscribe
<1>5. CASE SubscribeReturns
  BY <1>5 DEF SubscribeReturns, MonotoneInv
<1>6. ASSUME NEW S \in SUBSET Partition, Assign(S)
      PROVE  MonotoneInv'
  <2>1. ASSUME NEW p \in Partition
        PROVE  StagesGrow(p)'
    <3>1. CASE p \in S
      <4>1. position'[p] = group[p] /\ group[p] <= group[p] + 1 /\ ~AwaitsAnswer(p)
        BY <1>6, <3>1 DEF Assign, TypeOK
      <4>2. offsetsToStore[p] = NoOffset
        BY <1>6 DEF Assign, MonotoneInv, EmptyStore
      <4> QED BY <1>6, <2>1, <4>1, <4>2 DEF Assign, MonotoneInv, StagesGrow, AheadOf, AwaitsAnswer
    <3>2. CASE p \notin S
      BY <1>6, <2>1, <3>2 DEF Assign, TypeOK, MonotoneInv, StagesGrow, AheadOf
    <3> QED BY <3>1, <3>2
  <2> QED BY <1>6, <2>1 DEF Assign, MonotoneInv
<1>7. ASSUME NEW S \in SUBSET Partition, Revoke(S)
      PROVE  MonotoneInv'
  <2>1. pc = "consume" /\ offsetsToStore = EmptyStore
    BY <1>7 DEF Revoke, MonotoneInv
  <2> QED BY <1>7, <2>1 DEF Revoke, MonotoneInv, StagesGrow, AheadOf, EmptyStore
<1>8. CASE close
  <2>1. ~fatal' => offsetsToStore' = EmptyStore
    BY <1>8 DEF close, CommitStored, CommitThrows
  <2> QED BY <1>8, <2>1, StagesCommit DEF close, MonotoneInv
<1>9. CASE CloseReturns
  BY <1>9 DEF CloseReturns, MonotoneInv, StagesGrow, AheadOf, EmptyStore
<1>10. ASSUME NEW p \in Partition, NEW o \in 0..MaxOffset, Process(p, o)
       PROVE  MonotoneInv'
  BY <1>10 DEF Process, MonotoneInv, StagesGrow, AheadOf
<1>11. CASE Crash
  BY <1>11 DEF Crash, MonotoneInv, StagesGrow, AheadOf, EmptyStore
<1>12. CASE FatalError
  BY <1>12 DEF FatalError, MonotoneInv, StagesGrow, AheadOf
<1>13. CASE CommitAccepted \/ CommitRefused
  BY <1>13, StagesAnswered DEF CommitAccepted, CommitRefused, MonotoneInv
<1>14. ASSUME NEW p \in Partition, OtherMember(p)
       PROVE  MonotoneInv'
  <2>1. ASSUME NEW q \in Partition
        PROVE  StagesGrow(q)'
    BY <1>14, <2>1 DEF OtherMember, TypeOK, MonotoneInv, StagesGrow, AheadOf, AwaitsAnswer
  <2> QED BY <1>14, <2>1 DEF OtherMember, MonotoneInv
<1>15. ASSUME NEW p \in Partition, Produce(p)
       PROVE  MonotoneInv'
  BY <1>15 DEF Produce, MonotoneInv, StagesGrow, AheadOf
<1>16. CASE UNCHANGED vars
  BY <1>16 DEF vars, MonotoneInv, StagesGrow, AheadOf
<1> QED BY <1>1, <1>2, <1>3, <1>4, <1>5, <1>6, <1>7, <1>8, <1>9, <1>10, <1>11,
           <1>12, <1>13, <1>14, <1>15, <1>16 DEF Next

(* Only the coordinator's answers and other members change the group's      *)
(* offsets.                                                                 *)
LEMMA GroupStep ==
    ASSUME TypeOK, MonotoneInv, [Next]_vars, "subscribe" \notin events, NEW p \in Partition
    PROVE  group'[p] >= group[p]
<1>1. CASE CommitAccepted \/ CommitRefused
  <2>1. group[p] <= group'[p]
    BY <1>1, StagesAnswered DEF MonotoneInv
  <2> QED BY <1>1, <2>1, TypeStep DEF TypeOK
<1>2. ASSUME NEW q \in Partition, OtherMember(q)
      PROVE  group'[p] >= group[p]
  BY <1>2 DEF OtherMember, TypeOK
<1>3. CASE UNCHANGED group
  BY <1>3 DEF TypeOK
<1> QED BY <1>1, <1>2, <1>3
        DEF Next, vars, appVars, rkVars, brokerVars, poll, PollThrows, Consume, PollReturns,
            subscribe, SubscribeReturns, Assign, Revoke, close, CloseReturns, Process, Crash,
            FatalError, Produce

(* As long as the subscription is not changed between two polls, the group's *)
(* committed offset of a partition never goes back, however requests of      *)
(* this consumer, refusals, rebalances and other members' commits interleave. *)
THEOREM GroupOffsetGrows == Spec => GroupNeverGoesBack
<1>1. TypeOK /\ MonotoneInv /\ [Next]_vars =>
        ["subscribe" \notin events => \A p \in Partition : group'[p] >= group[p]]_vars
  BY GroupStep
<1> QED BY <1>1, MonotoneInit, MonotoneStep, TypeCorrect, PTL DEF Spec, GroupNeverGoesBack

=============================================================================
