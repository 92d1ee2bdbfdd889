-------------------------- MODULE ConsumerOffsets ---------------------------
(***************************************************************************)
(* KafkaConsumer.h with enable.auto.commit=true: where the offsets of the   *)
(* records poll() hands out go, from _offsetsToStore through librdkafka's   *)
(* commit requests to the committed offset of the consumer group.           *)
(*                                                                         *)
(* One application thread drives the consumer as README.md shows: it        *)
(* processes every record of a poll() before it calls the consumer again.   *)
(* The process may crash and start again; partitions move to other members *)
(* of the group and back.                                                  *)
(*                                                                         *)
(* External: the log of each partition, librdkafka's fetch positions and    *)
(* rebalance events, the group coordinator, the other members.  The         *)
(* coordinator answers the commits of a member in order, and gives a        *)
(* partition away only when the commits the member sent for it before it    *)
(* rejoined are answered.  It does not check who owns a partition.          *)
(***************************************************************************)
EXTENDS Integers, Sequences, FiniteSets

CONSTANTS Partition,
          MaxPollRecords,   \* max.poll.records
          MaxOffset,        \* bound: records per partition
          MaxInflight,      \* bound: commit requests without an answer
          MaxFailures,      \* bound: commit requests the coordinator refuses
          EventSets         \* what may happen besides polling and rebalancing

(* "crash"       the process dies and is started again                     *)
(* "subscribe"   subscribe() and unsubscribe() are called between polls    *)
(* "fatal"       librdkafka raises a fatal error and refuses commits       *)
(* "eof"         enable.partition.eof=true                                 *)
ASSUME ConsumerConstants ==
    /\ MaxPollRecords \in Nat \ {0}
    /\ MaxOffset \in Nat
    /\ MaxInflight \in Nat
    /\ MaxFailures \in Nat
    /\ EventSets \subseteq SUBSET {"crash", "subscribe", "fatal", "eof"}

NoOffset == -1

VARIABLES
    events,         \* the one of EventSets that this behaviour has
    pc,             \* the call in progress, "idle" or "closed"
    offsetsToStore, \* _offsetsToStore, NoOffset where it has no entry
    batch,          \* the records the application has still to process
    owned,          \* the partitions assigned to this consumer
    position,       \* librdkafka's next offset to hand out
    fatal,          \* librdkafka refuses every commit
    inflight,       \* commit requests not answered yet, oldest first
    failures,       \* how many requests have been refused
    group,          \* the committed offsets of the group
    logEnd,         \* the next offset to be produced
    processed,      \* the offsets some member has processed
    handed          \* one past the last record handed out by this process

appVars == <<batch, processed, handed>>
rkVars == <<owned, position, fatal>>
brokerVars == <<inflight, failures, group, logEnd>>
vars == <<events, pc, offsetsToStore, batch, owned, position, fatal, inflight, failures,
          group, logEnd, processed, handed>>

EmptyStore == [p \in Partition |-> NoOffset]

Init ==
    /\ events \in EventSets
    /\ pc = "idle"
    /\ offsetsToStore = EmptyStore
    /\ batch = {}
    /\ owned = {}
    /\ position = [p \in Partition |-> 0]
    /\ fatal = FALSE
    /\ inflight = <<>>
    /\ failures = 0
    /\ group = [p \in Partition |-> 0]
    /\ logEnd = [p \in Partition |-> 0]
    /\ processed = [p \in Partition |-> {}]
    /\ handed = [p \in Partition |-> 0]

-----------------------------------------------------------------------------
(* The application is between two calls and done with the last records.    *)
Ready == pc = "idle" /\ batch = {}

(* A commit request with an entry for p.                                   *)
Covers(c, p) == c[p] # NoOffset
AwaitsAnswer(p) == \E i \in 1..Len(inflight) : Covers(inflight[i], p)

(* Faulty: the offsets are incremented twice.                              *)
IncrementedTwice ==
    [p \in Partition |->
        IF offsetsToStore[p] = NoOffset THEN NoOffset ELSE offsetsToStore[p] + 2]

Incremented ==
    [p \in Partition |->
        IF offsetsToStore[p] = NoOffset THEN NoOffset ELSE offsetsToStore[p] + 1]

(* Faulty: the entries are not cleared after the commit.                   *)
CommitWithoutClear ==
    IF offsetsToStore = EmptyStore
    THEN UNCHANGED <<offsetsToStore, inflight>>
    ELSE /\ ~fatal
         /\ Len(inflight) < MaxInflight
         /\ inflight' = Append(inflight, Incremented)
         /\ UNCHANGED offsetsToStore

(* commitStoredOffsetsIfNecessary(): a request for the offsets one past the *)
(* stored ones, if there are any.                                          *)
CommitStored ==
    IF offsetsToStore = EmptyStore
    THEN UNCHANGED <<offsetsToStore, inflight>>
    ELSE /\ ~fatal
         /\ Len(inflight) < MaxInflight
         /\ inflight' = Append(inflight, Incremented)
         /\ offsetsToStore' = EmptyStore

(* rd_kafka_commit() refuses: commit() throws, and the entries remain as   *)
(* they were incremented.                                                  *)
CommitThrows ==
    /\ offsetsToStore # EmptyStore
    /\ fatal
    /\ \A p \in Partition : offsetsToStore[p] <= MaxOffset
    /\ offsetsToStore' = Incremented
    /\ UNCHANGED inflight

(* poll(): what was handed out by the last poll() is committed, without    *)
(* waiting for the answer, before anything is fetched.                     *)
poll ==
    /\ Ready
    /\ CommitStored
    /\ pc' = "consume"
    /\ UNCHANGED <<events, appVars, rkVars, failures, group, logEnd>>

PollThrows ==
    /\ Ready
    /\ CommitThrows
    /\ UNCHANGED <<events, pc, appVars, rkVars, failures, group, logEnd>>

(* storeOffsetsIfNecessary(): the last record of each partition decides.   *)
LastOffsetIn(records, p) ==
    CHOOSE o \in 0..MaxOffset :
        <<p, o>> \in records /\ \A q \in 0..MaxOffset : <<p, q>> \in records => q <= o

(* Faulty: the first record decides (emplace instead of operator[]).       *)
storeFirstOffsets(records) ==
    [p \in Partition |->
        IF \E o \in 0..MaxOffset : <<p, o>> \in records
        THEN CHOOSE o \in 0..MaxOffset :
                <<p, o>> \in records /\ \A q \in 0..MaxOffset : <<p, q>> \in records => o <= q
        ELSE offsetsToStore[p]]

storeOffsets(records) ==
    [p \in Partition |->
        IF \E o \in 0..MaxOffset : <<p, o>> \in records
        THEN LastOffsetIn(records, p)
        ELSE offsetsToStore[p]]

(* rd_kafka_consume_batch_queue() hands out n[p] records of each assigned  *)
(* partition p, and end-of-partition markers for those in eof.  A marker   *)
(* has the offset of the next record to be produced.                       *)
Data(n) == UNION {{<<p, o>> : o \in position[p]..(position[p] + n[p] - 1)} : p \in owned}
Markers(eof) == {<<p, logEnd[p]>> : p \in eof}

PollReturns(n, eof) ==
    /\ pc = "consume"
    /\ \A p \in owned : position[p] + n[p] <= logEnd[p]
    /\ \A p \in eof : "eof" \in events /\ position[p] + n[p] = logEnd[p]
    /\ Cardinality(Data(n) \cup Markers(eof)) <= MaxPollRecords
    /\ offsetsToStore' = storeOffsets(Data(n) \cup Markers(eof))
    /\ batch' = Data(n)
    /\ position' = [p \in Partition |->
                        IF p \in owned THEN position[p] + n[p] ELSE position[p]]
    /\ handed' = [p \in Partition |->
                        IF p \in owned /\ n[p] > 0 THEN position[p] + n[p] ELSE handed[p]]
    /\ pc' = "idle"
    /\ UNCHANGED <<events, owned, fatal, brokerVars, processed>>

-----------------------------------------------------------------------------
(* subscribe() and unsubscribe() serve rebalance events in their own loops *)
(* and leave _offsetsToStore alone.                                        *)
subscribe ==
    /\ Ready
    /\ "subscribe" \in events
    /\ pc' \in {"subscribe", "unsubscribe"}
    /\ UNCHANGED <<events, offsetsToStore, appVars, rkVars, brokerVars>>

SubscribeReturns ==
    /\ pc \in {"subscribe", "unsubscribe"}
    /\ pc' = "idle"
    /\ UNCHANGED <<events, offsetsToStore, appVars, rkVars, brokerVars>>

(* A rebalance event is served by the call that polls librdkafka.  An      *)
(* assigned partition is fetched from the group's committed offset on.     *)
Assign(S) ==
    /\ pc \in {"consume", "subscribe"}
    /\ S # {} /\ S \cap owned = {}
    /\ \A p \in S : ~AwaitsAnswer(p)
    /\ owned' = owned \cup S
    /\ position' = [p \in Partition |-> IF p \in S THEN group[p] ELSE position[p]]
    /\ UNCHANGED <<events, pc, offsetsToStore, appVars, fatal, brokerVars>>

Revoke(S) ==
    /\ pc \in {"consume", "subscribe", "unsubscribe"}
    /\ S # {} /\ S \subseteq owned
    /\ owned' = owned \ S
    /\ UNCHANGED <<events, pc, offsetsToStore, appVars, position, fatal, brokerVars>>

(* Faulty: the stored offsets are not committed.                           *)
closeWithoutCommit ==
    /\ Ready
    /\ pc' = "closing"
    /\ UNCHANGED <<events, offsetsToStore, inflight, appVars, rkVars, failures, group, logEnd>>

(* close(): the stored offsets are committed synchronously, an error is    *)
(* caught, and rd_kafka_consumer_close() gives up the assignment when no   *)
(* commit is without its answer.                                           *)
close ==
    /\ Ready
    /\ CommitStored \/ CommitThrows
    /\ pc' = "closing"
    /\ UNCHANGED <<events, appVars, rkVars, failures, group, logEnd>>

CloseReturns ==
    /\ pc = "closing"
    /\ inflight = <<>>
    /\ owned' = {}
    /\ pc' = "closed"
    /\ UNCHANGED <<events, offsetsToStore, appVars, position, fatal, brokerVars>>

-----------------------------------------------------------------------------
(* The application processes a record it was handed.                       *)
Process(p, o) ==
    /\ <<p, o>> \in batch
    /\ batch' = batch \ {<<p, o>>}
    /\ processed' = [processed EXCEPT ![p] = @ \cup {o}]
    /\ UNCHANGED <<events, pc, offsetsToStore, handed, rkVars, brokerVars>>

(* The process dies and is started again; its group membership times out.  *)
Crash ==
    /\ "crash" \in events
    /\ pc' = "idle"
    /\ offsetsToStore' = EmptyStore
    /\ batch' = {}
    /\ owned' = {}
    /\ fatal' = FALSE
    /\ inflight' = <<>>
    /\ handed' = [p \in Partition |-> 0]
    /\ UNCHANGED <<events, position, failures, group, logEnd, processed>>

FatalError ==
    /\ "fatal" \in events
    /\ fatal = FALSE
    /\ fatal' = TRUE
    /\ UNCHANGED <<events, pc, offsetsToStore, appVars, owned, position, brokerVars>>

(* The coordinator answers the oldest request.                             *)
CommitAccepted ==
    /\ inflight # <<>>
    /\ group' = [p \in Partition |->
                    IF Covers(Head(inflight), p) THEN Head(inflight)[p] ELSE group[p]]
    /\ inflight' = Tail(inflight)
    /\ UNCHANGED <<events, pc, offsetsToStore, appVars, rkVars, failures, logEnd>>

CommitRefused ==
    /\ inflight # <<>>
    /\ failures < MaxFailures
    /\ failures' = failures + 1
    /\ inflight' = Tail(inflight)
    /\ UNCHANGED <<events, pc, offsetsToStore, appVars, rkVars, group, logEnd>>

(* Another member, which now has the partition, processes records up to    *)
(* some offset and commits it.                                             *)
OtherMember(p) ==
    /\ p \notin owned
    /\ ~AwaitsAnswer(p)
    /\ group[p] < logEnd[p]
    /\ group' = [group EXCEPT ![p] = @ + 1]
    /\ processed' = [processed EXCEPT ![p] = @ \cup {group[p]}]
    /\ UNCHANGED <<events, pc, offsetsToStore, batch, handed, rkVars, inflight, failures, logEnd>>

Produce(p) ==
    /\ logEnd[p] < MaxOffset
    /\ logEnd' = [logEnd EXCEPT ![p] = @ + 1]
    /\ UNCHANGED <<events, pc, offsetsToStore, appVars, rkVars, inflight, failures, group>>

-----------------------------------------------------------------------------
Consume ==
    \E n \in [Partition -> 0..MaxPollRecords], eof \in SUBSET owned : PollReturns(n, eof)

Next ==
    \/ poll \/ PollThrows \/ Consume
    \/ subscribe \/ SubscribeReturns
    \/ \E S \in SUBSET Partition : Assign(S) \/ Revoke(S)
    \/ close \/ CloseReturns
    \/ \E p \in Partition, o \in 0..MaxOffset : Process(p, o)
    \/ Crash \/ FatalError
    \/ CommitAccepted \/ CommitRefused
    \/ \E p \in Partition : OtherMember(p) \/ Produce(p)

Spec == Init /\ [][Next]_vars

(* poll() must be called periodically (README.md), consume_batch returns   *)
(* at its timeout, the application processes what it got, close() returns  *)
(* and the coordinator answers.                                            *)
FairSpec ==
    /\ Spec
    /\ WF_vars(poll)
    /\ WF_vars(Consume)
    /\ WF_vars(CloseReturns)
    /\ WF_vars(CommitAccepted)
    /\ \A p \in Partition, o \in 0..MaxOffset : WF_vars(Process(p, o))

-----------------------------------------------------------------------------
Offset == 0..MaxOffset
Commits == [Partition -> Nat \cup {NoOffset}]

(* Every variable keeps its type; in particular an offset is stored or     *)
(* committed only as a natural number.                                     *)
TypeOK ==
    /\ pc \in {"idle", "consume", "subscribe", "unsubscribe", "closing", "closed"}
    /\ offsetsToStore \in Commits
    /\ batch \subseteq Partition \X Offset
    /\ owned \subseteq Partition
    /\ position \in [Partition -> Nat]
    /\ fatal \in BOOLEAN
    /\ inflight \in Seq(Commits)
    /\ failures \in 0..MaxFailures
    /\ group \in [Partition -> Nat]
    /\ logEnd \in [Partition -> Offset]
    /\ processed \in [Partition -> SUBSET Offset]
    /\ handed \in [Partition -> Nat]

Done(p, n) == \A o \in 0..(n - 1) : o \in processed[p]

(* At-least-once: whatever the group's committed offset has passed has     *)
(* been processed by some member, so a crash, a rebalance or a restart     *)
(* loses no record.  It rests on poll() committing only what the previous  *)
(* poll() handed out.                                                      *)
AtLeastOnce == \A p \in Partition : Done(p, group[p])

(* The committed offset of a partition never goes back: a commit of this   *)
(* consumer never undoes what a member that had the partition later has    *)
(* committed, because no entry of _offsetsToStore outlives the poll() in    *)
(* which a partition is revoked.  An application that calls subscribe() or  *)
(* unsubscribe() between polls has no such promise.                         *)
GroupNeverGoesBack ==
    []["subscribe" \notin events => \A p \in Partition : group'[p] >= group[p]]_vars

(* After close() returned, with no commit refused, everything this process *)
(* has been handed is committed.                                           *)
ClosedCommitted ==
    pc = "closed" /\ failures = 0 /\ ~fatal =>
        \A p \in Partition : group[p] >= handed[p]

(* What has been processed is eventually committed while polling goes on,  *)
(* or by close(), unless a commit has been refused or the process died.     *)
CommittedUnlessRefused ==
    \A p \in Partition, o \in Offset :
        (o \in processed[p]) ~> (group[p] > o \/ failures > 0 \/ events # {})
=============================================================================
