---------------------------- MODULE ConsumerSeek ----------------------------
(***************************************************************************)
(* KafkaConsumer.h: seek(), which calls rd_kafka_seek() again and again     *)
(* until its time limit, and seekToBeginning() and seekToEnd(), which seek  *)
(* one partition after the other.                                          *)
(*                                                                         *)
(* External: librdkafka.  A partition just assigned is not ready to seek    *)
(* (ERR__STATE).  A seek is an operation in the partition's queue; when it  *)
(* is not executed in time rd_kafka_seek() answers TIMED_OUT, and the       *)
(* operation stays in the queue.  A new assignment makes the operations     *)
(* outdated.  Assignments change only while the thread polls, that is       *)
(* outside of seek().                                                      *)
(***************************************************************************)
EXTENDS Integers, Sequences

CONSTANTS SeekPartitions,   \* partitions, an ordered set
          MaxOffset,        \* bound on offsets
          MaxOps,           \* bound on the operations in a queue
          MaxAssignments    \* bound: changes of the assignment

ASSUME SeekConstants ==
    /\ SeekPartitions \subseteq Nat
    /\ MaxOffset \in Nat /\ MaxOps \in Nat /\ MaxAssignments \in Nat

NoPromise == -1
NoCall == [tps |-> {}, offset |-> 0]

VARIABLES
    fetchState,   \* of each partition: "none", "starting" or "active"
    ops,          \* the seeks in each partition's queue, oldest first
    position,     \* where the next record is fetched
    seeking,      \* the call: the partitions left to seek, and the offset
    respErr,      \* the last answer of rd_kafka_seek(), "none" before it, or
                  \* "pending" while it waits for the last operation
    expired,      \* the time limit is over
    promised,     \* history: where a seek() that returned left the partition
    assignments

seekVars == <<fetchState, ops, position, seeking, respErr, expired, promised, assignments>>
rkSeekVars == <<fetchState, ops, position, assignments>>

SeekInit ==
    /\ fetchState = [p \in SeekPartitions |-> "none"]
    /\ ops = [p \in SeekPartitions |-> <<>>]
    /\ position = [p \in SeekPartitions |-> 0]
    /\ seeking = NoCall
    /\ respErr = "none" /\ expired = FALSE
    /\ promised = [p \in SeekPartitions |-> NoPromise]
    /\ assignments = 0

Free == seeking = NoCall
Sought == CHOOSE p \in seeking.tps : \A q \in seeking.tps : p <= q

(* seek() of one partition, or seekToBeginning() (offset 0) and seekToEnd() *)
(* (offset MaxOffset) of several.                                          *)
seek(tps, o) ==
    /\ Free
    /\ seeking' = [tps |-> tps, offset |-> o]
    /\ respErr' = "none" /\ expired' = FALSE
    /\ promised' = [p \in SeekPartitions |-> IF p \in tps THEN NoPromise ELSE promised[p]]
    /\ UNCHANGED rkSeekVars

(* rd_kafka_seek(): refused at once, or in the queue of the partition.      *)
CallRkSeek ==
    /\ ~Free /\ respErr = "none"
    /\ \/ /\ fetchState[Sought] = "none"
          /\ respErr' \in {"STATE", "UNKNOWN_PARTITION"}
          /\ UNCHANGED ops
       \/ fetchState[Sought] = "starting" /\ respErr' = "STATE" /\ UNCHANGED ops
       \/ /\ fetchState[Sought] = "active" /\ Len(ops[Sought]) < MaxOps
          /\ respErr' = "pending"
          /\ ops' = [ops EXCEPT ![Sought] = Append(@, seeking.offset)]
    /\ UNCHANGED <<fetchState, position, seeking, expired, promised, assignments>>

(* SEEK_RETRY_INTERVAL_MS is over.                                          *)
RkSeekTimesOut ==
    /\ respErr = "pending"
    /\ respErr' = "TIMED_OUT"
    /\ UNCHANGED <<rkSeekVars, seeking, expired, promised>>

(* Another request to the partition (a pause, say) outdates the operation.  *)
RkSeekOutdated ==
    /\ respErr = "pending"
    /\ respErr' = "OUTDATED"
    /\ ops' = [ops EXCEPT ![Sought] = SubSeq(@, 1, Len(@) - 1)]
    /\ UNCHANGED <<fetchState, position, seeking, expired, promised, assignments>>

(* The oldest operation is executed; if it is the one rd_kafka_seek() waits *)
(* for, this answers.                                                      *)
ExecuteSeek(p) ==
    /\ ops[p] # <<>>
    /\ position' = [position EXCEPT ![p] = Head(ops[p])]
    /\ ops' = [ops EXCEPT ![p] = Tail(@)]
    /\ respErr' = IF respErr = "pending" /\ p = Sought /\ Len(ops[p]) = 1
                  THEN "NO_ERROR" ELSE respErr
    /\ UNCHANGED <<fetchState, seeking, expired, promised, assignments>>

(* The loop: which answers are retried, and the time limit looked at after  *)
(* each of them.                                                           *)
Retriable(err) == err \in {"STATE", "TIMED_OUT", "OUTDATED"}

RetrySeek ==
    /\ Retriable(respErr) /\ ~expired
    /\ respErr' = "none"
    /\ UNCHANGED <<rkSeekVars, seeking, expired, promised>>

IgnoresTimeOut(err) == err \in {"NO_ERROR", "TIMED_OUT"}    \* faulty
IsSuccess(err) == err = "NO_ERROR"

SeekDone ==
    /\ IsSuccess(respErr)
    /\ promised' = [promised EXCEPT ![Sought] = seeking.offset]
    /\ seeking' = IF seeking.tps = {Sought} THEN NoCall
                  ELSE [seeking EXCEPT !.tps = @ \ {Sought}]
    /\ respErr' = "none" /\ expired' = FALSE
    /\ UNCHANGED rkSeekVars

SeekThrows ==
    /\ respErr \notin {"none", "pending"} /\ ~IsSuccess(respErr)
    /\ Retriable(respErr) => expired
    /\ seeking' = NoCall
    /\ respErr' = "none" /\ expired' = FALSE
    /\ UNCHANGED <<rkSeekVars, promised>>

SeekExpires ==
    /\ ~Free /\ ~expired
    /\ expired' = TRUE
    /\ UNCHANGED <<rkSeekVars, seeking, respErr, promised>>

-----------------------------------------------------------------------------
(* Outside of seek() the assignment changes and records are polled, which   *)
(* moves the position on.                                                  *)
Reassign(p) ==
    /\ Free /\ assignments < MaxAssignments
    /\ assignments' = assignments + 1
    /\ fetchState' = [fetchState EXCEPT ![p] = IF @ = "none" THEN "starting" ELSE "none"]
    /\ ops' = [ops EXCEPT ![p] = <<>>]
    /\ position' = [position EXCEPT ![p] = 0]
    /\ promised' = [promised EXCEPT ![p] = NoPromise]
    /\ UNCHANGED <<seeking, respErr, expired>>

Ready(p) ==
    /\ fetchState[p] = "starting"
    /\ fetchState' = [fetchState EXCEPT ![p] = "active"]
    /\ UNCHANGED <<ops, position, seeking, respErr, expired, promised, assignments>>

PollRecord(p) ==
    /\ Free
    /\ fetchState[p] = "active" /\ position[p] < MaxOffset
    /\ position' = [position EXCEPT ![p] = @ + 1]
    /\ promised' = [promised EXCEPT ![p] = NoPromise]
    /\ UNCHANGED <<fetchState, ops, seeking, respErr, expired, assignments>>

SeekStep == CallRkSeek \/ RkSeekTimesOut \/ RetrySeek \/ SeekDone \/ SeekThrows

SeekNext ==
    \/ \E p \in SeekPartitions, o \in 0..MaxOffset : seek({p}, o)
    \/ \E tps \in SUBSET SeekPartitions, o \in {0, MaxOffset} : tps # {} /\ seek(tps, o)
    \/ SeekStep \/ SeekExpires \/ RkSeekOutdated
    \/ \E p \in SeekPartitions : ExecuteSeek(p) \/ Reassign(p) \/ Ready(p) \/ PollRecord(p)

SeekSpec == SeekInit /\ [][SeekNext]_seekVars

(* The thread goes on, time passes, and librdkafka works off its queues.    *)
SeekFairness ==
    /\ WF_seekVars(SeekStep)
    /\ WF_seekVars(SeekExpires)
    /\ WF_seekVars(\E p \in SeekPartitions : ExecuteSeek(p))

(* Where seek() returned, the next record of the partition is the one at    *)
(* the offset asked for, although attempts that had timed out, of this call *)
(* or of one that threw, are executed later; seekToBeginning() and          *)
(* seekToEnd() that throw half-way have kept this for the partitions before. *)
SeekTakesEffect ==
    \A p \in SeekPartitions : promised[p] # NoPromise => position[p] = promised[p]
=============================================================================
