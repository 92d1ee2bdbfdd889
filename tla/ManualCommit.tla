---------------------------- MODULE ManualCommit ----------------------------
(***************************************************************************)
(* A consumer with enable.auto.commit=false whose application commits what  *)
(* an UnorderedOffsetCommitQueue allows: commitAsync() with a callback for  *)
(* each offset popped, commitSync() now and then, close() at the end        *)
(* (KafkaConsumer.h).                                                       *)
(*                                                                         *)
(* The callbacks wait in _rk_commit_cb_queue.  The polling thread calls     *)
(* them, or the application does with pollEvents(), and close() calls what  *)
(* is left.  External: rd_kafka_commit_queue(), the coordinator, which      *)
(* answers a member's requests in order, and rd_kafka_consumer_close(),     *)
(* which returns when every request is answered.                           *)
(***************************************************************************)
EXTENDS UnorderedOffsetCommitQueue

CONSTANTS MaxCommits,   \* bound: calls of commitAsync()
          MaxErrors     \* bound: requests refused, at once or by the coordinator

ASSUME ManualCommitConstants == MaxCommits \in Nat /\ MaxErrors \in Nat

VARIABLES
    background,   \* the callbacks are polled by the background thread
    pc,           \* what the application thread does
    numCommits,   \* calls of commitAsync() so far
    requests,     \* requests to the coordinator, oldest first
    cbQueue,      \* _rk_commit_cb_queue: the callbacks to call
    opaque,       \* the copy of the callback that each commitAsync() made
    calls,        \* history: the callbacks called, in order
    calling,      \* who is in a callback: <<caller, commit>>
    group,        \* the committed offset of the partition
    synced,       \* history: the offset of the last commitSync() that returned
    errors

commitVars == <<background, pc, numCommits, requests, cbQueue, opaque, calls, calling, group,
                synced, errors>>
allVars == <<vars, commitVars>>

Commit == 1..MaxCommits
Nobody == <<"nobody", 0>>
Sync == 0                       \* the request of commitSync() has no callback

InitCommits ==
    /\ Init
    /\ background \in BOOLEAN
    /\ pc = "running"
    /\ numCommits = 0
    /\ requests = <<>> /\ cbQueue = <<>>
    /\ opaque = [c \in Commit |-> "none"]
    /\ calls = <<>> /\ calling = Nobody
    /\ group = INVALID_OFFSET /\ synced = INVALID_OFFSET
    /\ errors = 0

(* The application thread is between two calls of the consumer.             *)
AppFree == pc = "running" /\ calling[1] # "app"

-----------------------------------------------------------------------------
(* The records polled are waited for, and acked in any order.               *)
QueueStep ==
    /\ AppFree
    /\ (\E o \in Offsets : GrowingWait(o) \/ AckOnce(o)) \/ Drain
    /\ UNCHANGED commitVars

(* commitAsync(): the callback is copied to the heap.  A request that is    *)
(* refused at once throws, and nobody deletes the copy.                     *)
commitAsync(o) ==
    /\ numCommits < MaxCommits
    /\ numCommits' = numCommits + 1
    /\ \/ /\ requests' = Append(requests, [commit |-> numCommits + 1, offset |-> o])
          /\ opaque' = [opaque EXCEPT ![numCommits + 1] = "held"]
          /\ UNCHANGED errors
       \/ /\ errors < MaxErrors
          /\ errors' = errors + 1
          /\ opaque' = [opaque EXCEPT ![numCommits + 1] = "leaked"]
          /\ UNCHANGED requests

(* Whatever becomes of the request, the offset is popped once.              *)
CommitPopped ==
    /\ AppFree
    /\ popOffsetToCommit
    /\ commitAsync(committed')
    /\ UNCHANGED <<background, pc, cbQueue, calls, calling, group, synced>>

(* commitSync(): the call returns with the coordinator's answer.            *)
commitSync(o) ==
    /\ AppFree
    /\ o \in lastPoppedOffset /\ o # synced
    /\ requests' = Append(requests, [commit |-> Sync, offset |-> o])
    /\ pc' = "sync"
    /\ UNCHANGED <<vars, background, numCommits, cbQueue, opaque, calls, calling, group, synced,
                   errors>>

(* The coordinator answers the oldest request; an asynchronous one goes to  *)
(* the callback queue, a synchronous one ends commitSync(), which throws if *)
(* it was refused.                                                         *)
CoordinatorAnswers ==
    /\ requests # <<>>
    /\ LET r == Head(requests) IN
       /\ \/ group' = r.offset /\ UNCHANGED errors
          \/ errors < MaxErrors /\ errors' = errors + 1 /\ UNCHANGED group
       /\ IF r.commit = Sync
          THEN /\ pc' = "running"
               /\ synced' = IF errors' = errors THEN r.offset ELSE synced
               /\ UNCHANGED cbQueue
          ELSE /\ cbQueue' = Append(cbQueue, r.commit)
               /\ UNCHANGED <<pc, synced>>
    /\ requests' = Tail(requests)
    /\ UNCHANGED <<vars, background, numCommits, opaque, calls, calling>>

-----------------------------------------------------------------------------
(* Who may poll the callback queue: the background thread until it is       *)
(* stopped, the application in pollEvents(), close() in its last loop.      *)
PollThreadOnly(who) == who = "thread" /\ background /\ pc = "running"    \* faulty
MayPoll(who) ==
    \/ who = "thread" /\ background /\ pc \in {"running", "sync", "stopping"}
    \/ who = "app" /\ ~background /\ pc = "running"
    \/ who = "app" /\ pc = "draining"

(* offsetCommitCallback(): the application's callback is called, then its   *)
(* copy deleted.                                                           *)
pollCallbacks(who) ==
    /\ MayPoll(who)
    /\ calling = Nobody /\ cbQueue # <<>>
    /\ cbQueue' = Tail(cbQueue)
    /\ calls' = Append(calls, Head(cbQueue))
    /\ calling' = <<who, Head(cbQueue)>>
    /\ UNCHANGED <<vars, background, pc, numCommits, requests, opaque, group, synced, errors>>

Deleted(c) == [opaque EXCEPT ![c] = "deleted"]

CallbackReturns ==
    /\ calling # Nobody
    /\ opaque' = Deleted(calling[2])
    /\ calling' = Nobody
    /\ UNCHANGED <<vars, background, pc, numCommits, requests, cbQueue, calls, group, synced,
                   errors>>

(* close(): the background thread is stopped and joined, outside of a       *)
(* callback; rd_kafka_consumer_close() waits for the answers; what is in    *)
(* the callback queue is called.                                           *)
close ==
    /\ AppFree /\ ~draining
    /\ pc' = "stopping"
    /\ UNCHANGED <<vars, background, numCommits, requests, cbQueue, opaque, calls, calling,
                   group, synced, errors>>

PollThreadStopped ==
    /\ pc = "stopping" /\ calling = Nobody
    /\ pc' = "closing"
    /\ UNCHANGED <<vars, background, numCommits, requests, cbQueue, opaque, calls, calling,
                   group, synced, errors>>

ConsumerClosed ==
    /\ pc = "closing" /\ requests = <<>>
    /\ pc' = "draining"
    /\ UNCHANGED <<vars, background, numCommits, requests, cbQueue, opaque, calls, calling,
                   group, synced, errors>>

NoDrain == TRUE                                     \* faulty
Drained == cbQueue = <<>>

CloseReturns ==
    /\ pc = "draining" /\ Drained /\ calling = Nobody
    /\ pc' = "closed"
    /\ UNCHANGED <<vars, background, numCommits, requests, cbQueue, opaque, calls, calling,
                   group, synced, errors>>

-----------------------------------------------------------------------------
PollStep == CallbackReturns \/ \E who \in {"thread", "app"} : pollCallbacks(who)
CloseStep == PollThreadStopped \/ ConsumerClosed \/ CloseReturns

CommitsNext ==
    \/ QueueStep
    \/ CommitPopped
    \/ \E o \in lastPoppedOffset : commitSync(o)
    \/ CoordinatorAnswers
    \/ PollStep
    \/ close \/ CloseStep

CommitsSpec == InitCommits /\ [][CommitsNext]_allVars

(* The threads go on, the coordinator answers, and the application that     *)
(* polls its own events does so, or closes the consumer at last.            *)
FairCommitsSpec ==
    /\ CommitsSpec
    /\ WF_allVars(PollStep)
    /\ WF_allVars(CloseStep)
    /\ WF_allVars(CoordinatorAnswers)

-----------------------------------------------------------------------------
(* Each commitAsync() that did not throw has its callback called at most    *)
(* once, in the order of the calls, and the copy is deleted after it and    *)
(* not before.  When close() returns all have been called and nobody is in  *)
(* one.                                                                    *)
CallbackOncePerCommit ==
    /\ \A i, j \in 1..Len(calls) : i < j => calls[i] < calls[j]
    /\ \A c \in Commit :
         opaque[c] = "deleted" <=> (\E i \in 1..Len(calls) : calls[i] = c) /\ calling[2] # c
    /\ pc = "closed" => calling = Nobody /\ \A c \in Commit : opaque[c] # "held"

(* What the group has committed is acked, however commits were refused; and *)
(* after a commitSync() returned it is no less than that.                   *)
GroupFollowsAcks ==
    /\ \A w \in waited : w < group => w \in acked
    /\ group >= synced

(* Every callback is called at last.                                        *)
EveryCallbackCalled ==
    \A c \in Commit : opaque[c] = "held" ~> opaque[c] = "deleted"
=============================================================================
