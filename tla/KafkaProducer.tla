--------------------------- MODULE KafkaProducer ----------------------------
(***************************************************************************)
(* KafkaProducer.h with the events polling of KafkaClient.h: application    *)
(* threads call send(), syncSend(), flush(), purge(), pollEvents() and      *)
(* close(); delivery callbacks run on whichever thread polls, which is the  *)
(* background thread "PollThread" when events are polled automatically.     *)
(*                                                                         *)
(* A record is sent at most once in a behaviour.  Its DeliveryCbOpaque is   *)
(* the heap object that carries the user's callback: send() allocates it,   *)
(* hands it to librdkafka and forgets it; deliveryCallback() deletes it.    *)
(*                                                                         *)
(* librdkafka is external: it holds at most mode.capacity messages, and a   *)
(* message leaves it only after its delivery report has been served.        *)
(***************************************************************************)
EXTENDS Integers, FiniteSets

CONSTANTS Record,           \* the records the application sends
          Thread,           \* the application's threads
          PollThread,       \* the thread of startBackgroundPollingIfNecessary
          None,             \* no record, no thread
          Modes             \* how the producer may be configured and used

ASSUME ThreadsDiffer == PollThread \notin Thread /\ None \notin Record \cup Thread
(* auto: isWithAutoEventsPolling().  timeouts: whether flush() and close()  *)
(* are given timeouts that may expire.  callbacks: what delivery callbacks  *)
(* do, "never" send a record, send one with "noblock", or with "block".     *)
(* capacity: queue.buffering.max.messages.                                 *)
ASSUME Options ==
    Modes \subseteq [auto : BOOLEAN, timeouts : BOOLEAN,
                    callbacks : {"never", "noblock", "block"}, capacity : Nat]

AllThreads == Thread \cup {PollThread}

VARIABLES
    mode,           \* the configuration, fixed at construction
    opened,         \* _opened
    pollable,       \* _pollable is set
    stopRequested,  \* the stop token of _pollThread
    act,            \* the call each thread is in
    sendPc,         \* where a thread is in send()
    arg,            \* the record of the send() or syncSend() it is in
    block,          \* its queueFullAction is Block
    cb,             \* the record whose delivery callback it is running
    batch,          \* the reports that were present when its poll started
    msg,            \* the message in librdkafka
    syncBy,         \* the thread whose syncSend() sent the record
    delivery,       \* how far its callback is: mtx free and no deliveryResult,
                    \* mtx held and deliveryResult set, mtx free again
    calls,          \* how often the record's callback has been called
    frees           \* how often the record's opaque has been deleted

threadVars == <<act, sendPc, arg, block, cb, batch>>
recordVars == <<msg, syncBy, delivery, calls, frees>>
clientVars == <<mode, opened, pollable, stopRequested>>
vars == <<mode, opened, pollable, stopRequested, act, sendPc, arg, block, cb, batch,
          msg, syncBy, delivery, calls, frees>>

Init ==
    /\ mode \in Modes
    /\ opened = TRUE
    /\ pollable = TRUE
    /\ stopRequested = FALSE
    /\ act = [t \in AllThreads |->
                IF t = PollThread /\ mode.auto THEN "loop" ELSE "idle"]
    /\ sendPc = [t \in AllThreads |-> "none"]
    /\ arg = [t \in AllThreads |-> None]
    /\ block = [t \in AllThreads |-> FALSE]
    /\ cb = [t \in AllThreads |-> None]
    /\ batch = [t \in AllThreads |-> {}]
    /\ msg = [r \in Record |-> "unsent"]
    /\ syncBy = [r \in Record |-> None]
    /\ delivery = [r \in Record |-> "waiting"]
    /\ calls = [r \in Record |-> 0]
    /\ frees = [r \in Record |-> 0]

-----------------------------------------------------------------------------
(* librdkafka                                                              *)

(* rd_kafka_outq_len(): messages whose report has not been served.         *)
OutQueue == {r \in Record : msg[r] \in {"queued", "reported", "serving"}}

QueueFull == Cardinality(OutQueue) >= mode.capacity

(* The broker answers, or message.timeout.ms expires.                      *)
Report(r) ==
    /\ msg[r] = "queued"
    /\ msg' = [msg EXCEPT ![r] = "reported"]
    /\ UNCHANGED <<clientVars, threadVars, syncBy, delivery, calls, frees>>

(* rd_kafka_purge(QUEUE | INFLIGHT): every message is reported as purged.  *)
Purged == [r \in Record |-> IF msg[r] = "queued" THEN "reported" ELSE msg[r]]

-----------------------------------------------------------------------------
(* A thread may start a call when it is in none, or from the delivery      *)
(* callback it is running.                                                 *)
Free(t) == act[t] = "idle" /\ sendPc[t] = "none" /\ cb[t] = None

InCallback(t) == cb[t] # None /\ sendPc[t] = "none"

(* send(): the opaque is allocated; rd_kafka_produceva is called next.     *)
(* The queue-full action is forced to NoBlock without automatic polling.   *)
StartSend(t, r, b) ==
    /\ msg[r] = "unsent"
    /\ msg' = [msg EXCEPT ![r] = "producing"]
    /\ sendPc' = [sendPc EXCEPT ![t] = "produce"]
    /\ arg' = [arg EXCEPT ![t] = r]
    /\ block' = [block EXCEPT ![t] = mode.auto /\ b]

send(t, r, b) ==
    /\ Free(t)
    /\ opened
    /\ StartSend(t, r, b)
    /\ UNCHANGED <<clientVars, act, cb, batch, syncBy, delivery, calls, frees>>

sendInCallback(t, r) ==
    /\ InCallback(t)
    /\ syncBy[cb[t]] = None     \* the callback of a syncSend() sends nothing
    /\ mode.callbacks # "never"
    /\ StartSend(t, r, mode.callbacks = "block")
    /\ UNCHANGED <<clientVars, act, cb, batch, syncBy, delivery, calls, frees>>

(* syncSend(): a send() whose callback refers to the caller's stack.       *)
syncSend(t, r) ==
    /\ Free(t)
    /\ opened
    /\ StartSend(t, r, TRUE)
    /\ act' = [act EXCEPT ![t] = "sync"]
    /\ syncBy' = [syncBy EXCEPT ![r] = t]
    /\ UNCHANGED <<clientVars, cb, batch, delivery, calls, frees>>

(* rd_kafka_produceva takes the message; until release() both send() and   *)
(* librdkafka hold the opaque.                                             *)
Produced(t) ==
    /\ sendPc[t] = "produce"
    /\ ~QueueFull
    /\ msg' = [msg EXCEPT ![arg[t]] = "queued"]
    /\ sendPc' = [sendPc EXCEPT ![t] = "release"]
    /\ UNCHANGED <<clientVars, act, arg, block, cb, batch, syncBy, delivery, calls, frees>>

(* ~unique_ptr, or the delete of deliveryCallback().                       *)
NotDeleted(r) == frees                              \* faulty: a leak
Deleted(r) == [frees EXCEPT ![r] = @ + 1]

(* rd_kafka_produceva refuses: queue full without blocking, or any other   *)
(* error.  send() throws and its unique_ptr deletes the opaque.            *)
SendThrows(t) ==
    /\ sendPc[t] = "produce"
    /\ QueueFull => ~block[t]
    /\ msg' = [msg EXCEPT ![arg[t]] = "rejected"]
    /\ frees' = Deleted(arg[t])
    /\ sendPc' = [sendPc EXCEPT ![t] = "none"]
    /\ arg' = [arg EXCEPT ![t] = None]
    /\ act' = [act EXCEPT ![t] = IF @ = "sync" THEN "idle" ELSE @]
    /\ UNCHANGED <<clientVars, block, cb, batch, syncBy, delivery, calls>>

(* syncSend() goes on waiting for its record.                              *)
Awaited(t) == IF act[t] = "sync" THEN arg[t] ELSE None

(* deliveryCbOpaque.release(), and the end of send().                      *)
SendReturns(t) ==
    /\ sendPc[t] = "release"
    /\ sendPc' = [sendPc EXCEPT ![t] = "none"]
    /\ arg' = [arg EXCEPT ![t] = Awaited(t)]
    /\ UNCHANGED <<clientVars, act, block, cb, batch, recordVars>>

(* The predicate of delivered.wait(): deliveryResult is set.               *)
Delivered(r) == delivery[r] # "waiting"

(* The waiter evaluates it with mtx held, which the callback takes first.  *)
NoMutex(r) == TRUE                                  \* faulty: mtx is left out
MutexFree(r) == delivery[r] # "locked"

(* delivered.wait() sees the delivery result: syncSend() returns, and with *)
(* it mtx, deliveryResult and recordMetadata are gone.                     *)
SyncReturns(t) ==
    /\ act[t] = "sync"
    /\ sendPc[t] = "none"
    /\ MutexFree(arg[t])
    /\ Delivered(arg[t])
    /\ act' = [act EXCEPT ![t] = "idle"]
    /\ arg' = [arg EXCEPT ![t] = None]
    /\ UNCHANGED <<clientVars, sendPc, block, cb, batch, recordVars>>

-----------------------------------------------------------------------------
(* rd_kafka_poll() and rd_kafka_flush() serve reports: deliveryCallback()  *)
(* calls the user's callback, then deletes the opaque.                     *)
Serves(t, r) ==
    \/ act[t] \in {"loop", "poll", "flush", "closeFlush"}
    \/ act[t] = "closeFinal" /\ r \in batch[t]

(* A report is served by one thread only.                                  *)
Servable(r) == msg[r] = "reported"

CallbackStarts(t, r) ==
    /\ Serves(t, r)
    /\ cb[t] = None
    /\ Servable(r)
    /\ msg' = [msg EXCEPT ![r] = "serving"]
    /\ cb' = [cb EXCEPT ![t] = r]
    /\ calls' = [calls EXCEPT ![r] = @ + 1]
    /\ UNCHANGED <<clientVars, act, sendPc, arg, block, batch, syncBy, delivery, frees>>

(* The callback of a syncSend() locks mtx, which the waiter lets go of     *)
(* while it waits, and sets deliveryResult.                                *)
SyncCallbackLocks(t) ==
    /\ InCallback(t)
    /\ syncBy[cb[t]] # None
    /\ delivery[cb[t]] = "waiting"
    /\ delivery' = [delivery EXCEPT ![cb[t]] = "locked"]
    /\ UNCHANGED <<clientVars, threadVars, msg, syncBy, calls, frees>>

(* It writes recordMetadata, notifies, and unlocks mtx.                    *)
SyncCallbackUnlocks(t) ==
    /\ InCallback(t)
    /\ delivery[cb[t]] = "locked"
    /\ delivery' = [delivery EXCEPT ![cb[t]] = "unlocked"]
    /\ UNCHANGED <<clientVars, threadVars, msg, syncBy, calls, frees>>

CallbackEnds(t) ==
    /\ InCallback(t)
    /\ syncBy[cb[t]] # None => delivery[cb[t]] = "unlocked"
    /\ msg' = [msg EXCEPT ![cb[t]] = "done"]
    /\ frees' = Deleted(cb[t])
    /\ cb' = [cb EXCEPT ![t] = None]
    /\ UNCHANGED <<clientVars, act, sendPc, arg, block, batch, syncBy, delivery, calls>>

(* The condition of its loop, which ends when a stop is requested.         *)
NoLoop == TRUE                                      \* faulty: it polls once
PollableGone == ~pollable                           \* faulty: set after the join
LoopEnds == stopRequested

(* The background thread leaves its loop between two polls.                *)
PollThreadExits ==
    /\ act[PollThread] = "loop"
    /\ cb[PollThread] = None
    /\ LoopEnds
    /\ act' = [act EXCEPT ![PollThread] = "exited"]
    /\ UNCHANGED <<clientVars, sendPc, arg, block, cb, batch, recordVars>>

Reported == {r \in Record : msg[r] = "reported"}

(* pollEvents(timeout), for clients with enable.manual.events.poll=true:   *)
(* rd_kafka_poll serves at least the reports it finds.                     *)
pollEvents(t) ==
    /\ Free(t)
    /\ ~mode.auto
    /\ opened
    /\ act' = [act EXCEPT ![t] = "poll"]
    /\ batch' = [batch EXCEPT ![t] = Reported]
    /\ UNCHANGED <<clientVars, sendPc, arg, block, cb, recordVars>>

PollReturns(t) ==
    /\ act[t] = "poll"
    /\ cb[t] = None
    /\ batch[t] \cap Reported = {}
    /\ act' = [act EXCEPT ![t] = "idle"]
    /\ UNCHANGED <<clientVars, sendPc, arg, block, cb, batch, recordVars>>

flush(t) ==
    /\ Free(t)
    /\ opened
    /\ act' = [act EXCEPT ![t] = "flush"]
    /\ UNCHANGED <<clientVars, sendPc, arg, block, cb, batch, recordVars>>

(* Everything has been served, or TIMED_OUT.                               *)
FlushReturns(t) ==
    /\ act[t] = "flush"
    /\ cb[t] = None
    /\ OutQueue = {} \/ mode.timeouts
    /\ act' = [act EXCEPT ![t] = "idle"]
    /\ UNCHANGED <<clientVars, sendPc, arg, block, cb, batch, recordVars>>

purge(t) ==
    /\ Free(t)
    /\ opened
    /\ msg' = Purged
    /\ UNCHANGED <<clientVars, threadVars, syncBy, delivery, calls, frees>>

-----------------------------------------------------------------------------
(* close(timeout).  stopBackgroundPollingIfNecessary() requests the stop   *)
(* and joins the background thread, then drops _pollable.                  *)
close(t) ==
    /\ Free(t)
    /\ opened
    /\ opened' = FALSE
    /\ stopRequested' = TRUE
    /\ act' = [act EXCEPT ![t] = "closeJoin"]
    /\ UNCHANGED <<mode, pollable, sendPc, arg, block, cb, batch, recordVars>>

Detached == TRUE                                    \* faulty: no join
PollThreadEnded == mode.auto => act[PollThread] = "exited"

PollThreadJoined(t) ==
    /\ act[t] = "closeJoin"
    /\ PollThreadEnded
    /\ pollable' = FALSE
    /\ act' = [act EXCEPT ![t] = "closeFlush"]
    /\ UNCHANGED <<mode, opened, stopRequested, sendPc, arg, block, cb, batch, recordVars>>

NotPurged == msg                                    \* faulty: messages are left
PurgedOnTimeout == Purged

(* flush(timeout) ends; if it timed out, the messages left are purged.     *)
(* The poll(0) that follows serves the reports present when it starts.     *)
CloseFlushed(t) ==
    /\ act[t] = "closeFlush"
    /\ cb[t] = None
    /\ \/ OutQueue = {} /\ UNCHANGED msg
       \/ OutQueue # {} /\ mode.timeouts /\ msg' = PurgedOnTimeout
    /\ batch' = [batch EXCEPT ![t] = Reported']
    /\ act' = [act EXCEPT ![t] = "closeFinal"]
    /\ UNCHANGED <<clientVars, sendPc, arg, block, cb, syncBy, delivery, calls, frees>>

CloseReturns(t) ==
    /\ act[t] = "closeFinal"
    /\ cb[t] = None
    /\ batch[t] \cap Reported = {}
    /\ act' = [act EXCEPT ![t] = "closed"]
    /\ UNCHANGED <<clientVars, sendPc, arg, block, cb, batch, recordVars>>

-----------------------------------------------------------------------------
(* The application closes the producer when no other thread of its own is  *)
(* inside send(), flush() or pollEvents(); a thread may still be waiting   *)
(* in syncSend(), and the background thread may be in a callback.          *)
CloseAfterCalls(t) ==
    /\ \A u \in Thread : sendPc[u] = "none" /\ act[u] \notin {"flush", "poll"}
    /\ close(t)

(* The application's choices.                                              *)
Application(t) ==
    \/ \E r \in Record, b \in BOOLEAN : send(t, r, b)
    \/ \E r \in Record : syncSend(t, r)
    \/ pollEvents(t)
    \/ flush(t)
    \/ purge(t)
    \/ CloseAfterCalls(t)

(* What happens inside a call that has been made.                          *)
Progress(t) ==
    \/ Produced(t)
    \/ SendThrows(t)
    \/ SendReturns(t)
    \/ SyncReturns(t)
    \/ \E r \in Record : CallbackStarts(t, r)
    \/ SyncCallbackLocks(t)
    \/ SyncCallbackUnlocks(t)
    \/ CallbackEnds(t)
    \/ PollReturns(t)
    \/ FlushReturns(t)
    \/ PollThreadJoined(t)
    \/ CloseFlushed(t)
    \/ CloseReturns(t)

Next ==
    \/ \E t \in Thread : Application(t)
    \/ \E t \in AllThreads, r \in Record : sendInCallback(t, r)
    \/ \E t \in AllThreads : Progress(t)
    \/ PollThreadExits
    \/ \E r \in Record : Report(r)

(* Threads that are inside a call are scheduled and callbacks end; every   *)
(* message is answered or times out.  No application thread has to make a  *)
(* call, and a callback need not send.                                     *)
Fairness ==
    /\ \A t \in AllThreads :
          /\ WF_vars(Produced(t) \/ SendThrows(t) \/ SendReturns(t))
          /\ WF_vars(SyncReturns(t))
          /\ WF_vars(\E r \in Record : CallbackStarts(t, r))
          /\ WF_vars(SyncCallbackLocks(t) \/ SyncCallbackUnlocks(t) \/ CallbackEnds(t))
          /\ WF_vars(PollReturns(t) \/ FlushReturns(t))
          /\ WF_vars(PollThreadJoined(t) \/ CloseFlushed(t) \/ CloseReturns(t))
    /\ WF_vars(PollThreadExits)
    /\ \A r \in Record : WF_vars(Report(r))

Spec == Init /\ [][Next]_vars /\ Fairness

-----------------------------------------------------------------------------
TypeOK ==
    /\ mode \in Modes
    /\ opened \in BOOLEAN /\ pollable \in BOOLEAN /\ stopRequested \in BOOLEAN
    /\ act \in [AllThreads -> {"idle", "loop", "exited", "sync", "poll", "flush",
                 "closeJoin", "closeFlush", "closeFinal", "closed"}]
    /\ sendPc \in [AllThreads -> {"none", "produce", "release"}]
    /\ arg \in [AllThreads -> Record \cup {None}]
    /\ block \in [AllThreads -> BOOLEAN]
    /\ cb \in [AllThreads -> Record \cup {None}]
    /\ batch \in [AllThreads -> SUBSET Record]
    /\ msg \in [Record -> {"unsent", "producing", "queued", "reported", "serving",
                 "done", "rejected"}]
    /\ syncBy \in [Record -> Thread \cup {None}]
    /\ delivery \in [Record -> {"waiting", "locked", "unlocked"}]
    /\ calls \in [Record -> Nat]
    /\ frees \in [Record -> Nat]
    /\ \A t \in AllThreads : sendPc[t] # "none" \/ act[t] = "sync" => arg[t] \in Record

Closed == \E t \in AllThreads : act[t] = "closed"

Accepted(r) == msg[r] \notin {"unsent", "producing", "rejected"}

(* A record's opaque is deleted once: by the callback or by the exception, *)
(* never by both and never twice, although from rd_kafka_produceva until   *)
(* release() both send() and librdkafka point to it; and never while the   *)
(* callback that lives in it has still to run.  The callback runs at most  *)
(* once, and never for a record that send() refused.                       *)
OpaqueDeletedOnce ==
    \A r \in Record :
        /\ frees[r] <= 1
        /\ frees[r] = 1 <=> msg[r] \in {"done", "rejected"}
        /\ calls[r] <= 1
        /\ calls[r] = 1 <=> msg[r] \in {"serving", "done"}

(* "If a callback is provided, it's guaranteed to be triggered (before     *)
(* closing the producer)": when close() has returned, the callback of      *)
(* every record that send() accepted has run and its opaque is deleted.    *)
AllReportedWhenClosed ==
    Closed => \A r \in Record : Accepted(r) => calls[r] = 1 /\ frees[r] = 1

(* The callback of a syncSend() locks, writes to and signals variables on  *)
(* the stack of its caller.  From before rd_kafka_produceva until that     *)
(* callback has let go of the mutex, on whichever thread it runs, the      *)
(* caller is inside syncSend(), and for this record: the window between    *)
(* the write that satisfies the waiter's predicate and the unlock, in      *)
(* which recordMetadata is still to be written, is covered by the mutex.   *)
SyncCallerWaits ==
    \A r \in Record :
        /\ syncBy[r] # None
        /\ msg[r] \in {"producing", "queued", "reported", "serving"}
        /\ delivery[r] # "unlocked"
        => act[syncBy[r]] = "sync" /\ arg[syncBy[r]] = r

(* _pollable is not destroyed while a thread may still call its poll():    *)
(* close() drops it only after the background thread has ended.            *)
PollableOutlivesPolling ==
    (\E t \in AllThreads : act[t] \in {"loop", "poll"}) => pollable

(* Every accepted record is reported to its callback, and syncSend()        *)
(* returns, if the events are polled automatically.                         *)
EveryRecordReported ==
    mode.auto =>
        /\ \A r \in Record : (msg[r] = "queued") ~> (calls[r] = 1)
        /\ \A t \in Thread : (act[t] = "sync") ~> (act[t] # "sync")

(* close() returns.                                                        *)
CloseCompletes == (~opened) ~> Closed
=============================================================================
