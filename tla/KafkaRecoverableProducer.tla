---------------------- MODULE KafkaRecoverableProducer ----------------------
(***************************************************************************)
(* addons/KafkaRecoverableProducer.h: a producer that replaces its inner    *)
(* KafkaProducer after a fatal error.  It composes with module              *)
(* KafkaProducer: every public method takes _producerMutex and makes the    *)
(* same call on the inner producer, whose events are polled by the thread   *)
(* created in the constructor (PollThread here), without the mutex.         *)
(*                                                                         *)
(* Callbacks do not call the recoverable producer (mode.callbacks = "never"). *)
(***************************************************************************)
EXTENDS KafkaProducer

CONSTANTS UseSyncSend,      \* whether the application calls syncSend()
          MaxCalls,         \* bound on the application's calls
          MaxFatalErrors    \* bound on the fatal errors librdkafka raises

ASSUME RecoverableOptions ==
    /\ \A m \in Modes :                    \* ENABLE_MANUAL_EVENTS_POLL = "true"
          m.auto = FALSE /\ m.timeouts = FALSE /\ m.callbacks = "never"
    /\ UseSyncSend \in BOOLEAN
    /\ PollThread # None
    /\ MaxCalls \in Nat /\ MaxFatalErrors \in Nat

VARIABLES
    mutex,          \* the holder of _producerMutex
    fatalError,     \* _fatalError is set
    errorEvent,     \* librdkafka has a fatal error to report
    errors,         \* how many it has raised
    pollPc,         \* where the poll thread is in its loop
    stopPoll,       \* the stop token of the poll thread
    closePc,        \* where close() is
    closer,         \* the thread in close()
    producers,      \* how many inner producers have been destroyed
    callsMade       \* calls the application has made

recoverVars == <<mutex, fatalError, errorEvent, errors, pollPc, stopPoll,
                 closePc, closer, producers, callsMade>>
rvars == <<vars, recoverVars>>

RInit ==
    /\ Init
    /\ mutex = None
    /\ fatalError = FALSE
    /\ errorEvent = FALSE
    /\ errors = 0
    /\ pollPc = "loop"
    /\ stopPoll = FALSE
    /\ closePc = "none"
    /\ closer = None
    /\ producers = 0
    /\ callsMade = 0

-----------------------------------------------------------------------------
(* scoped_lock lock(_producerMutex).                                       *)
LockIgnored(t) == mutex' = t                        \* faulty
Lock(t) == mutex = None /\ mutex' = t

(* librdkafka raises a fatal error; the error callback runs on a thread    *)
(* that serves events and sets _fatalError.                                *)
FatalErrorRaised ==
    /\ errors < MaxFatalErrors
    /\ closePc # "closed"
    /\ ~errorEvent
    /\ errors' = errors + 1
    /\ errorEvent' = TRUE
    /\ UNCHANGED <<vars, mutex, fatalError, pollPc, stopPoll, closePc, closer,
                   producers, callsMade>>

ErrorCallback(t) ==
    /\ errorEvent
    /\ act[t] \in {"poll", "flush", "closeFlush"}
    /\ cb[t] = None
    /\ errorEvent' = FALSE
    /\ fatalError' = TRUE
    /\ UNCHANGED <<vars, mutex, errors, pollPc, stopPoll, closePc, closer,
                   producers, callsMade>>

-----------------------------------------------------------------------------
(* The poll thread.                                                        *)
PollOnce ==
    /\ pollPc = "loop"
    /\ ~stopPoll
    /\ pollEvents(PollThread)
    /\ pollPc' = "polling"
    /\ UNCHANGED <<mutex, fatalError, errorEvent, errors, stopPoll, closePc,
                   closer, producers, callsMade>>

(* pollEvents() has returned: purge() if a fatal error has been reported.  *)
CheckFatalError ==
    /\ pollPc = "polling"
    /\ act[PollThread] = "idle"
    /\ \/ /\ ~fatalError
          /\ pollPc' = "loop"
          /\ UNCHANGED vars
       \/ /\ fatalError
          /\ pollPc' = "purged"
          /\ purge(PollThread)
    /\ UNCHANGED <<mutex, fatalError, errorEvent, errors, stopPoll, closePc,
                   closer, producers, callsMade>>

ReturnAlways == TRUE                                \* faulty
StopSeen == stopPoll

(* A stop requested by now ends the thread; otherwise the error is cleared *)
(* before the mutex is taken.                                              *)
ResetFatalError ==
    /\ pollPc = "purged"
    /\ pollPc' = IF StopSeen THEN "exited" ELSE "lock"
    /\ fatalError' = (fatalError /\ StopSeen)
    /\ UNCHANGED <<vars, mutex, errorEvent, errors, stopPoll, closePc, closer,
                   producers, callsMade>>

CloseForRecovery ==
    /\ pollPc = "lock"
    /\ Lock(PollThread)
    /\ close(PollThread)
    /\ pollPc' = "closing"
    /\ UNCHANGED <<fatalError, errorEvent, errors, stopPoll, closePc, closer,
                   producers, callsMade>>

(* _producer = createProducer(): the old one and its events are gone.      *)
RecreateProducer ==
    /\ pollPc = "closing"
    /\ act[PollThread] = "closed"
    /\ opened' = TRUE
    /\ pollable' = TRUE
    /\ stopRequested' = FALSE
    /\ act' = [act EXCEPT ![PollThread] = "idle"]
    /\ errorEvent' = FALSE
    /\ producers' = producers + 1
    /\ mutex' = None
    /\ pollPc' = "loop"
    /\ UNCHANGED <<mode, sendPc, arg, block, cb, batch, recordVars, fatalError, errors,
                   stopPoll, closePc, closer, callsMade>>

PollLoopExits ==
    /\ pollPc = "loop"
    /\ stopPoll
    /\ pollPc' = "exited"
    /\ UNCHANGED <<vars, mutex, fatalError, errorEvent, errors, stopPoll, closePc,
                   closer, producers, callsMade>>

-----------------------------------------------------------------------------
(* The public methods: lock, call, unlock when the call has returned.      *)
(* name(), setLogLevel(), properties(), getProperty() and                  *)
(* fetchBrokerMetadata() leave the producer's records alone.               *)
Query(t) == Free(t) /\ UNCHANGED vars

Call(t) ==
    \/ Query(t)
    \/ \E r \in Record : send(t, r, TRUE)
    \/ UseSyncSend /\ \E r \in Record : syncSend(t, r)
    \/ flush(t)
    \/ purge(t)

LockedCall(t) ==
    /\ Lock(t)
    /\ closer = None
    /\ callsMade < MaxCalls
    /\ callsMade' = callsMade + 1
    /\ Call(t)
    /\ UNCHANGED <<fatalError, errorEvent, errors, pollPc, stopPoll, closePc,
                   closer, producers>>

AllReported(t) == Free(t) /\ OutQueue = {}          \* faulty: locked too long
CallReturned(t) == Free(t)

Unlock(t) ==
    /\ mutex = t
    /\ CallReturned(t)
    /\ closer # t
    /\ mutex' = None
    /\ UNCHANGED <<vars, fatalError, errorEvent, errors, pollPc, stopPoll, closePc,
                   closer, producers, callsMade>>

NoStopRequest == stopPoll                           \* faulty
StopRequest == TRUE
Joined == pollPc = "exited"

(* close(): _pollThread.reset() requests the stop and joins the thread,    *)
(* then the mutex is taken and the inner producer closed and destroyed.    *)
RClose(t) ==
    /\ closer = None
    /\ Free(t)
    /\ mutex # t
    /\ closer' = t
    /\ closePc' = "join"
    /\ stopPoll' = StopRequest
    /\ UNCHANGED <<vars, mutex, fatalError, errorEvent, errors, pollPc, producers,
                   callsMade>>

RCloseLocked(t) ==
    /\ closer = t
    /\ closePc = "join"
    /\ Joined
    /\ Lock(t)
    /\ close(t)
    /\ closePc' = "closing"
    /\ UNCHANGED <<fatalError, errorEvent, errors, pollPc, stopPoll, closer,
                   producers, callsMade>>

RCloseReturns(t) ==
    /\ closer = t
    /\ closePc = "closing"
    /\ act[t] = "closed"
    /\ closePc' = "closed"
    /\ producers' = producers + 1
    /\ mutex' = None
    /\ UNCHANGED <<vars, fatalError, errorEvent, errors, pollPc, stopPoll, closer,
                   callsMade>>

-----------------------------------------------------------------------------
(* Steps inside the inner producer.                                        *)
Inner(t) == Progress(t) /\ UNCHANGED recoverVars

InnerReport(r) == Report(r) /\ UNCHANGED recoverVars

PollThreadSteps ==
    PollOnce \/ CheckFatalError \/ ResetFatalError \/ CloseForRecovery
        \/ RecreateProducer \/ PollLoopExits

CallerSteps(t) ==
    Unlock(t) \/ RCloseLocked(t) \/ RCloseReturns(t)

RNext ==
    \/ FatalErrorRaised
    \/ \E t \in AllThreads : ErrorCallback(t) \/ Inner(t)
    \/ PollThreadSteps
    \/ \E t \in Thread : LockedCall(t) \/ RClose(t) \/ CallerSteps(t)
    \/ \E r \in Record : InnerReport(r)

Inside(A) == A /\ UNCHANGED recoverVars

(* As in KafkaProducer: threads inside a call are scheduled, the poll      *)
(* thread runs, messages are answered or time out.                         *)
RFairness ==
    /\ \A t \in AllThreads :
          /\ WF_rvars(Inside(Produced(t) \/ SendThrows(t) \/ SendReturns(t)))
          /\ WF_rvars(Inside(SyncReturns(t)))
          /\ WF_rvars(Inside(\E r \in Record : CallbackStarts(t, r)))
          /\ WF_rvars(Inside(SyncCallbackLocks(t) \/ SyncCallbackUnlocks(t)
                              \/ CallbackEnds(t)))
          /\ WF_rvars(Inside(PollReturns(t) \/ FlushReturns(t)))
          /\ WF_rvars(Inside(PollThreadJoined(t) \/ CloseFlushed(t) \/ CloseReturns(t)))
    /\ WF_rvars(PollThreadSteps)
    /\ \A t \in Thread : WF_rvars(CallerSteps(t))
    /\ \A r \in Record : WF_rvars(InnerReport(r))

RSpec == RInit /\ [][RNext]_rvars /\ RFairness

-----------------------------------------------------------------------------
(* An inner producer is destroyed only when no thread is inside one of its *)
(* methods and every record it accepted has had its callback: a recovery   *)
(* neither pulls the producer from under a caller nor loses a report.      *)
ProducerDestroyedUnused ==
    [][producers' # producers =>
          /\ \A t \in AllThreads : act[t] \in {"idle", "closed"} /\ sendPc[t] = "none"
          /\ \A r \in Record : Accepted(r) => calls[r] = 1 /\ frees[r] = 1]_rvars

(* Every accepted record is reported to its callback.                      *)
RecordsReported ==
    \A r \in Record : (msg[r] = "queued") ~> (calls[r] = 1)

(* syncSend() returns: with the delivery result, or with MSG_TIMED_OUT.    *)
LockedSyncSendReturns ==
    \A t \in Thread : (act[t] = "sync") ~> (act[t] # "sync")

(* A poll thread that has decided to recover does so.                      *)
RecoveryCompletes ==
    (pollPc = "lock") ~> (pollPc = "loop")

(* close() of the recoverable producer returns.                            *)
RCloseCompletes == (closePc = "join") ~> (closePc = "closed")
=============================================================================
