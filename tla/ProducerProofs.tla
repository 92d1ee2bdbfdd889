--------------------------- MODULE ProducerProofs ---------------------------
(***************************************************************************)
(* Proofs about KafkaProducer, for any set of records and of threads and    *)
(* for every mode, and about KafkaRecoverableProducer, for any number of    *)
(* calls and of fatal errors, with syncSend() as well as without.           *)
(***************************************************************************)
EXTENDS KafkaRecoverableProducer, TLAPS

(* The inductive invariants.  A message between rd_kafka_produceva and its  *)
(* answer, or in a callback, belongs to one thread, which is in the         *)
(* right place.                                                             *)
ServingActs == {"loop", "poll", "flush", "closeFlush", "closeFinal"}

CallbackServes ==
    \A t \in AllThreads : cb[t] # None => act[t] \in ServingActs /\ msg[cb[t]] = "serving"
SendProduces ==
    \A t \in AllThreads : sendPc[t] = "produce" => msg[arg[t]] = "producing"
OneThreadEach ==
    \A t, u \in AllThreads :
        /\ cb[t] = cb[u] /\ cb[t] # None => t = u
        /\ sendPc[t] = "produce" /\ sendPc[u] = "produce" /\ arg[t] = arg[u] => t = u
ServedBySomeone == \A r \in Record : msg[r] = "serving" => \E t \in AllThreads : cb[t] = r
ProducedBySomeone ==
    \A r \in Record : msg[r] = "producing" =>
        \E t \in AllThreads : sendPc[t] = "produce" /\ arg[t] = r

OpaqueInv ==
    /\ OpaqueDeletedOnce
    /\ CallbackServes /\ SendProduces /\ OneThreadEach
    /\ ServedBySomeone /\ ProducedBySomeone

SyncInv ==
    /\ SyncCallerWaits
    /\ \A r \in Record : msg[r] = "unsent" => syncBy[r] = None

(* Which threads may poll, and what is over once close() has begun, and     *)
(* once it has joined the polling thread.                                   *)
ClosingActs == {"closeJoin", "closeFlush", "closeFinal", "closed"}

PollThreadActs ==
    /\ act[PollThread] \in {"idle", "loop", "exited"}
    /\ act[PollThread] = "loop" => mode.auto
    /\ \A t \in Thread : act[t] \notin {"loop", "exited"}
SendingFrom ==
    /\ \A t \in Thread : sendPc[t] # "none" => cb[t] # None \/ act[t] \in {"idle", "sync"}
    /\ sendPc[PollThread] # "none" => cb[PollThread] # None
OneCloses ==
    /\ opened => \A t \in Thread : act[t] \notin ClosingActs
    /\ \A t, u \in Thread : act[t] \in ClosingActs /\ act[u] \in ClosingActs => t = u
OthersDone ==
    ~opened => \A t \in Thread :
                  /\ act[t] \in ClosingActs \cup {"idle", "sync"}
                  /\ sendPc[t] # "none" => cb[t] # None
PollableGoneLate ==
    /\ ~pollable => ~opened /\ act[PollThread] # "loop"
    /\ \A t \in Thread : act[t] \in ClosingActs \ {"closeJoin"} => ~pollable

LifeInv == PollThreadActs /\ SendingFrom /\ OneCloses /\ OthersDone /\ PollableGoneLate

(* What the poll(0) at the end of close() has still to serve.  A mode in    *)
(* which callbacks send and time limits pass may leave more than that.      *)
FlushIsEnough == ~mode.timeouts \/ mode.callbacks = "never"

Over(r) == msg[r] \in {"unsent", "rejected", "done"}

FinalInv ==
    FlushIsEnough =>
        \A t \in Thread :
            /\ act[t] = "closeFinal" =>
                 /\ \A u \in AllThreads : sendPc[u] = "none"
                 /\ \A r \in Record :
                      \/ Over(r)
                      \/ /\ mode.callbacks = "never"
                         /\ (msg[r] = "reported" /\ r \in batch[t]) \/ cb[t] = r
            /\ act[t] = "closed" =>
                 /\ \A u \in AllThreads : sendPc[u] = "none"
                 /\ \A r \in Record : Over(r)

-----------------------------------------------------------------------------
(* Next without the application's discipline: any thread, the polling one   *)
(* included, makes any call, and close() does not wait for other calls.     *)
(* Types and the ownership of opaques and of syncSend()'s stack need no     *)
(* more; they hold in every composition whose steps are these.              *)
AnyCall(t) ==
    \/ \E r \in Record, b \in BOOLEAN : send(t, r, b)
    \/ t \in Thread /\ \E r \in Record : syncSend(t, r)
    \/ pollEvents(t)
    \/ flush(t)
    \/ purge(t)
    \/ close(t)

AnyNext ==
    \/ \E t \in AllThreads : AnyCall(t)
    \/ \E t \in AllThreads, r \in Record : sendInCallback(t, r)
    \/ \E t \in AllThreads : Progress(t)
    \/ PollThreadExits
    \/ \E r \in Record : Report(r)

LEMMA NextIsAny == [Next]_vars => [AnyNext]_vars
<1> SUFFICES ASSUME Next PROVE AnyNext
  OBVIOUS
<1>1. ASSUME NEW t \in Thread, Application(t)
      PROVE  AnyNext
  <2>1. AnyCall(t)
    BY <1>1 DEF Application, CloseAfterCalls, AnyCall
  <2> QED BY <2>1 DEF AnyNext, AllThreads
<1> QED BY <1>1 DEF Next, AnyNext

-----------------------------------------------------------------------------
(* The settings of a mode.                                                  *)
LEMMA ModeFields ==
    ASSUME mode \in Modes
    PROVE  mode.auto \in BOOLEAN /\ mode.timeouts \in BOOLEAN
  BY Options

LEMMA TypeInit == Init => TypeOK
<1> SUFFICES ASSUME Init
             PROVE  TypeOK
  OBVIOUS
<1>1. block \in [AllThreads -> BOOLEAN]
  BY Zenon DEF Init
<1>2. opened \in BOOLEAN /\ pollable \in BOOLEAN /\ stopRequested \in BOOLEAN
  BY Zenon DEF Init
<1>3. act \in [AllThreads -> {"idle", "loop"}]
  BY DEF Init
<1> QED BY <1>1, <1>2, <1>3 DEF Init, TypeOK

(* What StartSend leaves, with the types.                                   *)
SendStarted(t, r) ==
    /\ msg' \in [Record -> {"unsent", "producing", "queued", "reported", "serving",
                            "done", "rejected"}]
    /\ sendPc' \in [AllThreads -> {"none", "produce", "release"}]
    /\ arg' \in [AllThreads -> Record \cup {None}]
    /\ block' \in [AllThreads -> BOOLEAN]
    /\ arg'[t] = r
    /\ \A u \in AllThreads \ {t} : arg'[u] = arg[u] /\ sendPc'[u] = sendPc[u]

LEMMA TypeStartSend ==
    ASSUME TypeOK, NEW t \in AllThreads, NEW r \in Record, NEW b \in BOOLEAN,
           StartSend(t, r, b)
    PROVE  SendStarted(t, r)
<1>1. block' \in [AllThreads -> BOOLEAN]
  <2>1. (mode.auto /\ b) \in BOOLEAN
    BY Zenon
  <2>2. block' = [block EXCEPT ![t] = mode.auto /\ b] /\ block \in [AllThreads -> BOOLEAN]
    BY Zenon DEF StartSend, TypeOK
  <2> QED BY <2>1, <2>2, Zenon
<1> QED BY <1>1 DEF StartSend, SendStarted, TypeOK

LEMMA TypeStep == TypeOK /\ [AnyNext]_vars => TypeOK'
<1> SUFFICES ASSUME TypeOK, [AnyNext]_vars
             PROVE  TypeOK'
  OBVIOUS
<1> USE DEF clientVars, threadVars, recordVars
<1>0. \A t \in Thread : t \in AllThreads
  BY DEF AllThreads
<1>1. ASSUME NEW t \in AllThreads, AnyCall(t)
      PROVE  TypeOK'
  <2>1. ASSUME NEW r \in Record, NEW b \in BOOLEAN, send(t, r, b)
        PROVE  TypeOK'
    <3>1. StartSend(t, r, b)
      BY <2>1 DEF send
    <3>2. SendStarted(t, r)
      BY <1>0, <3>1, TypeStartSend, Zenon
    <3> QED BY <2>1, <3>2 DEF send, SendStarted, TypeOK
  <2>2. ASSUME t \in Thread, NEW r \in Record, syncSend(t, r)
        PROVE  TypeOK'
    <3>1. StartSend(t, r, TRUE) /\ TRUE \in BOOLEAN
      BY <2>2 DEF syncSend
    <3>2. SendStarted(t, r)
      BY <1>0, <3>1, TypeStartSend, Zenon
    <3> QED BY <1>0, <2>2, <3>2 DEF syncSend, SendStarted, TypeOK
  <2>3. CASE pollEvents(t)
    BY <1>0, <2>3 DEF pollEvents, Reported, TypeOK
  <2>4. CASE flush(t)
    BY <1>0, <2>4 DEF flush, TypeOK
  <2>5. CASE purge(t)
    BY <1>0, <2>5 DEF purge, Purged, TypeOK
  <2>6. CASE close(t)
    <3>1. opened' \in BOOLEAN /\ pollable' \in BOOLEAN /\ stopRequested' \in BOOLEAN
      BY <2>6, Zenon DEF close, TypeOK
    <3> QED BY <1>0, <2>6, <3>1 DEF close, TypeOK
  <2> QED BY <1>1, <2>1, <2>2, <2>3, <2>4, <2>5, <2>6 DEF AnyCall
<1>2. ASSUME NEW t \in AllThreads, NEW r \in Record, sendInCallback(t, r)
      PROVE  TypeOK'
  <2>1. (mode.callbacks = "block") \in BOOLEAN
    BY Zenon
  <2>2. StartSend(t, r, mode.callbacks = "block")
    BY <1>2 DEF sendInCallback
  <2>3. SendStarted(t, r)
    BY <2>1, <2>2, TypeStartSend, Zenon
  <2> QED BY <1>2, <2>3 DEF sendInCallback, SendStarted, TypeOK
<1>3. ASSUME NEW t \in AllThreads, Progress(t)
      PROVE  TypeOK'
  <2>1. CASE Produced(t)
    BY <2>1 DEF Produced, TypeOK
  <2>2. CASE SendThrows(t)
    BY <2>2 DEF SendThrows, Deleted, TypeOK
  <2>3. CASE SendReturns(t)
    BY <2>3 DEF SendReturns, Awaited, TypeOK
  <2>4. CASE SyncReturns(t)
    BY <2>4 DEF SyncReturns, TypeOK
  <2>5. ASSUME NEW r \in Record, CallbackStarts(t, r)
        PROVE  TypeOK'
    BY <2>5 DEF CallbackStarts, TypeOK
  <2>6. CASE CallbackEnds(t)
    BY <2>6 DEF CallbackEnds, InCallback, Deleted, TypeOK
  <2>7. CASE PollReturns(t)
    BY <2>7 DEF PollReturns, TypeOK
  <2>8. CASE FlushReturns(t)
    BY <2>8 DEF FlushReturns, TypeOK
  <2>9. CASE PollThreadJoined(t)
    <3>1. opened' \in BOOLEAN /\ pollable' \in BOOLEAN /\ stopRequested' \in BOOLEAN
      BY <2>9, Zenon DEF PollThreadJoined, TypeOK
    <3> QED BY <2>9, <3>1 DEF PollThreadJoined, TypeOK
  <2>10. CASE CloseFlushed(t)
    <3>1. msg' \in [Record -> {"unsent", "producing", "queued", "reported", "serving",
                               "done", "rejected"}]
      BY <2>10 DEF CloseFlushed, PurgedOnTimeout, Purged, TypeOK
    <3>2. Reported' \in SUBSET Record
      BY DEF Reported
    <3> QED BY <2>10, <3>1, <3>2 DEF CloseFlushed, TypeOK
  <2>11. CASE CloseReturns(t)
    BY <2>11 DEF CloseReturns, TypeOK
  <2>12. CASE SyncCallbackLocks(t) \/ SyncCallbackUnlocks(t)
    BY <2>12 DEF SyncCallbackLocks, SyncCallbackUnlocks, InCallback, TypeOK
  <2> QED BY <1>3, <2>1, <2>2, <2>3, <2>4, <2>5, <2>6, <2>7, <2>8, <2>9, <2>10, <2>11, <2>12
          DEF Progress
<1>4. CASE PollThreadExits
  BY <1>4 DEF PollThreadExits, TypeOK
<1>5. ASSUME NEW r \in Record, Report(r)
      PROVE  TypeOK'
  BY <1>5 DEF Report, TypeOK
<1>6. CASE UNCHANGED vars
  BY <1>6 DEF vars, TypeOK
<1> QED BY <1>1, <1>2, <1>3, <1>4, <1>5, <1>6 DEF AnyNext

(* Type correctness of the producer model: every call in progress has its   *)
(* record, every callback and counter its type.                             *)
THEOREM TypeCorrect == Spec => []TypeOK
  BY NextIsAny, TypeInit, TypeStep, PTL DEF Spec

-----------------------------------------------------------------------------
LEMMA OpaqueInit == Init => OpaqueInv
  BY DEF Init, OpaqueInv, OpaqueDeletedOnce, CallbackServes, SendProduces, OneThreadEach,
         ServedBySomeone, ProducedBySomeone

LEMMA OpaqueStep == TypeOK /\ OpaqueInv /\ [AnyNext]_vars => OpaqueInv'
<1> SUFFICES ASSUME TypeOK, OpaqueInv, [AnyNext]_vars
             PROVE  OpaqueInv'
  OBVIOUS
<1> USE DEF clientVars, threadVars, recordVars, OpaqueInv
<1>0. \A t \in Thread : t \in AllThreads
  BY DEF AllThreads
<1>s. ASSUME NEW t \in AllThreads, NEW r \in Record, NEW b, StartSend(t, r, b),
             sendPc[t] = "none",
             UNCHANGED <<cb, calls, frees>>,
             act' = act \/ (cb[t] = None /\ act' = [act EXCEPT ![t] = "sync"])
      PROVE  OpaqueInv'
  <2>1. OpaqueDeletedOnce'
    BY <1>s DEF StartSend, TypeOK, OpaqueDeletedOnce, CallbackServes, SendProduces
  <2>2. CallbackServes'
    BY <1>s DEF StartSend, TypeOK, CallbackServes
  <2>3. SendProduces'
    BY <1>s DEF StartSend, TypeOK, SendProduces, CallbackServes, OneThreadEach
  <2>4. OneThreadEach'
    BY <1>s DEF StartSend, TypeOK, OneThreadEach, CallbackServes, SendProduces
  <2>5. ServedBySomeone'
    BY <1>s DEF StartSend, TypeOK, ServedBySomeone, CallbackServes, SendProduces
  <2>6. ProducedBySomeone'
    <3> SUFFICES ASSUME NEW x \in Record, msg'[x] = "producing"
                 PROVE  \E u \in AllThreads : sendPc'[u] = "produce" /\ arg'[u] = x
      BY DEF ProducedBySomeone
    <3>1. CASE x = r
      BY <1>s, <3>1 DEF StartSend, TypeOK
    <3>2. CASE x # r
      <4>1. PICK u \in AllThreads : sendPc[u] = "produce" /\ arg[u] = x
        BY <1>s, <3>2 DEF StartSend, ProducedBySomeone, TypeOK
      <4>2. u # t
        BY <1>s, <4>1
      <4> QED BY <1>s, <4>1, <4>2 DEF StartSend, TypeOK
    <3> QED BY <3>1, <3>2
  <2> QED BY <2>1, <2>2, <2>3, <2>4, <2>5, <2>6
<1>1. ASSUME NEW t \in AllThreads, AnyCall(t)
      PROVE  OpaqueInv'
  <2>1. ASSUME NEW r \in Record, NEW b \in BOOLEAN, send(t, r, b)
        PROVE  OpaqueInv'
    BY <1>0, <1>s, <2>1 DEF send, Free
  <2>2. ASSUME t \in Thread, NEW r \in Record, syncSend(t, r)
        PROVE  OpaqueInv'
    BY <1>0, <1>s, <2>2 DEF syncSend, Free
  <2>3. CASE pollEvents(t)
    BY <2>3
    DEF pollEvents, OpaqueDeletedOnce, CallbackServes, SendProduces, OneThreadEach,
        ServedBySomeone, ProducedBySomeone, ServingActs
  <2>4. CASE flush(t)
    BY <2>4
    DEF flush, OpaqueDeletedOnce, CallbackServes, SendProduces, OneThreadEach, ServedBySomeone,
        ProducedBySomeone, ServingActs
  <2>5. CASE purge(t)
    BY <2>5
    DEF purge, Purged, TypeOK, OpaqueDeletedOnce, CallbackServes, SendProduces, OneThreadEach,
        ServedBySomeone, ProducedBySomeone
  <2>6. CASE close(t)
    BY <2>6
    DEF close, Free, OpaqueDeletedOnce, CallbackServes, SendProduces, OneThreadEach,
        ServedBySomeone, ProducedBySomeone
  <2> QED BY <1>1, <2>1, <2>2, <2>3, <2>4, <2>5, <2>6 DEF AnyCall
<1>2. ASSUME NEW t \in AllThreads, NEW r \in Record, sendInCallback(t, r)
      PROVE  OpaqueInv'
  BY <1>s, <1>2 DEF sendInCallback, InCallback
<1>3. ASSUME NEW t \in AllThreads, Progress(t)
      PROVE  OpaqueInv'
  <2>1. CASE Produced(t)
    <3>1. OpaqueDeletedOnce'
      BY <2>1 DEF Produced, TypeOK, OpaqueDeletedOnce, CallbackServes, SendProduces
    <3>2. CallbackServes'
      BY <2>1 DEF Produced, CallbackServes, SendProduces
    <3>3. SendProduces'
      BY <2>1 DEF Produced, TypeOK, SendProduces, CallbackServes, OneThreadEach
    <3>4. OneThreadEach'
      BY <2>1 DEF Produced, TypeOK, OneThreadEach, CallbackServes, SendProduces
    <3>5. ServedBySomeone'
      BY <2>1 DEF Produced, TypeOK, ServedBySomeone, CallbackServes, SendProduces
    <3>6. ProducedBySomeone'
      BY <2>1 DEF Produced, TypeOK, ProducedBySomeone, CallbackServes
    <3> QED BY <3>1, <3>2, <3>3, <3>4, <3>5, <3>6
  <2>2. CASE SendThrows(t)
    <3>1. OpaqueDeletedOnce'
      <4>1. arg[t] \in Record /\ msg[arg[t]] = "producing"
        BY <2>2 DEF SendThrows, SendProduces, TypeOK
      <4>2. frees[arg[t]] = 0
        BY <4>1 DEF OpaqueDeletedOnce, TypeOK
      <4>3. /\ msg' = [msg EXCEPT ![arg[t]] = "rejected"] /\ calls' = calls
            /\ frees' = [frees EXCEPT ![arg[t]] = @ + 1]
        BY <2>2 DEF SendThrows, Deleted
      <4> QED BY <4>1, <4>2, <4>3 DEF OpaqueDeletedOnce, TypeOK
    <3>2. CallbackServes'
      BY <2>2 DEF SendThrows, CallbackServes, SendProduces, ServingActs
    <3>3. SendProduces'
      BY <2>2 DEF SendThrows, TypeOK, SendProduces, OneThreadEach
    <3>4. OneThreadEach'
      BY <2>2 DEF SendThrows, TypeOK, OneThreadEach
    <3>5. ServedBySomeone'
      BY <2>2 DEF SendThrows, ServedBySomeone
    <3>6. ProducedBySomeone'
      BY <2>2 DEF SendThrows, Deleted, TypeOK, ProducedBySomeone, CallbackServes
    <3> QED BY <3>1, <3>2, <3>3, <3>4, <3>5, <3>6
  <2>3. CASE SendReturns(t)
    BY <2>3
    DEF SendReturns, OpaqueDeletedOnce, CallbackServes, SendProduces, OneThreadEach,
        ServedBySomeone, ProducedBySomeone
  <2>4. CASE SyncReturns(t)
    BY <2>4
    DEF SyncReturns, OpaqueDeletedOnce, CallbackServes, SendProduces, OneThreadEach,
        ServedBySomeone, ProducedBySomeone, ServingActs
  <2>5. ASSUME NEW r \in Record, CallbackStarts(t, r)
        PROVE  OpaqueInv'
    <3>1. OpaqueDeletedOnce'
      <4>0. msg[r] = "reported" /\ calls[r] \in Nat /\ frees[r] \in Nat
        BY <2>5 DEF CallbackStarts, Servable, TypeOK
      <4>1. calls[r] = 0 /\ frees[r] = 0
        BY <4>0 DEF OpaqueDeletedOnce
      <4> QED BY <2>5, <4>1 DEF CallbackStarts, OpaqueDeletedOnce, TypeOK
    <3>2. CallbackServes'
      BY <2>5 DEF CallbackStarts, Serves, TypeOK, CallbackServes, ServingActs
    <3>3. SendProduces'
      BY <2>5 DEF CallbackStarts, Servable, SendProduces
    <3>4. OneThreadEach'
      BY <2>5 DEF CallbackStarts, Servable, OneThreadEach, CallbackServes
    <3>5. ServedBySomeone'
      <4> SUFFICES ASSUME NEW x \in Record, msg'[x] = "serving"
                   PROVE  \E u \in AllThreads : cb'[u] = x
        BY DEF ServedBySomeone
      <4>1. CASE x = r
        BY <2>5, <4>1 DEF CallbackStarts, TypeOK
      <4>2. CASE x # r
        <5>1. PICK u \in AllThreads : cb[u] = x
          BY <2>5, <4>2 DEF CallbackStarts, ServedBySomeone, TypeOK
        <5>2. u # t
          BY <2>5, <5>1, ThreadsDiffer DEF CallbackStarts
        <5> QED BY <2>5, <5>1, <5>2 DEF CallbackStarts, TypeOK
      <4> QED BY <4>1, <4>2
    <3>6. ProducedBySomeone'
      BY <2>5 DEF CallbackStarts, Servable, TypeOK, ProducedBySomeone, CallbackServes
    <3> QED BY <3>1, <3>2, <3>3, <3>4, <3>5, <3>6
  <2>6. CASE CallbackEnds(t)
    <3>1. OpaqueDeletedOnce'
      <4>1. cb[t] \in Record /\ msg[cb[t]] = "serving"
        BY <2>6 DEF CallbackEnds, InCallback, CallbackServes, TypeOK
      <4>2. PICK x \in Record : x = cb[t]
        BY <4>1
      <4>3. /\ frees[x] \in Nat /\ frees[x] <= 1 /\ (frees[x] = 1 <=> FALSE)
            /\ calls[x] = 1
        <5>1. frees[x] \in Nat
          BY DEF TypeOK
        <5>2. msg[x] = "serving"
          BY <4>1, <4>2
        <5> QED BY <5>1, <5>2 DEF OpaqueDeletedOnce
      <4>4. frees[x] = 0 /\ calls[x] = 1
        BY <4>3
      <4>5. frees[cb[t]] = 0 /\ calls[cb[t]] = 1
        BY <4>2, <4>4
      <4> QED BY <2>6, <4>5 DEF CallbackEnds, Deleted, OpaqueDeletedOnce, TypeOK
    <3>2. CallbackServes'
      BY <2>6 DEF CallbackEnds, TypeOK, CallbackServes, OneThreadEach
    <3>3. SendProduces'
      BY <2>6 DEF CallbackEnds, InCallback, SendProduces, CallbackServes
    <3>4. OneThreadEach'
      BY <2>6 DEF CallbackEnds, OneThreadEach
    <3>5. ServedBySomeone'
      BY <2>6 DEF CallbackEnds, TypeOK, ServedBySomeone
    <3>6. ProducedBySomeone'
      BY <2>6 DEF CallbackEnds, InCallback, TypeOK, ProducedBySomeone, CallbackServes
    <3> QED BY <3>1, <3>2, <3>3, <3>4, <3>5, <3>6
  <2>7. CASE PollReturns(t)
    BY <2>7
    DEF PollReturns, OpaqueDeletedOnce, CallbackServes, SendProduces, OneThreadEach,
        ServedBySomeone, ProducedBySomeone
  <2>8. CASE FlushReturns(t)
    BY <2>8
    DEF FlushReturns, OpaqueDeletedOnce, CallbackServes, SendProduces, OneThreadEach,
        ServedBySomeone, ProducedBySomeone
  <2>9. CASE PollThreadJoined(t)
    BY <2>9
    DEF PollThreadJoined, OpaqueDeletedOnce, CallbackServes, SendProduces, OneThreadEach,
        ServedBySomeone, ProducedBySomeone, ServingActs
  <2>10. CASE CloseFlushed(t)
    BY <1>0, <2>10
    DEF CloseFlushed, PurgedOnTimeout, Purged, TypeOK, OpaqueDeletedOnce, CallbackServes,
        SendProduces, OneThreadEach, ServedBySomeone, ProducedBySomeone
  <2>11. CASE CloseReturns(t)
    BY <2>11
    DEF CloseReturns, OpaqueDeletedOnce, CallbackServes, SendProduces, OneThreadEach,
        ServedBySomeone, ProducedBySomeone
  <2>12. CASE SyncCallbackLocks(t) \/ SyncCallbackUnlocks(t)
    BY <2>12
    DEF SyncCallbackLocks, SyncCallbackUnlocks, OpaqueDeletedOnce, CallbackServes, SendProduces,
        OneThreadEach, ServedBySomeone, ProducedBySomeone
  <2> QED BY <1>3, <2>1, <2>2, <2>3, <2>4, <2>5, <2>6, <2>7, <2>8, <2>9, <2>10, <2>11, <2>12
          DEF Progress
<1>4. CASE PollThreadExits
  BY <1>4
  DEF PollThreadExits, OpaqueDeletedOnce, CallbackServes, SendProduces, OneThreadEach,
      ServedBySomeone, ProducedBySomeone
<1>5. ASSUME NEW r \in Record, Report(r)
      PROVE  OpaqueInv'
  BY <1>5
  DEF Report, OpaqueDeletedOnce, CallbackServes, SendProduces, OneThreadEach, ServedBySomeone,
      ProducedBySomeone
<1>6. CASE UNCHANGED vars
  BY <1>6
  DEF vars, OpaqueDeletedOnce, CallbackServes, SendProduces, OneThreadEach, ServedBySomeone,
      ProducedBySomeone
<1> QED BY <1>1, <1>2, <1>3, <1>4, <1>5, <1>6 DEF AnyNext

(* send() and deliveryCallback() between them delete each DeliveryCbOpaque  *)
(* exactly once, after its callback has run: whatever the number of threads *)
(* and records, and whoever serves the reports.                             *)
THEOREM OpaqueOwnership == Spec => []OpaqueDeletedOnce
  BY NextIsAny, TypeInit, TypeStep, OpaqueInit, OpaqueStep, PTL DEF Spec, OpaqueInv

-----------------------------------------------------------------------------
LEMMA SyncInit == Init => SyncInv
  BY DEF Init, SyncInv, SyncCallerWaits

LEMMA SyncStep == TypeOK /\ OpaqueInv /\ SyncInv /\ [AnyNext]_vars => SyncInv'
<1> SUFFICES ASSUME TypeOK, OpaqueInv, SyncInv, [AnyNext]_vars
             PROVE  SyncInv'
  OBVIOUS
<1> USE DEF clientVars, threadVars, recordVars, TypeOK, SyncInv, SyncCallerWaits
<1>0. \A t \in Thread : t \in AllThreads /\ t # PollThread
  BY ThreadsDiffer DEF AllThreads
<1>1. ASSUME NEW t \in AllThreads, AnyCall(t)
      PROVE  SyncInv'
  <2>1. ASSUME NEW r \in Record, NEW b \in BOOLEAN, send(t, r, b)
        PROVE  SyncInv'
    BY <2>1 DEF send, StartSend, Free
  <2>2. ASSUME t \in Thread, NEW r \in Record, syncSend(t, r)
        PROVE  SyncInv'
    BY <1>0, <2>2 DEF syncSend, StartSend, Free
  <2>3. CASE pollEvents(t)
    BY <2>3 DEF pollEvents, Free
  <2>4. CASE flush(t)
    BY <2>4 DEF flush, Free
  <2>5. CASE purge(t)
    BY <2>5 DEF purge, Purged
  <2>6. CASE close(t)
    BY <2>6 DEF close, Free
  <2> QED BY <1>1, <2>1, <2>2, <2>3, <2>4, <2>5, <2>6 DEF AnyCall
<1>2. ASSUME NEW t \in AllThreads, NEW r \in Record, sendInCallback(t, r)
      PROVE  SyncInv'
  BY <1>2 DEF sendInCallback, StartSend, InCallback, OpaqueInv, CallbackServes, ServingActs
<1>3. ASSUME NEW t \in AllThreads, Progress(t)
      PROVE  SyncInv'
  <2>1. CASE Produced(t)
    BY <2>1 DEF Produced, OpaqueInv, SendProduces
  <2>2. CASE SendThrows(t)
    BY <2>2 DEF SendThrows
  <2>3. CASE SendReturns(t)
    BY <2>3 DEF SendReturns, Awaited
  <2>4. CASE SyncReturns(t)
    BY <2>4 DEF SyncReturns, MutexFree, Delivered
  <2>5. ASSUME NEW r \in Record, CallbackStarts(t, r)
        PROVE  SyncInv'
    BY <2>5 DEF CallbackStarts, Servable
  <2>6. CASE CallbackEnds(t)
    BY <2>6 DEF CallbackEnds
  <2>7. CASE PollReturns(t)
    BY <2>7 DEF PollReturns
  <2>8. CASE FlushReturns(t)
    BY <2>8 DEF FlushReturns
  <2>9. CASE PollThreadJoined(t)
    BY <2>9 DEF PollThreadJoined
  <2>10. CASE CloseFlushed(t)
    BY <2>10 DEF CloseFlushed, PurgedOnTimeout, Purged
  <2>11. CASE CloseReturns(t)
    BY <2>11 DEF CloseReturns
  <2>12. CASE SyncCallbackLocks(t) \/ SyncCallbackUnlocks(t)
    BY <2>12 DEF SyncCallbackLocks, SyncCallbackUnlocks, InCallback
  <2> QED BY <1>3, <2>1, <2>2, <2>3, <2>4, <2>5, <2>6, <2>7, <2>8, <2>9, <2>10, <2>11, <2>12
          DEF Progress
<1>4. CASE PollThreadExits
  BY <1>4 DEF PollThreadExits
<1>5. ASSUME NEW r \in Record, Report(r)
      PROVE  SyncInv'
  BY <1>5 DEF Report
<1>6. CASE UNCHANGED vars
  BY <1>6 DEF vars
<1> QED BY <1>1, <1>2, <1>3, <1>4, <1>5, <1>6 DEF AnyNext

(* From before rd_kafka_produceva until the callback of a syncSend() has    *)
(* unlocked the mutex it shares with its caller, the caller is inside the   *)
(* call, so that the references the callback captured are alive whenever it *)
(* uses them: however many threads call syncSend(), whichever thread serves *)
(* the report, and with the producer being closed.                          *)
THEOREM SyncResultOutlives == Spec => []SyncCallerWaits
  BY NextIsAny, TypeInit, TypeStep, OpaqueInit, OpaqueStep, SyncInit, SyncStep, PTL
  DEF Spec, SyncInv

-----------------------------------------------------------------------------
LEMMA LifeInit == Init => LifeInv
<1> SUFFICES ASSUME Init
             PROVE  LifeInv
  OBVIOUS
<1>1. act \in [AllThreads -> {"idle", "loop"}] /\ PollThread \in AllThreads
  BY DEF Init, AllThreads
<1> QED
  BY ThreadsDiffer
  DEF Init, AllThreads, LifeInv, PollThreadActs, SendingFrom, OneCloses, OthersDone,
      PollableGoneLate, ClosingActs

LEMMA LifeStep == TypeOK /\ OpaqueInv /\ LifeInv /\ [Next]_vars => LifeInv'
<1> SUFFICES ASSUME TypeOK, OpaqueInv, LifeInv, [Next]_vars
             PROVE  LifeInv'
  OBVIOUS
<1> USE DEF clientVars, threadVars, recordVars, TypeOK, LifeInv, PollThreadActs, SendingFrom,
            OneCloses, OthersDone, PollableGoneLate, ClosingActs
<1>0. \A t \in Thread : t \in AllThreads /\ t # PollThread
  BY ThreadsDiffer DEF AllThreads
<1>1. ASSUME NEW t \in Thread, Application(t)
      PROVE  LifeInv'
  <2>1. ASSUME NEW r \in Record, NEW b \in BOOLEAN, send(t, r, b)
        PROVE  LifeInv'
    BY <1>0, <2>1 DEF send, StartSend, Free
  <2>2. ASSUME NEW r \in Record, syncSend(t, r)
        PROVE  LifeInv'
    BY <1>0, <2>2 DEF syncSend, StartSend
  <2>3. CASE pollEvents(t)
    BY <1>0, <2>3 DEF pollEvents, Free
  <2>4. CASE flush(t)
    BY <1>0, <2>4 DEF flush, Free
  <2>5. CASE purge(t)
    BY <2>5 DEF purge
  <2>6. CASE CloseAfterCalls(t)
    BY <1>0, <2>6 DEF CloseAfterCalls, close
  <2> QED BY <1>1, <2>1, <2>2, <2>3, <2>4, <2>5, <2>6 DEF Application
<1>2. ASSUME NEW t \in AllThreads, NEW r \in Record, sendInCallback(t, r)
      PROVE  LifeInv'
  BY <1>2 DEF sendInCallback, StartSend, InCallback
<1>3. ASSUME NEW t \in AllThreads, Progress(t)
      PROVE  LifeInv'
  <2>1. CASE Produced(t)
    BY <2>1 DEF Produced
  <2>2. CASE SendThrows(t)
    BY <2>2 DEF SendThrows
  <2>3. CASE SendReturns(t)
    BY <2>3 DEF SendReturns
  <2>4. CASE SyncReturns(t)
    BY <2>4 DEF SyncReturns
  <2>5. ASSUME NEW r \in Record, CallbackStarts(t, r)
        PROVE  LifeInv'
    BY <2>5 DEF CallbackStarts
  <2>6. CASE CallbackEnds(t)
    BY <2>6 DEF CallbackEnds, InCallback
  <2>7. CASE PollReturns(t)
    BY <2>7 DEF PollReturns
  <2>8. CASE FlushReturns(t)
    BY <2>8 DEF FlushReturns
  <2>9. CASE PollThreadJoined(t)
    BY <2>9 DEF PollThreadJoined, PollThreadEnded, AllThreads
  <2>10. CASE CloseFlushed(t)
    BY <2>10 DEF CloseFlushed
  <2>11. CASE CloseReturns(t)
    BY <2>11 DEF CloseReturns
  <2>12. CASE SyncCallbackLocks(t) \/ SyncCallbackUnlocks(t)
    BY <2>12 DEF SyncCallbackLocks, SyncCallbackUnlocks
  <2> QED BY <1>3, <2>1, <2>2, <2>3, <2>4, <2>5, <2>6, <2>7, <2>8, <2>9, <2>10, <2>11, <2>12
          DEF Progress
<1>4. CASE PollThreadExits
  BY <1>4 DEF PollThreadExits
<1>5. ASSUME NEW r \in Record, Report(r)
      PROVE  LifeInv'
  BY <1>5 DEF Report
<1>6. CASE UNCHANGED vars
  BY <1>6 DEF vars
<1> QED BY <1>1, <1>2, <1>3, <1>4, <1>5, <1>6 DEF Next

(* close() destroys _pollable only when no thread is in, or can enter, its  *)
(* poll(): the background thread has ended and pollEvents() is refused.     *)
THEOREM PollableLifetime == Spec => []PollableOutlivesPolling
<1>1. LifeInv => PollableOutlivesPolling
  BY DEF LifeInv, PollThreadActs, OthersDone, PollableGoneLate, ClosingActs,
         PollableOutlivesPolling, AllThreads
<1> QED BY <1>1, NextIsAny, TypeInit, TypeStep, OpaqueInit, OpaqueStep, LifeInit, LifeStep, PTL
        DEF Spec

-----------------------------------------------------------------------------
(* Once close() has joined the background thread, the closing thread is the *)
(* only one that serves reports, and nobody sends but from its callback.    *)
LEMMA ClosingServesAlone ==
    ASSUME TypeOK, OpaqueInv, LifeInv, NEW t \in Thread, act[t] \in ClosingActs \ {"closeJoin"},
           NEW u \in AllThreads
    PROVE  /\ act[u] \in ServingActs => u = t
           /\ cb[u] # None => u = t
           /\ sendPc[u] # "none" => u = t /\ cb[t] # None
<1>1. ~opened /\ ~pollable /\ act[PollThread] # "loop"
  BY DEF LifeInv, PollableGoneLate
<1>2. CASE u = PollThread
  <2>1. act[u] \in {"idle", "exited"}
    BY <1>1, <1>2 DEF LifeInv, PollThreadActs
  <2>2. cb[u] = None
    BY <2>1 DEF OpaqueInv, CallbackServes, ServingActs
  <2> QED BY <1>2, <2>1, <2>2 DEF LifeInv, SendingFrom, ServingActs
<1>3. CASE u \in Thread
  <2>1. act[u] \in ClosingActs \cup {"idle", "sync"} /\ (sendPc[u] # "none" => cb[u] # None)
    BY <1>1, <1>3 DEF LifeInv, OthersDone
  <2>2. act[u] \in ServingActs => act[u] \in ClosingActs
    BY <2>1 DEF ServingActs, ClosingActs
  <2>3. act[u] \in ClosingActs => u = t
    BY <1>3 DEF LifeInv, OneCloses
  <2>4. cb[u] # None => act[u] \in ServingActs
    BY DEF OpaqueInv, CallbackServes
  <2> QED BY <2>1, <2>2, <2>3, <2>4
<1> QED BY <1>2, <1>3 DEF AllThreads

LEMMA FinalInit == Init => FinalInv
<1> SUFFICES ASSUME Init
             PROVE  FinalInv
  OBVIOUS
<1>1. act \in [AllThreads -> {"idle", "loop"}]
  BY DEF Init
<1> QED BY <1>1 DEF AllThreads, FinalInv

LEMMA FinalStep == TypeOK /\ OpaqueInv /\ LifeInv /\ FinalInv /\ [Next]_vars => FinalInv'
<1> SUFFICES ASSUME TypeOK, OpaqueInv, LifeInv, FinalInv, [Next]_vars
             PROVE  FinalInv'
  OBVIOUS
<1> USE DEF clientVars, threadVars, recordVars, Over
<1>0. \A t \in Thread : t \in AllThreads /\ t # PollThread
  BY ThreadsDiffer DEF AllThreads
<1>q. ASSUME opened, \A u \in Thread : act'[u] # act[u] => act'[u] \notin {"closeFinal", "closed"}
      PROVE  FinalInv'
  BY <1>q DEF FinalInv, LifeInv, OneCloses, ClosingActs
<1>1. ASSUME NEW t \in Thread, Application(t)
      PROVE  FinalInv'
  <2>1. ASSUME NEW r \in Record, NEW b \in BOOLEAN, send(t, r, b)
        PROVE  FinalInv'
    <3>1. /\ opened /\ mode' = mode
          /\ \A u \in Thread : act'[u] # act[u] => act'[u] \notin {"closeFinal", "closed"}
      BY <1>0, <2>1 DEF send, TypeOK
    <3> QED BY <1>q, <3>1
  <2>2. ASSUME NEW r \in Record, syncSend(t, r)
        PROVE  FinalInv'
    <3>1. /\ opened /\ mode' = mode
          /\ \A u \in Thread : act'[u] # act[u] => act'[u] \notin {"closeFinal", "closed"}
      BY <1>0, <2>2 DEF syncSend, TypeOK
    <3> QED BY <1>q, <3>1
  <2>3. CASE pollEvents(t)
    <3>1. /\ opened /\ mode' = mode
          /\ \A u \in Thread : act'[u] # act[u] => act'[u] \notin {"closeFinal", "closed"}
      BY <1>0, <2>3 DEF pollEvents, TypeOK
    <3> QED BY <1>q, <3>1
  <2>4. CASE flush(t)
    <3>1. /\ opened /\ mode' = mode
          /\ \A u \in Thread : act'[u] # act[u] => act'[u] \notin {"closeFinal", "closed"}
      BY <1>0, <2>4 DEF flush, TypeOK
    <3> QED BY <1>q, <3>1
  <2>5. CASE purge(t)
    <3>1. /\ opened /\ mode' = mode
          /\ \A u \in Thread : act'[u] # act[u] => act'[u] \notin {"closeFinal", "closed"}
      BY <1>0, <2>5 DEF purge, TypeOK
    <3> QED BY <1>q, <3>1
  <2>6. CASE CloseAfterCalls(t)
    <3>1. /\ opened /\ mode' = mode
          /\ \A u \in Thread : act'[u] # act[u] => act'[u] \notin {"closeFinal", "closed"}
      BY <1>0, <2>6 DEF CloseAfterCalls, close, TypeOK
    <3> QED BY <1>q, <3>1
  <2> QED BY <1>1, <2>1, <2>2, <2>3, <2>4, <2>5, <2>6 DEF Application
<1>2. ASSUME NEW t \in AllThreads, NEW r \in Record, sendInCallback(t, r)
      PROVE  FinalInv'
  <2>1. ASSUME FlushIsEnough, NEW u \in Thread, act[u] \in {"closeFinal", "closed"}
        PROVE  FALSE
    <3>1. cb[t] \in Record /\ msg[cb[t]] = "serving" /\ mode.callbacks # "never"
      BY <1>2 DEF sendInCallback, InCallback, OpaqueInv, CallbackServes, TypeOK
    <3> QED BY <2>1, <3>1 DEF FinalInv, Over
  <2>2. act' = act /\ mode' = mode
    BY <1>2 DEF sendInCallback
  <2> QED BY <2>1, <2>2 DEF FinalInv, FlushIsEnough
<1>3. ASSUME NEW t \in AllThreads, Progress(t)
      PROVE  FinalInv'
  <2>1. CASE Produced(t)
    BY <1>0, <2>1 DEF Produced, TypeOK, FinalInv, FlushIsEnough
  <2>2. CASE SendThrows(t)
    BY <1>0, <2>2 DEF SendThrows, TypeOK, FinalInv, FlushIsEnough
  <2>3. CASE SendReturns(t)
    BY <2>3 DEF SendReturns, FinalInv, FlushIsEnough
  <2>4. CASE SyncReturns(t)
    BY <2>4 DEF SyncReturns, FinalInv, FlushIsEnough
  <2>5. ASSUME NEW r \in Record, CallbackStarts(t, r)
        PROVE  FinalInv'
    <3>0. msg[r] = "reported" /\ act[t] \in ServingActs /\ cb[t] = None
      BY <2>5 DEF CallbackStarts, Servable, Serves, ServingActs
    <3>1. ASSUME FlushIsEnough, NEW u \in Thread, act[u] = "closed"
          PROVE  FALSE
      BY <3>0, <3>1 DEF FinalInv, Over
    <3>2. ASSUME NEW u \in Thread, act[u] = "closeFinal"
          PROVE  u = t
      BY <1>0, <3>0, <3>2, ClosingServesAlone DEF ClosingActs
    <3>3. ASSUME FlushIsEnough, act[t] = "closeFinal", t \in Thread, NEW x \in Record
          PROVE  \/ Over(x)'
                 \/ /\ mode.callbacks = "never"
                    /\ (msg'[x] = "reported" /\ x \in batch'[t]) \/ cb'[t] = x
      <4>1. \/ Over(x)
            \/ /\ mode.callbacks = "never"
               /\ (msg[x] = "reported" /\ x \in batch[t]) \/ cb[t] = x
        BY <3>3 DEF FinalInv
      <4>2. mode.callbacks = "never"
        BY <3>0, <3>3 DEF FinalInv, Over
      <4>3. cb[t] # x
        BY <3>0, ThreadsDiffer
      <4> QED BY <2>5, <4>1, <4>2, <4>3 DEF CallbackStarts, TypeOK
    <3>4. UNCHANGED <<act, sendPc, mode>>
      BY <2>5 DEF CallbackStarts
    <3> QED BY <3>1, <3>2, <3>3, <3>4 DEF FinalInv, FlushIsEnough
  <2>6. CASE CallbackEnds(t)
    <3>0. cb[t] \in Record /\ msg[cb[t]] = "serving" /\ UNCHANGED <<act, sendPc, mode, batch>>
      BY <2>6 DEF CallbackEnds, InCallback, OpaqueInv, CallbackServes, TypeOK
    <3>1. ASSUME FlushIsEnough, NEW u \in Thread, act[u] = "closed"
          PROVE  FALSE
      BY <3>0, <3>1 DEF FinalInv, Over
    <3>2. ASSUME NEW u \in Thread, act[u] = "closeFinal"
          PROVE  u = t
      BY <1>0, <3>0, <3>2, ClosingServesAlone, ThreadsDiffer DEF ClosingActs
    <3>3. ASSUME FlushIsEnough, act[t] = "closeFinal", t \in Thread, NEW x \in Record
          PROVE  \/ Over(x)'
                 \/ /\ mode.callbacks = "never"
                    /\ msg'[x] = "reported" /\ x \in batch'[t]
      <4>1. \/ Over(x)
            \/ /\ mode.callbacks = "never"
               /\ (msg[x] = "reported" /\ x \in batch[t]) \/ cb[t] = x
        BY <3>3 DEF FinalInv
      <4>2. msg'[cb[t]] = "done" /\ (x # cb[t] => msg'[x] = msg[x])
        BY <2>6, <3>0 DEF CallbackEnds, TypeOK
      <4> QED BY <3>0, <4>1, <4>2 DEF Over
    <3> QED BY <3>0, <3>1, <3>2, <3>3 DEF FinalInv, FlushIsEnough
  <2>7. CASE PollReturns(t)
    BY <1>0, <2>7 DEF PollReturns, TypeOK, FinalInv, FlushIsEnough
  <2>8. CASE FlushReturns(t)
    BY <1>0, <2>8 DEF FlushReturns, TypeOK, FinalInv, FlushIsEnough
  <2>9. CASE PollThreadJoined(t)
    BY <2>9 DEF PollThreadJoined, FinalInv, FlushIsEnough
  <2>10. CASE CloseFlushed(t)
    <3>1. t \in Thread
      BY <2>10 DEF CloseFlushed, AllThreads, LifeInv, PollThreadActs
    <3>2. \A u \in AllThreads : cb[u] = None /\ sendPc[u] = "none"
      BY <2>10, <3>1, ClosingServesAlone DEF CloseFlushed, ClosingActs
    <3>3. \A r \in Record : msg[r] \notin {"producing", "serving"}
      BY <3>2, ThreadsDiffer DEF OpaqueInv, ServedBySomeone, ProducedBySomeone
    <3>4. \A u \in Thread : act'[u] \in {"closeFinal", "closed"} => u = t
      BY <2>10, <3>1 DEF CloseFlushed, LifeInv, OneCloses, ClosingActs
    <3>5. ASSUME FlushIsEnough, NEW r \in Record
          PROVE  Over(r)' \/ (mode.callbacks = "never" /\ msg'[r] = "reported")
      <4>1. CASE OutQueue = {} /\ UNCHANGED msg
        BY <3>3, <4>1 DEF OutQueue, Over, TypeOK
      <4>2. CASE mode.timeouts /\ msg' = Purged
        <5>1. mode.callbacks = "never"
          BY <3>5, <4>2 DEF FlushIsEnough
        <5> QED BY <3>3, <4>2, <5>1 DEF Purged, Over, TypeOK
      <4> QED BY <2>10, <4>1, <4>2 DEF CloseFlushed, PurgedOnTimeout
    <3>6. /\ act'[t] = "closeFinal" /\ batch'[t] = Reported'
          /\ UNCHANGED <<mode, sendPc>>
      BY <2>10 DEF CloseFlushed, TypeOK
    <3> QED BY <3>2, <3>4, <3>5, <3>6 DEF FinalInv, FlushIsEnough, Reported
  <2>11. CASE CloseReturns(t)
    <3>1. t \in Thread
      BY <2>11 DEF CloseReturns, AllThreads, LifeInv, PollThreadActs
    <3>2. \A u \in Thread : act'[u] \in {"closeFinal", "closed"} => u = t
      BY <2>11, <3>1 DEF CloseReturns, LifeInv, OneCloses, ClosingActs
    <3>3. act'[t] = "closed" /\ UNCHANGED <<mode, sendPc, msg>>
      BY <2>11 DEF CloseReturns, TypeOK
    <3>4. ASSUME FlushIsEnough
          PROVE  (\A u \in AllThreads : sendPc[u] = "none") /\ \A r \in Record : Over(r)
      BY <2>11, <3>1, <3>4, ThreadsDiffer DEF CloseReturns, FinalInv, Reported
    <3> QED BY <3>2, <3>3, <3>4 DEF FinalInv, FlushIsEnough, Over
  <2>12. CASE SyncCallbackLocks(t) \/ SyncCallbackUnlocks(t)
    BY <2>12 DEF SyncCallbackLocks, SyncCallbackUnlocks, FinalInv, FlushIsEnough
  <2> QED BY <1>3, <2>1, <2>2, <2>3, <2>4, <2>5, <2>6, <2>7, <2>8, <2>9, <2>10, <2>11, <2>12
          DEF Progress
<1>4. CASE PollThreadExits
  BY <1>0, <1>4 DEF PollThreadExits, TypeOK, FinalInv, FlushIsEnough
<1>5. ASSUME NEW r \in Record, Report(r)
      PROVE  FinalInv'
  BY <1>0, <1>5 DEF Report, TypeOK, FinalInv, FlushIsEnough
<1>6. CASE UNCHANGED vars
  BY <1>0, <1>6 DEF vars, TypeOK, FinalInv, FlushIsEnough
<1> QED BY <1>1, <1>2, <1>3, <1>4, <1>5, <1>6 DEF Next

(* close() returns with every accepted record reported to its callback, for *)
(* a producer whose flush cannot time out, or whose callbacks do not send.  *)
(* (A callback that sends while close() is past its flush is not waited     *)
(* for, so neither condition can be dropped.)                               *)
THEOREM CloseReportsAll == Spec => [](FlushIsEnough => AllReportedWhenClosed)
<1>1. TypeOK /\ OpaqueInv /\ LifeInv /\ FinalInv => (FlushIsEnough => AllReportedWhenClosed)
  <2> SUFFICES ASSUME TypeOK, OpaqueInv, LifeInv, FinalInv, FlushIsEnough, Closed,
                      NEW r \in Record, Accepted(r)
               PROVE  calls[r] = 1 /\ frees[r] = 1
    BY DEF AllReportedWhenClosed
  <2>1. PICK t \in Thread : act[t] = "closed"
    BY DEF Closed, AllThreads, LifeInv, PollThreadActs
  <2>2. msg[r] = "done"
    BY <2>1 DEF FinalInv, Over, Accepted
  <2> QED BY <2>2 DEF OpaqueInv, OpaqueDeletedOnce
<1> QED
  BY <1>1, NextIsAny, TypeInit, TypeStep, OpaqueInit, OpaqueStep, LifeInit, LifeStep,
     FinalInit, FinalStep, PTL
  DEF Spec

-----------------------------------------------------------------------------
(* KafkaRecoverableProducer.                                                *)
RecoverTypeOK ==
    /\ mutex \in AllThreads \cup {None}
    /\ pollPc \in {"loop", "polling", "purged", "lock", "closing", "exited"}
    /\ closePc \in {"none", "join", "closing", "closed"}
    /\ closer \in Thread \cup {None}
    /\ producers \in Nat

(* The inductive invariant.  The poll thread polls without the mutex, and   *)
(* replaces the producer with it.                                           *)
PollThreadPlace ==
    /\ sendPc[PollThread] = "none"
    /\ pollPc \notin {"polling", "closing"} => act[PollThread] = "idle"
    /\ pollPc = "polling" => act[PollThread] \in {"idle", "poll"}
    /\ pollPc = "closing" => act[PollThread] \in ClosingActs /\ mutex = PollThread
    /\ mutex = PollThread => pollPc = "closing"

(* An application thread inside a call of the inner producer has the mutex. *)
CallersLock ==
    \A t \in Thread :
        /\ act[t] \in {"idle", "sync", "flush"} \cup ClosingActs
        /\ mutex # t => sendPc[t] = "none" /\ act[t] \in {"idle", "closed"}
        /\ sendPc[t] # "none" => act[t] \in {"idle", "sync"}
        /\ act[t] \in ClosingActs => closer = t /\ closePc \in {"closing", "closed"}

(* close() of the recoverable producer has joined the poll thread before it *)
(* closes the inner producer.                                               *)
CloserPlace ==
    /\ closer = None <=> closePc = "none"
    /\ closePc = "join" => mutex # closer
    /\ closePc = "closing" => mutex = closer
    /\ closePc \in {"closing", "closed"} => pollPc = "exited" /\ act[closer] \in ClosingActs
    /\ closePc = "closed" => mutex = None

(* Whoever closes the inner producer is alone with it, and once its flush   *)
(* is over nothing is left to report.                                       *)
Flushed ==
    \A t \in AllThreads :
        mutex = t /\ act[t] \in {"closeFinal", "closed"} =>
            \A r \in Record : Over(r)

RecoverInv == PollThreadPlace /\ CallersLock /\ CloserPlace /\ Flushed

-----------------------------------------------------------------------------
(* What the recoverable producer does to its inner producer: it calls it,   *)
(* lets it go on, or replaces it.                                           *)
LEMMA InnerSteps ==
    ASSUME [RNext]_rvars, ~RecreateProducer
    PROVE  [AnyNext]_vars
<1>1. ASSUME NEW t \in AllThreads, Inner(t)
      PROVE  AnyNext
  BY <1>1 DEF Inner, AnyNext
<1>2. ASSUME NEW t \in AllThreads, AnyCall(t)
      PROVE  AnyNext
  BY <1>2 DEF AnyNext
<1>3. CASE PollOnce \/ CheckFatalError \/ CloseForRecovery
  <2>1. AnyCall(PollThread) \/ UNCHANGED vars
    BY <1>3 DEF PollOnce, CheckFatalError, CloseForRecovery, AnyCall
  <2> QED BY <1>2, <2>1 DEF AllThreads
<1>4. ASSUME NEW t \in Thread, LockedCall(t) \/ RCloseLocked(t)
      PROVE  [AnyNext]_vars
  <2>1. AnyCall(t) \/ UNCHANGED vars
    BY <1>4 DEF LockedCall, RCloseLocked, Call, Query, AnyCall
  <2> QED BY <1>2, <2>1 DEF AllThreads
<1>5. ASSUME NEW r \in Record, InnerReport(r)
      PROVE  AnyNext
  BY <1>5 DEF InnerReport, AnyNext
<1>6. ASSUME NEW t \in AllThreads, ErrorCallback(t)
      PROVE  UNCHANGED vars
  BY <1>6 DEF ErrorCallback
<1>7. ASSUME NEW t \in Thread, RClose(t) \/ Unlock(t) \/ RCloseReturns(t)
      PROVE  UNCHANGED vars
  BY <1>7 DEF RClose, Unlock, RCloseReturns
<1>8. CASE FatalErrorRaised \/ ResetFatalError \/ PollLoopExits \/ UNCHANGED rvars
  BY <1>8 DEF FatalErrorRaised, ResetFatalError, PollLoopExits, rvars
<1> QED BY <1>1, <1>3, <1>4, <1>5, <1>6, <1>7, <1>8 DEF RNext, PollThreadSteps, CallerSteps

OwnershipInv == TypeOK /\ OpaqueInv /\ SyncInv

LEMMA OwnershipInit == RInit => OwnershipInv
  BY TypeInit, OpaqueInit, SyncInit DEF RInit, OwnershipInv

LEMMA OwnershipStep == OwnershipInv /\ [RNext]_rvars => OwnershipInv'
<1> SUFFICES ASSUME OwnershipInv, [RNext]_rvars
             PROVE  OwnershipInv'
  OBVIOUS
<1>1. CASE RecreateProducer
  <2>1. PollThread \in AllThreads
    BY DEF AllThreads
  <2>2. TypeOK'
    <3>1. opened' \in BOOLEAN /\ pollable' \in BOOLEAN /\ stopRequested' \in BOOLEAN
      BY <1>1, Zenon DEF RecreateProducer
    <3> QED BY <1>1, <2>1, <3>1 DEF RecreateProducer, OwnershipInv, TypeOK, recordVars
  <2>3. OpaqueInv'
    BY <1>1, <2>1
    DEF RecreateProducer, OwnershipInv, TypeOK, OpaqueInv, OpaqueDeletedOnce, CallbackServes,
        SendProduces, OneThreadEach, ServedBySomeone, ProducedBySomeone, ServingActs, recordVars
  <2>4. SyncInv'
    <3>1. \A t \in Thread : act'[t] = act[t]
      BY <1>1, ThreadsDiffer DEF RecreateProducer, OwnershipInv, TypeOK, AllThreads
    <3> QED BY <1>1, <3>1
            DEF RecreateProducer, OwnershipInv, TypeOK, SyncInv, SyncCallerWaits, recordVars
  <2> QED BY <2>2, <2>3, <2>4 DEF OwnershipInv
<1>2. CASE ~RecreateProducer
  BY <1>2, InnerSteps, TypeStep, OpaqueStep, SyncStep DEF OwnershipInv
<1> QED BY <1>1, <1>2

(* The opaques of the recoverable producer's records are deleted once, and  *)
(* the stack of a locked syncSend() outlives its callback, with the inner   *)
(* producer being replaced at any time.                                     *)
THEOREM RecoveryKeepsOwnership == RSpec => [](OpaqueDeletedOnce /\ SyncCallerWaits)
<1>1. OwnershipInv => OpaqueDeletedOnce /\ SyncCallerWaits
  BY DEF OwnershipInv, OpaqueInv, SyncInv
<1> QED BY <1>1, OwnershipInit, OwnershipStep, PTL DEF RSpec

-----------------------------------------------------------------------------
LEMMA RecoverInit == RInit => RecoverTypeOK /\ RecoverInv
<1> SUFFICES ASSUME RInit
             PROVE  RecoverTypeOK /\ RecoverInv
  OBVIOUS
<1>1. PollThread # None /\ ~mode.auto
  BY RecoverableOptions DEF RInit, Init
<1>2. RecoverTypeOK
  BY DEF RInit, RecoverTypeOK
<1> QED BY <1>1, <1>2, ThreadsDiffer
        DEF RInit, Init, RecoverInv, PollThreadPlace, CallersLock, CloserPlace, Flushed,
            AllThreads, ClosingActs

LEMMA RecoverTypeStep == RecoverTypeOK /\ [RNext]_rvars => RecoverTypeOK'
<1> SUFFICES ASSUME RecoverTypeOK, [RNext]_rvars
             PROVE  RecoverTypeOK'
  OBVIOUS
<1> USE DEF RecoverTypeOK
<1>1. CASE FatalErrorRaised
  BY <1>1 DEF FatalErrorRaised
<1>2. ASSUME NEW t \in AllThreads, ErrorCallback(t) \/ Inner(t)
      PROVE  RecoverTypeOK'
  BY <1>2 DEF ErrorCallback, Inner, recoverVars
<1>3. CASE PollThreadSteps
  BY <1>3 DEF PollThreadSteps, PollOnce, CheckFatalError, ResetFatalError, CloseForRecovery,
              RecreateProducer, PollLoopExits, Lock, AllThreads
<1>4. ASSUME NEW t \in Thread, LockedCall(t) \/ RClose(t) \/ CallerSteps(t)
      PROVE  RecoverTypeOK'
  BY <1>4 DEF LockedCall, RClose, CallerSteps, Unlock, RCloseLocked, RCloseReturns, Lock,
              AllThreads
<1>5. ASSUME NEW r \in Record, InnerReport(r)
      PROVE  RecoverTypeOK'
  BY <1>5 DEF InnerReport, recoverVars
<1>6. CASE UNCHANGED rvars
  BY <1>6 DEF rvars, recoverVars
<1> QED BY <1>1, <1>2, <1>3, <1>4, <1>5, <1>6 DEF RNext

-----------------------------------------------------------------------------
(* A thread that goes on inside the inner producer: it returns to the       *)
(* caller, or gets on with its close(); the others stay where they are.     *)
GoesOnAlone(t) ==
    /\ \A u \in AllThreads \ {t} : act'[u] = act[u] /\ sendPc'[u] = sendPc[u]
    /\ \/ act'[t] = act[t]
       \/ act[t] \in {"sync", "poll", "flush"} /\ act'[t] = "idle"
       \/ act[t] \in ClosingActs \ {"closed"} /\ act'[t] \in ClosingActs
    /\ sendPc[t] = "none" => sendPc'[t] = "none"

LEMMA ProgressIsAlone ==
    ASSUME TypeOK, NEW t \in AllThreads, Progress(t)
    PROVE  GoesOnAlone(t)
<1> USE DEF GoesOnAlone, TypeOK, clientVars, threadVars, recordVars
<1>1. CASE Produced(t)
  BY <1>1 DEF Produced
<1>2. CASE SendThrows(t)
  BY <1>2 DEF SendThrows
<1>3. CASE SendReturns(t)
  BY <1>3 DEF SendReturns
<1>4. CASE SyncReturns(t)
  BY <1>4 DEF SyncReturns
<1>5. CASE CallbackEnds(t) \/ \E r \in Record : CallbackStarts(t, r)
  BY <1>5 DEF CallbackEnds, CallbackStarts
<1>6. CASE PollReturns(t) \/ FlushReturns(t)
  BY <1>6 DEF PollReturns, FlushReturns
<1>7. CASE PollThreadJoined(t) \/ CloseFlushed(t) \/ CloseReturns(t)
  BY <1>7 DEF PollThreadJoined, CloseFlushed, CloseReturns, ClosingActs
<1>8. CASE SyncCallbackLocks(t) \/ SyncCallbackUnlocks(t)
  BY <1>8 DEF SyncCallbackLocks, SyncCallbackUnlocks
<1> QED BY <1>1, <1>2, <1>3, <1>4, <1>5, <1>6, <1>7, <1>8 DEF Progress

(* Where everything has been reported, nothing that is under way brings a   *)
(* record back.                                                             *)
LEMMA StaysOver ==
    ASSUME TypeOK, OpaqueInv, NEW t \in AllThreads, Progress(t), \A r \in Record : Over(r)
    PROVE  \A r \in Record : Over(r)'
<1>1. sendPc[t] # "produce" /\ cb[t] = None
  BY DEF TypeOK, OpaqueInv, SendProduces, CallbackServes, Over
<1>2. ~\E r \in Record : CallbackStarts(t, r)
  BY DEF CallbackStarts, Servable, Over
<1>3. ~Produced(t) /\ ~SendThrows(t) /\ ~CallbackEnds(t)
  BY <1>1 DEF Produced, SendThrows, CallbackEnds, InCallback
<1>4. CloseFlushed(t) => UNCHANGED msg
  BY DEF CloseFlushed, OutQueue, Over
<1>5. UNCHANGED msg
  BY <1>2, <1>3, <1>4
  DEF Progress, SendReturns, SyncReturns, SyncCallbackLocks, SyncCallbackUnlocks, PollReturns,
      FlushReturns, PollThreadJoined, CloseReturns, recordVars
<1> QED BY <1>5 DEF Over

(* The end of the flush in close(): the thread has the mutex, so no send()  *)
(* is in progress, and without a time limit the flush has served all.       *)
LEMMA FlushLeavesNone ==
    ASSUME OwnershipInv, RecoverInv, NEW t \in AllThreads, CloseFlushed(t)
    PROVE  \A r \in Record : Over(r)'
<1>1. ~mode.timeouts
  BY RecoverableOptions DEF OwnershipInv, TypeOK
<1>2. OutQueue = {} /\ UNCHANGED msg
  BY <1>1 DEF CloseFlushed
<1>3. act[t] = "closeFlush" /\ mutex = t
  BY DEF CloseFlushed, RecoverInv, PollThreadPlace, CallersLock, AllThreads, ClosingActs
<1>4. \A u \in AllThreads : sendPc[u] = "none"
  BY <1>3 DEF RecoverInv, PollThreadPlace, CallersLock, AllThreads
<1>5. \A r \in Record : msg[r] # "producing"
  BY <1>4 DEF OwnershipInv, OpaqueInv, ProducedBySomeone
<1> QED BY <1>2, <1>5 DEF OwnershipInv, TypeOK, OutQueue, Over

LEMMA InnerKeeps ==
    ASSUME OwnershipInv, RecoverTypeOK, RecoverInv, NEW t \in AllThreads, Inner(t)
    PROVE  RecoverInv'
<1>0. PollThread \in AllThreads /\ PollThread \notin Thread /\ None \notin Thread
  BY ThreadsDiffer DEF AllThreads
<1>1. Progress(t) /\ UNCHANGED recoverVars
  BY DEF Inner
<1>2. GoesOnAlone(t)
  BY <1>1, ProgressIsAlone DEF OwnershipInv
<1>3. PollThreadPlace'
  BY <1>0, <1>1, <1>2
  DEF RecoverInv, RecoverTypeOK, PollThreadPlace, GoesOnAlone, recoverVars, ClosingActs
<1>4. CallersLock'
  BY <1>0, <1>1, <1>2
  DEF RecoverInv, CallersLock, GoesOnAlone, recoverVars, AllThreads, ClosingActs
<1>5. CloserPlace'
  BY <1>0, <1>1, <1>2
  DEF RecoverInv, RecoverTypeOK, CloserPlace, GoesOnAlone, recoverVars, AllThreads, ClosingActs
<1>6. Flushed'
  <2> SUFFICES ASSUME NEW u \in AllThreads, mutex = u, act'[u] \in {"closeFinal", "closed"}
               PROVE  \A r \in Record : Over(r)'
    BY <1>1 DEF Flushed, recoverVars
  <2>1. CASE act[u] \in {"closeFinal", "closed"}
    BY <1>1, <2>1, StaysOver DEF OwnershipInv, RecoverInv, Flushed
  <2>2. CASE act[u] \notin {"closeFinal", "closed"}
    <3>1. u = t
      BY <1>2, <2>2 DEF GoesOnAlone
    <3>2. CloseFlushed(t)
      BY <1>1, <2>2, <3>1
      DEF Progress, Produced, SendThrows, SendReturns, SyncReturns, CallbackStarts, CallbackEnds,
          SyncCallbackLocks, SyncCallbackUnlocks, PollReturns, FlushReturns, PollThreadJoined,
          CloseReturns, OwnershipInv, TypeOK, threadVars
    <3> QED BY <3>2, FlushLeavesNone
  <2> QED BY <2>1, <2>2
<1> QED BY <1>3, <1>4, <1>5, <1>6 DEF RecoverInv

(* The steps of the poll thread outside of the inner producer.              *)
LEMMA PollThreadKeeps ==
    ASSUME OwnershipInv, RecoverTypeOK, RecoverInv, PollThreadSteps
    PROVE  RecoverInv'
<1>0. /\ PollThread \in AllThreads /\ PollThread \notin Thread
      /\ PollThread # None /\ None \notin Thread
  BY ThreadsDiffer, RecoverableOptions DEF AllThreads
<1> USE DEF OwnershipInv, TypeOK, RecoverTypeOK, RecoverInv, PollThreadPlace, CallersLock,
            CloserPlace, Flushed, Over, clientVars, threadVars, recordVars
<1>1. CASE PollOnce
  BY <1>0, <1>1 DEF PollOnce, pollEvents, Free, AllThreads, ClosingActs
<1>2. CASE CheckFatalError
  <2>1. act' = act /\ sendPc' = sendPc
    BY <1>2 DEF CheckFatalError, purge, vars
  <2>2. ASSUME NEW r \in Record, Over(r)
        PROVE  Over(r)'
    BY <1>2, <2>2 DEF CheckFatalError, purge, Purged, vars
  <2> QED BY <1>0, <1>2, <2>1, <2>2 DEF CheckFatalError, ClosingActs
<1>3. CASE ResetFatalError \/ PollLoopExits
  BY <1>0, <1>3 DEF ResetFatalError, PollLoopExits, vars, ClosingActs
<1>4. CASE CloseForRecovery
  <2>1. PollThreadPlace'
    BY <1>0, <1>4 DEF CloseForRecovery, Lock, close, Free, AllThreads, ClosingActs
  <2>2. CallersLock'
    BY <1>0, <1>4 DEF CloseForRecovery, Lock, close, Free, AllThreads, ClosingActs
  <2>3. CloserPlace'
    BY <1>0, <1>4 DEF CloseForRecovery, Lock, close, Free, AllThreads, ClosingActs
  <2>4. Flushed'
    BY <1>0, <1>4 DEF CloseForRecovery, Lock, close, Free, AllThreads, ClosingActs
  <2> QED BY <2>1, <2>2, <2>3, <2>4
<1>5. CASE RecreateProducer
  BY <1>0, <1>5 DEF RecreateProducer, AllThreads, ClosingActs
<1> QED BY <1>1, <1>2, <1>3, <1>4, <1>5 DEF PollThreadSteps

(* Those of an application thread.                                          *)
LEMMA CallerKeeps ==
    ASSUME OwnershipInv, RecoverTypeOK, RecoverInv, NEW t \in Thread,
           LockedCall(t) \/ RClose(t) \/ CallerSteps(t)
    PROVE  RecoverInv'
<1>0. /\ PollThread \in AllThreads /\ PollThread # t /\ t \in AllThreads
      /\ PollThread # None /\ None \notin Thread
  BY ThreadsDiffer, RecoverableOptions DEF AllThreads
<1> USE DEF OwnershipInv, TypeOK, RecoverTypeOK, RecoverInv, PollThreadPlace, CallersLock,
            CloserPlace, Flushed, clientVars, threadVars, recordVars
<1>1. CASE LockedCall(t)
  <2>1. /\ \A u \in AllThreads \ {t} : act'[u] = act[u] /\ sendPc'[u] = sendPc[u]
        /\ act[t] = "idle" /\ act'[t] \in {"idle", "sync", "flush"}
        /\ sendPc'[t] # "none" => act'[t] \in {"idle", "sync"}
    BY <1>0, <1>1
    DEF LockedCall, Call, Query, Free, send, syncSend, StartSend, flush, purge, vars
  <2>2. mutex = None /\ mutex' = t /\ closer = None /\ UNCHANGED <<pollPc, closePc, closer>>
    BY <1>1 DEF LockedCall, Lock
  <2>3. PollThreadPlace'
    BY <1>0, <2>1, <2>2 DEF AllThreads, ClosingActs
  <2>4. CallersLock'
    BY <1>0, <2>1, <2>2 DEF AllThreads, ClosingActs
  <2>5. CloserPlace'
    BY <1>0, <2>1, <2>2 DEF AllThreads, ClosingActs
  <2>6. Flushed'
    BY <1>0, <2>1, <2>2 DEF AllThreads, ClosingActs
  <2> QED BY <2>3, <2>4, <2>5, <2>6
<1>2. CASE RClose(t)
  BY <1>0, <1>2 DEF RClose, Free, vars, Over, ClosingActs
<1>3. CASE Unlock(t)
  <2>1. PollThreadPlace'
    BY <1>0, <1>3 DEF Unlock, CallReturned, Free, vars, Over, AllThreads, ClosingActs
  <2>2. CallersLock'
    BY <1>0, <1>3 DEF Unlock, CallReturned, Free, vars, Over, AllThreads, ClosingActs
  <2>3. CloserPlace'
    BY <1>0, <1>3 DEF Unlock, CallReturned, Free, vars, Over, AllThreads, ClosingActs
  <2>4. Flushed'
    BY <1>0, <1>3 DEF Unlock, CallReturned, Free, vars, Over, AllThreads, ClosingActs
  <2> QED BY <2>1, <2>2, <2>3, <2>4
<1>4. CASE RCloseLocked(t)
  <2>1. PollThreadPlace'
    BY <1>0, <1>4 DEF RCloseLocked, Joined, Lock, close, Free, AllThreads, ClosingActs
  <2>2. CallersLock'
    BY <1>0, <1>4 DEF RCloseLocked, Joined, Lock, close, Free, AllThreads, ClosingActs
  <2>3. CloserPlace'
    BY <1>0, <1>4 DEF RCloseLocked, Joined, Lock, close, Free, AllThreads, ClosingActs
  <2>4. Flushed'
    BY <1>0, <1>4 DEF RCloseLocked, Joined, Lock, close, Free, AllThreads, ClosingActs
  <2> QED BY <2>1, <2>2, <2>3, <2>4
<1>5. CASE RCloseReturns(t)
  <2>1. PollThreadPlace'
    BY <1>0, <1>5 DEF RCloseReturns, vars, Over, AllThreads, ClosingActs
  <2>2. CallersLock'
    BY <1>0, <1>5 DEF RCloseReturns, vars, Over, AllThreads, ClosingActs
  <2>3. CloserPlace'
    BY <1>0, <1>5 DEF RCloseReturns, vars, Over, AllThreads, ClosingActs
  <2>4. Flushed'
    BY <1>0, <1>5 DEF RCloseReturns, vars, Over, AllThreads, ClosingActs
  <2> QED BY <2>1, <2>2, <2>3, <2>4
<1> QED BY <1>1, <1>2, <1>3, <1>4, <1>5 DEF CallerSteps

LEMMA RecoverStep ==
    OwnershipInv /\ RecoverTypeOK /\ RecoverInv /\ [RNext]_rvars => RecoverInv'
<1> SUFFICES ASSUME OwnershipInv, RecoverTypeOK, RecoverInv, [RNext]_rvars
             PROVE  RecoverInv'
  OBVIOUS
<1>1. ASSUME UNCHANGED <<act, sendPc, mutex, pollPc, closePc, closer>>,
             \A r \in Record : Over(r) => Over(r)'
      PROVE  RecoverInv'
  BY <1>1 DEF RecoverInv, PollThreadPlace, CallersLock, CloserPlace, Flushed
<1>2. CASE FatalErrorRaised \/ UNCHANGED rvars \/ \E t \in AllThreads : ErrorCallback(t)
  BY <1>1, <1>2 DEF FatalErrorRaised, ErrorCallback, rvars, recoverVars, vars, Over
<1>3. ASSUME NEW r \in Record, InnerReport(r)
      PROVE  RecoverInv'
  BY <1>1, <1>3 DEF InnerReport, Report, threadVars, recoverVars, OwnershipInv, TypeOK, Over
<1> QED BY <1>2, <1>3, InnerKeeps, PollThreadKeeps, CallerKeeps DEF RNext

(* An inner producer is destroyed, by a recovery or by close(), only when   *)
(* no thread is inside one of its methods and every record it accepted has  *)
(* had its callback: whatever the number of threads that call, with         *)
(* syncSend() allowed, and with fatal errors at any moment.                 *)
THEOREM DestroyedUnused == RSpec => ProducerDestroyedUnused
<1> DEFINE Unused ==
      /\ \A t \in AllThreads : act[t] \in {"idle", "closed"} /\ sendPc[t] = "none"
      /\ \A r \in Record : Accepted(r) => calls[r] = 1 /\ frees[r] = 1
<1>1. ASSUME OwnershipInv, RecoverTypeOK, RecoverInv, [RNext]_rvars, producers' # producers
      PROVE  Unused
  <2>1. RecreateProducer \/ \E t \in Thread : RCloseReturns(t)
    BY <1>1
    DEF RNext, FatalErrorRaised, ErrorCallback, Inner, PollThreadSteps, PollOnce, CheckFatalError,
        ResetFatalError, CloseForRecovery, PollLoopExits, LockedCall, RClose, CallerSteps, Unlock,
        RCloseLocked, InnerReport, rvars, recoverVars
  <2>2. PICK t \in AllThreads : act[t] = "closed" /\ mutex = t
    BY <1>1, <2>1
    DEF RecreateProducer, RCloseReturns, RecoverInv, PollThreadPlace, CloserPlace, AllThreads
  <2>3. \A u \in AllThreads : act[u] \in {"idle", "closed"} /\ sendPc[u] = "none"
    BY <1>1, <2>2, ThreadsDiffer
    DEF RecoverInv, PollThreadPlace, CallersLock, CloserPlace, AllThreads, ClosingActs
  <2>4. \A r \in Record : Over(r)
    BY <1>1, <2>2 DEF RecoverInv, Flushed
  <2> QED BY <1>1, <2>3, <2>4
          DEF OwnershipInv, OpaqueInv, OpaqueDeletedOnce, Over, Accepted
<1>2. OwnershipInv /\ RecoverTypeOK /\ RecoverInv /\ [RNext]_rvars
        => [producers' # producers => Unused]_rvars
  BY <1>1
<1> QED BY <1>2, OwnershipInit, OwnershipStep, RecoverInit, RecoverTypeStep, RecoverStep, PTL
        DEF RSpec, ProducerDestroyedUnused
=============================================================================
