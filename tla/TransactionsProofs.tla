------------------------- MODULE TransactionsProofs -------------------------
(***************************************************************************)
(* Proofs about Transactions, for any number of transactions, records,      *)
(* timeouts and fatal errors, and whichever way the application answers an  *)
(* exception.                                                              *)
(***************************************************************************)
EXTENDS Transactions, TLAPS

TransactionsTypeOK ==
    /\ style \in Styles /\ recoverable \in BOOLEAN
    /\ pc \in {"init", "idle", "open", "aborting", "ended"}
    /\ txn \in {"uninit", "ready", "in", "committing", "abortable", "fatal"}
    /\ number \in 0..MaxTransactions /\ (pc = "open" => number > 0)
    /\ sent \in SUBSET (0..MaxSends) /\ failed \in BOOLEAN
    /\ visible \in [Transaction -> SUBSET (0..MaxSends)]
    /\ wanted \in [Transaction -> SUBSET (0..MaxSends)]
    /\ reported \in SUBSET Transaction
    /\ timeouts \in 0..MaxTimeouts /\ fatals \in 0..MaxFatal

(* Why AllOrNothing holds.  A transaction that has not been begun is empty. *)
(* While one is open its readers see nothing; and as long as librdkafka can *)
(* still commit it, librdkafka has been given just what the application put *)
(* in it, since a call that is refused takes the application out of the     *)
(* transaction.                                                             *)
NotBegunIsEmpty ==
    \A t \in Transaction :
        t > number => wanted[t] = {} /\ visible[t] = {} /\ t \notin reported

OpenIsHidden ==
    pc = "open" => visible[number] = {} /\ number \notin reported

OpenIsComplete ==
    pc = "open" /\ txn \in {"in", "committing"} => sent = wanted[number]

TransactionsInv == AllOrNothing /\ NotBegunIsEmpty /\ OpenIsHidden /\ OpenIsComplete

-----------------------------------------------------------------------------
(* Error::operator= keeps what value(), isFatal() and isRetriable() answer, *)
(* and keeps it when it is applied again, as an exception is copied.  What  *)
(* transactionRequiresAbort() answered is lost, whatever it was.            *)
THEOREM ErrorSurvivesCopy ==
    ASSUME NEW e
    PROVE  /\ value(CopyOf(e)) = value(e)
           /\ isFatal(CopyOf(e)) = isFatal(e)
           /\ isRetriable(CopyOf(e)) = isRetriable(e)
           /\ transactionRequiresAbort(CopyOf(e)) = FALSE
  BY DEF CopyOf, Rich, value, isFatal, isRetriable, transactionRequiresAbort

-----------------------------------------------------------------------------
(* An exception never puts the application into a transaction, and one that *)
(* is not to be retried takes it out of the one it is in.                   *)
NoFlags(code) == RkError(code, FALSE, "no", FALSE)
Raised == {FatalError, AbortableError, TimedOut} \cup {NoFlags(c) : c \in {"state", "fatal"}}

LEMMA ThrowLeaves ==
    ASSUME NEW rk \in Raised, Throw(rk)
    PROVE  /\ pc' \in {pc, "aborting", "ended"}
           /\ rk # TimedOut => pc' \in {"aborting", "ended"}
<1> DEFINE e == KafkaException(ErrorOf(rk))
<1>1. /\ rk.fatal \in BOOLEAN
      /\ rk # NoRkError
      /\ rk # TimedOut => rk.retriable = "no"
  <2>1. rk.code # NoRkError.code
    BY DEF Raised, NoFlags, FatalError, AbortableError, TimedOut, RkError, NoRkError
  <2>2. rk.fatal = TRUE \/ rk.fatal = FALSE
    BY DEF Raised, NoFlags, FatalError, AbortableError, TimedOut, RkError
  <2>3. rk # TimedOut => rk.retriable = "no"
    BY DEF Raised, NoFlags, FatalError, AbortableError, RkError
  <2> QED BY <2>1, <2>2, <2>3
<1>2. /\ isFatal(e) = rk.fatal
      /\ isRetriable(e) = rk.retriable
      /\ transactionRequiresAbort(e) = FALSE
  <2>1. /\ isFatal(ErrorOf(rk)) = rk.fatal
        /\ isRetriable(ErrorOf(rk)) = rk.retriable
    BY <1>1 DEF ErrorOf, Rich, isFatal, isRetriable
  <2> QED BY <2>1, ErrorSurvivesCopy DEF KafkaException
<1>3. pc' = Answer(e)
  BY DEF Throw
<1> HIDE DEF e
<1> QED BY <1>1, <1>2, <1>3 DEF Answer

LEMMA RefusalIsRaised == Refusal \in Raised /\ Refusal # TimedOut
  BY DEF Refusal, Raised, NoFlags, FatalError, AbortableError, StateError, TimedOut, RkError

LEMMA TimedOutIsRaised == TimedOut \in Raised
  BY DEF Raised

LEMMA AbortableIsRaised == AbortableError \in Raised /\ AbortableError # TimedOut
  BY DEF Raised, AbortableError, TimedOut, RkError

LEMMA SendRefusalIsRaised ==
    ASSUME NEW rk, rk = RkError(IF txn = "fatal" THEN "fatal" ELSE "state", FALSE, "no", FALSE)
    PROVE  rk \in Raised /\ rk # TimedOut
  BY DEF Raised, NoFlags, TimedOut, RkError

-----------------------------------------------------------------------------
LEMMA TransactionsTypeInit == TransactionsInit => TransactionsTypeOK
<1> SUFFICES ASSUME TransactionsInit PROVE TransactionsTypeOK
  OBVIOUS
<1>1. recoverable \in BOOLEAN /\ failed \in BOOLEAN
  BY DEF TransactionsInit
<1> QED BY <1>1, TransactionsConstants DEF TransactionsInit, TransactionsTypeOK

LEMMA TransactionsTypeStep ==
    ASSUME TransactionsTypeOK, [TransactionsNext]_transactionsVars
    PROVE  TransactionsTypeOK'
<1> USE TransactionsConstants DEF TransactionsTypeOK, appVars, rkVars
<1>1. CASE initTransactions
  <2>1. CASE CallTimesOut
    <3>1. pc' \in {pc, "aborting", "ended"}
      BY <2>1, ThrowLeaves, TimedOutIsRaised DEF CallTimesOut
    <3> QED BY <1>1, <2>1, <3>1 DEF initTransactions, CallTimesOut
  <2>2. CASE Refused({"uninit"})
    <3>1. pc' \in {"aborting", "ended"}
      BY <2>2, ThrowLeaves, RefusalIsRaised DEF Refused
    <3> QED BY <1>1, <2>2, <3>1 DEF initTransactions, Refused
  <2>3. CASE ~CallTimesOut /\ ~Refused({"uninit"})
    BY <1>1, <2>3 DEF initTransactions
  <2> QED BY <2>1, <2>2, <2>3
<1>2. CASE beginTransaction
  <2>1. CASE Refused({"ready"})
    <3>1. pc' \in {"aborting", "ended"}
      BY <2>1, ThrowLeaves, RefusalIsRaised DEF Refused
    <3> QED BY <1>2, <2>1, <3>1 DEF beginTransaction, Refused
  <2>2. CASE ~Refused({"ready"})
    <3>1. number' \in 0..MaxTransactions /\ number' > 0
      BY <1>2, <2>2 DEF beginTransaction
    <3>2. failed' \in BOOLEAN
      BY <1>2, <2>2 DEF beginTransaction
    <3> QED BY <1>2, <2>2, <3>1, <3>2 DEF beginTransaction
  <2> QED BY <2>1, <2>2
<1>3. ASSUME NEW x \in 0..MaxSends, NEW rk \in Raised, rk # TimedOut, Give(x, rk)
      PROVE  TransactionsTypeOK'
  <2>1. ASSUME Throw(rk) PROVE pc' \in {"aborting", "ended"}
    BY <1>3, <2>1, ThrowLeaves
  <2> QED BY <1>3, <2>1 DEF Give
<1>4. CASE sendInTransaction
  <2> DEFINE rk == RkError(IF txn = "fatal" THEN "fatal" ELSE "state", FALSE, "no", FALSE)
  <2>1. PICK r \in 1..MaxSends : Give(r, rk)
    BY <1>4 DEF sendInTransaction
  <2>2. rk \in Raised /\ rk # TimedOut
    BY SendRefusalIsRaised
  <2>3. r \in 0..MaxSends
    OBVIOUS
  <2> HIDE DEF rk
  <2> QED BY <1>3, <2>1, <2>2, <2>3
<1>5. CASE sendOffsetsToTransaction
  <2>1. Offsets \in 0..MaxSends
    BY DEF Offsets
  <2> QED BY <1>3, <1>5, <2>1, RefusalIsRaised DEF sendOffsetsToTransaction
<1>6. CASE commitTransaction
  <2>0. number \in Transaction
    BY <1>6 DEF commitTransaction, Transaction
  <2>1. CASE Throw(AbortableError) \/ Throw(TimedOut) \/ Refused({"in", "committing"})
    <3>1. pc' \in {pc, "aborting", "ended"}
      BY <2>1, ThrowLeaves, AbortableIsRaised, TimedOutIsRaised, RefusalIsRaised DEF Refused
    <3>2. timeouts' \in 0..MaxTimeouts
      BY <1>6 DEF commitTransaction, Refused
    <3>3. reported' \in SUBSET Transaction /\ sent' \in {{}, sent}
      BY <1>6, <2>0 DEF commitTransaction, Refused
    <3>4. txn' \in {"ready", "committing", "abortable", txn}
      BY <1>6 DEF commitTransaction, Refused
    <3>5. visible' \in [Transaction -> SUBSET (0..MaxSends)]
      BY <1>6, <2>0, <2>1 DEF commitTransaction, Refused
    <3> QED BY <1>6, <2>0, <2>1, <3>1, <3>2, <3>3, <3>4, <3>5 DEF commitTransaction, Refused
  <2>2. CASE ~(Throw(AbortableError) \/ Throw(TimedOut) \/ Refused({"in", "committing"}))
    BY <1>6, <2>0, <2>2 DEF commitTransaction
  <2> QED BY <2>1, <2>2
<1>7. CASE abortTransaction
  <2>1. CASE CallTimesOut \/ Refused({"in", "abortable"})
    <3>1. pc' \in {pc, "aborting", "ended"}
      BY <2>1, ThrowLeaves, TimedOutIsRaised, RefusalIsRaised DEF CallTimesOut, Refused
    <3>2. pc' # "open"
      BY <1>7, <3>1 DEF abortTransaction
    <3>3. timeouts' \in 0..MaxTimeouts
      BY <1>7, <2>1 DEF abortTransaction, CallTimesOut, Refused
    <3> QED BY <1>7, <2>1, <3>1, <3>2, <3>3 DEF abortTransaction, CallTimesOut, Refused
  <2>2. CASE ~CallTimesOut /\ ~Refused({"in", "abortable"})
    BY <1>7, <2>2 DEF abortTransaction
  <2> QED BY <2>1, <2>2
<1>8. CASE DeliveryFails
  BY <1>8 DEF DeliveryFails
<1>9. CASE FatalErrorRaised
  BY <1>9 DEF FatalErrorRaised
<1>10. CASE Recover
  BY <1>10 DEF Recover
<1>11. CASE UNCHANGED transactionsVars
  BY <1>11 DEF transactionsVars
<1> QED BY <1>1, <1>2, <1>4, <1>5, <1>6, <1>7, <1>8, <1>9, <1>10, <1>11
        DEF TransactionsNext, AppStep

(* Whatever the constants are, every variable stays within its type.        *)
THEOREM TypeCorrect == TransactionsSpec => []TransactionsTypeOK
<1>1. TransactionsInit => TransactionsTypeOK
  BY TransactionsTypeInit
<1>2. TransactionsTypeOK /\ [TransactionsNext]_transactionsVars => TransactionsTypeOK'
  BY TransactionsTypeStep
<1> QED BY <1>1, <1>2, PTL DEF TransactionsSpec

-----------------------------------------------------------------------------
(* The steps that matter to no transaction: what was asked for, seen and    *)
(* reported stays as it is, and the application enters no transaction.      *)
Untouched ==
    /\ UNCHANGED <<visible, wanted, reported, number>>
    /\ pc' = "open" => pc = "open"
    /\ pc' = "open" /\ txn' \in {"in", "committing"} =>
          txn \in {"in", "committing"} /\ sent' = sent

LEMMA UntouchedKeeps == TransactionsInv /\ Untouched => TransactionsInv'
<1> SUFFICES ASSUME TransactionsInv, Untouched PROVE TransactionsInv'
  OBVIOUS
<1>1. AllOrNothing' /\ NotBegunIsEmpty'
  BY DEF TransactionsInv, Untouched, AllOrNothing, NotBegunIsEmpty
<1>2. OpenIsHidden'
  BY DEF TransactionsInv, Untouched, OpenIsHidden
<1>3. OpenIsComplete'
  BY DEF TransactionsInv, Untouched, OpenIsComplete
<1> QED BY <1>1, <1>2, <1>3 DEF TransactionsInv

LEMMA TransactionsInvInit == TransactionsInit => TransactionsInv
  BY DEF TransactionsInit, TransactionsInv, AllOrNothing, NotBegunIsEmpty, OpenIsHidden,
         OpenIsComplete

LEMMA TransactionsInvStep ==
    ASSUME TransactionsTypeOK, TransactionsInv, [TransactionsNext]_transactionsVars
    PROVE  TransactionsInv'
<1> USE DEF appVars, rkVars
<1>1. CASE initTransactions
  <2>1. pc' # "open"
    <3>1. CASE CallTimesOut
      BY <1>1, <3>1, ThrowLeaves, TimedOutIsRaised DEF initTransactions, CallTimesOut
    <3>2. CASE Refused({"uninit"})
      BY <1>1, <3>2, ThrowLeaves, RefusalIsRaised DEF initTransactions, Refused
    <3> QED BY <1>1, <3>1, <3>2 DEF initTransactions
  <2>2. Untouched
    BY <1>1, <2>1 DEF initTransactions, CallTimesOut, Refused, Untouched
  <2> QED BY <2>2, UntouchedKeeps
<1>2. CASE beginTransaction
  <2>1. CASE Refused({"ready"})
    <3>1. pc' # "open"
      BY <2>1, ThrowLeaves, RefusalIsRaised DEF Refused
    <3>2. CASE UNCHANGED number
      <4>1. Untouched
        BY <1>2, <2>1, <3>1, <3>2 DEF beginTransaction, Refused, Untouched
      <4> QED BY <4>1, UntouchedKeeps
    <3> QED BY <1>2, <3>1, <3>2 DEF beginTransaction
  <2>2. CASE ~Refused({"ready"})
    <3>1. /\ number \in Nat /\ number' = number + 1 /\ number' \in Transaction
          /\ UNCHANGED <<visible, wanted, reported>> /\ sent' = {}
      <4>1. /\ number \in 0..MaxTransactions /\ number < MaxTransactions
            /\ number' = number + 1
            /\ UNCHANGED <<visible, wanted, reported>> /\ sent' = {}
        BY <1>2, <2>2 DEF beginTransaction, TransactionsTypeOK
      <4> QED BY <4>1, TransactionsConstants DEF Transaction
    <3>2. AllOrNothing'
      BY <3>1 DEF TransactionsInv, AllOrNothing
    <3>3. NotBegunIsEmpty'
      BY <3>1 DEF TransactionsInv, NotBegunIsEmpty, Transaction
    <3>4. OpenIsHidden' /\ OpenIsComplete'
      BY <3>1 DEF TransactionsInv, NotBegunIsEmpty, OpenIsHidden, OpenIsComplete
    <3> QED BY <3>2, <3>3, <3>4 DEF TransactionsInv
  <2> QED BY <2>1, <2>2
<1>3. ASSUME NEW x, NEW rk \in Raised, rk # TimedOut, Give(x, rk)
      PROVE  TransactionsInv'
  <2>1. /\ pc = "open" /\ number \in Transaction
        /\ wanted' = [wanted EXCEPT ![number] = @ \cup {x}]
        /\ UNCHANGED <<number, visible, reported>>
    BY <1>3 DEF Give, TransactionsTypeOK, Transaction
  <2>2. /\ visible[number] = {} /\ number \notin reported
        /\ \A t \in Transaction : t # number => wanted'[t] = wanted[t]
    BY <2>1 DEF TransactionsInv, OpenIsHidden, TransactionsTypeOK
  <2>3. AllOrNothing'
    BY <2>1, <2>2 DEF TransactionsInv, AllOrNothing
  <2>4. NotBegunIsEmpty'
    BY <2>1, <2>2 DEF TransactionsInv, NotBegunIsEmpty, Transaction
  <2>5. OpenIsHidden'
    BY <2>1, <2>2 DEF OpenIsHidden
  <2>6. OpenIsComplete'
    <3>1. CASE txn = "in"
      <4>1. sent = wanted[number] /\ sent' = sent \cup {x}
        BY <1>3, <2>1, <3>1 DEF Give, TransactionsInv, OpenIsComplete
      <4> QED BY <2>1, <4>1 DEF OpenIsComplete, TransactionsTypeOK
    <3>2. CASE txn # "in"
      <4>1. pc' # "open"
        BY <1>3, <3>2, ThrowLeaves DEF Give
      <4> QED BY <4>1 DEF OpenIsComplete
    <3> QED BY <3>1, <3>2
  <2> QED BY <2>3, <2>4, <2>5, <2>6 DEF TransactionsInv
<1>4. CASE sendInTransaction
  <2> DEFINE rk == RkError(IF txn = "fatal" THEN "fatal" ELSE "state", FALSE, "no", FALSE)
  <2>1. PICK r \in 1..MaxSends : Give(r, rk)
    BY <1>4 DEF sendInTransaction
  <2>2. rk \in Raised /\ rk # TimedOut
    BY SendRefusalIsRaised
  <2> HIDE DEF rk
  <2> QED BY <1>3, <2>1, <2>2
<1>5. CASE sendOffsetsToTransaction
  BY <1>3, <1>5, RefusalIsRaised DEF sendOffsetsToTransaction
<1>6. CASE commitTransaction
  <2>1. pc = "open" /\ number \in Transaction /\ UNCHANGED <<number, wanted>>
    BY <1>6 DEF commitTransaction, TransactionsTypeOK, Transaction
  <2>2. CASE reported' = reported \cup {number} /\ pc' = "idle"
             /\ txn \in {"in", "committing"}
             /\ visible' = [visible EXCEPT ![number] = sent]
    <3>1. sent = wanted[number]
      BY <2>1, <2>2 DEF TransactionsInv, OpenIsComplete
    <3>2. /\ visible'[number] = wanted[number]
          /\ \A t \in Transaction : t # number => visible'[t] = visible[t]
      BY <2>1, <2>2, <3>1 DEF TransactionsTypeOK
    <3>3. AllOrNothing'
      BY <2>1, <2>2, <3>2 DEF TransactionsInv, AllOrNothing
    <3>4. NotBegunIsEmpty'
      BY <2>1, <2>2, <3>2 DEF TransactionsInv, NotBegunIsEmpty, Transaction
    <3>5. OpenIsHidden' /\ OpenIsComplete'
      BY <2>2 DEF OpenIsHidden, OpenIsComplete
    <3> QED BY <3>3, <3>4, <3>5 DEF TransactionsInv
  <2>3. CASE /\ UNCHANGED <<visible, reported, sent>>
             /\ txn' \in {"in", "committing"} => txn \in {"in", "committing"}
    <3>1. Untouched
      BY <2>1, <2>3 DEF Untouched
    <3> QED BY <3>1, UntouchedKeeps
  <2> QED BY <1>6, <2>2, <2>3 DEF commitTransaction, Refused
<1>7. CASE abortTransaction
  <2>1. pc' # "open"
    <3>1. CASE CallTimesOut
      BY <1>7, <3>1, ThrowLeaves, TimedOutIsRaised DEF abortTransaction, CallTimesOut
    <3>2. CASE Refused({"in", "abortable"})
      BY <1>7, <3>2, ThrowLeaves, RefusalIsRaised DEF abortTransaction, Refused
    <3> QED BY <1>7, <3>1, <3>2 DEF abortTransaction
  <2>2. Untouched
    BY <1>7, <2>1 DEF abortTransaction, CallTimesOut, Refused, Untouched
  <2> QED BY <2>2, UntouchedKeeps
<1>8. CASE DeliveryFails
  <2>1. Untouched
    BY <1>8 DEF DeliveryFails, Untouched
  <2> QED BY <2>1, UntouchedKeeps
<1>9. CASE FatalErrorRaised
  <2>1. Untouched
    BY <1>9 DEF FatalErrorRaised, Untouched
  <2> QED BY <2>1, UntouchedKeeps
<1>10. CASE Recover
  <2>1. Untouched
    BY <1>10 DEF Recover, Untouched
  <2> QED BY <2>1, UntouchedKeeps
<1>11. CASE UNCHANGED transactionsVars
  <2>1. Untouched
    BY <1>11 DEF transactionsVars, Untouched
  <2> QED BY <2>1, UntouchedKeeps
<1> QED BY <1>1, <1>2, <1>4, <1>5, <1>6, <1>7, <1>8, <1>9, <1>10, <1>11
        DEF TransactionsNext, AppStep

(* All or nothing, of every transaction of KafkaProducer and of             *)
(* KafkaRecoverableProducer: readers see all that the application put in    *)
(* it or nothing, and all of it once commitTransaction() has returned,      *)
(* whatever was raised, timed out or replaced in between.                   *)
THEOREM CommitsAllOrNothing == TransactionsSpec => []AllOrNothing
<1>1. TransactionsInit => TransactionsInv
  BY TransactionsInvInit
<1>2. TransactionsTypeOK /\ TransactionsInv /\ [TransactionsNext]_transactionsVars =>
        TransactionsInv'
  BY TransactionsInvStep
<1>3. TransactionsInv => AllOrNothing
  BY DEF TransactionsInv
<1> QED BY <1>1, <1>2, <1>3, TypeCorrect, PTL DEF TransactionsSpec

=============================================================================
