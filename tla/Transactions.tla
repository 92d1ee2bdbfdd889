---------------------------- MODULE Transactions ----------------------------
(***************************************************************************)
(* The transactional calls of KafkaProducer.h and of                        *)
(* KafkaRecoverableProducer.h, the exceptions they throw (KafkaException.h) *)
(* and the Error these carry (Error.h), driven by an application that runs  *)
(* one transaction after the other.                                        *)
(*                                                                         *)
(* External: librdkafka's transaction state machine and its brokers.  A     *)
(* commit waits for the deliveries of the transaction; a delivery that      *)
(* failed makes the transaction one that can only be aborted; another       *)
(* producer with the same transactional.id fences this one for good.        *)
(***************************************************************************)
EXTENDS Integers, FiniteSets

CONSTANTS MaxTransactions,  \* bound: transactions the application begins
          MaxSends,         \* bound: records of a transaction
          MaxTimeouts,      \* bound: calls that time out
          MaxFatal,         \* bound: fatal errors librdkafka raises
          Styles            \* how the application answers an exception

(* "documented"   it follows the comments of Error.h: a fatal error ends it, *)
(*                an error that requires it is answered by abortTransaction, *)
(*                a retriable one by calling again, any other ends it        *)
(* "abort"        it aborts after any exception, as TestTransaction.cc does, *)
(*                and ends when that throws as well                          *)
ASSUME TransactionsConstants ==
    /\ MaxTransactions \in Nat /\ MaxSends \in Nat
    /\ MaxTimeouts \in Nat /\ MaxFatal \in Nat
    /\ Styles \subseteq {"documented", "abort"}

-----------------------------------------------------------------------------
(* An Error: librdkafka's rich error, if it has one, and the fields used    *)
(* otherwise.  Unknown is the empty optional.                              *)
Unknown == "unknown"
NoRkError == [code |-> "ok", fatal |-> FALSE, retriable |-> "no", abort |-> FALSE]
RkError(code, fatal, retriable, abort) ==
    [code |-> code, fatal |-> fatal, retriable |-> retriable, abort |-> abort]

ErrorOf(rk) == [rkError |-> rk, respErr |-> "ok", isFatal |-> FALSE,
                txnRequiresAbort |-> FALSE, isRetriable |-> Unknown]

Rich(e) == e.rkError # NoRkError
value(e) == IF Rich(e) THEN e.rkError.code ELSE e.respErr
isFatal(e) == IF Rich(e) THEN e.rkError.fatal ELSE e.isFatal
isRetriable(e) == IF Rich(e) THEN e.rkError.retriable ELSE e.isRetriable
transactionRequiresAbort(e) == IF Rich(e) THEN e.rkError.abort ELSE FALSE

(* Faulty: an Error without a rich error is taken for one to retry.         *)
CopyAlwaysRetriable(e) ==
    [rkError |-> NoRkError, respErr |-> value(e), isFatal |-> FALSE,
     txnRequiresAbort |-> transactionRequiresAbort(e), isRetriable |-> "yes"]

(* Error::operator=, which every KafkaException goes through: the rich      *)
(* error is dropped, its answers are kept in the fields.                    *)
CopyOf(e) ==
    [rkError |-> NoRkError, respErr |-> value(e), isFatal |-> isFatal(e),
     txnRequiresAbort |-> transactionRequiresAbort(e), isRetriable |-> isRetriable(e)]

KafkaException(e) == CopyOf(e)

-----------------------------------------------------------------------------
VARIABLES
    style,       \* the application's, one of Styles
    recoverable, \* the producer is a KafkaRecoverableProducer
    pc,          \* "init", "idle", "open", "aborting", or "ended"
    txn,         \* librdkafka's state, of the instance in use
    number,      \* how many transactions the application has begun
    sent,        \* what the open transaction has been given
    failed,      \* a delivery of the open transaction has failed
    visible,     \* what readers with read_committed see, per transaction
    wanted,      \* what the application put in each transaction
    reported,    \* the transactions commitTransaction() returned for
    timeouts, fatals,
    cause,       \* librdkafka's error of the last exception
    thrown       \* the Error of the last exception

appVars == <<style, recoverable, pc, number, wanted, reported>>
rkVars == <<txn, sent, failed, visible, timeouts, fatals>>
transactionsVars == <<appVars, rkVars, cause, thrown>>

Transaction == 1..MaxTransactions
Offsets == 0                \* the consumed offsets, besides the records 1..MaxSends
NoError == ErrorOf(NoRkError)

TransactionsInit ==
    /\ style \in Styles /\ recoverable \in BOOLEAN
    /\ pc = "init" /\ txn = "uninit"
    /\ number = 0 /\ sent = {} /\ failed = FALSE
    /\ visible = [t \in Transaction |-> {}]
    /\ wanted = [t \in Transaction |-> {}]
    /\ reported = {}
    /\ timeouts = 0 /\ fatals = 0
    /\ cause = NoRkError /\ thrown = NoError

StateError == RkError("state", FALSE, "no", FALSE)
FatalError == RkError("fenced", TRUE, "no", FALSE)
AbortableError == RkError("inconsistent", FALSE, "no", TRUE)
TimedOut == RkError("timed_out", FALSE, "yes", FALSE)

(* What a call refuses when librdkafka is not in a state it needs.          *)
Refusal == CASE txn = "fatal" -> FatalError
             [] txn = "abortable" -> AbortableError
             [] OTHER -> StateError

(* Where an exception e of a call made at pc takes the application.         *)
Answer(e) ==
    IF style = "abort"
    THEN IF pc = "open" THEN "aborting" ELSE "ended"
    ELSE CASE isFatal(e) -> "ended"
           [] transactionRequiresAbort(e) -> "aborting"
           [] isRetriable(e) = "yes" -> pc
           [] OTHER -> "ended"

(* KAFKA_THROW_IF_WITH_ERROR(result) with an error.                         *)
Throw(rk) ==
    /\ cause' = rk
    /\ thrown' = KafkaException(ErrorOf(rk))
    /\ pc' = Answer(KafkaException(ErrorOf(rk)))

Returns == cause' = NoRkError /\ thrown' = NoError

(* A call that times out changes nothing librdkafka would not resume.       *)
CallTimesOut ==
    /\ timeouts < MaxTimeouts
    /\ timeouts' = timeouts + 1
    /\ Throw(TimedOut)
    /\ UNCHANGED <<txn, sent, failed, visible, fatals>>

Refused(states) ==
    /\ txn \notin states
    /\ Throw(Refusal)
    /\ UNCHANGED rkVars

initTransactions ==
    /\ pc = "init"
    /\ \/ /\ txn = "uninit"
          /\ txn' = "ready"
          /\ pc' = "idle"
          /\ Returns
          /\ UNCHANGED <<sent, failed, visible, timeouts, fatals>>
       \/ txn = "uninit" /\ CallTimesOut
       \/ Refused({"uninit"})
    /\ UNCHANGED <<style, recoverable, number, wanted, reported>>

beginTransaction ==
    /\ pc = "idle" /\ number < MaxTransactions
    /\ \/ /\ txn = "ready"
          /\ txn' = "in"
          /\ number' = number + 1
          /\ pc' = "open"
          /\ Returns
          /\ sent' = {} /\ failed' = FALSE
          /\ UNCHANGED <<visible, timeouts, fatals>>
       \/ Refused({"ready"}) /\ UNCHANGED number
    /\ UNCHANGED <<style, recoverable, wanted, reported>>

(* The open transaction is given x; outside of one the call throws rk.      *)
Give(x, rk) ==
    /\ pc = "open" /\ x \notin wanted[number]
    /\ wanted' = [wanted EXCEPT ![number] = @ \cup {x}]
    /\ \/ /\ txn = "in"
          /\ sent' = sent \cup {x}
          /\ Returns
          /\ UNCHANGED <<pc, txn, failed, visible, timeouts, fatals>>
       \/ /\ txn # "in"
          /\ Throw(rk)
          /\ UNCHANGED rkVars
    /\ UNCHANGED <<style, recoverable, number, reported>>

(* send(): rd_kafka_produceva() refuses with a code and no flags.           *)
sendInTransaction ==
    \E r \in 1..MaxSends :
        Give(r, RkError(IF txn = "fatal" THEN "fatal" ELSE "state", FALSE, "no", FALSE))

sendOffsetsToTransaction == Give(Offsets, Refusal)

(* Faulty: the result of rd_kafka_commit_transaction() is not looked at.    *)
commitIgnoringResult ==
    /\ pc = "open"
    /\ pc' = "idle"
    /\ reported' = reported \cup {number}
    /\ Returns
    /\ IF txn \in {"in", "committing"} /\ ~failed
       THEN txn' = "ready" /\ visible' = [visible EXCEPT ![number] = sent] /\ sent' = {}
       ELSE UNCHANGED <<txn, visible, sent>>
    /\ UNCHANGED <<style, recoverable, number, wanted, failed, timeouts, fatals>>

(* commitTransaction(): waits for the deliveries; a timeout leaves a commit *)
(* to be resumed, which can no longer be aborted.                          *)
commitTransaction ==
    /\ pc = "open"
    /\ \/ /\ txn \in {"in", "committing"} /\ ~failed
          /\ txn' = "ready"
          /\ visible' = [visible EXCEPT ![number] = sent]
          /\ sent' = {}
          /\ reported' = reported \cup {number}
          /\ pc' = "idle"
          /\ Returns
          /\ UNCHANGED <<failed, timeouts, fatals>>
       \/ /\ txn = "in" /\ failed
          /\ txn' = "abortable"
          /\ Throw(AbortableError)
          /\ UNCHANGED <<sent, failed, visible, reported, timeouts, fatals>>
       \/ /\ txn \in {"in", "committing"} /\ ~failed
          /\ timeouts < MaxTimeouts
          /\ timeouts' = timeouts + 1
          /\ txn' = "committing"
          /\ Throw(TimedOut)
          /\ UNCHANGED <<sent, failed, visible, reported, fatals>>
       \/ Refused({"in", "committing"}) /\ UNCHANGED reported
    /\ UNCHANGED <<style, recoverable, number, wanted>>

(* abortTransaction(): what was sent is purged.                             *)
abortTransaction ==
    /\ pc = "aborting"
    /\ \/ /\ txn \in {"in", "abortable"}
          /\ txn' = "ready"
          /\ sent' = {} /\ failed' = FALSE
          /\ pc' = "idle"
          /\ Returns
          /\ UNCHANGED <<visible, timeouts, fatals>>
       \/ txn \in {"in", "abortable"} /\ CallTimesOut
       \/ Refused({"in", "abortable"})
    /\ UNCHANGED <<style, recoverable, number, wanted, reported>>

-----------------------------------------------------------------------------
(* A record of the open transaction is not delivered before its timeout.    *)
DeliveryFails ==
    /\ txn = "in" /\ sent # {} /\ ~failed
    /\ failed' = TRUE
    /\ txn' \in {"in", "abortable"}      \* noticed now, or by the commit
    /\ UNCHANGED <<appVars, sent, visible, timeouts, fatals, cause, thrown>>

FatalErrorRaised ==
    /\ txn # "fatal" /\ fatals < MaxFatal
    /\ fatals' = fatals + 1
    /\ txn' = "fatal"
    /\ sent' = {}
    /\ UNCHANGED <<appVars, failed, visible, timeouts, cause, thrown>>

(* KafkaRecoverableProducer closes the failed producer and makes another,   *)
(* under the lock every call takes; nobody calls initTransactions() on it.  *)
Recover ==
    /\ recoverable /\ txn = "fatal"
    /\ txn' = "uninit"
    /\ failed' = FALSE
    /\ UNCHANGED <<appVars, sent, visible, timeouts, fatals, cause, thrown>>

AppStep ==
    \/ initTransactions \/ beginTransaction \/ sendInTransaction \/ sendOffsetsToTransaction
    \/ commitTransaction \/ abortTransaction

TransactionsNext == AppStep \/ DeliveryFails \/ FatalErrorRaised \/ Recover

TransactionsSpec == TransactionsInit /\ [][TransactionsNext]_transactionsVars

(* The application goes on, and does not send for ever.                     *)
FairTransactionsSpec == TransactionsSpec /\ WF_transactionsVars(AppStep)

-----------------------------------------------------------------------------
(* All or nothing: readers see all the application put in a transaction,    *)
(* the consumed offsets included, or nothing; and they see it whenever      *)
(* commitTransaction() returned, whatever was raised, timed out or replaced *)
(* in the middle of the transaction.                                       *)
AllOrNothing ==
    \A t \in Transaction :
        /\ visible[t] \in {{}, wanted[t]}
        /\ t \in reported => visible[t] = wanted[t]

(* No transaction stays open: it is committed or aborted, or the            *)
(* application ends.                                                       *)
TransactionResolved == (pc \in {"open", "aborting"}) ~> (pc \in {"idle", "ended"})

(* An application that follows the comments of Error.h ends only because of *)
(* an error after which it cannot go on.                                   *)
AbortableNotGivenUp ==
    style = "documented" /\ pc = "ended" => ~cause.abort /\ cause.retriable = "no"
=============================================================================
