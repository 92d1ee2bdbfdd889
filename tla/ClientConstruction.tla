------------------------- MODULE ClientConstruction -------------------------
(***************************************************************************)
(* The constructors of KafkaClient.h, KafkaProducer.h and KafkaConsumer.h:  *)
(* the user's properties are validated and completed, split between the    *)
(* wrapper and librdkafka, and the client is opened, or an exception is     *)
(* thrown.  AdminClient adds nothing of its own.                           *)
(*                                                                         *)
(* Properties are functions from keys to strings, "absent" where there is   *)
(* no property.  A value is a numeral or a word; std::stoi() throws for a   *)
(* word.  The other spellings that a boolean has ("1" and "0", and "t" and *)
(* "f" for enable.manual.events.poll) are "true" and "false" here.          *)
(*                                                                         *)
(* External: rd_kafka_conf_set(), which rejects the values "unsupported"    *)
(* and "word", rd_kafka_brokers_add(), which finds no broker in "nowhere",  *)
(* and the calls that may fail: rd_kafka_conf_interceptor_add_on_new(),     *)
(* rd_kafka_new() and rd_kafka_poll_set_consumer().                        *)
(***************************************************************************)
EXTENDS Integers, TLC

CONSTANT Inputs     \* what the constructors are called with

Types == {"KafkaProducer", "KafkaConsumer", "AdminClient"}
Key == {"bootstrap.servers", "client.id", "log_level", "enable.manual.events.poll",
        "max.poll.records", "enable.auto.commit", "auto.commit.interval.ms",
        "enable.auto.offset.store", "group.id",
        "partitioner", "enable.idempotence", "max.in.flight", "acks", "other"}
Callback == {"log_cb", "stats_cb", "error_cb", "oauthbearer_token_refresh_cb", "interceptors"}

ASSUME InputsAreCalls ==
    \A i \in Inputs : i.type \in Types /\ DOMAIN i.given = Key /\ i.callbacks \subseteq Callback

VARIABLES
    type, given, userCbs,   \* the call's arguments
    stage,          \* where the constructors are
    thrown,         \* the exception
    props,          \* the reformed properties
    conf,           \* librdkafka's configuration, as far as it has been set
    confCbs,        \* the callbacks registered with librdkafka
    handle,         \* librdkafka's instance exists: its threads may call back
    properties,     \* _properties
    clientCbs,      \* the callbacks saved in the client
    manualPoll,     \* _enableManualEventsPoll
    enableAutoCommit, maxPollRecords,   \* the consumer's
    opened,         \* _opened
    polling,        \* _pollThread runs
    calledBack      \* the last callback of librdkafka and what became of it

args == <<type, given, userCbs>>
vars == <<type, given, userCbs, stage, thrown, props, conf, confCbs, handle, properties,
          clientCbs, manualPoll, enableAutoCommit, maxPollRecords, opened, polling, calledBack>>

Absent == "absent"
NoProperties == [k \in Key |-> Absent]
Numeral == "-1" :> -1 @@ "0" :> 0 @@ "5" :> 5 @@ "6" :> 6 @@ "7" :> 7 @@ "8" :> 8
IsNumeral(v) == v \in DOMAIN Numeral
Word(b) == IF b THEN "true" ELSE "false"

Init ==
    /\ \E i \in Inputs : type = i.type /\ given = i.given /\ userCbs = i.callbacks
    /\ stage = "validate"
    /\ thrown = "none"
    /\ props = NoProperties
    /\ conf = NoProperties
    /\ confCbs = {}
    /\ handle = FALSE
    /\ properties = NoProperties
    /\ clientCbs = {}
    /\ manualPoll = FALSE
    /\ enableAutoCommit = TRUE
    /\ maxPollRecords = "500"
    /\ opened = FALSE
    /\ polling = FALSE
    /\ calledBack = <<"none", "none">>

(* The exception leaves the constructors: what has been built is destroyed. *)
Throw(e) ==
    /\ thrown' = e
    /\ stage' = "thrown"
    /\ handle' = FALSE

-----------------------------------------------------------------------------
(* KafkaClient::validateAndReformProperties().                             *)
Default(p, k, v) == IF p[k] = Absent THEN [p EXCEPT ![k] = v] ELSE p

Reformed(p) == Default(Default(p, "client.id", "random"), "log_level", "5")

(* KafkaProducer::validateAndReformProperties().                           *)
ProducerError(p) ==
    IF p["partitioner"] = "unknown" THEN "KafkaException"
    ELSE IF p["enable.idempotence"] # "true" THEN "none"
    ELSE IF p["max.in.flight"] # Absent /\ ~IsNumeral(p["max.in.flight"]) THEN "std::exception"
    ELSE IF p["max.in.flight"] # Absent /\ Numeral[p["max.in.flight"]] > 5 THEN "KafkaException"
    ELSE IF p["acks"] \notin {Absent, "all", "-1"} THEN "KafkaException"
    ELSE "none"

(* KafkaConsumer::validateAndReformProperties(): librdkafka's own commits  *)
(* are switched off, whatever the user has asked for.                      *)
KeepsAutoCommit(p) == Default(Default(p, "enable.auto.commit", "false"),    \* faulty
                              "auto.commit.interval.ms", "0")
WithoutAutoCommit(p) ==
    [p EXCEPT !["enable.auto.commit"] = "false", !["auto.commit.interval.ms"] = "0",
              !["enable.auto.offset.store"] = "true"]

ConsumerReformed(p) ==
    WithoutAutoCommit(Default(Reformed([p EXCEPT !["max.poll.records"] = Absent]),
                              "group.id", "random"))

validateAndReformProperties ==
    /\ stage = "validate"
    /\ \/ /\ given["bootstrap.servers"] = Absent
          /\ Throw("KafkaException")
          /\ UNCHANGED props
       \/ /\ given["bootstrap.servers"] # Absent
          /\ type = "KafkaProducer" /\ ProducerError(given) # "none"
          /\ Throw(ProducerError(given))
          /\ UNCHANGED props
       \/ /\ given["bootstrap.servers"] # Absent
          /\ type = "KafkaProducer" => ProducerError(given) = "none"
          /\ props' = IF type = "KafkaConsumer" THEN ConsumerReformed(given)
                      ELSE Reformed(given)
          /\ stage' = "options"
          /\ UNCHANGED <<thrown, handle>>
    /\ UNCHANGED <<args, calledBack, conf, confCbs, properties, clientCbs, manualPoll,
                   enableAutoCommit, maxPollRecords, opened, polling>>

-----------------------------------------------------------------------------
(* KafkaClient's constructor: the options of the wrapper itself.           *)
ValidLogLevel(v) == IsNumeral(v) /\ Numeral[v] \in 0..7

options ==
    /\ stage = "options"
    /\ clientCbs' = userCbs \cap {"log_cb"}
    /\ IF /\ ValidLogLevel(props["log_level"])
          /\ props["enable.manual.events.poll"] \in {Absent, "true", "false"}
       THEN /\ manualPoll' = (props["enable.manual.events.poll"] = "true")
            /\ stage' = "configure"
            /\ UNCHANGED <<thrown, handle>>
       ELSE Throw("KafkaException") /\ UNCHANGED manualPoll
    /\ UNCHANGED <<args, calledBack, props, conf, confCbs, properties, enableAutoCommit,
                   maxPollRecords, opened, polling>>

(* Its configuration of librdkafka: a property that librdkafka refuses is  *)
(* logged and ignored; the callbacks are saved before they are registered. *)
PrivateKeys == {"max.poll.records", "enable.manual.events.poll"}
Accepted(k) == props[k] \notin {"unsupported", "word"}
AcceptsAll(k) == TRUE                               \* faulty
Recorded(k) == k \in PrivateKeys \/ Accepted(k)

NotSaved == {}                                      \* faulty
SavedCbs == userCbs

ExtraCbs == CASE type = "KafkaProducer" -> {"dr_msg_cb"}
              [] type = "KafkaConsumer" -> {"rebalance_cb"}
              [] OTHER                  -> {}

configure ==
    /\ stage = "configure"
    /\ conf' = [k \in Key |->
                  IF k \notin PrivateKeys /\ Accepted(k) THEN props[k] ELSE Absent]
    /\ properties' = [k \in Key |-> IF Recorded(k) THEN props[k] ELSE Absent]
    /\ clientCbs' = clientCbs \cup SavedCbs
    /\ \/ /\ confCbs' = userCbs \cup ExtraCbs
          /\ stage' = "create"
          /\ UNCHANGED <<thrown, handle>>
       \/ /\ "interceptors" \in userCbs
          /\ confCbs' = userCbs \ {"interceptors"}
          /\ Throw("KafkaException")
    /\ UNCHANGED <<args, calledBack, props, manualPoll, enableAutoCommit, maxPollRecords, opened,
                   polling>>

(* rd_kafka_new(), then the brokers.                                       *)
create ==
    /\ stage = "create"
    /\ \/ handle' = TRUE /\ stage' = "brokers" /\ UNCHANGED thrown
       \/ Throw("KafkaException")
    /\ UNCHANGED <<args, calledBack, props, conf, confCbs, properties, clientCbs, manualPoll,
                   enableAutoCommit, maxPollRecords, opened, polling>>

addBrokers ==
    /\ stage = "brokers"
    /\ IF props["bootstrap.servers"] = "nowhere"
       THEN Throw("KafkaException") /\ UNCHANGED opened
       ELSE /\ opened' = TRUE
            /\ stage' = "derived"
            /\ UNCHANGED <<thrown, handle>>
    /\ UNCHANGED <<args, calledBack, props, conf, confCbs, properties, clientCbs, manualPoll,
                   enableAutoCommit, maxPollRecords, polling>>

-----------------------------------------------------------------------------
(* KafkaConsumer's own constructor reads the user's properties again.      *)
consumerOptions ==
    /\ stage = "derived"
    /\ type = "KafkaConsumer"
    /\ IF given["max.poll.records"] # Absent /\ ~IsNumeral(given["max.poll.records"])
       THEN Throw("std::exception") /\ UNCHANGED <<enableAutoCommit, maxPollRecords, properties>>
       ELSE IF given["enable.auto.commit"] \notin {Absent, "true", "false"}
       THEN Throw("KafkaException") /\ UNCHANGED <<enableAutoCommit, maxPollRecords, properties>>
       ELSE /\ maxPollRecords' = IF given["max.poll.records"] = Absent THEN maxPollRecords
                                 ELSE given["max.poll.records"]
            /\ enableAutoCommit' = (given["enable.auto.commit"] # "false")
            /\ properties' = [properties EXCEPT !["max.poll.records"] = maxPollRecords',
                                                !["enable.auto.commit"] = Word(enableAutoCommit')]
            /\ stage' = "queues"
            /\ UNCHANGED <<thrown, handle>>
    /\ UNCHANGED <<args, calledBack, props, conf, confCbs, clientCbs, manualPoll, opened, polling>>

consumerQueues ==
    /\ stage = "queues"
    /\ \/ stage' = "poll" /\ UNCHANGED <<thrown, handle>>
       \/ Throw("KafkaException")
    /\ UNCHANGED <<args, calledBack, props, conf, confCbs, properties, clientCbs, manualPoll,
                   enableAutoCommit, maxPollRecords, opened, polling>>

(* startBackgroundPollingIfNecessary(), the last step of the constructor   *)
(* of a producer or a consumer.                                            *)
StartsPolling == ~manualPoll

startPolling ==
    /\ \/ stage = "derived" /\ type = "KafkaProducer"
       \/ stage = "poll"
    /\ polling' = StartsPolling
    /\ stage' = "constructed"
    /\ UNCHANGED <<args, calledBack, thrown, props, conf, confCbs, handle, properties, clientCbs,
                   manualPoll, enableAutoCommit, maxPollRecords, opened>>

adminClient ==
    /\ stage = "derived"
    /\ type = "AdminClient"
    /\ stage' = "constructed"
    /\ UNCHANGED <<args, calledBack, thrown, props, conf, confCbs, handle, properties, clientCbs,
                   manualPoll, enableAutoCommit, maxPollRecords, opened, polling>>

(* A thread of librdkafka calls back: the static callback finds the client  *)
(* and hands on to the user's, if it has been saved.  The OAuth one answers *)
(* in any case, with a token or with a failure.                             *)
Outcomes(cb) ==
    IF cb = "oauthbearer_token_refresh_cb"
    THEN {"failure"} \cup (IF cb \in clientCbs THEN {"token"} ELSE {})
    ELSE IF cb \in clientCbs THEN {"user"} ELSE {"dropped"}

RdkafkaCallback(cb) ==
    /\ handle
    /\ cb \in confCbs \cap Callback
    /\ calledBack[1] = "none"
    /\ \E o \in Outcomes(cb) : calledBack' = <<cb, o>>
    /\ UNCHANGED <<args, stage, thrown, props, conf, confCbs, handle, properties, clientCbs,
                   manualPoll, enableAutoCommit, maxPollRecords, opened, polling>>

Next ==
    \/ \E cb \in Callback : RdkafkaCallback(cb)
    \/ validateAndReformProperties \/ options \/ configure \/ create \/ addBrokers
    \/ consumerOptions \/ consumerQueues \/ startPolling \/ adminClient

Spec == Init /\ [][Next]_vars

-----------------------------------------------------------------------------
Constructed == stage = "constructed"

(* A consumer's offsets are committed by the wrapper or by nobody: a       *)
(* consumer that comes out of its constructor has librdkafka's auto-commit *)
(* off, and its own on unless the user has turned it off.                  *)
SoleCommitter ==
    Constructed /\ type = "KafkaConsumer" =>
        /\ conf["enable.auto.commit"] = "false"
        /\ conf["auto.commit.interval.ms"] = "0"
        /\ enableAutoCommit <=> given["enable.auto.commit"] # "false"

(* KafkaClient::getProperty(): a property that is not recorded is looked   *)
(* up in librdkafka's configuration.                                       *)
getProperty(k) == IF properties[k] # Absent THEN properties[k] ELSE conf[k]

InForce(k) ==
    CASE k = "enable.auto.commit" /\ type = "KafkaConsumer" -> Word(enableAutoCommit)
      [] k = "max.poll.records" /\ type = "KafkaConsumer"   -> maxPollRecords
      [] k = "enable.manual.events.poll" /\ manualPoll      -> "true"
      [] k = "enable.manual.events.poll" /\ ~manualPoll     -> given[k]
      [] OTHER                                              -> conf[k]

(* getProperty() reports what is in force: the wrapper's own options as     *)
(* the wrapper uses them, any other property as librdkafka has it, also    *)
(* when librdkafka has refused the user's value.  ("max.poll.records"      *)
(* means nothing to a client that is not a consumer.)                      *)
ReportedIsInForce ==
    Constructed =>
        \A k \in Key : \/ getProperty(k) = InForce(k)
                       \/ k = "max.poll.records" /\ type # "KafkaConsumer"

(* librdkafka's threads call back as soon as its instance exists, inside    *)
(* the constructor (log lines, statistics, interceptors of thread starts):  *)
(* no callback the user has asked for is ever lost.                         *)
CallbacksReady == calledBack[2] # "dropped"
=============================================================================
