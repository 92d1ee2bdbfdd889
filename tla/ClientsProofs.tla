---------------------------- MODULE ClientsProofs ---------------------------
(***************************************************************************)
(* Proofs about ClientConstruction, AdminClient and TopicsTool: for any     *)
(* constructor calls, topics, number of admin calls and command lines.      *)
(***************************************************************************)
EXTENDS TopicsTool, TLAPS

-----------------------------------------------------------------------------
(* Why SoleCommitter, ReportedIsInForce and CallbacksReady hold: what each  *)
(* stage of the constructors has established.                               *)
Reforming == {"validate", "thrown"}
Configured == {"create", "brokers", "derived", "queues", "poll", "constructed"}
ConsumerDone == {"queues", "poll", "constructed"}

StagesOK ==
    /\ stage \in {"validate", "thrown", "options", "configure"} \cup Configured
    /\ stage \in {"queues", "poll"} => type = "KafkaConsumer"
    /\ manualPoll \in BOOLEAN /\ enableAutoCommit \in BOOLEAN
    /\ DOMAIN given = Key /\ DOMAIN props = Key /\ DOMAIN conf = Key /\ DOMAIN properties = Key

PropsReformed ==
    stage \notin Reforming =>
        /\ \A k \in {"bootstrap.servers", "enable.manual.events.poll"} : props[k] = given[k]
        /\ type = "KafkaConsumer" => /\ props["enable.auto.commit"] = "false"
                                     /\ props["auto.commit.interval.ms"] = "0"

PollAsAsked ==
    stage \in Configured \cup {"configure"} =>
        (manualPoll <=> given["enable.manual.events.poll"] = "true")

ConfAsReformed ==
    stage \in Configured =>
        /\ \A k \in PrivateKeys : conf[k] = Absent
        /\ type = "KafkaConsumer" => /\ conf["enable.auto.commit"] = "false"
                                     /\ conf["auto.commit.interval.ms"] = "0"
        /\ properties["enable.manual.events.poll"] = given["enable.manual.events.poll"]

ConsumerHas == type = "KafkaConsumer" /\ stage \in ConsumerDone

RecordedAsSet ==
    stage \in Configured =>
        /\ \A k \in Key \ PrivateKeys :
               properties[k] = conf[k] \/ (ConsumerHas /\ k = "enable.auto.commit")
        /\ ConsumerHas =>
               /\ enableAutoCommit <=> given["enable.auto.commit"] # "false"
               /\ properties["enable.auto.commit"] = Word(enableAutoCommit)
               /\ properties["max.poll.records"] = maxPollRecords

BrokersFound ==
    stage \in ConsumerDone \cup {"derived"} => given["bootstrap.servers"] # "nowhere"

CallbacksSaved ==
    /\ confCbs \cap Callback \subseteq clientCbs
    /\ stage \in {"validate", "options", "configure"} => confCbs = {}
    /\ CallbacksReady

ConstructionInv ==
    /\ StagesOK /\ PropsReformed /\ PollAsAsked /\ ConfAsReformed /\ RecordedAsSet
    /\ BrokersFound /\ CallbacksSaved

(* A property set with EXCEPT, and Default().                               *)
LEMMA SetProperty ==
    ASSUME NEW p, DOMAIN p = Key, NEW k \in Key, NEW v
    PROVE  /\ DOMAIN [p EXCEPT ![k] = v] = Key
           /\ [p EXCEPT ![k] = v][k] = v
           /\ \A j \in Key : j # k => [p EXCEPT ![k] = v][j] = p[j]
  OBVIOUS

LEMMA DefaultProperty ==
    ASSUME NEW p, DOMAIN p = Key, NEW k \in Key, NEW v
    PROVE  /\ DOMAIN Default(p, k, v) = Key
           /\ \A j \in Key : j # k => Default(p, k, v)[j] = p[j]
  BY SetProperty DEF Default

LEMMA ReformedKeeps ==
    ASSUME NEW p, DOMAIN p = Key
    PROVE  /\ DOMAIN Reformed(p) = Key
           /\ \A j \in Key \ {"client.id", "log_level"} : Reformed(p)[j] = p[j]
<1>1. "client.id" \in Key /\ "log_level" \in Key
  BY DEF Key
<1> DEFINE q == Default(p, "client.id", "random")
<1>2. DOMAIN q = Key /\ \A j \in Key : j # "client.id" => q[j] = p[j]
  BY <1>1, DefaultProperty
<1> HIDE DEF q
<1>3. /\ DOMAIN Default(q, "log_level", "5") = Key
      /\ \A j \in Key : j # "log_level" => Default(q, "log_level", "5")[j] = q[j]
  BY <1>1, <1>2, DefaultProperty
<1> QED BY <1>2, <1>3 DEF Reformed, q

LEMMA ConsumerReformedHas ==
    ASSUME NEW p, DOMAIN p = Key
    PROVE  /\ DOMAIN ConsumerReformed(p) = Key
           /\ ConsumerReformed(p)["enable.auto.commit"] = "false"
           /\ ConsumerReformed(p)["auto.commit.interval.ms"] = "0"
           /\ \A j \in {"bootstrap.servers", "enable.manual.events.poll"} :
                 ConsumerReformed(p)[j] = p[j]
<1>1. {"max.poll.records", "group.id", "enable.auto.commit", "auto.commit.interval.ms",
       "enable.auto.offset.store", "bootstrap.servers", "enable.manual.events.poll"} \subseteq Key
  BY DEF Key
<1> DEFINE p1 == [p EXCEPT !["max.poll.records"] = Absent]
           p2 == Reformed(p1)
           p3 == Default(p2, "group.id", "random")
<1>2. DOMAIN p1 = Key /\ \A j \in Key : j # "max.poll.records" => p1[j] = p[j]
  BY <1>1, SetProperty
<1> HIDE DEF p1
<1>3. DOMAIN p2 = Key /\ \A j \in Key \ {"client.id", "log_level"} : p2[j] = p1[j]
  BY <1>2, ReformedKeeps
<1> HIDE DEF p2
<1>4. DOMAIN p3 = Key /\ \A j \in Key : j # "group.id" => p3[j] = p2[j]
  BY <1>1, <1>3, DefaultProperty
<1>5. ConsumerReformed(p) = WithoutAutoCommit(p3)
  BY DEF ConsumerReformed, p1, p2
<1> HIDE DEF p3
<1>6. /\ DOMAIN WithoutAutoCommit(p3) = Key
      /\ WithoutAutoCommit(p3)["enable.auto.commit"] = "false"
      /\ WithoutAutoCommit(p3)["auto.commit.interval.ms"] = "0"
      /\ \A j \in {"bootstrap.servers", "enable.manual.events.poll"} :
            WithoutAutoCommit(p3)[j] = p3[j]
  BY <1>1, <1>4 DEF WithoutAutoCommit
<1> QED BY <1>1, <1>2, <1>3, <1>4, <1>5, <1>6

LEMMA ConstructionInit == Init => ConstructionInv
<1> SUFFICES ASSUME Init PROVE ConstructionInv
  OBVIOUS
<1>1. StagesOK
  BY InputsAreCalls DEF Init, StagesOK, NoProperties
<1>2. CallbacksSaved
  BY DEF Init, CallbacksSaved, CallbacksReady
<1>3. stage = "validate"
  BY DEF Init
<1> QED
  BY <1>1, <1>2, <1>3
  DEF ConstructionInv, PropsReformed, PollAsAsked, ConfAsReformed, RecordedAsSet, BrokersFound,
      Reforming, Configured, ConsumerDone

(* A step to "thrown" that changes no property and no callback.             *)
LEMMA ThrowingKeeps ==
    ASSUME ConstructionInv, stage' = "thrown",
           UNCHANGED <<args, calledBack, props, conf, properties>>,
           manualPoll' \in BOOLEAN, enableAutoCommit' \in BOOLEAN,
           confCbs' \cap Callback \subseteq clientCbs'
    PROVE  ConstructionInv'
<1>1. StagesOK'
  BY DEF ConstructionInv, StagesOK, args, Configured
<1>2. CallbacksSaved'
  BY DEF ConstructionInv, CallbacksSaved, CallbacksReady
<1> QED
  BY <1>1, <1>2
  DEF ConstructionInv, PropsReformed, PollAsAsked, ConfAsReformed, RecordedAsSet, BrokersFound,
      Reforming, Configured, ConsumerDone

(* A step between two stages that have established the same.               *)
LEMMA PassingKeeps ==
    ASSUME ConstructionInv, stage \in Configured, stage' \in Configured,
           stage' \in {"queues", "poll"} => type = "KafkaConsumer",
           type = "KafkaConsumer" => (stage \in ConsumerDone <=> stage' \in ConsumerDone),
           stage' \in ConsumerDone \cup {"derived"} => stage \in ConsumerDone \cup {"derived"},
           UNCHANGED <<args, calledBack, props, conf, confCbs, properties, clientCbs, manualPoll,
                       enableAutoCommit, maxPollRecords>>
    PROVE  ConstructionInv'
<1>1. StagesOK'
  BY DEF ConstructionInv, StagesOK, args
<1>2. PropsReformed' /\ PollAsAsked'
  BY DEF ConstructionInv, PropsReformed, PollAsAsked, args, Reforming, Configured
<1>3. ConfAsReformed'
  BY DEF ConstructionInv, ConfAsReformed, args
<1>4. RecordedAsSet'
  BY DEF ConstructionInv, RecordedAsSet, ConsumerHas, args
<1>5. BrokersFound'
  BY DEF ConstructionInv, BrokersFound, args
<1>6. CallbacksSaved'
  BY DEF ConstructionInv, CallbacksSaved, CallbacksReady, Configured
<1> QED BY <1>1, <1>2, <1>3, <1>4, <1>5, <1>6 DEF ConstructionInv

LEMMA ConstructionStep ==
    ASSUME ConstructionInv, [Next]_vars
    PROVE  ConstructionInv'
<1>0. StagesOK
  BY DEF ConstructionInv
<1>1. CASE validateAndReformProperties
  <2>1. CASE stage' = "thrown" /\ UNCHANGED props
    BY <1>0, <1>1, <2>1, ThrowingKeeps
    DEF validateAndReformProperties, StagesOK, ConstructionInv, CallbacksSaved
  <2>2. CASE /\ stage' = "options"
             /\ props' = IF type = "KafkaConsumer" THEN ConsumerReformed(given)
                         ELSE Reformed(given)
    <3>1. /\ DOMAIN props' = Key
          /\ \A k \in {"bootstrap.servers", "enable.manual.events.poll"} : props'[k] = given[k]
          /\ type = "KafkaConsumer" => /\ props'["enable.auto.commit"] = "false"
                                       /\ props'["auto.commit.interval.ms"] = "0"
      <4>1. DOMAIN given = Key
        BY <1>0 DEF StagesOK
      <4>2. CASE type = "KafkaConsumer"
        BY <2>2, <4>1, <4>2, ConsumerReformedHas
      <4>3. CASE type # "KafkaConsumer"
        <5>1. {"bootstrap.servers", "enable.manual.events.poll"} \subseteq
                 Key \ {"client.id", "log_level"}
          BY DEF Key
        <5> QED BY <2>2, <4>1, <4>3, <5>1, ReformedKeeps
      <4> QED BY <4>2, <4>3
    <3>2. UNCHANGED <<args, calledBack, conf, confCbs, properties, clientCbs, manualPoll,
                      enableAutoCommit, maxPollRecords>> /\ stage = "validate"
      BY <1>1 DEF validateAndReformProperties
    <3>3. StagesOK'
      BY <1>0, <2>2, <3>1, <3>2 DEF StagesOK, args
    <3>4. PropsReformed'
      BY <3>1, <3>2 DEF PropsReformed, args
    <3>5. CallbacksSaved'
      BY <3>2 DEF ConstructionInv, CallbacksSaved, CallbacksReady
    <3> QED
      BY <2>2, <3>3, <3>4, <3>5
      DEF ConstructionInv, PollAsAsked, ConfAsReformed, RecordedAsSet, BrokersFound,
          Configured, ConsumerDone
  <2> QED BY <1>1, <2>1, <2>2 DEF validateAndReformProperties, Throw
<1>2. CASE options
  <2>1. /\ stage = "options" /\ confCbs' = {}
        /\ UNCHANGED <<args, calledBack, props, conf, confCbs, properties, enableAutoCommit,
                       maxPollRecords>>
    BY <1>2 DEF options, ConstructionInv, CallbacksSaved
  <2>2. CASE stage' = "thrown" /\ UNCHANGED manualPoll
    BY <1>0, <2>1, <2>2, ThrowingKeeps DEF StagesOK
  <2>3. CASE stage' = "configure" /\ manualPoll' = (props["enable.manual.events.poll"] = "true")
    <3>1. StagesOK' /\ PropsReformed'
      BY <1>0, <2>1, <2>3 DEF StagesOK, ConstructionInv, PropsReformed, args, Reforming
    <3>2. PollAsAsked'
      BY <2>1, <2>3 DEF ConstructionInv, PropsReformed, PollAsAsked, args, Reforming
    <3>3. CallbacksSaved'
      BY <2>1 DEF ConstructionInv, CallbacksSaved, CallbacksReady
    <3> QED
      BY <2>3, <3>1, <3>2, <3>3
      DEF ConstructionInv, ConfAsReformed, RecordedAsSet, BrokersFound, Configured, ConsumerDone
  <2> QED BY <1>2, <2>2, <2>3 DEF options, Throw
<1>3. CASE configure
  <2> DEFINE conf1 == [k \in Key |->
                         IF k \notin PrivateKeys /\ Accepted(k) THEN props[k] ELSE Absent]
             properties1 == [k \in Key |-> IF Recorded(k) THEN props[k] ELSE Absent]
  <2>1. /\ stage = "configure" /\ conf' = conf1 /\ properties' = properties1
        /\ clientCbs' = clientCbs \cup userCbs
        /\ UNCHANGED <<args, calledBack, props, manualPoll, enableAutoCommit, maxPollRecords>>
    BY <1>3 DEF configure, SavedCbs
  <2>2. confCbs' \cap Callback \subseteq clientCbs'
    <3>1. ExtraCbs \cap Callback = {}
      BY DEF ExtraCbs, Callback
    <3> QED BY <1>3, <2>1, <3>1 DEF configure
  <2>3. StagesOK' /\ PropsReformed' /\ PollAsAsked' /\ CallbacksSaved'
    <3>1. stage' \in {"create", "thrown"}
      BY <1>3 DEF configure, Throw
    <3>2. StagesOK'
      BY <1>0, <2>1, <3>1 DEF StagesOK, Configured, args
    <3>3. PropsReformed' /\ PollAsAsked'
      BY <2>1, <3>1
      DEF ConstructionInv, PropsReformed, PollAsAsked, args, Reforming, Configured
    <3>4. CallbacksSaved'
      BY <2>1, <2>2, <3>1 DEF ConstructionInv, CallbacksSaved, CallbacksReady
    <3> QED BY <3>2, <3>3, <3>4
  <2>4. CASE stage' = "create"
    <3>1. ConfAsReformed'
      BY <2>1 DEF ConstructionInv, PropsReformed, ConfAsReformed, args, Key, PrivateKeys,
                  Accepted, Recorded, Reforming
    <3>2. RecordedAsSet'
      BY <2>1, <2>4 DEF RecordedAsSet, ConsumerHas, ConsumerDone, Recorded
    <3> QED BY <2>3, <2>4, <3>1, <3>2 DEF ConstructionInv, BrokersFound, ConsumerDone
  <2>5. CASE stage' = "thrown"
    BY <2>3, <2>5
    DEF ConstructionInv, ConfAsReformed, RecordedAsSet, BrokersFound, Configured, ConsumerDone
  <2> QED BY <1>3, <2>4, <2>5 DEF configure, Throw
<1>4. CASE create
  <2>1. CASE stage' = "thrown"
    BY <1>0, <1>4, <2>1, ThrowingKeeps DEF create, StagesOK, ConstructionInv, CallbacksSaved
  <2>2. CASE stage' = "brokers"
    BY <1>0, <1>4, <2>2, PassingKeeps DEF create, Configured, ConsumerDone
  <2> QED BY <1>4, <2>1, <2>2 DEF create, Throw
<1>5. CASE addBrokers
  <2>1. CASE stage' = "thrown"
    BY <1>0, <1>5, <2>1, ThrowingKeeps DEF addBrokers, StagesOK, ConstructionInv, CallbacksSaved
  <2>2. CASE stage' = "derived" /\ props["bootstrap.servers"] # "nowhere"
    <3>1. /\ stage = "brokers"
          /\ UNCHANGED <<args, calledBack, props, conf, confCbs, properties, clientCbs, manualPoll,
                         enableAutoCommit, maxPollRecords>>
      BY <1>5 DEF addBrokers
    <3>2. StagesOK' /\ PropsReformed' /\ PollAsAsked'
      BY <2>2, <3>1
      DEF ConstructionInv, StagesOK, PropsReformed, PollAsAsked, args, Reforming, Configured
    <3>3. ConfAsReformed'
      BY <3>1 DEF ConstructionInv, ConfAsReformed, args, Configured
    <3>4. RecordedAsSet'
      BY <2>2, <3>1
      DEF ConstructionInv, RecordedAsSet, ConsumerHas, ConsumerDone, Configured, args
    <3>5. BrokersFound'
      BY <2>2, <3>1 DEF ConstructionInv, PropsReformed, BrokersFound, Reforming, args
    <3>6. CallbacksSaved'
      BY <2>2, <3>1 DEF ConstructionInv, CallbacksSaved, CallbacksReady
    <3> QED BY <3>2, <3>3, <3>4, <3>5, <3>6 DEF ConstructionInv
  <2> QED BY <1>5, <2>1, <2>2 DEF addBrokers, Throw
<1>6. CASE consumerOptions
  <2>1. /\ stage = "derived" /\ type = "KafkaConsumer"
        /\ UNCHANGED <<args, calledBack, props, conf, confCbs, clientCbs, manualPoll>>
    BY <1>6 DEF consumerOptions
  <2>2. CASE stage' = "thrown" /\ UNCHANGED <<enableAutoCommit, maxPollRecords, properties>>
    BY <1>0, <2>1, <2>2, ThrowingKeeps DEF StagesOK, ConstructionInv, CallbacksSaved
  <2>3. CASE /\ stage' = "queues"
             /\ enableAutoCommit' = (given["enable.auto.commit"] # "false")
             /\ properties' = [properties EXCEPT
                                  !["max.poll.records"] = maxPollRecords',
                                  !["enable.auto.commit"] = Word(enableAutoCommit')]
    <3>1. /\ DOMAIN properties' = Key
          /\ properties'["max.poll.records"] = maxPollRecords'
          /\ properties'["enable.auto.commit"] = Word(enableAutoCommit')
          /\ \A k \in Key : k \notin {"max.poll.records", "enable.auto.commit"} =>
                properties'[k] = properties[k]
      BY <1>0, <2>3 DEF StagesOK, Key
    <3>2. StagesOK'
      BY <1>0, <2>1, <2>3, <3>1 DEF StagesOK, Configured, args
    <3>3. PropsReformed' /\ PollAsAsked'
      BY <2>1, <2>3
      DEF ConstructionInv, PropsReformed, PollAsAsked, args, Reforming, Configured
    <3>4. ConfAsReformed'
      BY <2>1, <3>1 DEF ConstructionInv, ConfAsReformed, args, Configured, Key
    <3>5. RecordedAsSet'
      <4>1. \A k \in Key \ PrivateKeys : properties[k] = conf[k]
        BY <2>1 DEF ConstructionInv, RecordedAsSet, Configured, ConsumerHas, ConsumerDone
      <4> QED
        BY <2>1, <2>3, <3>1, <4>1
        DEF RecordedAsSet, ConsumerHas, ConsumerDone, args, PrivateKeys
    <3>6. BrokersFound'
      BY <2>1 DEF ConstructionInv, BrokersFound, args
    <3>7. CallbacksSaved'
      BY <2>1, <2>3 DEF ConstructionInv, CallbacksSaved, CallbacksReady
    <3> QED BY <3>2, <3>3, <3>4, <3>5, <3>6, <3>7 DEF ConstructionInv
  <2> QED BY <1>6, <2>2, <2>3 DEF consumerOptions, Throw
<1>7. CASE consumerQueues
  <2>1. CASE stage' = "thrown"
    BY <1>0, <1>7, <2>1, ThrowingKeeps
    DEF consumerQueues, StagesOK, ConstructionInv, CallbacksSaved
  <2>2. CASE stage' = "poll"
    BY <1>0, <1>7, <2>2, PassingKeeps DEF consumerQueues, StagesOK, Configured, ConsumerDone
  <2> QED BY <1>7, <2>1, <2>2 DEF consumerQueues, Throw
<1>8. CASE startPolling
  BY <1>0, <1>8, PassingKeeps DEF startPolling, StagesOK, Configured, ConsumerDone
<1>9. CASE adminClient
  BY <1>9, PassingKeeps DEF adminClient, Configured, ConsumerDone
<1>10. ASSUME NEW cb \in Callback, RdkafkaCallback(cb)
       PROVE  ConstructionInv'
  <2>1. UNCHANGED <<args, stage, props, conf, confCbs, properties, clientCbs, manualPoll,
                    enableAutoCommit, maxPollRecords>>
    BY <1>10 DEF RdkafkaCallback
  <2>2. cb \in clientCbs
    BY <1>10 DEF RdkafkaCallback, ConstructionInv, CallbacksSaved
  <2>3. calledBack'[2] # "dropped"
    BY <1>10, <2>2 DEF RdkafkaCallback, Outcomes
  <2>4. CallbacksSaved'
    BY <2>1, <2>3 DEF ConstructionInv, CallbacksSaved, CallbacksReady
  <2>5. StagesOK' /\ PropsReformed' /\ PollAsAsked'
    BY <2>1 DEF ConstructionInv, StagesOK, PropsReformed, PollAsAsked, args
  <2>6. ConfAsReformed' /\ BrokersFound'
    BY <2>1 DEF ConstructionInv, ConfAsReformed, BrokersFound, args
  <2>7. RecordedAsSet'
    BY <2>1 DEF ConstructionInv, RecordedAsSet, ConsumerHas, args
  <2> QED BY <2>4, <2>5, <2>6, <2>7 DEF ConstructionInv
<1>11. CASE UNCHANGED vars
  <2>1. UNCHANGED <<args, stage, props, conf, confCbs, properties, clientCbs, manualPoll,
                    enableAutoCommit, maxPollRecords, calledBack>>
    BY <1>11 DEF vars, args
  <2>2. StagesOK' /\ PropsReformed' /\ PollAsAsked'
    BY <2>1 DEF ConstructionInv, StagesOK, PropsReformed, PollAsAsked, args
  <2>3. ConfAsReformed' /\ BrokersFound'
    BY <2>1 DEF ConstructionInv, ConfAsReformed, BrokersFound, args
  <2>4. RecordedAsSet'
    BY <2>1 DEF ConstructionInv, RecordedAsSet, ConsumerHas, args
  <2>5. CallbacksSaved'
    BY <2>1 DEF ConstructionInv, CallbacksSaved, CallbacksReady
  <2> QED BY <2>2, <2>3, <2>4, <2>5 DEF ConstructionInv
<1> QED
  BY <1>1, <1>2, <1>3, <1>4, <1>5, <1>6, <1>7, <1>8, <1>9, <1>10, <1>11 DEF Next

(* What a constructed client has.                                           *)
LEMMA ConstructionMeans ==
    ASSUME ConstructionInv
    PROVE  SoleCommitter /\ ReportedIsInForce /\ CallbacksReady
<1>1. SoleCommitter
  BY DEF SoleCommitter, Constructed, ConstructionInv, ConfAsReformed, RecordedAsSet, ConsumerHas,
         Configured, ConsumerDone
<1>2. ReportedIsInForce
  <2> SUFFICES ASSUME Constructed, NEW k \in Key,
                      ~(k = "max.poll.records" /\ type # "KafkaConsumer")
               PROVE  getProperty(k) = InForce(k)
    BY DEF ReportedIsInForce
  <2>1. stage \in Configured /\ stage \in ConsumerDone
    BY DEF Constructed, Configured, ConsumerDone
  <2>2. CASE k = "enable.auto.commit" /\ type = "KafkaConsumer"
    <3>1. properties[k] = Word(enableAutoCommit)
      BY <2>1, <2>2 DEF ConstructionInv, RecordedAsSet, ConsumerHas
    <3> QED BY <2>2, <3>1 DEF getProperty, InForce, Word, Absent
  <2>3. CASE k = "max.poll.records"
    <3>1. properties[k] = maxPollRecords /\ conf[k] = Absent /\ type = "KafkaConsumer"
      BY <2>1, <2>3
      DEF ConstructionInv, RecordedAsSet, ConfAsReformed, ConsumerHas, PrivateKeys
    <3> QED BY <2>3, <3>1 DEF getProperty, InForce
  <2>4. CASE k = "enable.manual.events.poll"
    <3>1. /\ properties[k] = given[k] /\ conf[k] = Absent
          /\ manualPoll <=> given[k] = "true"
      BY <2>1, <2>4 DEF ConstructionInv, ConfAsReformed, PollAsAsked, PrivateKeys
    <3> QED BY <2>4, <3>1 DEF getProperty, InForce
  <2>5. CASE /\ k \notin PrivateKeys
             /\ ~(k = "enable.auto.commit" /\ type = "KafkaConsumer")
    <3>1. properties[k] = conf[k]
      BY <2>1, <2>5 DEF ConstructionInv, RecordedAsSet, ConsumerHas
    <3> QED BY <2>5, <3>1 DEF getProperty, InForce, PrivateKeys
  <2> QED BY <2>2, <2>3, <2>4, <2>5 DEF PrivateKeys
<1>3. CallbacksReady
  BY DEF ConstructionInv, CallbacksSaved
<1> QED BY <1>1, <1>2, <1>3

LEMMA ConstructionHolds == Spec => []ConstructionInv
<1>1. Init => ConstructionInv
  BY ConstructionInit
<1>2. ConstructionInv /\ [Next]_vars => ConstructionInv'
  BY ConstructionStep
<1> QED BY <1>1, <1>2, PTL DEF Spec

(* However a consumer is constructed, librdkafka's auto-commit is off in    *)
(* it, and the wrapper's own is on unless the user has turned it off.       *)
THEOREM WrapperAloneCommits == Spec => []SoleCommitter
<1>1. ConstructionInv => SoleCommitter
  BY ConstructionMeans
<1> QED BY <1>1, ConstructionHolds, PTL

(* getProperty() of a constructed client reports what is in force, whatever *)
(* the user gave and librdkafka refused.                                    *)
THEOREM GetPropertyIsTrue == Spec => []ReportedIsInForce
<1>1. ConstructionInv => ReportedIsInForce
  BY ConstructionMeans
<1> QED BY <1>1, ConstructionHolds, PTL

(* No callback of librdkafka, made while the constructors still run or      *)
(* later, misses the user's.                                                *)
THEOREM NoCallbackLost == Spec => []CallbacksReady
<1>1. ConstructionInv => CallbacksReady
  BY ConstructionMeans
<1> QED BY <1>1, ConstructionHolds, PTL

-----------------------------------------------------------------------------
(* Why ResultIsReal holds.  Only the request of a call puts a result on its *)
(* queue, once, and what that result says is what was applied; nothing is   *)
(* applied for the call after it, so it is still true when it is looked at. *)
AdminTypeOK ==
    /\ pc \in {"idle", "build", "wait", "combine", "metadata"}
    /\ call \in 0..MaxCalls /\ op \in Operations /\ topics \in SUBSET Topic
    /\ expired \in BOOLEAN
    /\ answer \in Events \cup {NoAnswer}
    /\ names \in SUBSET Topic
    /\ queue \in [Calls -> SUBSET Events]
    /\ requests \in SUBSET [call : Calls, op : Operations, topics : SUBSET Topic]
    /\ existing \in SUBSET Topic
    /\ applied \in [Calls -> SUBSET Topic]
    /\ pc # "idle" => call > 0

Outstanding == \E r \in requests : r.call = call

NoFutureCalls ==
    /\ \A r \in requests : r.call <= call
    /\ \A c \in Calls : c > call => queue[c] = {} /\ applied[c] = {}

RequestsAsCalled ==
    /\ \A r \in requests : r.call = call => /\ r.op = op /\ op # "listTopics"
                                           /\ r.topics = topics
    /\ op = "listTopics" => topics = {}

NotSentYet == pc = "build" => applied[call] = {} /\ queue[call] = {} /\ ~Outstanding

AnswerIsReal(e) ==
    e.kind = "result" =>
        ~Outstanding /\ (~e.error => e.failed \subseteq topics /\ applied[call] = topics \ e.failed)

AnswersAreReal ==
    /\ call > 0 => \A e \in queue[call] : AnswerIsReal(e)
    /\ pc \in {"combine", "metadata"} => answer.kind = "result" /\ AnswerIsReal(answer)
    /\ pc = "metadata" => ~answer.error /\ answer.failed = {}

SuccessIsFinal ==
    pc = "idle" /\ result = "NO_ERROR" => call > 0 /\ ~Outstanding /\ applied[call] = topics

AdminInv ==
    NoFutureCalls /\ RequestsAsCalled /\ NotSentYet /\ AnswersAreReal /\ SuccessIsFinal

LEMMA AdminTypeInit == AdminInit => AdminTypeOK
<1> SUFFICES ASSUME AdminInit PROVE AdminTypeOK
  OBVIOUS
<1>1. expired \in BOOLEAN /\ answer \in Events \cup {NoAnswer}
  BY DEF AdminInit
<1> QED BY <1>1, MaxCallsIsNatural DEF AdminInit, AdminTypeOK, Operations

LEMMA AdminTypeStep ==
    ASSUME AdminTypeOK, [AdminNext]_adminVars
    PROVE  AdminTypeOK'
<1> USE DEF clientVars, brokerVars
<1>0. call > 0 => call \in Calls
  BY MaxCallsIsNatural DEF AdminTypeOK, Calls
<1>1. ASSUME NEW o \in Operations, NEW ts \in SUBSET Topic, start(o, ts)
      PROVE  AdminTypeOK'
  <2>1. call' \in 0..MaxCalls /\ call' > 0
    BY <1>1, MaxCallsIsNatural DEF start, AdminTypeOK
  <2>2. expired' \in BOOLEAN /\ answer' \in Events \cup {NoAnswer}
    BY <1>1 DEF start
  <2> QED BY <1>1, <2>1, <2>2 DEF start, AdminTypeOK
<1>2. CASE InvalidArgument
  BY <1>2 DEF InvalidArgument, Returns, AdminTypeOK
<1>3. CASE Submit
  <2>1. [call |-> call, op |-> op, topics |-> topics]
           \in [call : Calls, op : Operations, topics : SUBSET Topic]
    BY <1>0, <1>3 DEF Submit, AdminTypeOK
  <2>2. requests' \in SUBSET [call : Calls, op : Operations, topics : SUBSET Topic]
    BY <1>3, <2>1 DEF Submit, AdminTypeOK
  <2> QED BY <1>3, <2>2 DEF Submit, AdminTypeOK
<1>4. CASE TopicsListed \/ ListFails
  BY <1>4 DEF TopicsListed, ListFails, Returns, AdminTypeOK
<1>5. ASSUME NEW c \in OwnQueue, NEW e \in Events, GotResult(c, e)
      PROVE  AdminTypeOK'
  BY <1>5 DEF GotResult, AdminTypeOK
<1>6. ASSUME NEW c \in OwnQueue, NEW e \in Events, GotOther(c, e)
      PROVE  AdminTypeOK'
  BY <1>6 DEF GotOther, Returns, AdminTypeOK
<1>7. CASE GotNothing
  BY <1>7 DEF GotNothing, Returns, AdminTypeOK
<1>8. CASE Combine
  BY <1>8 DEF Combine, Returns, AdminTypeOK
<1>9. CASE MetadataFetched \/ MetadataFails
  BY <1>9 DEF MetadataFetched, MetadataFails, Returns, AdminTypeOK
<1>10. CASE Expire
  BY <1>10 DEF Expire, AdminTypeOK
<1>11. ASSUME NEW r \in requests, NEW failed \in SUBSET Topic, Apply(r, failed)
       PROVE  AdminTypeOK'
  <2>1. r.call \in Calls /\ r.topics \in SUBSET Topic
    BY DEF AdminTypeOK
  <2>2. \A b \in BOOLEAN, f \in SUBSET Topic : Answer(b, f) \in Events
    BY DEF Answer, Events
  <2>3. queue' \in [Calls -> SUBSET Events]
    <3>1. PICK e \in {Answer(FALSE, failed), Answer(TRUE, {})} :
             queue' = [queue EXCEPT ![r.call] = @ \cup {e}]
      BY <1>11 DEF Apply
    <3>2. e \in Events
      BY <2>2
    <3> QED BY <2>1, <3>1, <3>2 DEF AdminTypeOK
  <2>4. existing' \in SUBSET Topic
    BY <1>11, <2>1 DEF Apply, After, AdminTypeOK
  <2>5. applied' \in [Calls -> SUBSET Topic]
    BY <1>11, <2>1 DEF Apply, AdminTypeOK
  <2> QED BY <1>11, <2>3, <2>4, <2>5 DEF Apply, AdminTypeOK
<1>12. ASSUME NEW r \in requests, RequestFails(r)
       PROVE  AdminTypeOK'
  <2>1. Answer(TRUE, {}) \in Events
    BY DEF Answer, Events
  <2>2. queue' \in [Calls -> SUBSET Events]
    BY <1>12, <2>1 DEF RequestFails, AdminTypeOK
  <2> QED BY <1>12, <2>2 DEF RequestFails, AdminTypeOK
<1>13. CASE StrayEvent
  <2>1. OtherEvent \in Events
    BY DEF Events
  <2>2. queue' \in [Calls -> SUBSET Events]
    BY <1>13, <2>1 DEF StrayEvent, AdminTypeOK
  <2> QED BY <1>13, <2>2 DEF StrayEvent, AdminTypeOK
<1>14. CASE UNCHANGED adminVars
  BY <1>14 DEF adminVars, AdminTypeOK
<1>15. CASE AnyCall
  BY <1>1, <1>15
  DEF AnyCall, createTopics, deleteTopics, deleteRecords, listTopics, Operations
<1> QED
  BY <1>2, <1>3, <1>4, <1>5, <1>6, <1>7, <1>8, <1>9, <1>10, <1>11, <1>12, <1>13, <1>14, <1>15
  DEF AdminNext, AdminProgress, CallSteps

LEMMA AdminInvInit == AdminInit => AdminInv
  BY DEF AdminInit, AdminInv, NoFutureCalls, RequestsAsCalled, NotSentYet, AnswersAreReal,
         SuccessIsFinal

(* A step of the call that leaves the request, the queue and the brokers    *)
(* alone keeps what is true of them.                                        *)
LEMMA CallGoesOn ==
    ASSUME AdminInv, UNCHANGED <<call, op, topics, queue, requests, applied>>,
           pc' = "build" => pc = "build",
           pc' \in {"combine", "metadata"} =>
              /\ answer' = answer /\ pc \in {"combine", "metadata"}
              /\ pc' = "metadata" => ~answer.error /\ answer.failed = {},
           pc' = "idle" /\ result' = "NO_ERROR" =>
              call > 0 /\ ~Outstanding /\ applied[call] = topics
    PROVE  AdminInv'
<1>1. Outstanding' <=> Outstanding
  BY DEF Outstanding
<1>2. NoFutureCalls' /\ RequestsAsCalled'
  BY DEF AdminInv, NoFutureCalls, RequestsAsCalled
<1>3. NotSentYet' /\ SuccessIsFinal'
  BY <1>1 DEF AdminInv, NotSentYet, SuccessIsFinal
<1>4. AnswersAreReal'
  BY <1>1 DEF AdminInv, AnswersAreReal, AnswerIsReal
<1> QED BY <1>2, <1>3, <1>4 DEF AdminInv

LEMMA AdminInvStep ==
    ASSUME AdminTypeOK, AdminInv, [AdminNext]_adminVars
    PROVE  AdminInv'
<1> USE DEF clientVars, brokerVars
<1>0. /\ call > 0 => call \in Calls
      /\ pc # "idle" => call > 0
  BY MaxCallsIsNatural DEF AdminTypeOK, Calls
<1>1. ASSUME NEW o \in Operations, NEW ts \in SUBSET Topic, start(o, ts),
             o = "listTopics" => ts = {}
      PROVE  AdminInv'
  <2>1. /\ call' = call + 1 /\ call' \in Calls /\ call \in Nat
        /\ op' = o /\ topics' = ts /\ pc' = "build" /\ result' = "none"
        /\ UNCHANGED <<queue, requests, applied>>
    BY <1>1, MaxCallsIsNatural DEF start, AdminTypeOK, Calls
  <2>2. \A r \in requests : r.call \in Nat /\ r.call <= call
    BY DEF AdminTypeOK, Calls, AdminInv, NoFutureCalls
  <2>3. ~Outstanding' /\ queue[call'] = {} /\ applied[call'] = {}
    BY <2>1, <2>2 DEF Outstanding, AdminInv, NoFutureCalls
  <2>4. NoFutureCalls'
    BY <2>1, <2>2 DEF AdminInv, NoFutureCalls, Calls
  <2>5. RequestsAsCalled'
    BY <1>1, <2>1, <2>3 DEF RequestsAsCalled, Outstanding
  <2> QED BY <2>1, <2>3, <2>4, <2>5 DEF AdminInv, NotSentYet, AnswersAreReal, SuccessIsFinal
<1>2. CASE InvalidArgument
  BY <1>2, CallGoesOn DEF InvalidArgument, Returns
<1>3. CASE Submit
  <2> DEFINE q == [call |-> call, op |-> op, topics |-> topics]
  <2>1. /\ requests' = requests \cup {q} /\ pc = "build" /\ pc' = "wait" /\ op # "listTopics"
        /\ call \in Calls /\ call > 0 /\ UNCHANGED <<call, op, topics, queue, applied>>
    BY <1>0, <1>3 DEF Submit
  <2>2. q.call = call /\ q.op = op /\ q.topics = topics
    OBVIOUS
  <2>3. queue[call] = {} /\ applied[call] = {} /\ ~Outstanding
    BY <2>1 DEF AdminInv, NotSentYet
  <2> HIDE DEF q
  <2>4. NoFutureCalls'
    BY <2>1, <2>2 DEF AdminInv, NoFutureCalls, AdminTypeOK
  <2>5. RequestsAsCalled'
    BY <2>1, <2>2 DEF AdminInv, RequestsAsCalled
  <2> QED BY <2>1, <2>3, <2>4, <2>5 DEF AdminInv, NotSentYet, AnswersAreReal, SuccessIsFinal
<1>4. CASE TopicsListed
  <2>1. call > 0 /\ ~Outstanding /\ applied[call] = topics
    BY <1>0, <1>4 DEF TopicsListed, AdminInv, NotSentYet, RequestsAsCalled
  <2> QED BY <1>4, <2>1, CallGoesOn DEF TopicsListed, Returns
<1>5. CASE ListFails
  BY <1>5, CallGoesOn DEF ListFails, Returns
<1>6. ASSUME NEW c \in OwnQueue, NEW e \in Events, GotResult(c, e)
      PROVE  AdminInv'
  <2>1. /\ c = call /\ call \in Calls /\ call > 0 /\ pc' = "combine" /\ answer' = e
        /\ e \in queue[call] /\ e.kind = "result"
        /\ queue' = [queue EXCEPT ![call] = @ \ {e}]
        /\ UNCHANGED <<call, op, topics, requests, applied>>
    BY <1>0, <1>6 DEF GotResult, OwnQueue
  <2>2. /\ queue'[call] \subseteq queue[call]
        /\ \A d \in Calls : d # call => queue'[d] = queue[d]
    BY <2>1 DEF AdminTypeOK
  <2>3. Outstanding' <=> Outstanding
    BY <2>1 DEF Outstanding
  <2>4. NoFutureCalls'
    BY <2>1, <2>2 DEF AdminInv, NoFutureCalls, Calls
  <2>5. RequestsAsCalled'
    BY <2>1 DEF AdminInv, RequestsAsCalled
  <2>6. AnswersAreReal'
    BY <2>1, <2>2, <2>3 DEF AdminInv, AnswersAreReal, AnswerIsReal
  <2> QED BY <2>1, <2>4, <2>5, <2>6 DEF AdminInv, NotSentYet, SuccessIsFinal
<1>7. ASSUME NEW c \in OwnQueue, NEW e \in Events, GotOther(c, e)
      PROVE  AdminInv'
  <2>1. /\ c = call /\ call \in Calls /\ call > 0 /\ pc = "wait"
        /\ queue' = [queue EXCEPT ![call] = @ \ {e}]
        /\ pc' = "wait" \/ (pc' = "idle" /\ result' = "TIMED_OUT")
        /\ UNCHANGED <<call, op, topics, requests, applied>>
    BY <1>0, <1>7 DEF GotOther, OwnQueue, Returns
  <2>2. /\ queue'[call] \subseteq queue[call]
        /\ \A d \in Calls : d # call => queue'[d] = queue[d]
    BY <2>1 DEF AdminTypeOK
  <2>3. Outstanding' <=> Outstanding
    BY <2>1 DEF Outstanding
  <2>4. NoFutureCalls'
    BY <2>1, <2>2 DEF AdminInv, NoFutureCalls, Calls
  <2>5. RequestsAsCalled'
    BY <2>1 DEF AdminInv, RequestsAsCalled
  <2>6. AnswersAreReal'
    BY <2>1, <2>2, <2>3 DEF AdminInv, AnswersAreReal, AnswerIsReal
  <2> QED BY <2>1, <2>4, <2>5, <2>6 DEF AdminInv, NotSentYet, SuccessIsFinal
<1>8. CASE GotNothing
  BY <1>8, CallGoesOn DEF GotNothing, Returns
<1>9. CASE Combine
  <2>1. /\ pc = "combine" /\ UNCHANGED <<call, op, topics, answer, queue, requests, applied>>
        /\ call > 0 /\ answer.kind = "result" /\ AnswerIsReal(answer)
    BY <1>0, <1>9 DEF Combine, AdminInv, AnswersAreReal
  <2>2. combineErrors = "NO_ERROR" => ~answer.error /\ answer.failed = {}
    BY DEF combineErrors, PerTopicErrors
  <2>3. CASE pc' = "metadata" /\ combineErrors = "NO_ERROR"
    BY <2>1, <2>2, <2>3, CallGoesOn
  <2>4. CASE pc' = "idle" /\ result' = combineErrors
    <3>1. result' = "NO_ERROR" => ~Outstanding /\ applied[call] = topics
      BY <2>1, <2>2, <2>4 DEF AnswerIsReal
    <3> QED BY <2>1, <2>4, <3>1, CallGoesOn
  <2> QED BY <1>9, <2>3, <2>4 DEF Combine, Returns
<1>10. CASE MetadataFetched
  <2>1. call > 0 /\ ~Outstanding /\ applied[call] = topics
    BY <1>0, <1>10 DEF MetadataFetched, AdminInv, AnswersAreReal, AnswerIsReal
  <2> QED BY <1>10, <2>1, CallGoesOn DEF MetadataFetched, Returns
<1>11. CASE MetadataFails
  BY <1>11, CallGoesOn DEF MetadataFails, Returns
<1>12. CASE Expire
  BY <1>12, CallGoesOn DEF Expire, AdminInv, AnswersAreReal, SuccessIsFinal
<1>13. ASSUME NEW r \in requests, NEW a \in SUBSET Topic, NEW e \in Events,
              e.kind = "result", ~e.error => e.failed \subseteq r.topics /\ a = r.topics \ e.failed,
              requests' = requests \ {r},
              queue' = [queue EXCEPT ![r.call] = @ \cup {e}],
              \/ applied' = [applied EXCEPT ![r.call] = a]
              \/ e.error /\ UNCHANGED applied,
              UNCHANGED clientVars
       PROVE  AdminInv'
  <2>1. r.call \in Calls /\ r.call <= call /\ call \in Nat
    BY DEF AdminTypeOK, AdminInv, NoFutureCalls
  <2>2. /\ queue'[r.call] = queue[r.call] \cup {e}
        /\ ~e.error => applied'[r.call] = a
        /\ \A c \in Calls : c # r.call => queue'[c] = queue[c] /\ applied'[c] = applied[c]
    BY <1>13, <2>1 DEF AdminTypeOK
  <2>3. NoFutureCalls'
    BY <1>13, <2>1, <2>2 DEF AdminInv, NoFutureCalls, Calls
  <2>4. RequestsAsCalled'
    BY <1>13 DEF AdminInv, RequestsAsCalled
  <2>5. CASE r.call = call
    <3>1. /\ Outstanding /\ call > 0 /\ r.topics = topics /\ r.op = op
      BY <2>1, <2>5 DEF Outstanding, Calls, AdminInv, RequestsAsCalled
    <3>2. ~Outstanding'
      <4>1. \A q \in requests : q.call = call => q = r
        BY <2>5 DEF AdminTypeOK, AdminInv, RequestsAsCalled
      <4> QED BY <1>13, <4>1 DEF Outstanding
    <3>3. pc \in {"idle", "wait"} /\ ~(pc = "idle" /\ result = "NO_ERROR")
      BY <3>1 DEF AdminTypeOK, AdminInv, NotSentYet, AnswersAreReal, AnswerIsReal, SuccessIsFinal
    <3>4. \A q \in queue[call] : q.kind # "result"
      BY <3>1 DEF AdminInv, AnswersAreReal, AnswerIsReal
    <3>5. AnswersAreReal'
      BY <1>13, <2>2, <2>5, <3>1, <3>2, <3>3, <3>4 DEF AnswersAreReal, AnswerIsReal
    <3> QED BY <1>13, <2>3, <2>4, <3>3, <3>5 DEF AdminInv, NotSentYet, SuccessIsFinal
  <2>6. CASE r.call # call
    <3>1. Outstanding' <=> Outstanding
      BY <1>13, <2>6 DEF Outstanding
    <3>2. call > 0 => call \in Calls /\ queue'[call] = queue[call] /\ applied'[call] = applied[call]
      BY <1>0, <2>2, <2>6
    <3>3. NotSentYet' /\ SuccessIsFinal'
      BY <1>0, <1>13, <3>1, <3>2 DEF AdminInv, NotSentYet, SuccessIsFinal
    <3>4. AnswersAreReal'
      BY <1>0, <1>13, <3>1, <3>2 DEF AdminInv, AnswersAreReal, AnswerIsReal
    <3> QED BY <2>3, <2>4, <3>3, <3>4 DEF AdminInv
  <2> QED BY <2>5, <2>6
<1>14. ASSUME NEW r \in requests, NEW failed \in SUBSET Topic, Apply(r, failed)
       PROVE  AdminInv'
  <2>1. PICK e \in {Answer(FALSE, failed), Answer(TRUE, {})} :
           queue' = [queue EXCEPT ![r.call] = @ \cup {e}]
    BY <1>14 DEF Apply
  <2>2. /\ e \in Events /\ e.kind = "result"
        /\ ~e.error => e.failed = failed
    <3>1. CASE e = Answer(FALSE, failed)
      BY <3>1 DEF Answer, Events
    <3>2. CASE e = Answer(TRUE, {})
      BY <3>2 DEF Answer, Events
    <3> QED BY <2>1, <3>1, <3>2
  <2>3. /\ failed \subseteq r.topics /\ r.topics \ failed \in SUBSET Topic
        /\ requests' = requests \ {r}
        /\ applied' = [applied EXCEPT ![r.call] = r.topics \ failed] /\ UNCHANGED clientVars
    BY <1>14 DEF Apply, AdminTypeOK
  <2> QED BY <1>13, <2>1, <2>2, <2>3
<1>15. ASSUME NEW r \in requests, RequestFails(r)
       PROVE  AdminInv'
  <2>1. Answer(TRUE, {}) \in Events /\ Answer(TRUE, {}).kind = "result" /\ Answer(TRUE, {}).error
    BY DEF Answer, Events
  <2>2. {} \in SUBSET Topic
    OBVIOUS
  <2> QED BY <1>13, <1>15, <2>1, <2>2 DEF RequestFails
<1>16. CASE StrayEvent
  <2>1. /\ pc = "wait" /\ call \in Calls /\ call > 0
        /\ queue' = [queue EXCEPT ![call] = {OtherEvent}]
        /\ UNCHANGED <<clientVars, requests, applied>>
    BY <1>0, <1>16 DEF StrayEvent
  <2>2. /\ queue'[call] = {OtherEvent} /\ OtherEvent.kind = "other"
        /\ \A d \in Calls : d # call => queue'[d] = queue[d]
    BY <2>1 DEF AdminTypeOK, OtherEvent
  <2>3. NoFutureCalls'
    BY <2>1, <2>2 DEF AdminInv, NoFutureCalls, Calls
  <2>4. RequestsAsCalled'
    BY <2>1 DEF AdminInv, RequestsAsCalled
  <2>5. AnswersAreReal'
    BY <2>1, <2>2 DEF AnswersAreReal, AnswerIsReal
  <2> QED BY <2>1, <2>3, <2>4, <2>5 DEF AdminInv, NotSentYet, SuccessIsFinal
<1>17. CASE UNCHANGED adminVars
  BY <1>17, CallGoesOn DEF adminVars, AdminInv, AnswersAreReal, SuccessIsFinal
<1>18. CASE AnyCall
  BY <1>1, <1>18
  DEF AnyCall, createTopics, deleteTopics, deleteRecords, listTopics, Operations
<1> QED
  BY <1>2, <1>3, <1>4, <1>5, <1>6, <1>7, <1>8, <1>9, <1>10, <1>11, <1>12, <1>14, <1>15, <1>16,
     <1>17, <1>18
  DEF AdminNext, AdminProgress, CallSteps

(* Of the calls alone, without the fairness.                                *)
AdminSafety == AdminInit /\ [][AdminNext]_adminVars

LEMMA AdminHolds == AdminSafety => [](AdminTypeOK /\ AdminInv)
<1>1. AdminInit => AdminTypeOK /\ AdminInv
  BY AdminTypeInit, AdminInvInit
<1>2. AdminTypeOK /\ AdminInv /\ [AdminNext]_adminVars => (AdminTypeOK /\ AdminInv)'
  BY AdminTypeStep, AdminInvStep
<1> QED BY <1>1, <1>2, PTL DEF AdminSafety

(* A step that returns from the call.                                       *)
ReturnIsReal ==
    pc # "idle" /\ pc' = "idle" =>
        /\ result' = "NO_ERROR" => topics = applied[call]
        /\ result' = "TOPIC_ERROR" => topics # applied[call]
        /\ result' = "INVALID_ARG" =>
              applied[call] = {} /\ \A r \in requests : r.call # call

LEMMA ReturnStep ==
    ASSUME AdminTypeOK, AdminInv, AdminInv', [AdminNext]_adminVars
    PROVE  ReturnIsReal
<1> SUFFICES ASSUME pc # "idle", pc' = "idle"
             PROVE  /\ result' = "NO_ERROR" => topics = applied[call]
                    /\ result' = "TOPIC_ERROR" => topics # applied[call]
                    /\ result' = "INVALID_ARG" =>
                          applied[call] = {} /\ \A r \in requests : r.call # call
  BY DEF ReturnIsReal
<1>1. UNCHANGED <<call, topics, applied, requests>>
      /\ \/ InvalidArgument
         \/ result' \in {"NO_ERROR", "TIMED_OUT"}
         \/ Combine /\ result' = combineErrors
  BY DEF AdminNext, AdminProgress, CallSteps, AnyCall, createTopics, deleteTopics, deleteRecords,
         listTopics, start, InvalidArgument, Submit, TopicsListed, ListFails, GotResult, GotOther,
         GotNothing, Combine, MetadataFetched, MetadataFails, Expire, Apply, RequestFails,
         StrayEvent, Returns, adminVars, clientVars, brokerVars
<1>2. result' = "NO_ERROR" => topics = applied[call]
  BY <1>1 DEF AdminInv, SuccessIsFinal
<1>3. result' = "TOPIC_ERROR" => topics # applied[call]
  <2> SUFFICES ASSUME result' = "TOPIC_ERROR" PROVE topics # applied[call]
    OBVIOUS
  <2>1. Combine /\ result' = combineErrors
    BY <1>1 DEF InvalidArgument, Returns
  <2>2. ~answer.error /\ answer.failed # {}
    BY <2>1 DEF combineErrors, PerTopicErrors
  <2>3. answer.failed \subseteq topics /\ applied[call] = topics \ answer.failed
    BY <2>1, <2>2 DEF Combine, AdminInv, AnswersAreReal, AnswerIsReal
  <2> QED BY <2>2, <2>3
<1>4. result' = "INVALID_ARG" => applied[call] = {} /\ \A r \in requests : r.call # call
  <2> SUFFICES ASSUME result' = "INVALID_ARG"
               PROVE  applied[call] = {} /\ \A r \in requests : r.call # call
    OBVIOUS
  <2>1. pc = "build"
    BY <1>1 DEF InvalidArgument, combineErrors
  <2> QED BY <2>1 DEF AdminInv, NotSentYet, Outstanding
<1> QED BY <1>2, <1>3, <1>4

(* What createTopics(), deleteTopics(), deleteRecords() and listTopics()    *)
(* return is true of the brokers, whatever answers to earlier calls arrive  *)
(* in the meantime, and whoever gave up waiting.                            *)
THEOREM AdminResultIsReal == AdminSpec => ResultIsReal
<1>1. AdminTypeOK /\ AdminInv /\ AdminInv' /\ [AdminNext]_adminVars => [ReturnIsReal]_adminVars
  BY ReturnStep
<1>2. AdminSpec => AdminSafety
  BY DEF AdminSpec, AdminSafety
<1>3. AdminSafety => [][ReturnIsReal]_adminVars
  BY <1>1, AdminHolds, PTL DEF AdminSafety
<1> QED BY <1>2, <1>3, PTL DEF ResultIsReal, ReturnIsReal

-----------------------------------------------------------------------------
LEMMA ToolTakesTheirSteps ==
    ASSUME [ToolNext]_allVars
    PROVE  [Next]_vars /\ [AdminNext]_adminVars
<1>1. CASE ParseArguments
  BY <1>1 DEF ParseArguments
<1>2. CASE ConstructStep
  BY <1>2 DEF ConstructStep
<1>3. CASE ToolCalls
  <2>1. {Named} \in (SUBSET Topic) \ {{}}
    BY ToolsTopic
  <2>2. AnyCall
    BY <1>3, <2>1 DEF ToolCalls, AnyCall
  <2> QED BY <1>3, <2>2 DEF ToolCalls, AdminNext
<1>4. CASE ToolReturns
  BY <1>4 DEF ToolReturns
<1>5. CASE ApplicationCalls
  BY <1>5 DEF ApplicationCalls, AdminNext
<1>6. CASE CallStep
  BY <1>6 DEF CallStep, AdminNext
<1>7. CASE UNCHANGED allVars
  BY <1>7 DEF allVars
<1> QED BY <1>1, <1>2, <1>3, <1>4, <1>5, <1>6, <1>7 DEF ToolNext

(* The tool, and an application in its place, constructs its client and     *)
(* makes its calls as ClientConstruction and AdminClient say: all that is   *)
(* shown of them holds in the composition.                                  *)
THEOREM ToolComposes == ToolSpec => Spec /\ AdminSpec
<1>1. ToolInit => Init /\ AdminInit
  BY DEF ToolInit
<1>2. [ToolNext]_allVars => [Next]_vars /\ [AdminNext]_adminVars
  BY ToolTakesTheirSteps
<1> QED BY <1>1, <1>2, PTL DEF ToolSpec, Spec, AdminSpec

(* Why ExitStatusIsReal holds: the tool makes no call before it has a       *)
(* client, and then the one the command line says; it has a client only     *)
(* when the line is valid and has brokers.                                  *)
ValidLine == line.sizes # "word" /\ ~line.help /\ ~InvalidLine

Expected == IF opType = "--list" THEN {} ELSE {Named}

ToolInv ==
    /\ driver # "KafkaTopics" => main = "parse"
    /\ driver = "KafkaTopics" =>
        /\ main \in {"parse", "construct", "call", "success", "failure"}
        /\ type = "AdminClient" /\ given = adminConf(line)
        /\ main \in {"construct", "call"} => ValidLine
        /\ main = "call" => line.brokers
        /\ call \in {0, 1}
        /\ main \in {"parse", "construct"} => call = 0
        /\ call = 0 => pc = "idle"
        /\ call = 1 => /\ ValidLine /\ line.brokers
                       /\ op = "listTopics" <=> opType = "--list"
                       /\ topics = Expected
                       /\ main \in {"call", "success", "failure"}
        /\ main = "success" => \/ call = 0 /\ line.help
                               \/ call = 1 /\ pc = "idle" /\ result = "NO_ERROR"
        /\ opType = "--list" => requests = {} /\ \A c \in Calls : applied[c] = {}
        /\ \A r \in requests : r.topics = {Named}
        /\ \A c \in Calls : applied[c] \subseteq {Named}

LEMMA ToolInvInit == ToolInit => ToolInv
<1> SUFFICES ASSUME ToolInit PROVE ToolInv
  OBVIOUS
<1>1. main = "parse" /\ call = 0 /\ pc = "idle" /\ requests = {}
      /\ applied = [c \in Calls |-> {}]
  BY DEF ToolInit, AdminInit
<1>2. driver = "KafkaTopics" => type = "AdminClient" /\ given = adminConf(line)
  BY DEF ToolInit
<1> QED BY <1>1, <1>2 DEF ToolInv

LEMMA ArgumentsStay == Next => UNCHANGED args
  BY DEF Next, RdkafkaCallback, validateAndReformProperties, options, configure, create, addBrokers,
         consumerOptions, consumerQueues, startPolling, adminClient

LEMMA SameLine ==
    UNCHANGED line => UNCHANGED <<ValidLine, Expected, opType, InvalidLine, adminConf(line)>>
  BY DEF ValidLine, Expected, opType, InvalidLine, NothingElse, adminConf

LEMMA ToolInvStep ==
    ASSUME ToolInv, ConstructionInv', AdminTypeOK, [ToolNext]_allVars
    PROVE  ToolInv'
<1>1. CASE ParseArguments
  <2>1. /\ driver = "KafkaTopics" /\ main = "parse" /\ UNCHANGED <<driver, line>>
        /\ UNCHANGED <<type, given, call, pc, op, topics, result, requests, applied>>
    BY <1>1 DEF ParseArguments, Exit, vars, adminVars
  <2>2. \/ main' = "failure"
        \/ main' = "success" /\ line.help
        \/ main' = "construct" /\ ValidLine
    BY <1>1 DEF ParseArguments, Exit, ValidLine
  <2> QED BY <2>1, <2>2, SameLine DEF ToolInv
<1>2. CASE ConstructStep
  <2>1. /\ UNCHANGED <<driver, line, type, given, call, pc, op, topics, result, requests, applied>>
        /\ driver = "KafkaTopics" => main = "construct"
    BY <1>2, ArgumentsStay DEF ConstructStep, Exit, toolVars, args, adminVars
  <2>2. CASE driver = "KafkaTopics"
    <3>1. \/ main' = "failure"
          \/ main' = "construct"
          \/ main' = "call" /\ stage' = "constructed"
      BY <1>2, <2>1, <2>2 DEF ConstructStep, Exit, toolVars
    <3>2. stage' = "constructed" => line.brokers
      <4>1. stage' = "constructed" => given["bootstrap.servers"] # "nowhere"
        BY <2>1 DEF ConstructionInv, BrokersFound, ConsumerDone
      <4>2. given = adminConf(line) /\ "bootstrap.servers" \in Key
        BY <2>2 DEF ToolInv, Key
      <4> QED BY <4>1, <4>2 DEF adminConf
    <3> QED BY <2>1, <2>2, <3>1, <3>2, SameLine DEF ToolInv
  <2>3. CASE driver # "KafkaTopics"
    BY <1>2, <2>1, <2>3 DEF ConstructStep, toolVars, ToolInv
  <2> QED BY <2>2, <2>3
<1>3. CASE ToolCalls
  <2>1. /\ main = "call" /\ call = 0
        /\ UNCHANGED <<driver, line, main, type, given>>
        /\ driver = "KafkaTopics"
    BY <1>3 DEF ToolCalls, toolVars, vars, ToolInv
  <2>2. /\ call' = 1 /\ UNCHANGED <<requests, applied>>
        /\ topics' = Expected /\ (op' = "listTopics" <=> opType = "--list")
    BY <1>3, <2>1
    DEF ToolCalls, Expected, listTopics, createTopics, deleteTopics, start, brokerVars
  <2> QED BY <2>1, <2>2, SameLine DEF ToolInv
<1>4. CASE ToolReturns
  <2>1. /\ main = "call" /\ call = 1 /\ pc = "idle" /\ driver = "KafkaTopics"
        /\ UNCHANGED <<driver, line>>
        /\ UNCHANGED <<type, given, call, pc, op, topics, result, requests, applied>>
        /\ main' = IF result = "NO_ERROR" THEN "success" ELSE "failure"
    BY <1>4 DEF ToolReturns, ExitWithResult, Exit, vars, adminVars, ToolInv
  <2> QED BY <2>1, SameLine DEF ToolInv
<1>5. CASE ApplicationCalls
  BY <1>5 DEF ApplicationCalls, toolVars, ToolInv
<1>6. CASE CallStep
  <2>1. UNCHANGED <<driver, line, main, type, given>> /\ AdminProgress
    BY <1>6 DEF CallStep, toolVars, vars
  <2>2. CASE driver # "KafkaTopics"
    BY <2>1, <2>2 DEF ToolInv
  <2>3. CASE driver = "KafkaTopics"
    <3>1. UNCHANGED <<call, op, topics>>
      BY <2>1 DEF AdminProgress, CallSteps, InvalidArgument, Submit, TopicsListed, ListFails,
                  GotResult, GotOther, GotNothing, Combine, MetadataFetched, MetadataFails, Expire,
                  Apply, RequestFails, StrayEvent, clientVars
    <3>2. pc = "idle" => pc' = "idle" /\ result' = result
      BY <2>1 DEF AdminProgress, CallSteps, InvalidArgument, Submit, TopicsListed, ListFails,
                  GotResult, GotOther, GotNothing, Combine, MetadataFetched, MetadataFails, Expire,
                  Apply, RequestFails, StrayEvent, clientVars
    <3>3. \A r \in requests' :
             r \in requests \/ (r.topics = topics /\ pc = "build" /\ op # "listTopics")
      <4>1. CASE Submit
        BY <4>1 DEF Submit
      <4>2. CASE ~Submit
        <5>1. requests' \subseteq requests
          BY <2>1, <4>2
          DEF AdminProgress, CallSteps, InvalidArgument, TopicsListed, ListFails, GotResult,
              GotOther, GotNothing, Combine, MetadataFetched, MetadataFails, Expire, Apply,
              RequestFails, StrayEvent, brokerVars
        <5> QED BY <5>1
      <4> QED BY <4>1, <4>2
    <3>4. \/ UNCHANGED applied
          \/ \E r \in requests, failed \in SUBSET Topic :
                 applied' = [applied EXCEPT ![r.call] = r.topics \ failed]
      BY <2>1 DEF AdminProgress, CallSteps, InvalidArgument, Submit, TopicsListed, ListFails,
                  GotResult, GotOther, GotNothing, Combine, MetadataFetched, MetadataFails, Expire,
                  Apply, RequestFails, StrayEvent, brokerVars
    <3>5. pc = "build" => call = 1
      BY <2>3 DEF ToolInv
    <3>6. \A r \in requests' : r.topics = {Named} /\ opType # "--list"
      BY <2>3, <3>3, <3>5 DEF ToolInv, Expected
    <3>7. \A c \in Calls : applied'[c] \subseteq {Named}
      BY <2>3, <3>4 DEF ToolInv, AdminTypeOK
    <3>8. opType = "--list" => requests' = {} /\ \A c \in Calls : applied'[c] = {}
      BY <2>3, <3>4, <3>6 DEF ToolInv
    <3> QED BY <2>1, <2>3, <3>1, <3>2, <3>6, <3>7, <3>8, SameLine DEF ToolInv
  <2> QED BY <2>2, <2>3
<1>7. CASE UNCHANGED allVars
  <2>1. UNCHANGED <<driver, line, main, type, given, call, pc, op, topics, result,
                    requests, applied>>
    BY <1>7 DEF allVars, toolVars, vars, adminVars
  <2> QED BY <2>1, SameLine DEF ToolInv
<1> QED BY <1>1, <1>2, <1>3, <1>4, <1>5, <1>6, <1>7 DEF ToolNext

LEMMA ToolMeans ==
    ASSUME ToolInv, AdminTypeOK, AdminInv
    PROVE  ExitStatusIsReal
<1> SUFFICES ASSUME driver = "KafkaTopics"
             PROVE  ExitStatusIsReal
  BY DEF ExitStatusIsReal
<1>1. main = "success" /\ ~line.help => call = 1 /\ result = "NO_ERROR" /\ applied[1] = Expected
  BY DEF ToolInv, AdminInv, SuccessIsFinal
<1>2. call = 0 => requests = {} /\ \A c \in Calls : applied[c] = {}
  BY DEF AdminTypeOK, AdminInv, NoFutureCalls, Calls
<1>3. line.help \/ line.sizes = "word" \/ InvalidLine \/ ~line.brokers => call = 0
  BY DEF ToolInv, ValidLine
<1>4. /\ opType = "--list" => requests = {} /\ \A c \in Calls : applied[c] = {}
      /\ \A c \in Calls : applied[c] \subseteq {Named}
  BY DEF ToolInv
<1> QED BY <1>1, <1>2, <1>3, <1>4 DEF ExitStatusIsReal, Expected

(* The exit status of kafka-topics is the truth about the cluster, for any  *)
(* command line with one operation, and a line that is refused has sent     *)
(* nothing.  With none or two it is not: see OneOperationOnly.              *)
THEOREM ToolTellsTheTruth == ToolSpec => []ExitStatusIsReal
<1>1. ToolInit => ToolInv
  BY ToolInvInit
<1>2. ToolInv /\ ConstructionInv' /\ AdminTypeOK /\ [ToolNext]_allVars => ToolInv'
  BY ToolInvStep
<1>3. ToolInv /\ AdminTypeOK /\ AdminInv => ExitStatusIsReal
  BY ToolMeans
<1>4. ToolSpec => []ConstructionInv
  BY ToolComposes, ConstructionHolds, PTL
<1>5. AdminSpec => [](AdminTypeOK /\ AdminInv)
  BY AdminHolds, PTL DEF AdminSpec, AdminSafety
<1>6. ToolSpec => [](AdminTypeOK /\ AdminInv)
  BY <1>5, ToolComposes, PTL
<1> QED BY <1>1, <1>2, <1>3, <1>4, <1>6, PTL DEF ToolSpec
=============================================================================
