----------------------------- MODULE MCClients ------------------------------
(* Constructor calls for TLC: each client with its own properties varied   *)
(* together, and the common ones varied with those they interact with;     *)
(* and command lines of the tool.                                          *)
EXTENDS TopicsTool

CONSTANTS ta, tb

MCTopic == {ta, tb}

Values(k) ==
    CASE k = "bootstrap.servers"         -> {Absent, "nowhere", "brokers"}
      [] k = "log_level"                 -> {Absent, "-1", "0", "7", "8", "word"}
      [] k = "enable.manual.events.poll" -> {Absent, "true", "false", "word"}
      [] k = "enable.auto.commit"        -> {Absent, "true", "false", "word"}
      [] k = "auto.commit.interval.ms"   -> {Absent, "7"}
      [] k = "max.poll.records"          -> {Absent, "7", "word"}
      [] k = "max.in.flight"             -> {Absent, "5", "6", "word", "unsupported"}
      [] k = "acks"                      -> {Absent, "all", "0"}
      [] k = "enable.idempotence"        -> {Absent, "true", "false"}
      [] k = "partitioner"               -> {Absent, "known", "unknown"}
      [] k = "other"                     -> {Absent, "supported", "unsupported"}
      [] OTHER                           -> {Absent, "set"}

(* The brokers given, and every choice for the keys of K.                  *)
Given(K) ==
    {[k \in Key |-> IF k \in K THEN f[k]
                    ELSE IF k = "bootstrap.servers" THEN "brokers" ELSE Absent] :
        f \in {g \in [K -> UNION {Values(k) : k \in K}] : \A k \in K : g[k] \in Values(k)}}

ConstructorCalls(t, K, cbs) ==
    {[type |-> t, given |-> g, callbacks |-> c] : g \in Given(K), c \in cbs}

MCLines ==
    [help : {FALSE}, brokers : BOOLEAN, topic : BOOLEAN, sizes : {"none", "one", "both", "word"},
     ops : {<<>>, <<"--create">>, <<"--delete">>, <<"--list">>, <<"--create", "--delete">>},
     topicProps : {"none", "good", "bad"}, adminConfig : {"none", "good", "bad"}]
    \cup
    [help : {TRUE}, brokers : {TRUE}, topic : {TRUE}, sizes : {"none"},
     ops : {<<"--delete">>}, topicProps : {"none"}, adminConfig : {"none"}]

MCInputs ==
    UNION {ConstructorCalls(t, {"bootstrap.servers", "log_level", "enable.manual.events.poll"},
                            {{}, {"log_cb", "interceptors"}, Callback}) : t \in Types}
    \cup ConstructorCalls("AdminClient", {"bootstrap.servers", "other"}, {{}})
    \cup ConstructorCalls("KafkaProducer",
                          {"partitioner", "enable.idempotence", "max.in.flight", "acks"}, {{}})
    \cup ConstructorCalls("KafkaConsumer", {"max.poll.records", "enable.auto.commit",
                                            "auto.commit.interval.ms", "group.id"}, {{}})
    \cup ConstructorCalls("KafkaConsumer", {"client.id", "other", "enable.manual.events.poll"},
                          {{"error_cb"}})
=============================================================================
