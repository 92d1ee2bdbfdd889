---------------------------- MODULE AdminClient -----------------------------
(***************************************************************************)
(* AdminClient.h: createTopics(), deleteTopics() and deleteRecords() send a *)
(* request, wait on a queue of their own for its result until a time limit, *)
(* and combine the per-topic errors into one; createTopics() then waits     *)
(* until the metadata can be fetched.  listTopics() is one query of the     *)
(* metadata.  One thread makes the calls, one after the other; a request    *)
(* whose caller has given up lives on.                                     *)
(*                                                                         *)
(* A partition of deleteRecords() is represented by its topic.              *)
(*                                                                         *)
(* External: the brokers, which carry out a request for each topic by       *)
(* itself; librdkafka, which puts the answer, or an error in its place, on  *)
(* the queue given with the request.                                       *)
(***************************************************************************)
EXTENDS Naturals, FiniteSets

CONSTANTS Topic,
          MaxCalls      \* bound: calls in a behaviour

ASSUME MaxCallsIsNatural == MaxCalls \in Nat

Operations == {"createTopics", "deleteTopics", "deleteRecords", "listTopics"}

VARIABLES
    pc,         \* "idle", or where the call is
    call,       \* its number
    op, topics, \* what was called
    expired,    \* the time limit has passed
    answer,     \* the result event it has received
    result,     \* the error code it returned
    names,      \* the topics listTopics() returned
    queue,      \* the events on each call's queue
    requests,   \* requests the brokers have not carried out
    existing,   \* the topics of the cluster
    applied     \* history: which topics of a call the brokers carried out

clientVars == <<pc, call, op, topics, expired, answer, result, names>>
brokerVars == <<requests, existing, applied>>
adminVars == <<pc, call, op, topics, expired, answer, result, names, queue,
              requests, existing, applied>>

Calls == 1..MaxCalls
NoAnswer == [kind |-> "none", error |-> FALSE, failed |-> {}]
OtherEvent == [kind |-> "other", error |-> TRUE, failed |-> {}]

AdminInit ==
    /\ pc = "idle"
    /\ call = 0
    /\ op = "createTopics"
    /\ topics = {}
    /\ expired = FALSE
    /\ answer = NoAnswer
    /\ result = "none"
    /\ names = {}
    /\ queue = [c \in Calls |-> {}]
    /\ requests = {}
    /\ existing \in SUBSET Topic
    /\ applied = [c \in Calls |-> {}]

-----------------------------------------------------------------------------
(* The call starts: NewTopic objects are made and given their config.      *)
start(o, ts) ==
    /\ pc = "idle"
    /\ call < MaxCalls
    /\ call' = call + 1
    /\ op' = o
    /\ topics' = ts
    /\ pc' = "build"
    /\ expired' = FALSE
    /\ answer' = NoAnswer
    /\ result' = "none"
    /\ UNCHANGED <<names, queue, brokerVars>>

createTopics(ts) == start("createTopics", ts)
deleteTopics(ts) == start("deleteTopics", ts)
deleteRecords(ts) == start("deleteRecords", ts)
listTopics == start("listTopics", {})

Returns(code) == result' = code /\ pc' = "idle"

(* createTopics(): an invalid topic or config.                             *)
InvalidArgument ==
    /\ pc = "build"
    /\ op = "createTopics"
    /\ Returns("INVALID_ARG")
    /\ UNCHANGED <<call, op, topics, expired, answer, names, queue, brokerVars>>

(* rd_kafka_CreateTopics() and the like, with a queue made for this call.  *)
Submit ==
    /\ pc = "build" /\ op # "listTopics"
    /\ requests' = requests \cup {[call |-> call, op |-> op, topics |-> topics]}
    /\ pc' = "wait"
    /\ UNCHANGED <<call, op, topics, expired, answer, result, names, queue, existing,
                   applied>>

(* listTopics(): rd_kafka_metadata() answers or fails.                      *)
TopicsListed ==
    /\ pc = "build" /\ op = "listTopics"
    /\ names' = existing
    /\ Returns("NO_ERROR")
    /\ UNCHANGED <<call, op, topics, expired, answer, queue, brokerVars>>

ListFails ==
    /\ pc = "build" /\ op = "listTopics"
    /\ Returns("TIMED_OUT")
    /\ UNCHANGED <<call, op, topics, expired, answer, names, queue, brokerVars>>

(* steady_clock::now() >= end.                                             *)
Expire ==
    /\ pc # "idle"
    /\ ~expired
    /\ expired' = TRUE
    /\ UNCHANGED <<pc, call, op, topics, answer, result, names, queue, brokerVars>>

(* Whose events the loop may see.                                          *)
AnyQueue == {c \in Calls : c <= call}               \* faulty: a shared queue
OwnQueue == {call}

(* The loop: the result ends it, any other event is dropped, and so is     *)
(* nothing; the time limit is looked at after each of them.                *)
GotResult(c, e) ==
    /\ pc = "wait"
    /\ e \in queue[c] /\ e.kind = "result"
    /\ queue' = [queue EXCEPT ![c] = @ \ {e}]
    /\ answer' = e
    /\ pc' = "combine"
    /\ UNCHANGED <<call, op, topics, expired, result, names, brokerVars>>

GotOther(c, e) ==
    /\ pc = "wait"
    /\ e \in queue[c] /\ e.kind = "other"
    /\ queue' = [queue EXCEPT ![c] = @ \ {e}]
    /\ IF expired THEN Returns("TIMED_OUT") ELSE UNCHANGED <<result, pc>>
    /\ UNCHANGED <<call, op, topics, expired, answer, names, brokerVars>>

GotNothing ==
    /\ pc = "wait"
    /\ queue[call] = {}
    /\ expired
    /\ Returns("TIMED_OUT")
    /\ UNCHANGED <<call, op, topics, expired, answer, names, queue, brokerVars>>

(* getPerTopicResults() and getPerTopicPartitionResults().                 *)
PerTopicErrors == answer.failed

(* combineErrors(): the error of the event first, then those of the topics *)
(* in the answer; its code is that of the first one.                       *)
combineErrors ==
    IF answer.error THEN "EVENT_ERROR"
    ELSE IF PerTopicErrors # {} THEN "TOPIC_ERROR" ELSE "NO_ERROR"

Combine ==
    /\ pc = "combine"
    /\ IF op = "createTopics" /\ combineErrors = "NO_ERROR"
       THEN pc' = "metadata" /\ UNCHANGED result
       ELSE Returns(combineErrors)
    /\ UNCHANGED <<call, op, topics, expired, answer, names, queue, brokerVars>>

(* createTopics(): listTopics() until it succeeds or the time is over.     *)
MetadataFetched ==
    /\ pc = "metadata"
    /\ Returns("NO_ERROR")
    /\ UNCHANGED <<call, op, topics, expired, answer, names, queue, brokerVars>>

NeverGivesUp == FALSE                               \* faulty
GivesUp == expired

MetadataFails ==
    /\ pc = "metadata"
    /\ GivesUp
    /\ Returns("TIMED_OUT")
    /\ UNCHANGED <<call, op, topics, expired, answer, names, queue, brokerVars>>

-----------------------------------------------------------------------------
(* The brokers carry out a request: existing topics cannot be created,     *)
(* missing ones not deleted, and any topic may fail for another reason.    *)
Impossible(r) ==
    IF r.op = "createTopics" THEN r.topics \cap existing ELSE r.topics \ existing

After(r, done) ==
    CASE r.op = "createTopics" -> existing \cup done
      [] r.op = "deleteTopics" -> existing \ done
      [] OTHER                 -> existing

Answer(e, f) == [kind |-> "result", error |-> e, failed |-> f]

(* The answer reaches the client, or is lost: librdkafka then reports an   *)
(* error in its place.                                                     *)
Apply(r, failed) ==
    /\ r \in requests
    /\ Impossible(r) \subseteq failed
    /\ failed \subseteq r.topics
    /\ requests' = requests \ {r}
    /\ existing' = After(r, r.topics \ failed)
    /\ applied' = [applied EXCEPT ![r.call] = r.topics \ failed]
    /\ \E e \in {Answer(FALSE, failed), Answer(TRUE, {})} :
          queue' = [queue EXCEPT ![r.call] = @ \cup {e}]
    /\ UNCHANGED clientVars

(* No broker can be reached.                                               *)
RequestFails(r) ==
    /\ r \in requests
    /\ requests' = requests \ {r}
    /\ queue' = [queue EXCEPT ![r.call] = @ \cup {Answer(TRUE, {})}]
    /\ UNCHANGED <<clientVars, existing, applied>>

(* librdkafka puts an event of another kind on the queue.                  *)
StrayEvent ==
    /\ pc = "wait"
    /\ queue[call] = {}
    /\ queue' = [queue EXCEPT ![call] = {OtherEvent}]
    /\ UNCHANGED <<clientVars, brokerVars>>

-----------------------------------------------------------------------------
Events == {OtherEvent} \cup [kind : {"result"}, error : BOOLEAN, failed : SUBSET Topic]

CallSteps ==
    \/ InvalidArgument \/ Submit \/ TopicsListed \/ ListFails
    \/ \E c \in OwnQueue, e \in Events : GotResult(c, e) \/ GotOther(c, e)
    \/ GotNothing
    \/ Combine
    \/ MetadataFetched \/ MetadataFails

AnyCall ==
    \/ \E ts \in (SUBSET Topic) \ {{}} :
          createTopics(ts) \/ deleteTopics(ts) \/ deleteRecords(ts)
    \/ listTopics

(* The calls go on, and the brokers with them.                             *)
AdminProgress ==
    \/ CallSteps
    \/ Expire
    \/ \E r \in requests, failed \in SUBSET Topic : Apply(r, failed)
    \/ \E r \in requests : RequestFails(r)
    \/ StrayEvent

AdminNext == AnyCall \/ AdminProgress

(* The calling thread runs and time passes.  The brokers need not answer,  *)
(* and the metadata need never be fetched.                                 *)
AdminFairness ==
    /\ WF_adminVars(InvalidArgument \/ Submit \/ ListFails \/ GotNothing \/ Combine
                        \/ MetadataFails)
    /\ WF_adminVars(\E c \in OwnQueue, e \in Events : GotResult(c, e) \/ GotOther(c, e))
    /\ WF_adminVars(Expire)

AdminSpec == AdminInit /\ [][AdminNext]_adminVars /\ AdminFairness

-----------------------------------------------------------------------------
(* What a call returns is true of the brokers, even when the answer to an   *)
(* earlier call, which had timed out, arrives while it waits: without an    *)
(* error the request was carried out for every topic named; an error of the *)
(* topics means that one was refused, and INVALID_ARG that no broker has    *)
(* seen the request.                                                       *)
ResultIsReal ==
    [][pc # "idle" /\ pc' = "idle" =>
          /\ result' = "NO_ERROR" => topics = applied[call]
          /\ result' = "TOPIC_ERROR" => topics # applied[call]
          /\ result' = "INVALID_ARG" =>
                applied[call] = {} /\ \A r \in requests : r.call # call]_adminVars

(* Every call returns, whether or not the brokers answer.                  *)
CallReturns == (pc # "idle") ~> (pc = "idle")
=============================================================================
