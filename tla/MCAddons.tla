------------------------------ MODULE MCAddons ------------------------------
(* The parts that one thread uses on its own, one of them per behaviour:    *)
(* the heap, the commit queue with callers that ack anything, the look-up   *)
(* in the metrics, and Properties.                                         *)
EXTENDS UnorderedOffsetCommitQueue, OffsetHeap, KafkaMetrics, FiniteSetsExt, Properties

CONSTANT MaxPendingAcks     \* bound on the acks pending in the queue

VARIABLE addon              \* the one that is used

MCOffsets == -1..3

PendingAcks == MapThenSumSet(LAMBDA o : offsetsToCommit[o], Offsets)

(* Documents with every kind of value on two levels, and documents of four  *)
(* levels, for paths with two wildcards.                                    *)
Leaf(kind) == [n \in {<<>>} |-> kind]
Leaves == {Leaf(kind) : kind \in JsonKinds \ {"object"}}
Object(members) ==
    [n \in {<<>>} \cup UNION {{<<k>> \o m : m \in DOMAIN members[k]} : k \in DOMAIN members}
        |-> IF n = <<>> THEN "object" ELSE members[n[1]][Tail(n)]]
ObjectsOf(V) == {Object(f) : f \in UNION {[S -> V] : S \in SUBSET Keys}}
Under(k, V) == {Object([j \in {k} |-> v]) : v \in V}
MCDocuments ==
    ObjectsOf(Leaves \cup ObjectsOf(Leaves))
        \cup Under("a", ObjectsOf(ObjectsOf(Under("b", {Leaf("int")}))))

AddonsInit ==
    /\ addon \in {"queue", "heap", "metrics", "properties"}
    /\ Init
    /\ HeapInit
    /\ PropertiesInit
    /\ MetricsInit
    /\ addon # "metrics" => document = Object(<<>>) /\ path = <<>> /\ type = "int"

QueueNext ==
    \/ \E o \in Offsets :
          \/ GrowingWait(o)
          \/ PendingAcks < MaxPendingAcks /\ ackOffset(o)
    \/ Drain
    \/ popOffsetToCommit

AddonsNext ==
    /\ UNCHANGED addon
    /\ \/ addon = "queue" /\ QueueNext /\ UNCHANGED <<heapVars, metricsVars, propertiesVars>>
       \/ addon = "heap" /\ HeapNext /\ UNCHANGED <<vars, metricsVars, propertiesVars>>
       \/ addon = "metrics" /\ MetricsNext /\ UNCHANGED <<vars, heapVars, propertiesVars>>
       \/ addon = "properties" /\ PropertiesNext /\ UNCHANGED <<vars, heapVars, metricsVars>>

AddonsSpec == AddonsInit /\ [][AddonsNext]_<<addon, vars, heapVars, metricsVars, propertiesVars>>
=============================================================================
