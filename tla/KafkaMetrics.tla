---------------------------- MODULE KafkaMetrics ----------------------------
(***************************************************************************)
(* addons/KafkaMetrics.h: looking up values in librdkafka's statistics, a   *)
(* JSON document, by a path of keys in which "*" stands for any key.        *)
(*                                                                         *)
(* A document gives every node, named by the keys that lead to it from the  *)
(* root, its kind; so a node also stands for the value found there.  An     *)
(* integer is "int" when it fits 32 bits (rapidjson's IsInt()) and "int64"  *)
(* when it needs more.  getResults() is recursive: every call is one step,  *)
(* and the calls its loop makes are pending.  The order of the results,     *)
(* which is the document's, is left out: calls and results are sets.        *)
(***************************************************************************)
EXTENDS Naturals, Sequences, FiniteSets

CONSTANTS Keys,         \* the names in the documents
          WILDCARD,
          Documents,
          MaxPath       \* bound on the length of a path

ASSUME WildcardIsNoKey == WILDCARD \notin Keys /\ MaxPath \in Nat

JsonKinds == {"int", "int64", "string", "object"}

(* The root, and all that leads to a node, are objects.                     *)
IsDocument(d) ==
    /\ <<>> \in DOMAIN d /\ d[<<>>] = "object"
    /\ \A n \in DOMAIN d :
          /\ n \in Seq(Keys) /\ d[n] \in JsonKinds
          /\ \A i \in 0..(Len(n) - 1) :
                SubSeq(n, 1, i) \in DOMAIN d /\ d[SubSeq(n, 1, i)] = "object"

ASSUME DocumentsAreTrees == \A d \in Documents : IsDocument(d)

VARIABLES document,     \* _jsonDoc
          path,         \* the argument keys
          type,         \* getInt() or getString()
          calls,        \* calls of getResults(): where iter is, and keysForWildcards
          results,
          answer        \* "asking", "searching", or how get() ended

metricsVars == <<document, path, type, calls, results, answer>>

MetricsInit ==
    /\ document \in Documents
    /\ path \in UNION {[1..n -> Keys \cup {WILDCARD}] : n \in 0..MaxPath}
    /\ type \in {"int", "string"}
    /\ calls = {}
    /\ results = {}
    /\ answer = "asking"

(* get(keys): a first key that is the only one is looked up here, a longer  *)
(* path by getResults().                                                    *)
find ==
    /\ answer = "asking"
    /\ IF path = <<>> \/ path[1] = WILDCARD \/ path[Len(path)] = WILDCARD
       THEN answer' = "throws" /\ UNCHANGED <<calls, results>>
       ELSE LET first == {[node |-> n, wild |-> <<>>] : n \in {<<path[1]>>} \cap DOMAIN document}
            IN /\ answer' = "searching"
               /\ calls' = IF Len(path) = 1 THEN {} ELSE first
               /\ results' = IF Len(path) = 1 THEN {r \in first : document[r.node] = type}
                                              ELSE {}
    /\ UNCHANGED <<document, path, type>>

(* Faulty: the last wildcard is the only one remembered.                    *)
RememberLast(wild, k) == <<k>>
Remember(wild, k) == Append(wild, k)

getResults(call) ==
    LET key == path[Len(call.node) + 1]
        isTheEnd == Len(call.node) + 1 = Len(path)
        members == {k \in Keys : Append(call.node, k) \in DOMAIN document}
        matched == {[node |-> Append(call.node, k),
                     wild |-> IF key = WILDCARD THEN Remember(call.wild, k) ELSE call.wild] :
                        k \in {k \in members : key \in {k, WILDCARD}}}
        found == IF document[call.node] = "object" THEN matched ELSE {}
    IN /\ IF isTheEnd /\ key # WILDCARD
          THEN /\ results' = results \cup {r \in found : document[r.node] = type}
               /\ calls' = calls \ {call}
          ELSE /\ calls' = (calls \ {call}) \cup found
               /\ UNCHANGED results
       /\ UNCHANGED <<document, path, type, answer>>

return ==
    /\ answer = "searching" /\ calls = {}
    /\ answer' = "returns"
    /\ UNCHANGED <<document, path, type, calls, results>>

MetricsNext == find \/ (\E call \in calls : getResults(call)) \/ return

MetricsSpec == MetricsInit /\ [][MetricsNext]_metricsVars

-----------------------------------------------------------------------------
(* The first i keys of the path match the node's.                           *)
MatchesUpTo(node, i) == \A j \in 1..i : path[j] \in {node[j], WILDCARD}

(* wild has the node's keys at the path's wildcards, in order.              *)
Wildcards(i) == {j \in 1..i : path[j] = WILDCARD}
StandsFor(wild, node) ==
    /\ Len(wild) = Cardinality(Wildcards(Len(node)))
    /\ \A i \in Wildcards(Len(node)) : wild[Cardinality(Wildcards(i))] = node[i]

(* get() finds every value of the document that the keys match and whose    *)
(* type fits, and nothing else, and says for each which keys the wildcards  *)
(* stood for.  getInt() leaves out integers beyond 32 bits.                 *)
FindsWhatMatches ==
    answer = "returns" =>
        /\ {r.node : r \in results} =
              {n \in DOMAIN document : /\ Len(n) = Len(path) /\ MatchesUpTo(n, Len(n))
                                       /\ document[n] = type}
        /\ \A r \in results : StandsFor(r.wild, r.node)
=============================================================================
