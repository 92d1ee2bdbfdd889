----------------------------- MODULE Properties -----------------------------
(***************************************************************************)
(* Properties.h: a map from keys to values of different types.  A value is  *)
(* an object behind a shared_ptr, so that copies of a Properties share      *)
(* their values, and get() hands out a reference to the object.             *)
(*                                                                         *)
(* Two Properties are used, the application's and the one a client keeps.   *)
(* An object is an index of objects.  toString() and the comparison are     *)
(* left out.                                                               *)
(***************************************************************************)
EXTENDS Naturals, Sequences, Functions

CONSTANTS StringKeys,           \* keys with strings for values
          nonStringValueKeys,   \* "log_cb", "error_cb" and so on
          Contents,             \* what strings and callbacks can be
          MaxObjects            \* bound on the values made

ASSUME PropertiesConstants ==
    StringKeys \cap nonStringValueKeys = {} /\ MaxObjects \in Nat

PropertyKeys == StringKeys \cup nonStringValueKeys
Kinds == {"string"} \cup nonStringValueKeys     \* expectedKey, or a string
Value == [kind : Kinds, content : Contents]
Holder == {"application", "client"}

VARIABLES objects,      \* the values made, in order
          kvMap,        \* _kvMap of each Properties: keys to objects
          meant,        \* history: what the calls on each Properties put in it
          outcome,      \* how the last call ended
          written       \* somebody has written through a reference of get()

propertiesVars == <<objects, kvMap, meant, outcome, written>>

NoKeys == [k \in {} |-> 0]
With(f, k, x) == [j \in DOMAIN f \cup {k} |-> IF j = k THEN x ELSE f[j]]
Without(f, k) == Restrict(f, DOMAIN f \ {k})

PropertiesInit ==
    /\ objects = <<>>
    /\ kvMap = [p \in Holder |-> NoKeys]
    /\ meant = [p \in Holder |-> NoKeys]
    /\ outcome = "returned"
    /\ written = FALSE

(* ValueType::validate(): a callback has its own key, and no string may     *)
(* take it.                                                                *)
validate(k, v) == IF v.kind = "string" THEN k \notin nonStringValueKeys ELSE k = v.kind

(* Faulty: the object that is there is overwritten.                         *)
StoredInPlace(p, k, v) ==
    IF k \in DOMAIN kvMap[p]
    THEN objects' = [objects EXCEPT ![kvMap[p][k]] = v] /\ UNCHANGED kvMap
    ELSE objects' = Append(objects, v) /\ kvMap' = [kvMap EXCEPT ![p] = With(@, k, Len(objects'))]

(* The entry gets an object of its own.                                     *)
Stored(p, k, v) ==
    /\ objects' = Append(objects, v)
    /\ kvMap' = [kvMap EXCEPT ![p] = With(@, k, Len(objects'))]

put(p, k, v) ==
    /\ Len(objects) < MaxObjects
    /\ IF validate(k, v)
       THEN /\ Stored(p, k, v)
            /\ meant' = [meant EXCEPT ![p] = With(@, k, v)]
            /\ outcome' = "returned"
       ELSE /\ outcome' = "runtime_error"
            /\ UNCHANGED <<objects, kvMap, meant>>
    /\ UNCHANGED written

(* Properties(kvMap) with the entries k |-> v and l |-> w: all are valid,   *)
(* or there is no new Properties.                                          *)
fromMap(p, k, v, l, w) ==
    /\ Len(objects) + 2 <= MaxObjects /\ k # l
    /\ IF validate(k, v) /\ validate(l, w)
       THEN /\ objects' = objects \o <<v, w>>
            /\ kvMap' = [kvMap EXCEPT ![p] = With(With(NoKeys, k, Len(objects) + 1),
                                                  l, Len(objects) + 2)]
            /\ meant' = [meant EXCEPT ![p] = With(With(NoKeys, k, v), l, w)]
            /\ outcome' = "returned"
       ELSE outcome' = "runtime_error" /\ UNCHANGED <<objects, kvMap, meant>>
    /\ UNCHANGED written

(* put() of an entry of another Properties, as KafkaClient's constructor    *)
(* records what librdkafka accepted: the object is shared.                  *)
putEntry(p, q, k) ==
    /\ k \in DOMAIN kvMap[q]
    /\ kvMap' = [kvMap EXCEPT ![p] = With(@, k, kvMap[q][k])]
    /\ meant' = [meant EXCEPT ![p] = With(@, k, objects[kvMap[q][k]])]
    /\ outcome' = "returned"
    /\ UNCHANGED <<objects, written>>

copy(p, q) ==
    /\ kvMap' = [kvMap EXCEPT ![p] = kvMap[q]]
    /\ meant' = [meant EXCEPT ![p] = [k \in DOMAIN kvMap[q] |-> objects[kvMap[q][k]]]]
    /\ outcome' = "returned"
    /\ UNCHANGED <<objects, written>>

(* remove() and eraseProperty().                                            *)
remove(p, k) ==
    /\ kvMap' = [kvMap EXCEPT ![p] = Without(@, k)]
    /\ meant' = [meant EXCEPT ![p] = Without(@, k)]
    /\ outcome' = "returned"
    /\ UNCHANGED <<objects, written>>

(* get<T>(key) on the application's side, and what the caller may do with   *)
(* the reference.                                                          *)
get(p, k, kind) ==
    /\ outcome' = IF k \notin DOMAIN kvMap[p] THEN "KafkaException"
                  ELSE IF objects[kvMap[p][k]].kind = kind THEN "returned" ELSE "bad_cast"
    /\ \/ UNCHANGED <<objects, meant, written>>
       \/ /\ outcome' = "returned"
          /\ \E c \in Contents :
                /\ objects' = [objects EXCEPT ![kvMap[p][k]].content = c]
                /\ meant' = [meant EXCEPT ![p][k].content = c]
          /\ written' = TRUE
    /\ UNCHANGED kvMap

PropertiesNext ==
    \E p, q \in Holder, k \in PropertyKeys :
        \/ \E v \in Value :
              \/ put(p, k, v)
              \/ \E l \in PropertyKeys, w \in Value : fromMap(p, k, v, l, w)
        \/ p # q /\ (putEntry(p, q, k) \/ copy(p, q))
        \/ remove(p, k)
        \/ \E kind \in Kinds : get(p, k, kind)

PropertiesSpec == PropertiesInit /\ [][PropertiesNext]_propertiesVars

(* Although copies share their values, what one Properties holds is what    *)
(* was put in it, whatever is put in or removed from its copies, as long as *)
(* nobody writes through a reference that get() returned.  And a key never  *)
(* has a value of a type that get() for that key would not cast: the        *)
(* constructor of KafkaClient takes the callbacks by get<T>() with nothing  *)
(* to catch std::bad_cast.                                                 *)
ValueSemantics ==
    \A p \in Holder :
        /\ ~written => meant[p] = [k \in DOMAIN kvMap[p] |-> objects[kvMap[p][k]]]
        /\ \A k \in DOMAIN kvMap[p] :
              objects[kvMap[p][k]].kind = (IF k \in nonStringValueKeys THEN k ELSE "string")
=============================================================================
