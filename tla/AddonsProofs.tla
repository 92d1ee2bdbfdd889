---------------------------- MODULE AddonsProofs ----------------------------
(***************************************************************************)
(* Proofs about Properties, for any keys and values, about the heap of      *)
(* UnorderedOffsetCommitQueue.h, for heaps of any size, and about the       *)
(* look-up in KafkaMetrics, for documents and paths of any depth.           *)
(***************************************************************************)
EXTENDS Properties, OffsetHeap, KafkaMetrics,
        FiniteSetTheorems, SequenceTheorems, WellFoundedInduction, TLAPS

KindOf(k) == IF k \in nonStringValueKeys THEN k ELSE "string"

(* Every entry of a Properties is an object that was made, of the kind its  *)
(* key asks for, and with the value that was put there.                     *)
EntriesSound(p) ==
    /\ \A k \in DOMAIN kvMap[p] : /\ kvMap[p][k] \in 1..Len(objects)
                                  /\ objects[kvMap[p][k]].kind = KindOf(k)
    /\ ~written => meant[p] = [k \in DOMAIN kvMap[p] |-> objects[kvMap[p][k]]]

PropertiesInv ==
    /\ objects \in Seq(Value)
    /\ DOMAIN kvMap = Holder /\ DOMAIN meant = Holder
    /\ \A p \in Holder : EntriesSound(p)

(* validate() lets a key have only values of its kind.                     *)
LEMMA ValidKind ==
    ASSUME NEW k, NEW v \in Value, validate(k, v)
    PROVE  v.kind = KindOf(k)
  BY DEF validate, Value, Kinds, KindOf

(* Objects that are only added to leave the other Properties as it is.      *)
LEMMA OtherSound ==
    ASSUME NEW q \in Holder, EntriesSound(q), Len(objects) \in Nat, Len(objects') \in Nat,
           Len(objects) <= Len(objects'), \A i \in 1..Len(objects) : objects'[i] = objects[i],
           kvMap'[q] = kvMap[q], meant'[q] = meant[q], UNCHANGED written
    PROVE  EntriesSound(q)'
  BY DEF EntriesSound

LEMMA PutStep ==
    ASSUME PropertiesInv, NEW p \in Holder, NEW k \in PropertyKeys, NEW v \in Value, put(p, k, v)
    PROVE  PropertiesInv'
<1> DEFINE n == Len(objects)
<1>1. CASE validate(k, v)
  <2>1. /\ objects' = Append(objects, v) /\ UNCHANGED written
        /\ kvMap' = [kvMap EXCEPT ![p] = With(kvMap[p], k, Len(objects'))]
        /\ meant' = [meant EXCEPT ![p] = With(meant[p], k, v)]
    BY <1>1 DEF put, Stored
  <2>2. /\ n \in Nat /\ objects' \in Seq(Value) /\ Len(objects') = n + 1 /\ objects'[n + 1] = v
        /\ \A i \in 1..n : objects'[i] = objects[i]
    BY <2>1 DEF PropertiesInv
  <2>3. /\ DOMAIN kvMap' = Holder /\ DOMAIN meant' = Holder
        /\ kvMap'[p] = With(kvMap[p], k, n + 1) /\ meant'[p] = With(meant[p], k, v)
        /\ \A q \in Holder : q # p => kvMap'[q] = kvMap[q] /\ meant'[q] = meant[q]
    BY <2>1, <2>2 DEF PropertiesInv
  <2>4. v.kind = KindOf(k) /\ EntriesSound(p)
    BY <1>1, ValidKind DEF PropertiesInv
  <2>5. EntriesSound(p)'
    BY <2>1, <2>2, <2>3, <2>4 DEF EntriesSound, With
  <2>6. ASSUME NEW q \in Holder, q # p PROVE EntriesSound(q)'
    BY <2>1, <2>2, <2>3, <2>6, OtherSound DEF PropertiesInv
  <2> QED BY <2>2, <2>3, <2>5, <2>6 DEF PropertiesInv
<1>2. CASE ~validate(k, v)
  BY <1>2 DEF put, PropertiesInv, EntriesSound
<1> QED BY <1>1, <1>2

LEMMA FromMapStep ==
    ASSUME PropertiesInv, NEW p \in Holder, NEW k \in PropertyKeys, NEW v \in Value,
           NEW l \in PropertyKeys, NEW w \in Value, fromMap(p, k, v, l, w)
    PROVE  PropertiesInv'
<1> DEFINE n == Len(objects)
           both == validate(k, v) /\ validate(l, w)
<1>1. CASE both
  <2>1. /\ objects' = objects \o <<v, w>> /\ UNCHANGED written /\ k # l
        /\ kvMap' = [kvMap EXCEPT ![p] = With(With(NoKeys, k, n + 1), l, n + 2)]
        /\ meant' = [meant EXCEPT ![p] = With(With(NoKeys, k, v), l, w)]
    BY <1>1 DEF fromMap
  <2>2. /\ n \in Nat /\ objects' \in Seq(Value) /\ Len(objects') = n + 2
        /\ objects'[n + 1] = v /\ objects'[n + 2] = w
        /\ \A i \in 1..n : objects'[i] = objects[i]
    BY <2>1 DEF PropertiesInv
  <2>3. /\ DOMAIN kvMap' = Holder /\ DOMAIN meant' = Holder
        /\ kvMap'[p] = With(With(NoKeys, k, n + 1), l, n + 2)
        /\ meant'[p] = With(With(NoKeys, k, v), l, w)
        /\ \A q \in Holder : q # p => kvMap'[q] = kvMap[q] /\ meant'[q] = meant[q]
    BY <2>1, <2>2 DEF PropertiesInv
  <2>4. v.kind = KindOf(k) /\ w.kind = KindOf(l)
    BY <1>1, ValidKind
  <2>5. EntriesSound(p)'
    BY <2>1, <2>2, <2>3, <2>4 DEF EntriesSound, With, NoKeys
  <2>6. ASSUME NEW q \in Holder, q # p PROVE EntriesSound(q)'
    BY <2>1, <2>2, <2>3, <2>6, OtherSound DEF PropertiesInv
  <2> QED BY <2>2, <2>3, <2>5, <2>6 DEF PropertiesInv
<1>2. CASE ~both
  BY <1>2 DEF fromMap, PropertiesInv, EntriesSound
<1> QED BY <1>1, <1>2

(* The three that move entries and make no object.                         *)
LEMMA EntryStep ==
    ASSUME PropertiesInv, NEW p \in Holder, NEW q \in Holder, NEW k \in PropertyKeys,
           putEntry(p, q, k) \/ copy(p, q) \/ remove(p, k)
    PROVE  PropertiesInv'
<1>1. UNCHANGED <<objects, written>>
  BY DEF putEntry, copy, remove
<1>2. EntriesSound(p) /\ EntriesSound(q) /\ DOMAIN kvMap = Holder /\ DOMAIN meant = Holder
  BY DEF PropertiesInv
<1>3. \E f, g : kvMap' = [kvMap EXCEPT ![p] = f] /\ meant' = [meant EXCEPT ![p] = g]
  BY DEF putEntry, copy, remove
<1>4. /\ DOMAIN kvMap' = Holder /\ DOMAIN meant' = Holder
      /\ \A r \in Holder : r # p => kvMap'[r] = kvMap[r] /\ meant'[r] = meant[r]
  BY <1>2, <1>3
<1>5. EntriesSound(p)'
  <2>1. CASE putEntry(p, q, k)
    <3>1. /\ k \in DOMAIN kvMap[q] /\ kvMap'[p] = With(kvMap[p], k, kvMap[q][k])
          /\ meant'[p] = With(meant[p], k, objects[kvMap[q][k]])
      BY <1>2, <2>1 DEF putEntry
    <3> QED BY <1>1, <1>2, <3>1 DEF EntriesSound, With
  <2>2. CASE copy(p, q)
    <3>1. /\ kvMap'[p] = kvMap[q]
          /\ meant'[p] = [j \in DOMAIN kvMap[q] |-> objects[kvMap[q][j]]]
      BY <1>2, <2>2 DEF copy
    <3> QED BY <1>1, <1>2, <3>1 DEF EntriesSound
  <2>3. CASE remove(p, k)
    <3>1. kvMap'[p] = Without(kvMap[p], k) /\ meant'[p] = Without(meant[p], k)
      BY <1>2, <2>3 DEF remove
    <3> QED BY <1>1, <1>2, <3>1 DEF EntriesSound, Without, Restrict
  <2> QED BY <2>1, <2>2, <2>3
<1>6. ASSUME NEW r \in Holder, r # p PROVE EntriesSound(r)'
  BY <1>1, <1>4, <1>6 DEF PropertiesInv, EntriesSound
<1> QED BY <1>1, <1>4, <1>5, <1>6 DEF PropertiesInv

(* A write through the reference that get() returned changes an object that *)
(* the other Properties may share, but never its kind.                      *)
LEMMA GetStep ==
    ASSUME PropertiesInv, NEW p \in Holder, NEW k \in PropertyKeys, NEW kind \in Kinds,
           get(p, k, kind)
    PROVE  PropertiesInv'
<1>1. CASE UNCHANGED <<objects, meant, written>>
  BY <1>1 DEF get, PropertiesInv, EntriesSound
<1>2. CASE ~UNCHANGED <<objects, meant, written>>
  <2>1. outcome' = "returned" /\ written' = TRUE /\ UNCHANGED kvMap
    BY <1>2 DEF get
  <2>2. k \in DOMAIN kvMap[p]
    BY <2>1 DEF get
  <2>3. PICK c \in Contents : /\ objects' = [objects EXCEPT ![kvMap[p][k]].content = c]
                              /\ meant' = [meant EXCEPT ![p][k].content = c]
    BY <1>2 DEF get
  <2>4. kvMap[p][k] \in 1..Len(objects) /\ objects \in Seq(Value)
    BY <2>2 DEF PropertiesInv, EntriesSound
  <2>5. objects[kvMap[p][k]] \in Value
    BY <2>4
  <2>6. /\ objects' \in Seq(Value) /\ Len(objects') = Len(objects)
        /\ \A i \in 1..Len(objects) : objects'[i].kind = objects[i].kind
    BY <2>3, <2>4, <2>5 DEF Value
  <2>7. DOMAIN meant' = Holder
    BY <2>3 DEF PropertiesInv
  <2> QED BY <2>1, <2>6, <2>7 DEF PropertiesInv, EntriesSound
<1> QED BY <1>1, <1>2

LEMMA PropertiesStep == PropertiesInv /\ [PropertiesNext]_propertiesVars => PropertiesInv'
<1> SUFFICES ASSUME PropertiesInv, [PropertiesNext]_propertiesVars PROVE PropertiesInv'
  OBVIOUS
<1>1. CASE PropertiesNext
  BY <1>1, PutStep, FromMapStep, EntryStep, GetStep DEF PropertiesNext
<1>2. CASE UNCHANGED propertiesVars
  BY <1>2 DEF propertiesVars, PropertiesInv, EntriesSound
<1> QED BY <1>1, <1>2

(* Copies of a Properties share their objects and still each holds what was *)
(* put in it, and get<T>() of a key's type never fails to cast: for any     *)
(* keys, values and number of objects.                                      *)
THEOREM PropertiesKeepValues == PropertiesSpec => []ValueSemantics
<1>1. PropertiesInit => PropertiesInv
  BY DEF PropertiesInit, PropertiesInv, EntriesSound, NoKeys, Holder
<1>2. PropertiesInv => ValueSemantics
  BY DEF PropertiesInv, EntriesSound, ValueSemantics, KindOf
<1> QED BY <1>1, <1>2, PropertiesStep, PTL DEF PropertiesSpec

-----------------------------------------------------------------------------
(* The heap's indices.                                                     *)
LEMMA Parents ==
    ASSUME NEW i \in Nat, i >= 2
    PROVE  /\ Parent(i) \in Nat /\ 1 <= Parent(i) /\ Parent(i) < i
           /\ i = 2 * Parent(i) \/ i = 2 * Parent(i) + 1
  BY DEF Parent

LEMMA Children ==
    ASSUME NEW i \in Nat, i >= 1
    PROVE  Parent(LeftChild(i)) = i /\ Parent(RightChild(i)) = i
  BY DEF Parent, LeftChild, RightChild

LEMMA SwapElements ==
    ASSUME NEW S, NEW s \in Seq(S), NEW i \in 1..Len(s), NEW j \in 1..Len(s), i # j
    PROVE  /\ Swap(s, i, j) \in Seq(S) /\ Len(Swap(s, i, j)) = Len(s)
           /\ Swap(s, i, j)[i] = s[j] /\ Swap(s, i, j)[j] = s[i]
           /\ \A k \in 1..Len(s) : k # i /\ k # j => Swap(s, i, j)[k] = s[k]
  BY DEF Swap

LEMMA DropLast ==
    ASSUME NEW S, NEW s \in Seq(S), s # <<>>
    PROVE  /\ SubSeq(s, 1, Len(s) - 1) \in Seq(S)
           /\ Len(SubSeq(s, 1, Len(s) - 1)) = Len(s) - 1
           /\ \A k \in 1..(Len(s) - 1) : SubSeq(s, 1, Len(s) - 1)[k] = s[k]
<1>1. Len(s) - 1 \in Nat /\ \A i \in 1..(Len(s) - 1) : s[i] \in S
  BY ElementOfSeq, LenProperties
<1>2. SubSeq(s, 1, Len(s) - 1) \in Seq(S)
  BY <1>1, SubSeqProperties
<1>3. Len(SubSeq(s, 1, Len(s) - 1)) = Len(s) - 1
  <2> DEFINE n == Len(s) - 1
  <2> DEFINE m == Len(SubSeq(s, 1, n))
  <2>1. n \in Nat /\ m = IF 1 <= n THEN n - 1 + 1 ELSE 0
    BY <1>1, SubSeqProperties
  <2> HIDE DEF m, n
  <2>2. m = n
    BY <2>1
  <2> QED BY <2>2 DEF m, n
<1>4. \A k \in 1..(Len(s) - 1) : SubSeq(s, 1, Len(s) - 1)[k] = s[k]
  BY <1>1
<1> QED BY <1>2, <1>3, <1>4

-----------------------------------------------------------------------------
(* A sequence as a bag.                                                    *)
At(s, e) == {i \in DOMAIN s : s[i] = e}

LEMMA AtFinite ==
    ASSUME NEW S, NEW s \in Seq(S), NEW e
    PROVE  /\ IsFiniteSet(At(s, e)) /\ Cardinality(At(s, e)) \in Nat
           /\ Cardinality(At(s, e)) > 0 <=> e \in {s[i] : i \in DOMAIN s}
<1>1. Len(s) \in Nat /\ DOMAIN s = 1..Len(s)
  OBVIOUS
<1>2. IsFiniteSet(1..Len(s))
  BY <1>1, FS_Interval
<1>3. At(s, e) \in SUBSET (1..Len(s))
  BY <1>1 DEF At
<1>4. IsFiniteSet(At(s, e)) /\ Cardinality(At(s, e)) \in Nat
  BY <1>2, <1>3, FS_Subset, FS_CardinalityType
<1>5. Cardinality(At(s, e)) = 0 <=> At(s, e) = {}
  BY <1>4, FS_EmptySet
<1>6. At(s, e) # {} <=> e \in {s[i] : i \in DOMAIN s}
  BY DEF At
<1> QED BY <1>4, <1>5, <1>6

LEMMA BagCounts ==
    ASSUME NEW s
    PROVE  /\ DOMAIN BagOf(s) = {s[i] : i \in DOMAIN s}
           /\ \A e \in DOMAIN BagOf(s) : BagOf(s)[e] = Cardinality(At(s, e))
           /\ BagOf(s) = [e \in DOMAIN BagOf(s) |-> BagOf(s)[e]]
  BY DEF BagOf, At

(* Swapping two elements does not change the bag.                          *)
LEMMA SwapKeepsBag ==
    ASSUME NEW S, NEW s \in Seq(S), NEW i \in 1..Len(s), NEW j \in 1..Len(s), i # j
    PROVE  BagOf(Swap(s, i, j)) = BagOf(s)
<1> DEFINE t == Swap(s, i, j)
<1>1. /\ t \in Seq(S) /\ Len(t) = Len(s) /\ t[i] = s[j] /\ t[j] = s[i]
      /\ \A k \in 1..Len(s) : k # i /\ k # j => t[k] = s[k]
  BY SwapElements
<1> HIDE DEF t
<1>2. DOMAIN t = 1..Len(s) /\ DOMAIN s = 1..Len(s)
  BY <1>1
<1>3. ASSUME NEW e PROVE Cardinality(At(t, e)) = Cardinality(At(s, e))
  <2>1. IsFiniteSet(At(s, e)) /\ Cardinality(At(s, e)) \in Nat
    BY AtFinite
  <2>2. CASE s[i] = s[j] \/ (s[i] # e /\ s[j] # e)
    <3>1. At(t, e) = At(s, e)
      BY <1>1, <1>2, <2>2 DEF At
    <3> QED BY <3>1
  <2>3. ASSUME NEW a \in {i, j}, NEW b \in {i, j}, s[a] = e, s[b] # e
        PROVE  Cardinality(At(t, e)) = Cardinality(At(s, e))
    <3>1. At(t, e) = (At(s, e) \ {a}) \cup {b} /\ a \in At(s, e) /\ b \notin At(s, e) \ {a}
      BY <1>1, <1>2, <2>3 DEF At
    <3>2. /\ IsFiniteSet(At(s, e) \ {a})
          /\ Cardinality(At(s, e) \ {a}) = Cardinality(At(s, e)) - 1
      BY <2>1, <3>1, FS_RemoveElement
    <3>3. Cardinality((At(s, e) \ {a}) \cup {b}) = Cardinality(At(s, e) \ {a}) + 1
      BY <3>1, <3>2, FS_AddElement
    <3> QED BY <2>1, <3>1, <3>2, <3>3
  <2> QED BY <2>2, <2>3
<1>4. ASSUME NEW e PROVE e \in DOMAIN BagOf(t) <=> e \in DOMAIN BagOf(s)
  <2>1. Cardinality(At(t, e)) > 0 <=> e \in {t[k] : k \in DOMAIN t}
    BY <1>1, AtFinite
  <2>2. Cardinality(At(s, e)) > 0 <=> e \in {s[k] : k \in DOMAIN s}
    BY AtFinite
  <2>3. Cardinality(At(t, e)) = Cardinality(At(s, e))
    BY <1>3
  <2> QED BY <2>1, <2>2, <2>3, BagCounts, Zenon
<1>5. DOMAIN BagOf(t) = DOMAIN BagOf(s)
  BY <1>4, Zenon
<1>6. \A e \in DOMAIN BagOf(s) : BagOf(t)[e] = BagOf(s)[e]
  <2> SUFFICES ASSUME NEW e \in DOMAIN BagOf(s) PROVE BagOf(t)[e] = BagOf(s)[e]
    OBVIOUS
  <2>1. BagOf(t)[e] = Cardinality(At(t, e)) /\ BagOf(s)[e] = Cardinality(At(s, e))
    BY <1>5, BagCounts, Zenon
  <2> QED BY <1>3, <2>1, Zenon
<1>7. BagOf(t) = BagOf(s)
  BY <1>5, <1>6, BagCounts
<1> QED BY <1>7 DEF t

-----------------------------------------------------------------------------
(* The order of the heap.                                                  *)
HeapTypeOK ==
    /\ data \in Seq(Elements)
    /\ phase \in {"idle", "up", "down"}
    /\ current \in Nat \ {0}

HeapInv == HeapTypeOK /\ HeapOrder

(* Every element is an integer.                                            *)
LEMMA HeapElements ==
    ASSUME HeapTypeOK
    PROVE  /\ Len(data) \in Nat /\ DOMAIN data = 1..Len(data)
           /\ \A i \in 1..Len(data) : data[i] \in Int
<1>1. Len(data) \in Nat /\ DOMAIN data = 1..Len(data)
  BY DEF HeapTypeOK
<1>2. \A i \in 1..Len(data) : data[i] \in Elements
  BY ElementOfSeq DEF HeapTypeOK
<1> QED BY <1>1, <1>2, ElementsAreIntegers

LEMMA PushStep ==
    ASSUME HeapInv, NEW t \in Elements, Push(t)
    PROVE  HeapInv'
<1>1. /\ data' \in Seq(Elements) /\ Len(data') = Len(data) + 1
      /\ \A i \in 1..Len(data) : data'[i] = data[i]
  BY AppendProperties DEF Push, HeapInv, HeapTypeOK
<1>2. phase = "idle" /\ phase' = "up" /\ current' = Len(data) + 1
  BY DEF Push
<1>3. Len(data) \in Nat
  BY HeapElements DEF HeapInv
<1>4. HeapTypeOK'
  BY <1>1, <1>2, <1>3 DEF HeapTypeOK
<1>5. ASSUME NEW i \in 2..Len(data'), i # current' PROVE data'[Parent(i)] <= data'[i]
  <2>1. i \in 2..Len(data) /\ Parent(i) \in 1..Len(data)
    BY <1>1, <1>2, <1>3, <1>5, Parents
  <2>2. data[Parent(i)] <= data[i]
    BY <1>2, <2>1 DEF HeapInv, HeapOrder
  <2> QED BY <1>1, <2>1, <2>2
<1>6. ASSUME NEW i \in 2..Len(data') PROVE Parent(i) # current'
  BY <1>1, <1>2, <1>3, Parents
<1>7. current' <= Len(data')
  BY <1>1, <1>2, <1>3
<1> QED BY <1>2, <1>4, <1>5, <1>6, <1>7 DEF HeapInv, HeapOrder

LEMMA PopFrontStep ==
    ASSUME HeapInv, PopFront
    PROVE  HeapInv'
<1> DEFINE s == [data EXCEPT ![1] = data[Len(data)]]
<1>1. /\ Len(data) \in Nat /\ Len(data) >= 1
      /\ data \in Seq(Elements) /\ data[Len(data)] \in Elements
  BY HeapElements, ElementOfSeq, EmptySeq DEF PopFront, HeapInv, HeapTypeOK
<1>2. s \in Seq(Elements) /\ Len(s) = Len(data) /\ \A i \in 2..Len(data) : s[i] = data[i]
  BY <1>1
<1>3. data' = SubSeq(s, 1, Len(s) - 1) /\ s # <<>>
  BY <1>1, <1>2 DEF PopFront
<1> HIDE DEF s
<1>4. /\ data' \in Seq(Elements) /\ Len(data') = Len(data) - 1
      /\ \A k \in 1..(Len(data) - 1) : data'[k] = s[k]
  BY <1>2, <1>3, DropLast
<1>5. phase = "idle" /\ current' = 1 /\ phase' = IF Len(data) = 1 THEN "idle" ELSE "down"
  BY DEF PopFront
<1>6. HeapTypeOK'
  BY <1>4, <1>5 DEF HeapTypeOK
<1>7. ASSUME NEW i \in 2..Len(data'), Parent(i) # 1 PROVE data'[Parent(i)] <= data'[i]
  <2>1. i \in 2..(Len(data) - 1) /\ Parent(i) \in 2..(Len(data) - 1)
    BY <1>1, <1>4, <1>7, Parents
  <2>2. data[Parent(i)] <= data[i]
    BY <1>1, <1>5, <2>1 DEF HeapInv, HeapOrder
  <2>3. data'[i] = data[i] /\ data'[Parent(i)] = data[Parent(i)]
    BY <1>1, <1>2, <1>4, <2>1
  <2> QED BY <2>2, <2>3
<1>8. CASE Len(data) = 1
  <2>1. 2..Len(data') = {} /\ phase' = "idle"
    BY <1>4, <1>5, <1>8
  <2> QED BY <1>6, <2>1 DEF HeapInv, HeapOrder
<1>9. CASE Len(data) # 1
  <2>1. phase' = "down" /\ current' <= Len(data') /\ ~(current' > 1)
    BY <1>1, <1>4, <1>5, <1>9
  <2> QED BY <1>5, <1>6, <1>7, <2>1 DEF HeapInv, HeapOrder
<1> QED BY <1>8, <1>9

LEMMA SiftUpStep ==
    ASSUME HeapInv, SiftUp
    PROVE  HeapInv'
<1> DEFINE c == current
<1> DEFINE p == Parent(current)
<1> DEFINE n == Len(data)
<1>1. /\ n \in Nat /\ c \in 2..n /\ p \in 1..n /\ p < c
      /\ data[c] < data[p] /\ phase = "up" /\ phase' = "up" /\ current' = p
      /\ \A i \in 1..n : data[i] \in Int
  BY HeapElements, Parents DEF SiftUp, HeapInv, HeapTypeOK, HeapOrder
<1>2. /\ data' = Swap(data, c, p) /\ data \in Seq(Elements)
      /\ c \in 1..Len(data) /\ p \in 1..Len(data) /\ c # p
  BY <1>1 DEF SiftUp, HeapInv, HeapTypeOK
<1>3. /\ data' \in Seq(Elements) /\ Len(data') = n /\ data'[c] = data[p] /\ data'[p] = data[c]
      /\ \A k \in 1..n : k # c /\ k # p => data'[k] = data[k]
  BY <1>1, <1>2, SwapElements
<1>4. \A i \in 2..n : i # c => data[Parent(i)] <= data[i]
  BY <1>1 DEF HeapInv, HeapOrder
<1>5. \A i \in 2..n : Parent(i) = c => data[p] <= data[i]
  BY <1>1 DEF HeapInv, HeapOrder
<1>6. \A i \in 2..n : Parent(i) \in 1..n /\ Parent(i) < i
  BY <1>1, Parents
<1>7. Parent(c) = p
  OBVIOUS
<1> HIDE DEF c, p, n
<1>8. ASSUME NEW i \in 2..n, i # p PROVE data'[Parent(i)] <= data'[i]
  <2>1. CASE i = c
    BY <1>1, <1>3, <1>7, <2>1
  <2>2. CASE i # c /\ Parent(i) = c
    <3>1. data'[Parent(i)] = data[p] /\ data'[i] = data[i]
      BY <1>1, <1>3, <1>8, <2>2
    <3> QED BY <1>5, <2>2, <3>1
  <2>3. CASE i # c /\ Parent(i) = p
    <3>1. data'[Parent(i)] = data[c] /\ data'[i] = data[i] /\ data[p] <= data[i]
      BY <1>1, <1>3, <1>4, <1>8, <2>3
    <3> QED BY <1>1, <1>8, <3>1
  <2>4. CASE i # c /\ Parent(i) # c /\ Parent(i) # p
    <3>1. data'[Parent(i)] = data[Parent(i)] /\ data'[i] = data[i]
      BY <1>1, <1>3, <1>6, <1>8, <2>4
    <3> QED BY <1>4, <2>4, <3>1
  <2> QED BY <2>1, <2>2, <2>3, <2>4
<1>9. ASSUME NEW i \in 2..n, Parent(i) = p, p > 1 PROVE data'[Parent(p)] <= data'[i]
  <2>1. p \in 2..n /\ p # c /\ Parent(p) \in 1..n /\ Parent(p) # p /\ Parent(p) # c
    BY <1>1, <1>6, <1>9
  <2>2. data'[Parent(p)] = data[Parent(p)] /\ data[Parent(p)] <= data[p]
    BY <1>3, <1>4, <2>1
  <2>3. CASE i = c
    BY <1>3, <2>2, <2>3
  <2>4. CASE i # c
    <3>1. data'[i] = data[i] /\ data[p] <= data[i]
      BY <1>1, <1>3, <1>4, <1>6, <1>9, <2>4
    <3> QED BY <1>1, <2>1, <2>2, <3>1
  <2> QED BY <2>3, <2>4
<1>10. HeapTypeOK'
  BY <1>1, <1>3 DEF HeapTypeOK
<1>11. HeapOrder'
  BY <1>1, <1>3, <1>8, <1>9 DEF HeapOrder
<1> QED BY <1>10, <1>11 DEF HeapInv

LEMMA SiftDownStep ==
    ASSUME HeapInv, SiftDown
    PROVE  HeapInv'
<1> DEFINE c == current
<1> DEFINE m == MinChild(current)
<1> DEFINE n == Len(data)
<1>1. /\ n \in Nat /\ c \in 1..n /\ \A i \in 1..n : data[i] \in Int
      /\ LeftChild(c) <= n /\ data[m] < data[c]
      /\ phase = "down" /\ phase' = "down" /\ current' = m
  BY HeapElements DEF SiftDown, HeapInv, HeapTypeOK, HeapOrder
<1>2. m \in 2..n /\ Parent(m) = c /\ m # c
  <2>1. m = LeftChild(c) \/ (m = RightChild(c) /\ RightChild(c) <= n)
    BY <1>1 DEF MinChild, LeftChild, RightChild
  <2>2. Parent(m) = c
    BY <1>1, <2>1, Children
  <2> QED BY <1>1, <2>1, <2>2 DEF LeftChild, RightChild
<1>3. \A i \in 2..n : Parent(i) = c => data[m] <= data[i]
  <2> SUFFICES ASSUME NEW i \in 2..n, Parent(i) = c PROVE data[m] <= data[i]
    OBVIOUS
  <2>1. i = LeftChild(c) \/ i = RightChild(c)
    BY Parents DEF LeftChild, RightChild
  <2>2. i \in Nat /\ LeftChild(c) \in 1..n /\ data[i] \in Int /\ data[LeftChild(c)] \in Int
    BY <1>1 DEF LeftChild
  <2> QED BY <1>1, <2>1, <2>2 DEF MinChild, LeftChild, RightChild
<1>4. /\ data' = Swap(data, c, m) /\ data \in Seq(Elements)
      /\ c \in 1..Len(data) /\ m \in 1..Len(data)
  BY <1>1, <1>2 DEF SiftDown, HeapInv, HeapTypeOK
<1>5. /\ data' \in Seq(Elements) /\ Len(data') = n /\ data'[c] = data[m] /\ data'[m] = data[c]
      /\ \A k \in 1..n : k # c /\ k # m => data'[k] = data[k]
  BY <1>2, <1>4, SwapElements
<1>6. \A i \in 2..n : Parent(i) # c => data[Parent(i)] <= data[i]
  BY <1>1 DEF HeapInv, HeapOrder
<1>7. \A i \in 2..n : Parent(i) = c /\ c > 1 => data[Parent(c)] <= data[i]
  BY <1>1 DEF HeapInv, HeapOrder
<1>8. \A i \in 2..n : Parent(i) \in 1..n /\ Parent(i) < i
  BY <1>1, Parents
<1> HIDE DEF c, m, n
<1>9. ASSUME NEW i \in 2..n, Parent(i) # m PROVE data'[Parent(i)] <= data'[i]
  <2>1. CASE i = m
    BY <1>1, <1>2, <1>5, <2>1
  <2>2. CASE i # m /\ Parent(i) = c
    <3>1. data'[Parent(i)] = data[m] /\ data'[i] = data[i]
      BY <1>1, <1>5, <1>8, <2>2
    <3> QED BY <1>3, <2>2, <3>1
  <2>3. CASE i = c
    <3>1. c > 1 /\ Parent(m) = c /\ data[Parent(c)] <= data[m]
      BY <1>1, <1>2, <1>7, <2>3
    <3>2. data'[Parent(c)] = data[Parent(c)]
      BY <1>5, <1>8, <1>9, <2>3
    <3> QED BY <1>5, <2>3, <3>1, <3>2
  <2>4. CASE i # m /\ i # c /\ Parent(i) # c
    <3>1. data'[Parent(i)] = data[Parent(i)] /\ data'[i] = data[i]
      BY <1>1, <1>5, <1>8, <1>9, <2>4
    <3> QED BY <1>6, <2>4, <3>1
  <2> QED BY <2>1, <2>2, <2>3, <2>4
<1>10. ASSUME NEW i \in 2..n, Parent(i) = m PROVE data'[Parent(m)] <= data'[i]
  <2>1. i # m /\ i # c
    BY <1>1, <1>2, <1>8, <1>10
  <2>2. data'[i] = data[i] /\ data'[Parent(m)] = data[m]
    BY <1>1, <1>2, <1>5, <2>1
  <2> QED BY <1>2, <1>6, <1>10, <2>2
<1>11. HeapTypeOK'
  BY <1>1, <1>2, <1>5 DEF HeapTypeOK
<1>12. HeapOrder'
  BY <1>1, <1>2, <1>5, <1>9, <1>10 DEF HeapOrder
<1> QED BY <1>11, <1>12 DEF HeapInv

(* A loop that ends leaves no order broken.                                *)
LEMMA SiftUpDoneStep ==
    ASSUME HeapInv, SiftUpDone
    PROVE  HeapInv'
<1>1. /\ phase = "up" /\ phase' = "idle" /\ current' = 1 /\ data' = data
      /\ current > 1 => ~(data[current] < data[Parent(current)])
  BY DEF SiftUpDone
<1>2. HeapTypeOK'
  BY <1>1 DEF HeapInv, HeapTypeOK
<1>3. ASSUME NEW i \in 2..Len(data) PROVE data[Parent(i)] <= data[i]
  <2>1. CASE i # current
    BY <1>1, <2>1 DEF HeapInv, HeapOrder
  <2>2. CASE i = current
    <3>1. Parent(i) \in 1..Len(data) /\ i \in 1..Len(data)
      BY HeapElements, Parents DEF HeapInv
    <3>2. data[i] \in Int /\ data[Parent(i)] \in Int /\ ~(data[i] < data[Parent(i)])
      BY <1>1, <2>2, <3>1, HeapElements DEF HeapInv
    <3> QED BY <3>2
  <2> QED BY <2>1, <2>2
<1>4. HeapOrder'
  BY <1>1, <1>3 DEF HeapOrder
<1> QED BY <1>2, <1>4 DEF HeapInv

LEMMA SiftDownDoneStep ==
    ASSUME HeapInv, SiftDownDone
    PROVE  HeapInv'
<1> DEFINE c == current
<1> DEFINE n == Len(data)
<1>1. /\ phase = "down" /\ phase' = "idle" /\ current' = 1 /\ data' = data
      /\ LeftChild(c) <= n => ~(data[MinChild(c)] < data[c])
  BY DEF SiftDownDone
<1>2. HeapTypeOK'
  BY <1>1 DEF HeapInv, HeapTypeOK
<1>3. n \in Nat /\ c \in 1..n /\ \A i \in 1..n : data[i] \in Int
  BY <1>1, HeapElements DEF HeapInv, HeapTypeOK, HeapOrder
<1>4. ASSUME NEW i \in 2..n PROVE data[Parent(i)] <= data[i]
  <2>1. CASE Parent(i) # c
    BY <1>1, <2>1 DEF HeapInv, HeapOrder
  <2>2. CASE Parent(i) = c
    <3>1. i = LeftChild(c) \/ i = RightChild(c)
      BY <2>2, Parents DEF LeftChild, RightChild
    <3>2. /\ LeftChild(c) \in 1..n /\ data[LeftChild(c)] \in Int
          /\ data[i] \in Int /\ data[c] \in Int
      BY <1>3, <3>1 DEF LeftChild, RightChild
    <3>3. ~(data[MinChild(c)] < data[c])
      BY <1>1, <3>2
    <3> QED BY <1>3, <2>2, <3>1, <3>2, <3>3 DEF MinChild, LeftChild, RightChild
  <2> QED BY <2>1, <2>2
<1>5. HeapOrder'
  BY <1>1, <1>4 DEF HeapOrder
<1> QED BY <1>2, <1>5 DEF HeapInv

LEMMA HeapStep == HeapInv /\ [HeapNext]_heapVars => HeapInv'
<1> SUFFICES ASSUME HeapInv, [HeapNext]_heapVars PROVE HeapInv'
  OBVIOUS
<1>1. CASE HeapNext
  BY <1>1, PushStep, PopFrontStep, SiftUpStep, SiftDownStep, SiftUpDoneStep, SiftDownDoneStep
     DEF HeapNext
<1>2. CASE UNCHANGED heapVars
  BY <1>2 DEF heapVars, HeapInv, HeapTypeOK, HeapOrder, Parent
<1> QED BY <1>1, <1>2

LEMMA HeapStart == HeapInit => HeapInv
<1> SUFFICES ASSUME HeapInit PROVE HeapInv
  OBVIOUS
<1>1. data = <<>> /\ phase = "idle" /\ current = 1
  BY DEF HeapInit
<1>2. data \in Seq(Elements) /\ Len(data) = 0
  BY <1>1, EmptySeq
<1>3. 2..Len(data) = {}
  BY <1>2
<1> QED BY <1>1, <1>2, <1>3 DEF HeapInv, HeapTypeOK, HeapOrder

(* The loop invariants of push() and pop_front(), for any elements and any  *)
(* size: only the element that is being moved is out of order.              *)
THEOREM HeapKeepsOrder == HeapSpec => []HeapOrder
<1>1. HeapInv => HeapOrder
  BY DEF HeapInv
<1> QED BY <1>1, HeapStart, HeapStep, PTL DEF HeapSpec

-----------------------------------------------------------------------------
(* A nonempty set of naturals has a least element.                         *)
LEMMA HasLeast ==
    ASSUME NEW T \in SUBSET Nat, T # {}
    PROVE  \E p \in T : \A q \in T : p <= q
<1> DEFINE R == OpToRel(<, Nat)
<1>1. \A x, y \in Nat : <<y, x>> \in R <=> y < x
  BY DEF OpToRel
<1>2. IsWellFoundedOn(R, Nat)
  BY NatLessThanWellFounded, Zenon
<1> HIDE DEF R
<1>3. PICK p \in T : \A q \in T : ~(<<q, p>> \in R)
  BY <1>2, WFMin, Zenon
<1>4. \A q \in T : p <= q
  <2> TAKE q \in T
  <2>1. ~(<<q, p>> \in R) /\ p \in Nat /\ q \in Nat
    BY <1>3
  <2>2. ~(q < p)
    BY <1>1, <2>1, Zenon
  <2> QED BY <2>1, <2>2
<1> QED BY <1>4

(* Between calls the first element is a minimum: the least index that holds *)
(* a smaller one would have a parent at an even smaller index.              *)
LEMMA FrontIsMinimum ==
    ASSUME HeapInv, phase = "idle"
    PROVE  \A i \in 1..Len(data) : data[1] <= data[i]
<1>1. Len(data) \in Nat /\ \A i \in 1..Len(data) : data[i] \in Int
  BY HeapElements DEF HeapInv
<1>2. \A i \in 2..Len(data) : data[Parent(i)] <= data[i]
  BY DEF HeapInv, HeapOrder
<1> DEFINE T == {i \in 1..Len(data) : data[i] < data[1]}
<1>3. SUFFICES ASSUME T # {} PROVE FALSE
  BY <1>1
<1>4. T \in SUBSET Nat
  BY <1>1
<1> HIDE DEF T
<1>5. PICK i \in T : \A j \in T : i <= j
  BY <1>3, <1>4, HasLeast
<1>6. i \in 2..Len(data) /\ data[i] < data[1]
  BY <1>1, <1>5 DEF T
<1>7. Parent(i) \in 1..Len(data) /\ Parent(i) < i
  BY <1>1, <1>6, Parents
<1>8. Parent(i) \in T
  <2>1. data[Parent(i)] <= data[i] /\ data[Parent(i)] \in Int /\ data[i] \in Int /\ data[1] \in Int
    BY <1>1, <1>2, <1>6, <1>7
  <2> QED BY <1>6, <1>7, <2>1 DEF T
<1> QED BY <1>1, <1>5, <1>6, <1>7, <1>8

-----------------------------------------------------------------------------
(* push() adds one element to the bag and pop_front() takes one out.       *)
LEMMA AppendAddsOne ==
    ASSUME NEW S, NEW s \in Seq(S), NEW t \in S
    PROVE  BagOf(Append(s, t)) = BagOf(s) (+) SetToBag({t})
<1> DEFINE n == Len(s) + 1
<1> DEFINE u == Append(s, t)
<1>1. /\ n \in Nat /\ n >= 1 /\ u \in Seq(S) /\ Len(u) = n /\ u[n] = t
      /\ \A i \in 1..(n - 1) : u[i] = s[i]
      /\ DOMAIN s = 1..(n - 1) /\ DOMAIN u = 1..n
  BY AppendProperties
<1> HIDE DEF n, u
<1>2. At(u, t) = At(s, t) \cup {n} /\ n \notin At(s, t)
  BY <1>1 DEF At
<1>3. Cardinality(At(u, t)) = Cardinality(At(s, t)) + 1
  BY <1>2, AtFinite, FS_AddElement
<1>4. ASSUME NEW e, e # t PROVE At(u, e) = At(s, e)
  BY <1>1, <1>4 DEF At
<1>5. {u[i] : i \in DOMAIN u} = {s[i] : i \in DOMAIN s} \cup {t}
  BY <1>1
<1>6. DOMAIN BagOf(u) = DOMAIN BagOf(s) \cup {t}
  BY <1>5, BagCounts
<1>7. t \notin DOMAIN BagOf(s) => Cardinality(At(s, t)) = 0
  <2>1. /\ Cardinality(At(s, t)) \in Nat
        /\ Cardinality(At(s, t)) > 0 <=> t \in {s[i] : i \in DOMAIN s}
    BY AtFinite
  <2>2. t \in {s[i] : i \in DOMAIN s} <=> t \in DOMAIN BagOf(s)
    BY BagCounts, Zenon
  <2>3. Cardinality(At(s, t)) > 0 <=> t \in DOMAIN BagOf(s)
    BY <2>1, <2>2, Zenon
  <2> QED BY <2>1, <2>3
<1>8. ASSUME NEW e \in DOMAIN BagOf(u)
      PROVE  BagOf(u)[e] = (IF e \in DOMAIN BagOf(s) THEN BagOf(s)[e] ELSE 0)
                           + (IF e \in {t} THEN 1 ELSE 0)
  <2>1. BagOf(u)[e] = Cardinality(At(u, e)) /\ Cardinality(At(s, e)) \in Nat
    BY AtFinite, BagCounts
  <2>2. e \in DOMAIN BagOf(s) => BagOf(s)[e] = Cardinality(At(s, e))
    BY BagCounts
  <2>3. CASE e = t
    BY <1>3, <1>7, <2>1, <2>2, <2>3
  <2>4. CASE e # t
    BY <1>4, <1>6, <2>1, <2>2, <2>4
  <2> QED BY <2>3, <2>4
<1> DEFINE b == BagOf(u)
<1> DEFINE a == BagOf(s)
<1>9. b = [e \in DOMAIN b |-> b[e]]
  BY BagCounts
<1> HIDE DEF a, b
<1>10. b = a (+) SetToBag({t})
  BY <1>6, <1>8, <1>9 DEF (+), SetToBag, a, b
<1> QED BY <1>10 DEF a, b, u

LEMMA DropTakesOne ==
    ASSUME NEW S, NEW v \in Seq(S), NEW u \in Seq(S), NEW t,
           Len(v) = Len(u) + 1, v[Len(v)] = t, \A i \in 1..Len(u) : u[i] = v[i]
    PROVE  BagOf(u) = BagOf(v) (-) SetToBag({t})
<1> DEFINE n == Len(v)
<1>1. /\ n \in Nat /\ n >= 1 /\ v[n] = t /\ \A i \in 1..(n - 1) : u[i] = v[i]
      /\ DOMAIN v = 1..n /\ DOMAIN u = 1..(n - 1)
  OBVIOUS
<1> HIDE DEF n
<1>2. At(v, t) = At(u, t) \cup {n} /\ n \notin At(u, t)
  BY <1>1 DEF At
<1>3. Cardinality(At(v, t)) = Cardinality(At(u, t)) + 1
  BY <1>2, AtFinite, FS_AddElement
<1>4. ASSUME NEW e, e # t PROVE At(v, e) = At(u, e)
  BY <1>1, <1>4 DEF At
<1> DEFINE a == BagOf(v)
<1> DEFINE b == BagOf(u)
<1>5. ASSUME NEW e
      PROVE  /\ Cardinality(At(v, e)) \in Nat /\ Cardinality(At(u, e)) \in Nat
             /\ e \in DOMAIN a <=> Cardinality(At(v, e)) > 0
             /\ e \in DOMAIN b <=> Cardinality(At(u, e)) > 0
             /\ e \in DOMAIN a => a[e] = Cardinality(At(v, e))
             /\ e \in DOMAIN b => b[e] = Cardinality(At(u, e))
  <2>1. /\ Cardinality(At(v, e)) \in Nat
        /\ Cardinality(At(v, e)) > 0 <=> e \in {v[i] : i \in DOMAIN v}
    BY AtFinite
  <2>2. /\ Cardinality(At(u, e)) \in Nat
        /\ Cardinality(At(u, e)) > 0 <=> e \in {u[i] : i \in DOMAIN u}
    BY AtFinite
  <2> QED BY <2>1, <2>2, BagCounts, Zenon
<1>6. b = [e \in DOMAIN b |-> b[e]]
  BY BagCounts
<1> HIDE DEF a, b
<1> DEFINE w == [e \in DOMAIN a |-> IF e \in {t} THEN a[e] - 1 ELSE a[e]]
<1>7. ASSUME NEW e
      PROVE  /\ e \in DOMAIN b <=> e \in DOMAIN a /\ w[e] > 0
             /\ e \in DOMAIN b => b[e] = w[e]
  <2> DEFINE x == Cardinality(At(v, e))
  <2> DEFINE y == Cardinality(At(u, e))
  <2>1. /\ x \in Nat /\ y \in Nat
        /\ e \in DOMAIN a <=> x > 0
        /\ e \in DOMAIN b <=> y > 0
        /\ e \in DOMAIN a => a[e] = x
        /\ e \in DOMAIN b => b[e] = y
    BY <1>5, Zenon
  <2>2. e = t => x = y + 1
    BY <1>3
  <2>3. e # t => x = y
    BY <1>4
  <2> HIDE DEF x, y
  <2>4. e \in DOMAIN a => w[e] = IF e = t THEN x - 1 ELSE x
    BY <2>1
  <2> HIDE DEF w
  <2>5. e \in DOMAIN a => w[e] = y
    BY <2>1, <2>2, <2>3, <2>4
  <2>6. e \in DOMAIN b => e \in DOMAIN a
    BY <2>1, <2>2, <2>3
  <2> QED BY <2>1, <2>5, <2>6
<1>8. DOMAIN w = DOMAIN a
  OBVIOUS
<1>9. a (-) SetToBag({t}) = [e \in {d \in DOMAIN w : w[d] > 0} |-> w[e]]
  BY DEF (-), SetToBag
<1> HIDE DEF w
<1>10. DOMAIN b = {d \in DOMAIN w : w[d] > 0}
  BY <1>7, <1>8
<1>11. b = [e \in {d \in DOMAIN w : w[d] > 0} |-> w[e]]
  BY <1>6, <1>7, <1>10
<1> QED BY <1>9, <1>11 DEF a, b

(* The call push(t) is the queue's Push, and pop_front() its PopFront.     *)
LEMMA PushAdds ==
    ASSUME HeapInv, NEW t \in Elements, Push(t)
    PROVE  PQ!Push(t)
<1>1. data' = Append(data, t)
  BY DEF Push
<1>2. BagOf(data') = BagOf(data) (+) SetToBag({t})
  BY <1>1, AppendAddsOne DEF HeapInv, HeapTypeOK
<1> QED BY <1>2 DEF PQ!Push, PQ!(+), PQ!SetToBag, (+), SetToBag, Content

LEMMA PopFrontTakesMinimum ==
    ASSUME HeapInv, PopFront
    PROVE  PQ!PopFront
<1> DEFINE n == Len(data)
<1> DEFINE s == [data EXCEPT ![1] = data[n]]
<1>1. /\ n \in Nat /\ n >= 1 /\ DOMAIN data = 1..n /\ phase = "idle"
      /\ data \in Seq(Elements) /\ data[n] \in Elements
  BY HeapElements, ElementOfSeq, EmptySeq DEF PopFront, HeapInv, HeapTypeOK
<1>2. s \in Seq(Elements) /\ Len(s) = n /\ s[1] = data[n] /\ \A i \in 2..n : s[i] = data[i]
  BY <1>1
<1>3. data' = SubSeq(s, 1, Len(s) - 1) /\ s # <<>>
  BY <1>1, <1>2 DEF PopFront
<1> HIDE DEF s
<1>4. /\ data' \in Seq(Elements) /\ Len(data') = n - 1
      /\ \A k \in 1..(n - 1) : data'[k] = s[k]
  BY <1>2, <1>3, DropLast
<1>5. BagOf(data') = BagOf(data) (-) SetToBag({data[1]})
  <2>1. CASE n = 1
    <3>1. Len(data) = Len(data') + 1 /\ data[Len(data)] = data[1] /\ 1..Len(data') = {}
      BY <1>1, <1>4, <2>1
    <3> QED BY <1>1, <1>4, <3>1, DropTakesOne
  <2>2. CASE n # 1
    <3> DEFINE v == Swap(data, 1, n)
    <3>1. 1 \in 1..Len(data) /\ n \in 1..Len(data) /\ 1 # n
      BY <1>1, <2>2
    <3>2. /\ v \in Seq(Elements) /\ Len(v) = n /\ v[1] = data[n] /\ v[n] = data[1]
          /\ \A k \in 1..n : k # 1 /\ k # n => v[k] = data[k]
      <4>1. \A i, j \in 1..Len(data) : i # j =>
               /\ Swap(data, i, j) \in Seq(Elements) /\ Len(Swap(data, i, j)) = Len(data)
               /\ Swap(data, i, j)[i] = data[j] /\ Swap(data, i, j)[j] = data[i]
               /\ \A k \in 1..Len(data) : k # i /\ k # j => Swap(data, i, j)[k] = data[k]
        BY <1>1, SwapElements
      <4> QED BY <3>1, <4>1, Zenon
    <3>3. BagOf(v) = BagOf(data)
      BY <1>1, <3>1, SwapKeepsBag
    <3> HIDE DEF v
    <3> HIDE DEF n
    <3>4. ASSUME NEW i \in 1..(n - 1) PROVE data'[i] = v[i]
      <4>1. data'[i] = s[i] /\ i \in 1..n /\ i # n /\ (i = 1 \/ i \in 2..n)
        BY <1>1, <1>4
      <4> QED BY <1>2, <3>2, <4>1
    <3>5. BagOf(data') = BagOf(v) (-) SetToBag({data[1]})
      <4>1. Len(v) = Len(data') + 1 /\ v[Len(v)] = data[1]
        BY <1>1, <1>4, <3>2
      <4>2. \A i \in 1..Len(data') : data'[i] = v[i]
        BY <1>4, <3>4
      <4> QED BY <1>4, <3>2, <4>1, <4>2, DropTakesOne
    <3> QED BY <3>3, <3>5
  <2> QED BY <2>1, <2>2
<1>6. /\ data[1] \in DOMAIN BagOf(data)
      /\ \A e \in DOMAIN BagOf(data) : data[1] <= e
  <2>1. DOMAIN BagOf(data) = {data[i] : i \in 1..n}
    BY <1>1, BagCounts
  <2>2. \A i \in 1..n : data[1] <= data[i]
    BY <1>1, FrontIsMinimum
  <2> QED BY <1>1, <2>1, <2>2
<1>7. data[1] \in PQ!BagToSet(Content) /\ PQ!IsFront(data[1])
  BY <1>6 DEF PQ!IsFront, PQ!BagIn, PQ!BagToSet, Content
<1>8. Content' = PQ!(-)(Content, PQ!SetToBag({data[1]}))
  BY <1>5 DEF Content, PQ!(-), PQ!SetToBag, (-), SetToBag
<1> QED BY <1>7, <1>8 DEF PQ!PopFront

(* The other steps move elements about and change nothing a caller sees.   *)
LEMMA SiftKeepsContent ==
    ASSUME HeapInv, SiftUp \/ SiftDown \/ SiftUpDone \/ SiftDownDone
    PROVE  UNCHANGED Content
<1>1. CASE SiftUp
  <2>1. /\ current \in 1..Len(data) /\ Parent(current) \in 1..Len(data)
        /\ current # Parent(current)
    BY <1>1, HeapElements, Parents DEF SiftUp, HeapInv, HeapTypeOK, HeapOrder
  <2> QED BY <1>1, <2>1, SwapKeepsBag DEF SiftUp, HeapInv, HeapTypeOK, Content
<1>2. CASE SiftDown
  <2>1. /\ current \in 1..Len(data) /\ MinChild(current) \in 1..Len(data)
        /\ current # MinChild(current)
    BY <1>2, HeapElements
       DEF SiftDown, HeapInv, HeapTypeOK, HeapOrder, MinChild, LeftChild, RightChild
  <2> QED BY <1>2, <2>1, SwapKeepsBag DEF SiftDown, HeapInv, HeapTypeOK, Content
<1>3. CASE SiftUpDone \/ SiftDownDone
  BY <1>3 DEF SiftUpDone, SiftDownDone, Content
<1> QED BY <1>1, <1>2, <1>3

(* Heap<T> is a priority queue, for any elements: pop_front() takes exactly *)
(* one minimum of what was pushed and not yet popped, and no sift loop      *)
(* loses or duplicates an element.                                          *)
THEOREM HeapIsPriorityQueue == HeapSpec => ImplementsPriorityQueue
<1>1. HeapInit => PQ!Init
  <2> SUFFICES ASSUME HeapInit PROVE PQ!Init
    OBVIOUS
  <2>1. data = <<>> /\ DOMAIN data = {}
    BY DEF HeapInit
  <2> QED BY <2>1 DEF PQ!Init, PQ!EmptyBag, PQ!SetToBag, Content, BagOf
<1>2. HeapInv /\ [HeapNext]_heapVars => [PQ!Next]_Content
  <2> SUFFICES ASSUME HeapInv, [HeapNext]_heapVars PROVE PQ!Next \/ UNCHANGED Content
    BY Zenon
  <2>1. ASSUME NEW t \in Elements, Push(t) PROVE PQ!Next
    BY <2>1, PushAdds DEF PQ!Next
  <2>2. CASE PopFront
    BY <2>2, PopFrontTakesMinimum DEF PQ!Next
  <2>3. CASE SiftUp \/ SiftDown \/ SiftUpDone \/ SiftDownDone
    BY <2>3, SiftKeepsContent
  <2>4. CASE UNCHANGED heapVars
    BY <2>4 DEF heapVars, Content
  <2> QED BY <2>1, <2>2, <2>3, <2>4 DEF HeapNext
<1> QED BY <1>1, <1>2, HeapStart, HeapStep, PTL DEF HeapSpec, ImplementsPriorityQueue, PQ!Spec

-----------------------------------------------------------------------------
(* The look-up in the metrics.                                             *)
GoodPath == path # <<>> /\ path[1] # WILDCARD /\ path[Len(path)] # WILDCARD

MetricsTypeOK ==
    /\ document \in Documents
    /\ path \in Seq(Keys \cup {WILDCARD})
    /\ answer \in {"asking", "searching", "returns", "throws"}
    /\ answer \notin {"searching", "returns"} => calls = {} /\ results = {}
    /\ answer \in {"searching", "returns"} => GoodPath
    /\ answer = "returns" => calls = {}

(* The inductive invariant.  A call or a result is at a node that the path  *)
(* matches as far as it goes, and knows what the wildcards stood for; a     *)
(* value that is to be found is a result, or below the node of a call.      *)
Reached(c) ==
    /\ c.node \in DOMAIN document
    /\ c.wild \in Seq(Keys)
    /\ MatchesUpTo(c.node, Len(c.node))
    /\ StandsFor(c.wild, c.node)

Wanted == {n \in DOMAIN document :
              Len(n) = Len(path) /\ MatchesUpTo(n, Len(n)) /\ document[n] = type}

Above(node, n) == \A j \in 1..Len(node) : node[j] = n[j]

MetricsInv ==
    /\ MetricsTypeOK
    /\ \A c \in calls : Reached(c) /\ Len(c.node) \in 1..(Len(path) - 1)
    /\ \A r \in results : Reached(r) /\ r.node \in Wanted
    /\ answer \in {"searching", "returns"} =>
          \A n \in Wanted : \/ \E r \in results : r.node = n
                            \/ \E c \in calls : Above(c.node, n)

(* The wildcards of a longer part of the path.                             *)
LEMMA WildcardCount ==
    ASSUME NEW i \in Nat
    PROVE  /\ IsFiniteSet(Wildcards(i)) /\ Cardinality(Wildcards(i)) \in Nat
           /\ \A j \in Wildcards(i) : Cardinality(Wildcards(j)) \in 1..Cardinality(Wildcards(i))
           /\ path[i + 1] = WILDCARD =>
                 /\ Wildcards(i + 1) = Wildcards(i) \cup {i + 1}
                 /\ Cardinality(Wildcards(i + 1)) = Cardinality(Wildcards(i)) + 1
           /\ path[i + 1] # WILDCARD => Wildcards(i + 1) = Wildcards(i)
<1>1. ASSUME NEW j \in Nat
      PROVE  IsFiniteSet(Wildcards(j)) /\ Cardinality(Wildcards(j)) \in Nat
  <2>1. IsFiniteSet(1..j)
    BY FS_Interval
  <2>2. Wildcards(j) \subseteq 1..j
    BY DEF Wildcards
  <2> QED BY <2>1, <2>2, FS_Subset, FS_CardinalityType
<1>2. ASSUME NEW j \in Wildcards(i)
      PROVE  Cardinality(Wildcards(j)) \in 1..Cardinality(Wildcards(i))
  <2>1. j \in Nat /\ j \in Wildcards(j) /\ Wildcards(j) \subseteq Wildcards(i)
    BY DEF Wildcards
  <2>2. Cardinality(Wildcards(j)) <= Cardinality(Wildcards(i))
    BY <1>1, <2>1, FS_Subset
  <2>3. Cardinality(Wildcards(j)) # 0
    BY <1>1, <2>1, FS_EmptySet
  <2> QED BY <1>1, <2>1, <2>2, <2>3
<1>3. ASSUME path[i + 1] = WILDCARD
      PROVE  /\ Wildcards(i + 1) = Wildcards(i) \cup {i + 1}
             /\ Cardinality(Wildcards(i + 1)) = Cardinality(Wildcards(i)) + 1
  <2>1. Wildcards(i + 1) = Wildcards(i) \cup {i + 1} /\ i + 1 \notin Wildcards(i)
    BY <1>3 DEF Wildcards
  <2> QED BY <1>1, <2>1, FS_AddElement
<1>4. path[i + 1] # WILDCARD => Wildcards(i + 1) = Wildcards(i)
  BY DEF Wildcards
<1> QED BY <1>1, <1>2, <1>3, <1>4

(* One key further, keysForWildcards grows by it, or not, as it should.     *)
LEMMA StandsForNext ==
    ASSUME NEW n \in Seq(Keys), NEW w \in Seq(Keys), NEW k \in Keys, StandsFor(w, n)
    PROVE  /\ path[Len(n) + 1] = WILDCARD => StandsFor(Append(w, k), Append(n, k))
           /\ path[Len(n) + 1] # WILDCARD => StandsFor(w, Append(n, k))
<1> DEFINE d == Len(n)
<1> DEFINE m == Append(n, k)
<1> DEFINE v == Append(w, k)
<1>1. /\ d \in Nat /\ Len(m) = d + 1 /\ m[d + 1] = k /\ \A i \in 1..d : m[i] = n[i]
      /\ Len(w) \in Nat /\ Len(v) = Len(w) + 1 /\ v[Len(w) + 1] = k
      /\ \A i \in 1..Len(w) : v[i] = w[i]
  BY AppendProperties
<1>2. Len(w) = Cardinality(Wildcards(d))
  BY DEF StandsFor
<1>3. \A i \in Wildcards(d) : w[Cardinality(Wildcards(i))] = n[i]
  BY DEF StandsFor
<1>4. /\ Cardinality(Wildcards(d)) \in Nat
      /\ \A j \in Wildcards(d) : Cardinality(Wildcards(j)) \in 1..Cardinality(Wildcards(d))
      /\ path[d + 1] = WILDCARD =>
            /\ Wildcards(d + 1) = Wildcards(d) \cup {d + 1}
            /\ Cardinality(Wildcards(d + 1)) = Cardinality(Wildcards(d)) + 1
      /\ path[d + 1] # WILDCARD => Wildcards(d + 1) = Wildcards(d)
  BY <1>1, WildcardCount
<1>5. \A i \in Wildcards(d) : i \in 1..d
  BY DEF Wildcards
<1> HIDE DEF d, m, v
<1>6. ASSUME path[d + 1] = WILDCARD PROVE StandsFor(v, m)
  <2>1. Len(v) = Cardinality(Wildcards(Len(m)))
    BY <1>1, <1>2, <1>4, <1>6
  <2>2. ASSUME NEW i \in Wildcards(Len(m)) PROVE v[Cardinality(Wildcards(i))] = m[i]
    <3>1. CASE i = d + 1
      BY <1>1, <1>2, <1>4, <1>6, <3>1
    <3>2. CASE i \in Wildcards(d)
      <4>1. m[i] = n[i] /\ w[Cardinality(Wildcards(i))] = n[i]
        BY <1>1, <1>3, <1>5, <3>2
      <4>2. Cardinality(Wildcards(i)) \in 1..Len(w)
        BY <1>2, <1>4, <3>2
      <4> QED BY <1>1, <4>1, <4>2
    <3> QED BY <1>1, <1>4, <1>6, <2>2, <3>1, <3>2
  <2> QED BY <2>1, <2>2 DEF StandsFor
<1>7. ASSUME path[d + 1] # WILDCARD PROVE StandsFor(w, m)
  <2>1. Wildcards(Len(m)) = Wildcards(d)
    BY <1>1, <1>4, <1>7
  <2>2. \A i \in Wildcards(d) : m[i] = n[i]
    BY <1>1, <1>5
  <2> QED BY <1>2, <1>3, <2>1, <2>2 DEF StandsFor
<1> QED BY <1>6, <1>7 DEF d, m, v

(* From a call, getResults() reaches the members that match.               *)
Member(c, k) ==
    [node |-> Append(c.node, k),
     wild |-> IF path[Len(c.node) + 1] = WILDCARD THEN Remember(c.wild, k) ELSE c.wild]

LEMMA DocumentNodes ==
    ASSUME MetricsTypeOK
    PROVE  /\ IsDocument(document)
           /\ \A n \in DOMAIN document : n \in Seq(Keys) /\ Len(n) \in Nat
           /\ Len(path) \in Nat
<1>1. IsDocument(document)
  BY DocumentsAreTrees DEF MetricsTypeOK
<1>2. \A n \in DOMAIN document : n \in Seq(Keys)
  BY <1>1 DEF IsDocument
<1> QED BY <1>1, <1>2 DEF MetricsTypeOK

LEMMA MemberReached ==
    ASSUME MetricsTypeOK, NEW c, Reached(c), NEW k \in Keys,
           Append(c.node, k) \in DOMAIN document, path[Len(c.node) + 1] \in {k, WILDCARD}
    PROVE  /\ Reached(Member(c, k))
           /\ Member(c, k).node = Append(c.node, k)
           /\ Len(Append(c.node, k)) = Len(c.node) + 1
<1> DEFINE n == c.node
<1> DEFINE m == Append(n, k)
<1> DEFINE r == Member(c, k)
<1>1. /\ n \in Seq(Keys) /\ c.wild \in Seq(Keys) /\ StandsFor(c.wild, n)
      /\ MatchesUpTo(n, Len(n)) /\ m \in DOMAIN document
  BY DocumentNodes DEF Reached
<1>2. r.node = m /\ r.wild = IF path[Len(n) + 1] = WILDCARD THEN Append(c.wild, k) ELSE c.wild
  BY DEF Member, Remember
<1> HIDE DEF n, r
<1>3. /\ Len(n) \in Nat /\ Len(m) = Len(n) + 1 /\ m[Len(n) + 1] = k
      /\ \A i \in 1..Len(n) : m[i] = n[i]
  BY <1>1, AppendProperties
<1>4. r.wild \in Seq(Keys)
  BY <1>1, <1>2, AppendProperties
<1>5. StandsFor(r.wild, m)
  BY <1>1, <1>2, StandsForNext
<1>6. path[Len(n) + 1] \in {k, WILDCARD}
  BY DEF n
<1> HIDE DEF m
<1>7. MatchesUpTo(m, Len(m))
  <2> SUFFICES ASSUME NEW j \in 1..Len(m) PROVE path[j] \in {m[j], WILDCARD}
    BY DEF MatchesUpTo
  <2>1. CASE j = Len(n) + 1
    BY <1>3, <1>6, <2>1
  <2>2. CASE j # Len(n) + 1
    <3>1. j \in 1..Len(n)
      BY <1>3, <2>2
    <3> QED BY <1>1, <1>3, <3>1 DEF MatchesUpTo
  <2> QED BY <2>1, <2>2
<1>8. Reached(r)
  BY <1>1, <1>2, <1>4, <1>5, <1>7 DEF Reached
<1> QED BY <1>2, <1>3, <1>8 DEF r, m, n

(* One of the members is above what is to be found below the call's node.   *)
LEMMA WantedBelow ==
    ASSUME MetricsTypeOK, NEW c, Reached(c), Len(c.node) \in 1..(Len(path) - 1),
           NEW n \in Wanted, Above(c.node, n)
    PROVE  /\ document[c.node] = "object"
           /\ \E k \in Keys : /\ Append(c.node, k) \in DOMAIN document
                              /\ path[Len(c.node) + 1] \in {k, WILDCARD}
                              /\ Above(Append(c.node, k), n)
                              /\ Len(c.node) + 1 = Len(path) => Append(c.node, k) = n
<1> DEFINE u == c.node
<1> DEFINE d == Len(u)
<1> DEFINE k == n[d + 1]
<1>1. /\ u \in Seq(Keys) /\ n \in Seq(Keys) /\ n \in DOMAIN document /\ Len(n) = Len(path)
      /\ MatchesUpTo(n, Len(n)) /\ Len(n) \in Nat
      /\ d \in Nat /\ d < Len(n) /\ \A j \in 1..d : u[j] = n[j]
  BY DocumentNodes DEF Reached, Wanted, Above
<1>2. path[d + 1] \in {k, WILDCARD} /\ k \in Keys
  <2>1. d + 1 \in 1..Len(n)
    BY <1>1
  <2> QED BY <1>1, <2>1, ElementOfSeq DEF MatchesUpTo
<1>3. \A i \in 0..(Len(n) - 1) : SubSeq(n, 1, i) \in DOMAIN document
                                /\ document[SubSeq(n, 1, i)] = "object"
  BY <1>1, DocumentNodes DEF IsDocument
<1>4. u = SubSeq(n, 1, d)
  BY <1>1
<1>5. document[u] = "object"
  <2>1. d \in 0..(Len(n) - 1)
    BY <1>1
  <2> QED BY <1>3, <1>4, <2>1, Zenon
<1> HIDE DEF k
<1>6. /\ Append(u, k) \in Seq(Keys) /\ Len(Append(u, k)) = d + 1
      /\ \A j \in 1..(d + 1) : Append(u, k)[j] = n[j]
  <2>1. /\ Append(u, k) \in Seq(Keys) /\ Len(Append(u, k)) = d + 1 /\ Append(u, k)[d + 1] = k
        /\ \A j \in 1..d : Append(u, k)[j] = u[j]
    BY <1>1, <1>2, AppendProperties
  <2> QED BY <1>1, <2>1 DEF k
<1> DEFINE v == Append(u, k)
<1> HIDE DEF u, v
<1>7. v = SubSeq(n, 1, d + 1) /\ (d + 1 = Len(n) => v = n)
  BY <1>1, <1>6 DEF v
<1>8. v \in DOMAIN document
  <2>1. CASE d + 1 = Len(n)
    BY <1>1, <1>7, <2>1
  <2>2. CASE d + 1 # Len(n)
    <3>1. d + 1 \in 0..(Len(n) - 1)
      BY <1>1, <2>2
    <3> QED BY <1>3, <1>7, <3>1
  <2> QED BY <2>1, <2>2
<1>9. Above(v, n)
  BY <1>6 DEF Above, v
<1> QED BY <1>1, <1>2, <1>5, <1>7, <1>8, <1>9 DEF u, v

(* What getResults() does, as a set of members.                            *)
Matched(c) == {k \in Keys : /\ document[c.node] = "object"
                            /\ Append(c.node, k) \in DOMAIN document
                            /\ path[Len(c.node) + 1] \in {k, WILDCARD}}

LEMMA GetResultsEffect ==
    ASSUME NEW c, getResults(c)
    PROVE  LET found == {Member(c, k) : k \in Matched(c)}
           IN /\ UNCHANGED <<document, path, type, answer>>
              /\ Len(c.node) + 1 = Len(path) /\ path[Len(path)] # WILDCARD =>
                    /\ results' = results \cup {r \in found : document[r.node] = type}
                    /\ calls' = calls \ {c}
              /\ Len(c.node) + 1 # Len(path) =>
                    /\ calls' = (calls \ {c}) \cup found
                    /\ UNCHANGED results
<1> DEFINE members == {k \in Keys : Append(c.node, k) \in DOMAIN document}
<1> DEFINE matched == {[node |-> Append(c.node, k),
                        wild |-> IF path[Len(c.node) + 1] = WILDCARD
                                 THEN Remember(c.wild, k) ELSE c.wild] :
                           k \in {k \in members : path[Len(c.node) + 1] \in {k, WILDCARD}}}
<1> DEFINE found == IF document[c.node] = "object" THEN matched ELSE {}
<1>1. /\ UNCHANGED <<document, path, type, answer>>
      /\ Len(c.node) + 1 = Len(path) /\ path[Len(path)] # WILDCARD =>
            /\ results' = results \cup {r \in found : document[r.node] = type}
            /\ calls' = calls \ {c}
      /\ Len(c.node) + 1 # Len(path) =>
            /\ calls' = (calls \ {c}) \cup found
            /\ UNCHANGED results
  BY DEF getResults
<1>2. found = {Member(c, k) : k \in Matched(c)}
  BY DEF Member, Matched
<1> HIDE DEF found
<1> QED BY <1>1, <1>2

LEMMA SameNodes ==
    ASSUME UNCHANGED <<document, path, type>>
    PROVE  /\ \A c : Reached(c) => Reached(c)'
           /\ Wanted' = Wanted
<1>1. ASSUME NEW c, Reached(c) PROVE Reached(c)'
  BY <1>1 DEF Reached, MatchesUpTo, StandsFor, Wildcards
<1>2. Wanted' = Wanted
  BY DEF Wanted, MatchesUpTo
<1> QED BY <1>1, <1>2

LEMMA GetResultsStep ==
    ASSUME MetricsInv, NEW c \in calls, getResults(c)
    PROVE  MetricsInv'
<1> DEFINE found == {Member(c, k) : k \in Matched(c)}
<1>1. UNCHANGED <<document, path, type, answer>>
  BY GetResultsEffect
<1>2. /\ MetricsTypeOK /\ Reached(c) /\ Len(c.node) \in 1..(Len(path) - 1)
      /\ answer = "searching" /\ path[Len(path)] # WILDCARD /\ Len(path) \in Nat
      /\ Len(c.node) \in Nat
  BY DocumentNodes DEF MetricsInv, MetricsTypeOK, GoodPath
<1>3. MetricsTypeOK'
  BY <1>1, <1>2 DEF MetricsTypeOK, GoodPath
<1>4. ASSUME NEW r \in found
      PROVE  /\ Reached(r) /\ r.node \in DOMAIN document /\ Len(r.node) = Len(c.node) + 1
  <2>1. PICK k \in Matched(c) : r = Member(c, k)
    BY <1>4
  <2> QED BY <1>2, <2>1, MemberReached DEF Matched, Reached
<1>5. ASSUME NEW n \in Wanted, Above(c.node, n)
      PROVE  \E r \in found : Above(r.node, n) /\ (Len(c.node) + 1 = Len(path) => r.node = n)
  <2>1. PICK k \in Keys : /\ Append(c.node, k) \in DOMAIN document
                          /\ path[Len(c.node) + 1] \in {k, WILDCARD}
                          /\ Above(Append(c.node, k), n)
                          /\ Len(c.node) + 1 = Len(path) => Append(c.node, k) = n
    BY <1>2, <1>5, WantedBelow
  <2>2. document[c.node] = "object"
    BY <1>2, <1>5, WantedBelow
  <2>3. Member(c, k) \in found /\ Member(c, k).node = Append(c.node, k)
    BY <2>1, <2>2 DEF Matched, Member
  <2> QED BY <2>1, <2>3
<1>6. CASE Len(c.node) + 1 = Len(path)
  <2>1. /\ results' = results \cup {r \in found : document[r.node] = type}
        /\ calls' = calls \ {c}
    BY <1>2, <1>6, GetResultsEffect
  <2> HIDE DEF found
  <2>2. \A q \in calls' : Reached(q)' /\ Len(q.node) \in 1..(Len(path') - 1)
    BY <1>1, <2>1, SameNodes DEF MetricsInv
  <2>3. ASSUME NEW r \in results' PROVE Reached(r)' /\ r.node \in Wanted'
    <3>1. CASE r \in results
      BY <1>1, <3>1, SameNodes DEF MetricsInv
    <3>2. CASE r \in found /\ document[r.node] = type
      <4>1. Reached(r) /\ r.node \in DOMAIN document /\ Len(r.node) = Len(path)
        BY <1>4, <1>6, <3>2
      <4>2. r.node \in Wanted
        BY <3>2, <4>1 DEF Wanted, Reached
      <4> QED BY <1>1, <4>1, <4>2, SameNodes
    <3> QED BY <2>1, <2>3, <3>1, <3>2
  <2>4. ASSUME NEW n \in Wanted
        PROVE  (\E r \in results' : r.node = n) \/ (\E q \in calls' : Above(q.node, n))
    <3>1. CASE Above(c.node, n)
      <4>1. PICK r \in found : r.node = n
        BY <1>5, <1>6, <3>1
      <4>2. document[r.node] = type
        BY <4>1 DEF Wanted
      <4> QED BY <2>1, <4>1, <4>2
    <3>2. CASE ~Above(c.node, n)
      BY <1>2, <2>1, <3>2 DEF MetricsInv
    <3> QED BY <3>1, <3>2
  <2>5. \A n \in Wanted' : (\E r \in results' : r.node = n) \/ (\E q \in calls' : Above(q.node, n))
    BY <1>1, <2>4, SameNodes
  <2> QED BY <1>3, <2>2, <2>3, <2>5 DEF MetricsInv, Above
<1>7. CASE Len(c.node) + 1 # Len(path)
  <2>1. calls' = (calls \ {c}) \cup found /\ results' = results
    BY <1>2, <1>7, GetResultsEffect
  <2> HIDE DEF found
  <2>2. ASSUME NEW q \in calls' PROVE Reached(q)' /\ Len(q.node) \in 1..(Len(path') - 1)
    <3>1. CASE q \in calls
      BY <1>1, <3>1, SameNodes DEF MetricsInv
    <3>2. CASE q \in found
      <4>1. Reached(q) /\ Len(q.node) = Len(c.node) + 1
        BY <1>4, <3>2
      <4>2. Len(q.node) \in 1..(Len(path) - 1)
        BY <1>2, <1>7, <4>1
      <4> QED BY <1>1, <4>1, <4>2, SameNodes
    <3> QED BY <2>1, <2>2, <3>1, <3>2
  <2>3. \A r \in results' : Reached(r)' /\ r.node \in Wanted'
    BY <1>1, <2>1, SameNodes DEF MetricsInv
  <2>4. ASSUME NEW n \in Wanted
        PROVE  (\E r \in results' : r.node = n) \/ (\E q \in calls' : Above(q.node, n))
    <3>1. CASE Above(c.node, n)
      BY <1>5, <2>1, <3>1
    <3>2. CASE ~Above(c.node, n)
      BY <1>2, <2>1, <3>2 DEF MetricsInv
    <3> QED BY <3>1, <3>2
  <2>5. \A n \in Wanted' : (\E r \in results' : r.node = n) \/ (\E q \in calls' : Above(q.node, n))
    BY <1>1, <2>4, SameNodes
  <2> QED BY <1>3, <2>2, <2>3, <2>5 DEF MetricsInv, Above
<1> QED BY <1>6, <1>7

(* get() starts at the first key.                                          *)
LEMMA FirstReached ==
    ASSUME MetricsTypeOK, GoodPath, <<path[1]>> \in DOMAIN document
    PROVE  Reached([node |-> <<path[1]>>, wild |-> <<>>])
<1>1. Len(<<path[1]>>) = 1 /\ <<path[1]>>[1] = path[1] /\ <<>> \in Seq(Keys) /\ Len(<<>>) = 0
  BY EmptySeq
<1>2. Wildcards(1) = {}
  BY DEF Wildcards, GoodPath
<1>3. Cardinality(Wildcards(1)) = 0
  BY <1>2, FS_EmptySet
<1>4. StandsFor(<<>>, <<path[1]>>)
  BY <1>1, <1>2, <1>3 DEF StandsFor
<1>5. MatchesUpTo(<<path[1]>>, 1)
  BY <1>1 DEF MatchesUpTo
<1> QED BY <1>1, <1>4, <1>5 DEF Reached

LEMMA WantedBelowFirst ==
    ASSUME MetricsTypeOK, GoodPath, NEW n \in Wanted
    PROVE  /\ <<path[1]>> \in DOMAIN document /\ Above(<<path[1]>>, n)
           /\ Len(path) = 1 => n = <<path[1]>>
<1>1. /\ n \in DOMAIN document /\ n \in Seq(Keys) /\ Len(n) = Len(path) /\ Len(n) \in Nat
      /\ MatchesUpTo(n, Len(n)) /\ Len(n) # 0
  BY DocumentNodes, EmptySeq DEF Wanted, GoodPath, MetricsTypeOK
<1>2. path[1] = n[1]
  BY <1>1 DEF MatchesUpTo, GoodPath
<1>3. \A i \in 0..(Len(n) - 1) : SubSeq(n, 1, i) \in DOMAIN document
  BY <1>1, DocumentNodes DEF IsDocument
<1>4. CASE Len(n) = 1
  <2>1. n = <<path[1]>>
    BY <1>1, <1>2, <1>4
  <2> QED BY <1>1, <1>4, <2>1 DEF Above
<1>5. CASE Len(n) # 1
  <2>1. 1 \in 0..(Len(n) - 1)
    BY <1>1, <1>5
  <2>2. SubSeq(n, 1, 1) = <<path[1]>>
    <3>1. <<path[1]>> \in Seq(Keys) /\ Len(<<path[1]>>) = 1 /\ <<path[1]>>[1] = n[1]
      BY <1>1, <1>2, ElementOfSeq
    <3>2. \A i \in 1..1 : <<path[1]>>[i] = n[i] /\ n[i] \in Keys
      BY <1>1, <3>1, ElementOfSeq
    <3>3. /\ SubSeq(n, 1, 1) \in Seq(Keys) /\ Len(SubSeq(n, 1, 1)) = 1
          /\ \A i \in 1..1 : SubSeq(n, 1, 1)[i] = n[i]
      BY <3>2
    <3> QED BY <3>1, <3>2, <3>3, SeqEqual
  <2>3. Above(<<path[1]>>, n)
    BY <1>2 DEF Above
  <2> QED BY <1>1, <1>3, <1>5, <2>1, <2>2, <2>3
<1> QED BY <1>4, <1>5

LEMMA FindStep ==
    ASSUME MetricsInv, find
    PROVE  MetricsInv'
<1>1. /\ answer = "asking" /\ UNCHANGED <<document, path, type>> /\ MetricsTypeOK
      /\ calls = {} /\ results = {}
  BY DEF find, MetricsInv, MetricsTypeOK
<1>2. CASE ~GoodPath
  <2>1. answer' = "throws" /\ calls' = {} /\ results' = {}
    BY <1>1, <1>2 DEF find, GoodPath
  <2> QED BY <1>1, <2>1 DEF MetricsInv, MetricsTypeOK
<1>3. CASE GoodPath
  <2> DEFINE first == {[node |-> n, wild |-> <<>>] : n \in {<<path[1]>>} \cap DOMAIN document}
  <2>1. /\ answer' = "searching"
        /\ calls' = IF Len(path) = 1 THEN {} ELSE first
        /\ results' = IF Len(path) = 1 THEN {r \in first : document[r.node] = type} ELSE {}
    BY <1>3 DEF find, GoodPath
  <2>2. MetricsTypeOK'
    BY <1>1, <1>3, <2>1 DEF MetricsTypeOK, GoodPath
  <2>3. ASSUME NEW r \in first
        PROVE  /\ Reached(r) /\ Len(r.node) = 1 /\ r.node = <<path[1]>>
               /\ r.node \in DOMAIN document
    BY <1>1, <1>3, <2>3, FirstReached
  <2>4. Len(path) \in Nat /\ Len(path) # 0
    BY <1>1, <1>3, EmptySeq DEF MetricsTypeOK, GoodPath
  <2>5. ASSUME NEW n \in Wanted
        PROVE  \E r \in first : Above(r.node, n) /\ (Len(path) = 1 => r.node = n)
    <3>1. /\ <<path[1]>> \in DOMAIN document /\ Above(<<path[1]>>, n)
          /\ Len(path) = 1 => n = <<path[1]>>
      BY <1>1, <1>3, <2>5, WantedBelowFirst
    <3> DEFINE r == [node |-> <<path[1]>>, wild |-> <<>>]
    <3>2. r \in first /\ r.node = <<path[1]>>
      BY <3>1
    <3> QED BY <3>1, <3>2
  <2> HIDE DEF first
  <2>6. ASSUME NEW c \in calls' PROVE Reached(c)' /\ Len(c.node) \in 1..(Len(path') - 1)
    <3>1. c \in first /\ Len(path) # 1
      BY <2>1, <2>6
    <3>2. Reached(c) /\ Len(c.node) = 1
      BY <2>3, <3>1
    <3>3. Len(c.node) \in 1..(Len(path) - 1)
      <4> DEFINE l == Len(path)
      <4> HIDE DEF l
      <4>1. l \in Nat /\ l # 0 /\ l # 1
        BY <2>4, <3>1 DEF l
      <4>2. 1 \in 1..(l - 1)
        BY <4>1
      <4> QED BY <3>2, <4>2, Zenon DEF l
    <3> QED BY <1>1, <3>2, <3>3, SameNodes
  <2>7. ASSUME NEW r \in results' PROVE Reached(r)' /\ r.node \in Wanted'
    <3>1. r \in first /\ document[r.node] = type /\ Len(path) = 1
      BY <2>1, <2>7
    <3>2. Reached(r) /\ r.node \in Wanted
      BY <2>3, <3>1 DEF Reached, Wanted
    <3> QED BY <1>1, <3>2, SameNodes
  <2>8. ASSUME NEW n \in Wanted
        PROVE  (\E r \in results' : r.node = n) \/ (\E c \in calls' : Above(c.node, n))
    <3>1. PICK r \in first : Above(r.node, n) /\ (Len(path) = 1 => r.node = n)
      BY <2>5
    <3>2. document[n] = type
      BY DEF Wanted
    <3> QED BY <2>1, <3>1, <3>2
  <2>9. \A n \in Wanted' : (\E r \in results' : r.node = n) \/ (\E c \in calls' : Above(c.node, n))
    BY <1>1, <2>8, SameNodes
  <2> QED BY <2>2, <2>6, <2>7, <2>9 DEF MetricsInv, Above
<1> QED BY <1>2, <1>3

(* The search ends when no call is left: nothing can be missing then.       *)
LEMMA MetricsStep == MetricsInv /\ [MetricsNext]_metricsVars => MetricsInv'
<1> SUFFICES ASSUME MetricsInv, [MetricsNext]_metricsVars PROVE MetricsInv'
  OBVIOUS
<1>1. ASSUME UNCHANGED <<document, path, type, calls, results>>, MetricsTypeOK',
             answer' = answer \/ (answer = "searching" /\ answer' = "returns")
      PROVE  MetricsInv'
  <2>1. \A c \in calls' : Reached(c)' /\ Len(c.node) \in 1..(Len(path') - 1)
    BY <1>1, SameNodes DEF MetricsInv
  <2>2. \A r \in results' : Reached(r)' /\ r.node \in Wanted'
    BY <1>1, SameNodes DEF MetricsInv
  <2>3. answer' \in {"searching", "returns"} =>
           \A n \in Wanted' : \/ \E r \in results' : r.node = n
                              \/ \E c \in calls' : Above(c.node, n)
    BY <1>1, SameNodes DEF MetricsInv
  <2> QED BY <1>1, <2>1, <2>2, <2>3 DEF MetricsInv, Above
<1>2. CASE return
  BY <1>1, <1>2 DEF return, MetricsInv, MetricsTypeOK, GoodPath
<1>3. CASE UNCHANGED metricsVars
  BY <1>1, <1>3 DEF metricsVars, MetricsInv, MetricsTypeOK, GoodPath
<1> QED BY <1>2, <1>3, FindStep, GetResultsStep DEF MetricsNext

(* getInt() and getString() find every value that the path matches, no      *)
(* other, and the keys the wildcards stood for: for any document, however   *)
(* deep, and any path.                                                      *)
THEOREM LookUpIsExact == MetricsSpec => []FindsWhatMatches
<1>1. MetricsInit => MetricsInv
  <2> SUFFICES ASSUME MetricsInit PROVE MetricsInv
    OBVIOUS
  <2>1. path \in Seq(Keys \cup {WILDCARD})
    BY DEF MetricsInit
  <2> QED BY <2>1 DEF MetricsInit, MetricsInv, MetricsTypeOK
<1>2. MetricsInv => FindsWhatMatches
  <2> SUFFICES ASSUME MetricsInv, answer = "returns"
               PROVE  {r.node : r \in results} = Wanted /\ \A r \in results : StandsFor(r.wild, r.node)
    BY DEF FindsWhatMatches, Wanted
  <2>1. calls = {} /\ \A n \in Wanted : \E r \in results : r.node = n
    BY DEF MetricsInv, MetricsTypeOK
  <2>2. \A r \in results : r.node \in Wanted /\ StandsFor(r.wild, r.node)
    BY DEF MetricsInv, Reached
  <2> QED BY <2>1, <2>2
<1> QED BY <1>1, <1>2, MetricsStep, PTL DEF MetricsSpec
=============================================================================
