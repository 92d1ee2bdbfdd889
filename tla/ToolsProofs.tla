---------------------------- MODULE ToolsProofs -----------------------------
(***************************************************************************)
(* Proofs about the console clients, for any number of records, lines and   *)
(* signals, and about the performance tests, for all bounds.                *)
(***************************************************************************)
EXTENDS PerfTest, ConsoleClients, FiniteSetTheorems, TLAPS

ConsoleTypeOK ==
    /\ client \in {"consumer", "producer"}
    /\ stored \in Nat /\ shown \in Nat /\ committed \in Nat

(* Why the consumer's commits are behind what it printed: outside of the    *)
(* loop over the records everything poll() returned is printed, and only    *)
(* there is anything committed.                                            *)
ConsumerInv ==
    /\ committed <= shown /\ shown <= stored
    /\ step \notin {"print"} \cup Ended => shown = stored

(* The producer is at most one line behind, and only while syncSend() has   *)
(* returned or thrown and nothing was reported yet.                         *)
ProducerInv ==
    /\ shown <= stored /\ stored <= shown + 1
    /\ step \notin {"report"} \cup Ended => shown = stored
    /\ step = "report" => stored = shown + 1

ConsoleInv ==
    /\ client = "consumer" => ConsumerInv
    /\ client = "producer" => ProducerInv

LEMMA ConsoleTypeInit == ConsoleInit => ConsoleTypeOK /\ ConsoleInv
  BY DEF ConsoleInit, ConsoleTypeOK, ConsoleInv, ConsumerInv, ProducerInv

LEMMA ConsoleStep == ConsoleTypeOK /\ ConsoleInv /\ [ConsoleNext]_consoleVars
                        => ConsoleTypeOK' /\ ConsoleInv'
<1> SUFFICES ASSUME ConsoleTypeOK, ConsoleInv, [ConsoleNext]_consoleVars
             PROVE  ConsoleTypeOK' /\ ConsoleInv'
  OBVIOUS
<1> USE DEF ConsoleTypeOK, ConsoleInv, ConsumerInv, ProducerInv, Ended, setup
<1>1. CASE Parse
  <2>1. UNCHANGED <<client, stored, shown, committed>> /\ step = "parse"
    BY <1>1 DEF Parse
  <2>2. step' \in {"success", "start", "failure", "terminated"}
    BY <1>1, Zenon DEF Parse
  <2> QED BY <2>1, <2>2
<1>2. CASE Start
  BY <1>2 DEF Start
<1>3. CASE Poll
  BY <1>3, ConsoleConstants DEF Poll
<1>4. CASE PrintRecord
  BY <1>4 DEF PrintRecord, KeepsPrinting
<1>5. CASE PrintedAll
  BY <1>5 DEF PrintedAll, KeepsPrinting
<1>6. CASE \E s \in {"success", "failure"} : LoopEnds(s)
  BY <1>6 DEF LoopEnds
<1>7. CASE ReadLine
  BY <1>7 DEF ReadLine
<1>8. CASE EndOfInput
  BY <1>8 DEF EndOfInput
<1>9. CASE syncSend
  BY <1>9 DEF syncSend
<1>10. CASE Report
  BY <1>10 DEF Report
<1>11. CASE SigInt
  BY <1>11 DEF SigInt, stopRunning
<1>12. CASE UNCHANGED consoleVars
  BY <1>12 DEF consoleVars
<1> QED
  BY <1>1, <1>2, <1>3, <1>4, <1>5, <1>6, <1>7, <1>8, <1>9, <1>10, <1>11, <1>12
  DEF ConsoleNext, MainThread

(* Whenever SIGINT comes, the console consumer has not committed a record   *)
(* it did not print, and the console producer reports what it delivered.    *)
THEOREM ConsoleIsHonest == ConsoleSpec => []ConsoleTellsTruth
<1>1. ConsoleTypeOK /\ ConsoleInv => ConsoleTellsTruth
  BY DEF ConsoleInv, ConsumerInv, ProducerInv, ConsoleTellsTruth
<1> QED BY ConsoleTypeInit, ConsoleStep, <1>1, PTL DEF ConsoleSpec

-----------------------------------------------------------------------------
Period == [warmup : BOOLEAN, sent : Nat, succeed : Nat, failed : Nat, measured : Nat,
           begin : Nat, end : Nat]

PerfTypeOK ==
    /\ tool \in {"producer", "consumer"}
    /\ perfArgs.numRecords \in Nat /\ perfArgs.warmupRecords \in Nat
    /\ AcceptedArgs(tool, perfArgs)
    /\ now \in Nat /\ numSent \in Nat /\ isWarmingUp \in BOOLEAN
    /\ periods \in Seq(Period)
    /\ current \in 0..Len(periods)
    /\ statsList \in Seq(Nat)
    /\ printed \in Seq(Nat \X Period)
    /\ IsFiniteSet(inflight) /\ inflight \subseteq Nat \X (1..Len(periods))
    /\ measuring \in 0..Len(periods)

(* Periods are made, listed and printed in one order; only the last can be  *)
(* missing in the end, and only without records.                            *)
InOrder ==
    /\ \A i \in 1..Len(printed) : printed[i][1] = i
    /\ \A k \in 1..Len(statsList) : statsList[k] = Len(printed) + k
    /\ current # None => /\ current = Len(periods)
                         /\ current = Len(printed) + Len(statsList) + 1
    /\ current = None =>
         \/ Len(periods) = Len(printed) + Len(statsList)
         \/ /\ Len(periods) = Len(printed) + Len(statsList) + 1
            /\ periods[Len(periods)].sent = 0

(* What main() has behind it.                                              *)
InPhase ==
    /\ mainPc \in {"loop", "sent"} => current # None
    /\ mainPc \in {"waiting", "joining", "success"} =>
          current = None /\ numSent = perfArgs.numRecords
    /\ mainPc \in {"joining", "success"} => statsList = <<>>
    /\ tool = "consumer" => mainPc # "sent" /\ inflight = {}

(* Every record of a period has had its callback or waits for it; the one   *)
(* just sent may have had it before main() counts it.                       *)
Awaited(p) == {m \in inflight : m[2] = p}
Pending(p) == IF mainPc = "sent" /\ p = current THEN 1 ELSE 0

Ledger ==
    /\ \A p \in 1..Len(periods) :
         periods[p].sent + Pending(p)
            = periods[p].succeed + periods[p].failed + Cardinality(Awaited(p))
    /\ \A m \in inflight : m[1] <= numSent + (IF mainPc = "sent" THEN 1 ELSE 0)

(* A printed line is what its period stays.                                *)
LinesFinal ==
    \A i \in 1..Len(printed) :
        LET line == printed[i][2] IN
        /\ line.sent = line.succeed + line.failed
        /\ line = [periods[i] EXCEPT !.measured = line.measured]

(* Only the first period can be the warm-up's, and it is over when it has   *)
(* its records.                                                            *)
WarmUp ==
    /\ isWarmingUp => /\ current = 1 /\ Len(periods) = 1
                      /\ periods[1].sent = numSent /\ numSent < perfArgs.warmupRecords
    /\ \A p \in 1..Len(periods) :
         periods[p].warmup =>
            /\ p = 1
            /\ ~isWarmingUp => p # current /\ periods[p].sent = perfArgs.warmupRecords

SentOf(ps) == [p \in 1..Len(ps) |-> ps[p].sent]

AllCounted ==
    /\ IsFiniteSet(Entries(SentOf(periods)))
    /\ Cardinality(Entries(SentOf(periods))) = numSent

PerfInv == InOrder /\ InPhase /\ Ledger /\ LinesFinal /\ WarmUp /\ AllCounted

-----------------------------------------------------------------------------
(* Counting by entries.                                                    *)
HasEntry(sent, e) == \E p \in DOMAIN sent : \E j \in 1..sent[p] : e = <<p, j>>

LEMMA EntriesMember ==
    ASSUME NEW s, NEW e
    PROVE  e \in Entries(s) <=> HasEntry(s, e)
<1>1. e \in Entries(s) <=> \E p \in DOMAIN s : e \in {p} \X (1..s[p])
  BY Zenon DEF Entries
<1>2. ASSUME NEW p \in DOMAIN s
      PROVE  e \in {p} \X (1..s[p]) <=> \E j \in 1..s[p] : e = <<p, j>>
  OBVIOUS
<1> QED BY <1>1, <1>2, Zenon DEF HasEntry

LEMMA NoEntries ==
    ASSUME NEW s \in [1..1 -> Nat], s[1] = 0
    PROVE  IsFiniteSet(Entries(s)) /\ Cardinality(Entries(s)) = 0
<1>1. ASSUME NEW e PROVE ~HasEntry(s, e)
  BY DEF HasEntry
<1>2. Entries(s) = {}
  BY <1>1, EntriesMember, Zenon
<1> QED BY <1>2, FS_EmptySet

(* A new period has no entry yet.                                          *)
LEMMA EntriesSame ==
    ASSUME NEW n \in Nat, NEW s \in [1..n -> Nat], NEW t \in [1..(n + 1) -> Nat],
           t[n + 1] = 0, \A i \in 1..n : t[i] = s[i]
    PROVE  Entries(t) = Entries(s)
<1>1. ASSUME NEW e PROVE HasEntry(t, e) <=> HasEntry(s, e)
  BY DEF HasEntry
<1> QED BY <1>1, EntriesMember, Zenon

(* One period counts k more records.                                       *)
LEMMA EntriesMore ==
    ASSUME NEW n \in Nat, NEW s \in [1..n -> Nat], NEW t \in [1..n -> Nat],
           NEW c \in 1..n, NEW k \in Nat, t[c] = s[c] + k,
           \A i \in 1..n : i # c => t[i] = s[i],
           IsFiniteSet(Entries(s))
    PROVE  IsFiniteSet(Entries(t)) /\ Cardinality(Entries(t)) = Cardinality(Entries(s)) + k
<1> DEFINE a == s[c] + 1
           b == s[c] + k
           new == {c} \X (a..b)
<1>1. a \in Int /\ b \in Int /\ k = (IF a > b THEN 0 ELSE b - a + 1)
  OBVIOUS
<1>2. ASSUME NEW e PROVE e \in new <=> \E j \in a..b : e = <<c, j>>
  OBVIOUS
<1>3. ASSUME NEW e PROVE HasEntry(t, e) <=> HasEntry(s, e) \/ \E j \in a..b : e = <<c, j>>
  <2>1. ASSUME NEW p \in 1..n, NEW j \in 1..t[p], e = <<p, j>>
        PROVE  HasEntry(s, e) \/ \E i \in a..b : e = <<c, i>>
    <3>1. CASE p = c /\ j > s[c]
      BY <2>1, <3>1
    <3>2. CASE ~(p = c /\ j > s[c])
      <4>1. j \in 1..s[p] /\ p \in DOMAIN s
        BY <3>2
      <4> QED BY <2>1, <4>1, Zenon DEF HasEntry
    <3> QED BY <3>1, <3>2, Zenon
  <2>2. ASSUME NEW p \in 1..n, NEW j \in 1..s[p], e = <<p, j>>
        PROVE  HasEntry(t, e)
    <3>1. t[p] \in Nat /\ s[p] \in Nat /\ t[p] >= s[p]
      BY p = c \/ p # c
    <3>2. j \in 1..t[p] /\ p \in DOMAIN t
      BY <3>1
    <3> QED BY <2>2, <3>2, Zenon DEF HasEntry
  <2>3. ASSUME NEW j \in a..b, e = <<c, j>> PROVE HasEntry(t, e)
    <3>1. j \in 1..t[c] /\ c \in DOMAIN t
      OBVIOUS
    <3> QED BY <2>3, <3>1, Zenon DEF HasEntry
  <2>4. DOMAIN s = 1..n /\ DOMAIN t = 1..n
    OBVIOUS
  <2> HIDE DEF a, b
  <2> QED BY <2>1, <2>2, <2>3, <2>4, Zenon DEF HasEntry
<1>4. ASSUME NEW e, HasEntry(s, e) PROVE ~\E j \in a..b : e = <<c, j>>
  BY <1>4 DEF HasEntry
<1> HIDE DEF a, b, new
<1>5. Entries(t) = Entries(s) \cup new /\ Entries(s) \cap new = {}
  BY <1>2, <1>3, <1>4, EntriesMember, Zenon
<1>6. IsFiniteSet(new) /\ Cardinality(new) = 1 * k
  <2>1. IsFiniteSet(a..b) /\ Cardinality(a..b) = k
    BY <1>1, FS_Interval
  <2>2. IsFiniteSet({c}) /\ Cardinality({c}) = 1
    BY FS_Singleton
  <2> QED BY <2>1, <2>2, FS_Product, Zenon DEF new
<1>7. /\ IsFiniteSet(Entries(s) \cup new)
      /\ Cardinality(Entries(s) \cup new)
            = Cardinality(Entries(s)) + Cardinality(new) - Cardinality(Entries(s) \cap new)
  BY <1>6, FS_Union
<1>8. Cardinality(Entries(s)) \in Nat
  BY FS_CardinalityType
<1>9. Cardinality(Entries(s) \cap new) = 0
  BY <1>5, FS_EmptySet, Zenon
<1> QED BY <1>5, <1>6, <1>7, <1>8, <1>9

-----------------------------------------------------------------------------
(* What the changes of the list of periods do to it.                       *)
LEMMA ChangedPeriod ==
    ASSUME NEW ps \in Seq(Period), NEW c \in 1..Len(ps), NEW r \in Period,
           NEW qs, qs = [ps EXCEPT ![c] = r]
    PROVE  /\ qs \in Seq(Period) /\ Len(qs) = Len(ps)
           /\ qs[c] = r
           /\ \A i \in 1..Len(ps) : i # c => qs[i] = ps[i]
  OBVIOUS

LEMMA AddedPeriod ==
    ASSUME NEW ps \in Seq(Period), NEW c \in 1..Len(ps), NEW r \in Period, NEW new \in Period,
           NEW qs, qs = Append([ps EXCEPT ![c] = r], new)
    PROVE  /\ qs \in Seq(Period) /\ Len(qs) = Len(ps) + 1
           /\ qs[c] = r /\ qs[Len(ps) + 1] = new
           /\ \A i \in 1..Len(ps) : i # c => qs[i] = ps[i]
<1> DEFINE us == [ps EXCEPT ![c] = r]
<1>1. /\ us \in Seq(Period) /\ Len(us) = Len(ps) /\ us[c] = r
      /\ \A i \in 1..Len(ps) : i # c => us[i] = ps[i]
  BY ChangedPeriod
<1> HIDE DEF us
<1>2. /\ Append(us, new) \in Seq(Period) /\ Len(Append(us, new)) = Len(ps) + 1
      /\ Append(us, new)[c] = r /\ Append(us, new)[Len(ps) + 1] = new
      /\ \A i \in 1..Len(ps) : i # c => Append(us, new)[i] = ps[i]
  BY <1>1
<1> QED BY <1>2, Zenon DEF us

LEMMA NewPeriodType ==
    ASSUME PerfTypeOK, NEW w \in BOOLEAN
    PROVE  NewPeriod(w) \in Period
  BY DEF PerfTypeOK, NewPeriod, Period

LEMMA CountedIn ==
    ASSUME NEW p \in Period, NEW k \in Nat, NEW t \in Nat
    PROVE  /\ [p EXCEPT !.failed = @ + k] \in Period
           /\ [p EXCEPT !.succeed = @ + k] \in Period
           /\ [p EXCEPT !.measured = @ + k] \in Period
           /\ [p EXCEPT !.sent = @ + k] \in Period
           /\ [p EXCEPT !.end = t] \in Period
           /\ [p EXCEPT !.sent = @ + k, !.succeed = @ + k, !.measured = @ + k] \in Period
<1>1. p.failed + k \in Nat /\ p.succeed + k \in Nat /\ p.measured + k \in Nat /\ p.sent + k \in Nat
  BY DEF Period
<1> QED BY <1>1 DEF Period

LEMMA PeriodType ==
    ASSUME PerfTypeOK, NEW p \in 1..Len(periods)
    PROVE  periods[p] \in Period
  BY DEF PerfTypeOK

LEMMA OrderKept ==
    ASSUME PerfTypeOK, InOrder, current # None, UNCHANGED printed,
           statsList' = Append(statsList, current), current' = Len(periods) + 1,
           Len(periods') = Len(periods) + 1
    PROVE  InOrder' /\ statsList' \in Seq(Nat) /\ current' # None
<1>1. /\ current \in 1..Len(periods) /\ statsList \in Seq(Nat) /\ printed \in Seq(Nat \X Period)
      /\ Len(periods) \in Nat
  BY DEF PerfTypeOK, None
<1>2. statsList' \in Seq(Nat) /\ current' # None
  BY <1>1 DEF None
<1> DEFINE l == Len(statsList)
<1> DEFINE m == Len(printed)
<1>3. /\ l \in Nat /\ m \in Nat /\ Len(statsList') = l + 1 /\ statsList'[l + 1] = current
      /\ \A k \in 1..l : statsList'[k] = statsList[k]
  BY <1>1
<1>4. /\ \A k \in 1..l : statsList[k] = m + k
      /\ current = Len(periods) /\ current = m + l + 1
  BY DEF InOrder
<1> HIDE DEF l, m
<1>5. ASSUME NEW k \in 1..(l + 1) PROVE statsList'[k] = m + k
  <2>1. CASE k = l + 1
    BY <1>3, <1>4, <2>1
  <2>2. CASE k # l + 1
    <3>1. k \in 1..l
      BY <1>3, <2>2
    <3> QED BY <1>3, <1>4, <3>1
  <2> QED BY <2>1, <2>2
<1>6. current' = Len(periods') /\ current' = m + (l + 1) + 1
  BY <1>3, <1>4
<1>7. \A i \in 1..Len(printed') : printed'[i][1] = i
  BY DEF InOrder
<1>8. Len(printed') = m
  BY DEF m
<1> QED BY <1>2, <1>3, <1>5, <1>6, <1>7, <1>8 DEF InOrder

(* Stats::rollOutNewPeriodStats().                                         *)
LEMMA RolledOut ==
    ASSUME PerfTypeOK, InOrder, current # None, NEW w \in BOOLEAN,
           NEW ps \in Seq(Period), Len(ps) = Len(periods), RollOut(ps, w), UNCHANGED printed
    PROVE  /\ periods' \in Seq(Period) /\ Len(periods') = Len(periods) + 1
           /\ periods'[current] = [ps[current] EXCEPT !.end = now]
           /\ periods'[Len(periods) + 1] = NewPeriod(w)
           /\ \A i \in 1..Len(periods) : i # current => periods'[i] = ps[i]
           /\ current' = Len(periods) + 1
           /\ statsList' \in Seq(Nat)
           /\ InOrder'
<1> DEFINE r == [ps[current] EXCEPT !.end = now]
<1>1. current \in 1..Len(ps) /\ now \in Nat
  BY DEF PerfTypeOK, None
<1>2. r \in Period
  <2>1. ps[current] \in Period
    BY <1>1
  <2> QED BY <1>1, <2>1 DEF Period
<1>3. NewPeriod(w) \in Period
  BY NewPeriodType
<1>4. periods' = Append([ps EXCEPT ![current] = r], NewPeriod(w))
  BY DEF RollOut
<1> HIDE DEF r
<1>5. /\ periods' \in Seq(Period) /\ Len(periods') = Len(periods) + 1
      /\ periods'[current] = r /\ periods'[Len(periods) + 1] = NewPeriod(w)
      /\ \A i \in 1..Len(periods) : i # current => periods'[i] = ps[i]
  <2> DEFINE c == current
             new == NewPeriod(w)
             qs == Append([ps EXCEPT ![c] = r], new)
  <2>1. c \in 1..Len(ps) /\ new \in Period /\ periods' = qs
    BY <1>1, <1>3, <1>4
  <2> HIDE DEF c, new
  <2>2. /\ qs \in Seq(Period) /\ Len(qs) = Len(ps) + 1
        /\ qs[c] = r /\ qs[Len(ps) + 1] = new
        /\ \A i \in 1..Len(ps) : i # c => qs[i] = ps[i]
    BY <1>2, <2>1, AddedPeriod
  <2> HIDE DEF qs
  <2> QED BY <2>1, <2>2 DEF c, new
<1>6. current' = Len(periods) + 1 /\ statsList' = Append(statsList, current)
  BY DEF RollOut, InOrder
<1>7. InOrder' /\ statsList' \in Seq(Nat)
  BY <1>5, <1>6, OrderKept
<1> QED BY <1>5, <1>6, <1>7 DEF r

(* The callbacks a period waits for.                                       *)
LEMMA AwaitedFinite ==
    ASSUME PerfTypeOK, NEW p
    PROVE  IsFiniteSet(Awaited(p)) /\ Cardinality(Awaited(p)) \in Nat
<1>1. IsFiniteSet(inflight) /\ Awaited(p) \in SUBSET inflight
  BY DEF PerfTypeOK, Awaited
<1> QED BY <1>1, FS_Subset, FS_CardinalityType

(* No callback is due for a period that is printed.                        *)
LEMMA PrintedIsDone ==
    ASSUME PerfTypeOK, PerfInv, NEW m \in inflight
    PROVE  m[2] \in 1..Len(periods) /\ m[2] > Len(printed)
<1> DEFINE p == m[2]
<1>1. p \in 1..Len(periods)
  BY DEF PerfTypeOK
<1>2. SUFFICES ASSUME p <= Len(printed) PROVE FALSE
  BY <1>1 DEF PerfTypeOK
<1>3. p # current /\ p \in 1..Len(printed)
  BY <1>1, <1>2 DEF PerfTypeOK, PerfInv, InOrder, None
<1>4. periods[p] \in Period /\ printed[p][2] \in Period
  BY <1>1, <1>3 DEF PerfTypeOK
<1>5. periods[p].sent = periods[p].succeed + periods[p].failed
  BY <1>3, <1>4 DEF PerfInv, LinesFinal, Period
<1>6. periods[p].sent = periods[p].succeed + periods[p].failed + Cardinality(Awaited(p))
  <2>1. Pending(p) = 0
    BY <1>3 DEF Pending
  <2> QED BY <1>1, <1>4, <2>1 DEF PerfInv, Ledger, Period
<1>7. Cardinality(Awaited(p)) = 0
  BY <1>4, <1>5, <1>6, AwaitedFinite DEF Period
<1>8. Awaited(p) = {}
  BY <1>7, AwaitedFinite, FS_EmptySet
<1>9. m \in Awaited(p)
  BY DEF Awaited
<1> QED BY <1>8, <1>9

-----------------------------------------------------------------------------
(* A step that leaves the counters alone.                                  *)
LEMMA QuietStep ==
    ASSUME PerfTypeOK, PerfInv,
           UNCHANGED <<tool, perfArgs, numSent, isWarmingUp, periods, current, statsList,
                       inflight, measuring, printed>>,
           now' \in Nat, mainPc' = "sent" <=> mainPc = "sent", InPhase'
    PROVE  PerfTypeOK' /\ PerfInv'
<1>1. PerfTypeOK'
  BY DEF PerfTypeOK, AcceptedArgs
<1>2. InOrder' /\ LinesFinal' /\ WarmUp' /\ AllCounted'
  BY DEF PerfInv, InOrder, LinesFinal, WarmUp, AllCounted
<1>3. Ledger'
  <2>1. \A p : Awaited(p)' = Awaited(p) /\ Pending(p)' = Pending(p)
    BY DEF Awaited, Pending
  <2> QED BY <2>1 DEF PerfInv, Ledger
<1> QED BY <1>1, <1>2, <1>3 DEF PerfInv

(* The counts of records depend on the periods' sent only.                 *)
LEMMA SentOfType ==
    ASSUME PerfTypeOK
    PROVE  SentOf(periods) \in [1..Len(periods) -> Nat]
  BY PeriodType DEF SentOf, Period

LEMMA SameSent ==
    ASSUME PerfTypeOK, AllCounted, UNCHANGED numSent, Len(periods') = Len(periods),
           \A p \in 1..Len(periods) : periods'[p].sent = periods[p].sent
    PROVE  AllCounted'
<1>1. SentOf(periods)' = SentOf(periods)
  BY DEF SentOf
<1> QED BY <1>1 DEF AllCounted

LEMMA SameOrder ==
    ASSUME PerfTypeOK, InOrder, UNCHANGED <<printed, statsList, current>>,
           Len(periods') = Len(periods),
           \A p \in 1..Len(periods) : periods'[p].sent = periods[p].sent
    PROVE  InOrder'
<1>1. Len(printed) \in Nat /\ Len(statsList) \in Nat /\ Len(periods) \in Nat
  BY DEF PerfTypeOK
<1>2. Len(periods) # 0 => periods'[Len(periods)].sent = periods[Len(periods)].sent
  BY <1>1
<1> QED BY <1>1, <1>2 DEF InOrder

(* A delivery callback counts its record.                                  *)
LEMMA CallbackCounts ==
    ASSUME PerfTypeOK, PerfInv, NEW m \in inflight, NEW r \in Period,
           periods' = [periods EXCEPT ![m[2]] = r],
           r.sent = periods[m[2]].sent, r.warmup = periods[m[2]].warmup,
           r.succeed + r.failed = periods[m[2]].succeed + periods[m[2]].failed + 1,
           inflight' = inflight \ {m}, measuring' \in 0..Len(periods),
           UNCHANGED <<tool, perfArgs, mainPc, now, numSent, isWarmingUp, current,
                       statsList, printed>>
    PROVE  PerfTypeOK' /\ PerfInv'
<1> DEFINE c == m[2]
<1>1. c \in 1..Len(periods) /\ c > Len(printed) /\ periods \in Seq(Period)
  BY PrintedIsDone DEF PerfTypeOK
<1>2. /\ periods' \in Seq(Period) /\ Len(periods') = Len(periods) /\ periods'[c] = r
      /\ \A i \in 1..Len(periods) : i # c => periods'[i] = periods[i]
  BY <1>1
<1>3. \A i \in 1..Len(periods) : /\ periods'[i].sent = periods[i].sent
                                /\ periods'[i].warmup = periods[i].warmup
  BY <1>2
<1>4. IsFiniteSet(inflight')
  BY FS_RemoveElement DEF PerfTypeOK
<1>5. PerfTypeOK'
  BY <1>2, <1>4 DEF PerfTypeOK, AcceptedArgs
<1>6. InOrder' /\ InPhase'
  <2>1. InOrder'
    BY <1>2, <1>3, SameOrder DEF PerfInv
  <2>2. InPhase'
    BY DEF PerfInv, InPhase
  <2> QED BY <2>1, <2>2
<1>7. Ledger'
  <2>1. Pending(c)' = Pending(c) /\ \A p : Pending(p)' = Pending(p)
    BY DEF Pending
  <2>2. ASSUME NEW p \in 1..Len(periods), p # c
        PROVE  Awaited(p)' = Awaited(p)
    BY <2>2 DEF Awaited
  <2>3. Awaited(c)' = Awaited(c) \ {m} /\ m \in Awaited(c)
    BY DEF Awaited
  <2>4. Cardinality(Awaited(c)') = Cardinality(Awaited(c)) - 1
    <3>1. IsFiniteSet(Awaited(c))
      BY AwaitedFinite, Zenon
    <3> QED BY <2>3, <3>1, FS_RemoveElement, Zenon
  <2>5. periods[c].sent + Pending(c)
           = periods[c].succeed + periods[c].failed + Cardinality(Awaited(c))
    BY <1>1 DEF PerfInv, Ledger
  <2>6. periods[c] \in Period /\ Cardinality(Awaited(c)) \in Nat /\ Pending(c) \in Nat
    BY <1>1, AwaitedFinite, PeriodType DEF Pending
  <2>7. periods'[c].sent + Pending(c)'
           = periods'[c].succeed + periods'[c].failed + Cardinality(Awaited(c)')
    <3>1. /\ periods[c].succeed \in Nat /\ periods[c].failed \in Nat
          /\ periods[c].sent \in Nat /\ r.succeed \in Nat /\ r.failed \in Nat
      BY <2>6 DEF Period
    <3>2. /\ r.sent = periods[c].sent
          /\ r.succeed + r.failed = periods[c].succeed + periods[c].failed + 1
      OBVIOUS
    <3> DEFINE before == Cardinality(Awaited(c))
               after == Cardinality(Awaited(c)')
               x == periods[c].succeed
               y == periods[c].failed
               sent == periods[c].sent
               due == Pending(c)
               u == r.succeed
               v == r.failed
    <3> HIDE DEF c
    <3>3. /\ before \in Nat /\ after = before - 1 /\ sent + due = x + y + before
          /\ u + v = x + y + 1 /\ r.sent = sent /\ due \in Nat
          /\ x \in Nat /\ y \in Nat /\ u \in Nat /\ v \in Nat /\ sent \in Nat
      BY <2>4, <2>5, <2>6, <3>1, <3>2
    <3>4. r.sent + due = u + v + after
      <4> HIDE DEF before, after, x, y, sent, due, u, v
      <4> QED BY <3>3
    <3> QED BY <1>2, <2>1, <3>4 DEF after
  <2>8. ASSUME NEW p \in 1..Len(periods')
        PROVE  periods'[p].sent + Pending(p)'
                  = periods'[p].succeed + periods'[p].failed + Cardinality(Awaited(p)')
    <3>1. CASE p = c
      BY <3>1, <2>7
    <3>2. CASE p # c
      BY <3>2, <1>2, <2>1, <2>2 DEF PerfInv, Ledger
    <3> QED BY <3>1, <3>2
  <2>9. \A l \in inflight' : l[1] <= numSent' + (IF mainPc' = "sent" THEN 1 ELSE 0)
    BY DEF PerfInv, Ledger
  <2> QED BY <2>8, <2>9 DEF Ledger, Awaited
<1>8. LinesFinal'
  <2>1. \A i \in 1..Len(printed) : periods'[i] = periods[i]
    BY <1>1, <1>2 DEF PerfTypeOK
  <2> QED BY <2>1 DEF PerfInv, LinesFinal
<1>9. WarmUp'
  BY <1>1, <1>2, <1>3 DEF PerfInv, WarmUp
<1>10. AllCounted'
  BY <1>2, <1>3, SameSent DEF PerfInv
<1> QED BY <1>5, <1>6, <1>7, <1>8, <1>9, <1>10 DEF PerfInv

LEMMA DeliveryFailsStep ==
    ASSUME PerfTypeOK, PerfInv, NEW m \in inflight, DeliveryFails(m)
    PROVE  PerfTypeOK' /\ PerfInv'
<1> DEFINE p == periods[m[2]]
           r == [p EXCEPT !.failed = @ + 1]
<1>1. m[2] \in 1..Len(periods) /\ p \in Period
  BY PrintedIsDone, PeriodType
<1>2. /\ r \in Period /\ r.sent = p.sent /\ r.warmup = p.warmup
      /\ r.succeed + r.failed = p.succeed + p.failed + 1
  <2> HIDE DEF p
  <2>1. r \in Period
    BY <1>1, CountedIn
  <2> QED BY <1>1, <2>1 DEF Period
<1>3. periods' = [periods EXCEPT ![m[2]] = r] /\ inflight' = inflight \ {m}
  BY DEF DeliveryFails
<1>4. /\ measuring' \in 0..Len(periods)
      /\ UNCHANGED <<tool, perfArgs, mainPc, now, numSent, isWarmingUp, current,
                     statsList, printed>>
  BY DEF DeliveryFails, PerfTypeOK, fixed, loopVars, reportVars
<1> HIDE DEF r
<1> QED BY <1>2, <1>3, <1>4, CallbackCounts

LEMMA DeliveredStep ==
    ASSUME PerfTypeOK, PerfInv, NEW m \in inflight, Delivered(m)
    PROVE  PerfTypeOK' /\ PerfInv'
<1> DEFINE p == periods[m[2]]
           r == [p EXCEPT !.succeed = @ + 1]
<1>1. m[2] \in 1..Len(periods) /\ p \in Period
  BY PrintedIsDone, PeriodType
<1>2. /\ r \in Period /\ r.sent = p.sent /\ r.warmup = p.warmup
      /\ r.succeed + r.failed = p.succeed + p.failed + 1
  <2> HIDE DEF p
  <2>1. r \in Period
    BY <1>1, CountedIn
  <2> QED BY <1>1, <2>1 DEF Period
<1>3. periods' = [periods EXCEPT ![m[2]] = r] /\ inflight' = inflight \ {m}
  BY DEF Delivered
<1>4. /\ measuring' \in 0..Len(periods)
      /\ UNCHANGED <<tool, perfArgs, mainPc, now, numSent, isWarmingUp, current,
                     statsList, printed>>
  BY <1>1 DEF Delivered, PerfTypeOK, fixed, loopVars, reportVars
<1> HIDE DEF r
<1> QED BY <1>2, <1>3, <1>4, CallbackCounts

LEMMA MeasureStep ==
    ASSUME PerfTypeOK, PerfInv, Measure
    PROVE  PerfTypeOK' /\ PerfInv'
<1> DEFINE c == measuring
           r == [periods[c] EXCEPT !.measured = @ + 1]
<1>1. c \in 1..Len(periods) /\ periods \in Seq(Period) /\ periods[c] \in Period
  BY DEF PerfTypeOK, Measure, None
<1>2. r \in Period /\ periods' = [periods EXCEPT ![c] = r]
  <2>1. r \in Period
    BY <1>1, CountedIn
  <2> QED BY <2>1 DEF Measure
<1>3. /\ periods' \in Seq(Period) /\ Len(periods') = Len(periods) /\ periods'[c] = r
      /\ \A i \in 1..Len(periods) : i # c => periods'[i] = periods[i]
  <2> HIDE DEF r
  <2> QED BY <1>1, <1>2
<1>4. \A i \in 1..Len(periods) :
         /\ periods'[i].sent = periods[i].sent /\ periods'[i].warmup = periods[i].warmup
         /\ periods'[i].succeed = periods[i].succeed /\ periods'[i].failed = periods[i].failed
  BY <1>1, <1>3 DEF Period
<1>5. UNCHANGED <<tool, perfArgs, mainPc, now, numSent, isWarmingUp, current, statsList, printed,
                  inflight>> /\ measuring' = 0
  BY DEF Measure, fixed, loopVars, reportVars, None
<1>6. PerfTypeOK'
  BY <1>3, <1>5 DEF PerfTypeOK, AcceptedArgs
<1>7. InOrder' /\ InPhase'
  <2>1. InOrder'
    BY <1>3, <1>4, <1>5, SameOrder DEF PerfInv
  <2>2. InPhase'
    BY <1>5 DEF PerfInv, InPhase
  <2> QED BY <2>1, <2>2
<1>8. Ledger'
  <2>1. \A p : Awaited(p)' = Awaited(p) /\ Pending(p)' = Pending(p)
    BY <1>5 DEF Awaited, Pending
  <2> QED BY <1>3, <1>4, <1>5, <2>1 DEF PerfInv, Ledger
<1>9. LinesFinal'
  <2> SUFFICES ASSUME NEW i \in 1..Len(printed)
               PROVE  /\ printed[i][2].sent = printed[i][2].succeed + printed[i][2].failed
                      /\ printed[i][2] = [periods'[i] EXCEPT !.measured = printed[i][2].measured]
    BY <1>5 DEF LinesFinal
  <2>1. i \in 1..Len(periods) /\ periods[i] \in Period
    BY PeriodType DEF PerfTypeOK, PerfInv, InOrder, None
  <2>2. /\ printed[i][2].sent = printed[i][2].succeed + printed[i][2].failed
        /\ printed[i][2] = [periods[i] EXCEPT !.measured = printed[i][2].measured]
    BY DEF PerfInv, LinesFinal
  <2>3. ASSUME NEW p \in Period, NEW l, l = [p EXCEPT !.measured = l.measured],
               NEW q, q = [p EXCEPT !.measured = @ + 1]
        PROVE  l = [q EXCEPT !.measured = l.measured]
    BY <2>3 DEF Period
  <2>4. CASE i = c
    BY <1>3, <2>1, <2>2, <2>3, <2>4
  <2>5. CASE i # c
    BY <1>3, <2>1, <2>2, <2>5
  <2> QED BY <2>4, <2>5
<1>10. WarmUp'
  BY <1>3, <1>4, <1>5 DEF PerfInv, WarmUp
<1>11. AllCounted'
  BY <1>3, <1>4, <1>5, SameSent DEF PerfInv
<1> QED BY <1>6, <1>7, <1>8, <1>9, <1>10, <1>11 DEF PerfInv

-----------------------------------------------------------------------------
(* A new period counts nothing, so that the records counted stay the same.  *)
LEMMA NewPeriodCountsNothing ==
    ASSUME PerfTypeOK, AllCounted, UNCHANGED numSent, periods' \in Seq(Period),
           Len(periods') = Len(periods) + 1, periods'[Len(periods) + 1].sent = 0,
           \A p \in 1..Len(periods) : periods'[p].sent = periods[p].sent
    PROVE  AllCounted'
<1> DEFINE n == Len(periods)
           s == SentOf(periods)
           t == SentOf(periods')
<1>1. n \in Nat /\ s \in [1..n -> Nat]
  BY SentOfType DEF PerfTypeOK
<1>2. t \in [1..(n + 1) -> Nat]
  <2>1. \A p \in 1..(n + 1) : periods'[p] \in Period
    OBVIOUS
  <2> QED BY <2>1 DEF SentOf, Period
<1>3. t[n + 1] = 0 /\ \A i \in 1..n : t[i] = s[i]
  BY <1>1 DEF SentOf
<1> HIDE DEF n, s, t
<1>4. Entries(t) = Entries(s)
  BY <1>1, <1>2, <1>3, EntriesSame
<1> QED BY <1>4 DEF AllCounted, s, t

(* The loop counts k records in a period that is there.                     *)
LEMMA MoreSent ==
    ASSUME PerfTypeOK, AllCounted, NEW k \in Nat, numSent' = numSent + k,
           periods' \in Seq(Period), Len(periods') = Len(periods),
           NEW c \in 1..Len(periods), periods'[c].sent = periods[c].sent + k,
           \A p \in 1..Len(periods) : p # c => periods'[p].sent = periods[p].sent
    PROVE  AllCounted'
<1> DEFINE n == Len(periods)
           s == SentOf(periods)
           t == SentOf(periods')
<1>1. n \in Nat /\ s \in [1..n -> Nat]
  BY SentOfType DEF PerfTypeOK
<1>2. t \in [1..n -> Nat]
  <2>1. \A p \in 1..n : periods'[p] \in Period
    OBVIOUS
  <2> QED BY <2>1 DEF SentOf, Period
<1>3. t[c] = s[c] + k /\ \A i \in 1..n : i # c => t[i] = s[i]
  BY <1>1 DEF SentOf
<1>4. c \in 1..n
  OBVIOUS
<1> HIDE DEF n, s, t
<1>5. IsFiniteSet(Entries(s)) /\ Cardinality(Entries(s)) = numSent
  BY DEF AllCounted, s
<1>6. IsFiniteSet(Entries(t)) /\ Cardinality(Entries(t)) = Cardinality(Entries(s)) + k
  BY <1>1, <1>2, <1>3, <1>4, <1>5, EntriesMore
<1> QED BY <1>5, <1>6 DEF AllCounted, t

(* What send() adds to the callbacks to come.                              *)
LEMMA OneMoreAwaited ==
    ASSUME PerfTypeOK, Ledger, mainPc # "sent", NEW q \in Nat,
           inflight' = inflight \cup {<<numSent + 1, q>>}
    PROVE  /\ IsFiniteSet(inflight')
           /\ Cardinality(Awaited(q)') = Cardinality(Awaited(q)) + 1
           /\ \A p \in Nat : p # q => Awaited(p)' = Awaited(p)
<1> DEFINE new == <<numSent + 1, q>>
<1>1. new \notin Awaited(q)
  BY DEF PerfTypeOK, Ledger, Awaited
<1>2. Awaited(q)' = Awaited(q) \cup {new}
  BY DEF Awaited
<1>3. \A p \in Nat : p # q => Awaited(p)' = Awaited(p)
  BY DEF Awaited
<1> HIDE DEF new
<1>4. IsFiniteSet(Awaited(q)) /\ IsFiniteSet(inflight)
  BY AwaitedFinite DEF PerfTypeOK
<1>5. Cardinality(Awaited(q) \cup {new}) = Cardinality(Awaited(q)) + 1
  BY <1>1, <1>4, FS_AddElement, Zenon
<1>6. IsFiniteSet(inflight')
  BY <1>4, FS_AddElement
<1> QED BY <1>2, <1>3, <1>5, <1>6

(* Before a record is sent: perhaps a new period.                          *)
LEMMA SendPeriods ==
    ASSUME PerfTypeOK, PerfInv, Send
    PROVE  /\ periods' \in Seq(Period) /\ statsList' \in Seq(Nat)
           /\ current' = Len(periods') /\ current' # None
           /\ \A i \in 1..Len(periods) :
                 /\ periods'[i].sent = periods[i].sent
                 /\ periods'[i].warmup = periods[i].warmup
                 /\ periods'[i].succeed = periods[i].succeed
                 /\ periods'[i].failed = periods[i].failed
                 /\ i # current => periods'[i] = periods[i]
           /\ \/ current' = current /\ Len(periods') = Len(periods)
              \/ /\ ~isWarmingUp /\ Len(periods') = Len(periods) + 1
                 /\ periods'[Len(periods) + 1] = NewPeriod(FALSE)
           /\ InOrder' /\ AllCounted'
<1>1. InOrder /\ AllCounted /\ current # None /\ current = Len(periods) /\ periods \in Seq(Period)
  BY DEF PerfTypeOK, PerfInv, InPhase, Send, InOrder
<1>2. UNCHANGED <<printed, numSent>>
  BY DEF Send, reportVars
<1>3. CASE ~isWarmingUp /\ IntervalOver
  <2>1. RollOut(periods, FALSE)
    BY <1>3 DEF Send
  <2>2. /\ periods' \in Seq(Period) /\ Len(periods') = Len(periods) + 1
        /\ periods'[current] = [periods[current] EXCEPT !.end = now]
        /\ periods'[Len(periods) + 1] = NewPeriod(FALSE)
        /\ \A i \in 1..Len(periods) : i # current => periods'[i] = periods[i]
        /\ current' = Len(periods) + 1
        /\ statsList' \in Seq(Nat)
        /\ InOrder'
    BY <1>1, <1>2, <2>1, RolledOut
  <2>3. ASSUME NEW i \in 1..Len(periods)
        PROVE  /\ periods'[i].sent = periods[i].sent
               /\ periods'[i].warmup = periods[i].warmup
               /\ periods'[i].succeed = periods[i].succeed
               /\ periods'[i].failed = periods[i].failed
    <3>1. periods[i] \in Period
      BY PeriodType
    <3>2. CASE i = current
      BY <2>2, <3>1, <3>2 DEF Period
    <3> QED BY <2>2, <3>2
  <2>4. AllCounted'
    <3>1. periods'[Len(periods) + 1].sent = 0
      BY <2>2 DEF NewPeriod
    <3> QED BY <1>1, <1>2, <2>2, <2>3, <3>1, NewPeriodCountsNothing
  <2>5. current' # None
    BY <1>1, <2>2 DEF None
  <2> QED BY <1>3, <2>2, <2>3, <2>4, <2>5
<1>4. CASE ~(~isWarmingUp /\ IntervalOver)
  <2>1. UNCHANGED <<periods, current, statsList>>
    BY <1>4 DEF Send, statsVars
  <2>2. statsList' \in Seq(Nat)
    BY <2>1 DEF PerfTypeOK
  <2>3. InOrder'
    BY <1>1, <1>2, <2>1, SameOrder
  <2>4. AllCounted'
    BY <1>1, <1>2, <2>1 DEF AllCounted
  <2> QED BY <1>1, <2>1, <2>2, <2>3, <2>4
<1> QED BY <1>3, <1>4

LEMMA SendStep ==
    ASSUME PerfTypeOK, PerfInv, Send
    PROVE  PerfTypeOK' /\ PerfInv'
<1> DEFINE n == Len(periods)
<1>1. /\ periods' \in Seq(Period) /\ statsList' \in Seq(Nat)
      /\ current' = Len(periods') /\ current' # None
      /\ \A i \in 1..n :
            /\ periods'[i].sent = periods[i].sent
            /\ periods'[i].warmup = periods[i].warmup
            /\ periods'[i].succeed = periods[i].succeed
            /\ periods'[i].failed = periods[i].failed
            /\ i # current => periods'[i] = periods[i]
      /\ \/ current' = current /\ Len(periods') = n
         \/ /\ ~isWarmingUp /\ Len(periods') = n + 1
            /\ periods'[n + 1] = NewPeriod(FALSE)
      /\ InOrder' /\ AllCounted'
  BY SendPeriods
<1>2. /\ UNCHANGED <<tool, perfArgs, now, numSent, isWarmingUp, measuring, printed>>
      /\ inflight' = inflight \cup {<<numSent + 1, current'>>}
      /\ mainPc = "loop" /\ mainPc' = "sent" /\ tool = "producer"
  BY DEF Send, fixed, reportVars
<1>3. /\ n \in Nat /\ numSent \in Nat /\ current' \in Nat /\ Len(periods') \in Nat
      /\ current = n /\ Len(printed) \in Nat /\ Len(printed) < n
  BY <1>1, <1>2 DEF PerfTypeOK, PerfInv, InOrder, InPhase, None
<1>4. PICK q \in Nat : q = current' /\ q # 0
  BY <1>1, <1>3, Zenon DEF None
<1>5. /\ q = Len(periods') /\ current' = q /\ n <= q
      /\ q = n \/ q = n + 1
      /\ inflight' = inflight \cup {<<numSent + 1, q>>}
  <2>1. q = Len(periods') /\ current' = q
    BY <1>1, <1>4
  <2>2. q = n \/ q = n + 1
    BY <1>1, <2>1
  <2>3. inflight' = inflight \cup {<<numSent + 1, q>>}
    BY <1>2, <2>1
  <2> QED BY <1>3, <2>1, <2>2, <2>3
<1>6. /\ IsFiniteSet(inflight')
      /\ Cardinality(Awaited(q)') = Cardinality(Awaited(q)) + 1
      /\ \A p \in Nat : p # q => Awaited(p)' = Awaited(p)
  <2>1. Ledger /\ mainPc # "sent"
    BY <1>2 DEF PerfInv
  <2> QED BY <1>5, <2>1, OneMoreAwaited
<1>7. PerfTypeOK'
  <2>1. inflight' \subseteq Nat \X (1..q)
    <3>1. inflight \subseteq Nat \X (1..q)
      BY <1>3, <1>5 DEF PerfTypeOK
    <3> QED BY <1>3, <1>4, <1>5, <3>1
  <2>2. current' \in 0..q /\ measuring' \in 0..q
    BY <1>2, <1>3, <1>4, <1>5 DEF PerfTypeOK
  <2> QED BY <1>1, <1>2, <1>5, <1>6, <2>1, <2>2 DEF PerfTypeOK, AcceptedArgs
<1>8. InPhase'
  BY <1>1, <1>2 DEF PerfInv, InPhase
<1>9. Ledger'
  <2>1. ASSUME NEW m \in inflight'
        PROVE  m[1] <= numSent' + (IF mainPc' = "sent" THEN 1 ELSE 0)
    <3>1. CASE m \in inflight
      BY <1>2, <1>3, <3>1 DEF PerfTypeOK, PerfInv, Ledger
    <3>2. CASE m = <<numSent + 1, q>>
      BY <1>2, <1>3, <3>2
    <3> QED BY <1>5, <3>1, <3>2
  <2>2. ASSUME NEW p \in 1..n
        PROVE  /\ periods[p].sent = periods[p].succeed + periods[p].failed + Cardinality(Awaited(p))
               /\ periods[p].sent \in Nat /\ periods[p].succeed \in Nat /\ periods[p].failed \in Nat
               /\ Cardinality(Awaited(p)) \in Nat
    <3>1. periods[p] \in Period /\ Cardinality(Awaited(p)) \in Nat /\ Pending(p) = 0
      BY <1>2, PeriodType, AwaitedFinite DEF Pending
    <3> QED BY <3>1 DEF PerfInv, Ledger, Period
  <2>3. ASSUME NEW p \in 1..q
        PROVE  periods'[p].sent + Pending(p)'
                  = periods'[p].succeed + periods'[p].failed + Cardinality(Awaited(p)')
    <3>1. CASE p # q
      <4>1. p \in 1..n /\ Pending(p)' = 0 /\ Awaited(p)' = Awaited(p)
        BY <1>3, <1>5, <1>6, <3>1 DEF Pending
      <4> QED BY <1>1, <2>2, <4>1
    <3>2. CASE p = q /\ q = n
      <4>1. p \in 1..n /\ Pending(p)' = 1 /\ Cardinality(Awaited(p)') = Cardinality(Awaited(p)) + 1
        BY <1>2, <1>5, <1>6, <3>2 DEF Pending
      <4>2. /\ periods'[p].sent = periods[p].sent /\ periods'[p].failed = periods[p].failed
            /\ periods'[p].succeed = periods[p].succeed
        BY <1>1, <4>1
      <4> DEFINE x == periods[p].sent
                 y == periods[p].succeed
                 z == periods[p].failed
                 a == Cardinality(Awaited(p))
      <4>3. x \in Nat /\ y \in Nat /\ z \in Nat /\ a \in Nat /\ x = y + z + a
        BY <2>2, <4>1
      <4>4. x + 1 = y + z + (a + 1)
        <5> HIDE DEF x, y, z, a
        <5> QED BY <4>3
      <4> QED BY <4>1, <4>2, <4>4, Zenon
    <3>3. CASE p = q /\ q = n + 1
      <4>1. Awaited(q) = {}
        BY <1>3, <3>3 DEF PerfTypeOK, Awaited
      <4>2. Cardinality(Awaited(q)) = 0
        BY <4>1, FS_EmptySet
      <4>3. Pending(q)' = 1
        BY <1>2, <1>5 DEF Pending
      <4>4. periods'[q].sent = 0 /\ periods'[q].succeed = 0 /\ periods'[q].failed = 0
        BY <1>1, <1>3, <1>5, <3>3 DEF NewPeriod
      <4> QED BY <1>6, <3>3, <4>2, <4>3, <4>4
    <3> QED BY <1>5, <3>1, <3>2, <3>3
  <2> QED BY <1>5, <2>1, <2>3 DEF Ledger
<1>10. LinesFinal'
  <2>1. \A i \in 1..Len(printed) : i \in 1..n /\ i # current
    BY <1>3
  <2>2. \A i \in 1..Len(printed) : periods'[i] = periods[i]
    BY <1>1, <2>1
  <2> QED BY <1>2, <2>2 DEF PerfInv, LinesFinal
<1>11. WarmUp'
  <2>1. CASE q = n
    <3>1. /\ Len(periods') = Len(periods) /\ UNCHANGED <<current, isWarmingUp, perfArgs, numSent>>
          /\ \A i \in 1..Len(periods) : /\ periods'[i].sent = periods[i].sent
                                       /\ periods'[i].warmup = periods[i].warmup
      BY <1>1, <1>2, <1>3, <1>5, <2>1
    <3> QED BY <3>1 DEF PerfInv, WarmUp
  <2>2. CASE q = n + 1
    <3>1. ~isWarmingUp /\ ~periods'[q].warmup
      BY <1>1, <1>3, <1>5, <2>2 DEF NewPeriod
    <3>2. \A p \in 1..q : p = q \/ p \in 1..n
      BY <1>3, <2>2
    <3> QED BY <1>1, <1>2, <1>3, <1>5, <2>2, <3>1, <3>2 DEF PerfInv, WarmUp
  <2> QED BY <1>5, <2>1, <2>2
<1> QED BY <1>1, <1>7, <1>8, <1>9, <1>10, <1>11 DEF PerfInv

(* The loop counts k records and makes a new period.                        *)
LEMMA MoreSentAndNewPeriod ==
    ASSUME PerfTypeOK, AllCounted, NEW k \in Nat, numSent' = numSent + k,
           periods' \in Seq(Period), Len(periods') = Len(periods) + 1,
           NEW c \in 1..(Len(periods) + 1),
           \A p \in 1..Len(periods) :
               periods'[p].sent = IF p = c THEN periods[p].sent + k ELSE periods[p].sent,
           periods'[Len(periods) + 1].sent = IF c = Len(periods) + 1 THEN k ELSE 0
    PROVE  AllCounted'
<1> DEFINE n == Len(periods)
           s == SentOf(periods)
           u == [i \in 1..(n + 1) |-> IF i = n + 1 THEN 0 ELSE s[i]]
           t == SentOf(periods')
<1>1. n \in Nat /\ n + 1 \in Nat /\ c \in 1..(n + 1) /\ s \in [1..n -> Nat]
  BY SentOfType DEF PerfTypeOK
<1>2. t \in [1..(n + 1) -> Nat]
  <2>1. \A p \in 1..(n + 1) : periods'[p] \in Period
    OBVIOUS
  <2> QED BY <2>1 DEF SentOf, Period
<1>3. \A i \in 1..(n + 1) : t[i] = IF i = c THEN u[i] + k ELSE u[i]
  <2> SUFFICES ASSUME NEW i \in 1..(n + 1)
               PROVE  t[i] = IF i = c THEN u[i] + k ELSE u[i]
    OBVIOUS
  <2>1. CASE i = n + 1
    BY <1>1, <2>1 DEF SentOf
  <2>2. CASE i # n + 1
    <3>1. i \in 1..n
      BY <1>1, <2>2
    <3> QED BY <1>1, <2>2, <3>1 DEF SentOf
  <2> QED BY <2>1, <2>2
<1> HIDE DEF n, s, t
<1>4. /\ u \in [1..(n + 1) -> Nat] /\ u[n + 1] = 0
      /\ \A i \in 1..n : u[i] = s[i]
  BY <1>1
<1> HIDE DEF u
<1>5. Entries(u) = Entries(s)
  BY <1>1, <1>4, EntriesSame
<1>6. IsFiniteSet(Entries(u)) /\ Cardinality(Entries(u)) = numSent
  BY <1>5 DEF AllCounted, s
<1>7. t[c] = u[c] + k /\ \A i \in 1..(n + 1) : i # c => t[i] = u[i]
  BY <1>1, <1>3
<1>8. IsFiniteSet(Entries(t)) /\ Cardinality(Entries(t)) = Cardinality(Entries(u)) + k
  BY <1>1, <1>2, <1>4, <1>6, <1>7, EntriesMore
<1> QED BY <1>6, <1>8 DEF AllCounted, t

(* main() counts a record that was sent.                                   *)
LEMMA CountSentPeriods ==
    ASSUME PerfTypeOK, PerfInv, CountSent
    PROVE  /\ periods' \in Seq(Period) /\ statsList' \in Seq(Nat)
           /\ current' = Len(periods') /\ current' # None
           /\ \A i \in 1..Len(periods) :
                 /\ i # current => periods'[i] = periods[i]
                 /\ periods'[i].warmup = periods[i].warmup
                 /\ periods'[i].succeed = periods[i].succeed
                 /\ periods'[i].failed = periods[i].failed
           /\ periods'[current].sent = periods[current].sent + 1
           /\ \/ /\ current' = current /\ Len(periods') = Len(periods)
                 /\ ~(isWarmingUp /\ numSent + 1 = perfArgs.warmupRecords)
                 /\ isWarmingUp' = isWarmingUp
              \/ /\ isWarmingUp /\ numSent + 1 = perfArgs.warmupRecords /\ ~isWarmingUp'
                 /\ Len(periods') = Len(periods) + 1
                 /\ periods'[Len(periods) + 1] = NewPeriod(FALSE)
           /\ InOrder' /\ AllCounted'
<1> DEFINE p == periods[current]
           r == [p EXCEPT !.sent = @ + 1]
           ps == [periods EXCEPT ![current] = r]
           warm == isWarmingUp /\ numSent + 1 = perfArgs.warmupRecords
<1>1. /\ InOrder /\ AllCounted /\ current # None /\ current = Len(periods)
      /\ periods \in Seq(Period) /\ numSent \in Nat
  BY DEF PerfTypeOK, PerfInv, InPhase, CountSent, InOrder
<1>2. UNCHANGED printed /\ numSent' = numSent + 1
  BY DEF CountSent, reportVars
<1>3. current \in 1..Len(periods) /\ p \in Period
  BY <1>1, PeriodType DEF PerfTypeOK, None
<1>4. /\ r \in Period /\ r.sent = p.sent + 1 /\ r.warmup = p.warmup
      /\ r.succeed = p.succeed /\ r.failed = p.failed
  <2> HIDE DEF p
  <2>1. r \in Period
    BY <1>3, CountedIn
  <2> QED BY <1>3, <2>1 DEF Period
<1>5. ps = [periods EXCEPT ![current].sent = @ + 1]
  OBVIOUS
<1> HIDE DEF r
<1>6. /\ ps \in Seq(Period) /\ Len(ps) = Len(periods) /\ ps[current] = r
      /\ \A i \in 1..Len(periods) : i # current => ps[i] = periods[i]
  BY <1>1, <1>3, <1>4
<1> HIDE DEF ps
<1>7. \A i \in 1..Len(periods) :
         /\ ps[i].warmup = periods[i].warmup /\ ps[i].succeed = periods[i].succeed
         /\ ps[i].failed = periods[i].failed
         /\ ps[i].sent = IF i = current THEN periods[i].sent + 1 ELSE periods[i].sent
  BY <1>4, <1>6
<1>8. CASE warm
  <2>1. RollOut(ps, FALSE) /\ isWarmingUp' = FALSE
    BY <1>5, <1>8 DEF CountSent
  <2>2. /\ periods' \in Seq(Period) /\ Len(periods') = Len(periods) + 1
        /\ periods'[current] = [ps[current] EXCEPT !.end = now]
        /\ periods'[Len(periods) + 1] = NewPeriod(FALSE)
        /\ \A i \in 1..Len(periods) : i # current => periods'[i] = ps[i]
        /\ current' = Len(periods) + 1
        /\ statsList' \in Seq(Nat)
        /\ InOrder'
    BY <1>1, <1>2, <1>6, <2>1, RolledOut
  <2>3. /\ periods'[current].sent = r.sent /\ periods'[current].warmup = r.warmup
        /\ periods'[current].succeed = r.succeed /\ periods'[current].failed = r.failed
    BY <1>4, <1>6, <2>2 DEF Period
  <2>4. ASSUME NEW i \in 1..Len(periods)
        PROVE  /\ i # current => periods'[i] = periods[i]
               /\ periods'[i].warmup = periods[i].warmup
               /\ periods'[i].succeed = periods[i].succeed
               /\ periods'[i].failed = periods[i].failed
               /\ periods'[i].sent = IF i = current THEN periods[i].sent + 1 ELSE periods[i].sent
    BY <1>4, <1>6, <2>2, <2>3
  <2>5. AllCounted'
    <3>1. periods'[Len(periods) + 1].sent = 0
      BY <2>2 DEF NewPeriod
    <3>2. current \in 1..(Len(periods) + 1) /\ current # Len(periods) + 1 /\ 1 \in Nat
      BY <1>1, <1>3
    <3> DEFINE c == current
    <3> HIDE DEF c
    <3>3. /\ c \in 1..(Len(periods) + 1)
          /\ \A i \in 1..Len(periods) :
               periods'[i].sent = IF i = c THEN periods[i].sent + 1 ELSE periods[i].sent
          /\ periods'[Len(periods) + 1].sent = IF c = Len(periods) + 1 THEN 1 ELSE 0
      BY <2>4, <3>1, <3>2 DEF c
    <3> QED BY <1>1, <1>2, <2>2, <3>2, <3>3, MoreSentAndNewPeriod
  <2>6. current' # None /\ periods'[current].sent = periods[current].sent + 1
    BY <1>1, <1>4, <2>2, <2>3 DEF None
  <2> QED BY <1>8, <2>1, <2>2, <2>4, <2>5, <2>6
<1>9. CASE ~warm
  <2>1. periods' = ps /\ UNCHANGED <<statsList, current, isWarmingUp>>
    BY <1>5, <1>9 DEF CountSent
  <2>2. statsList' \in Seq(Nat)
    BY <2>1 DEF PerfTypeOK
  <2>3. InOrder'
    BY <1>1, <1>2, <1>6, <2>1 DEF InOrder
  <2>4. AllCounted'
    <3> DEFINE c == current
    <3> HIDE DEF c
    <3>1. /\ c \in 1..Len(periods) /\ periods'[c].sent = periods[c].sent + 1 /\ 1 \in Nat
          /\ \A i \in 1..Len(periods) : i # c => periods'[i].sent = periods[i].sent
      BY <1>3, <1>7, <2>1 DEF c
    <3> QED BY <1>1, <1>2, <1>6, <2>1, <3>1, MoreSent
  <2> QED BY <1>1, <1>3, <1>6, <1>7, <1>9, <2>1, <2>2, <2>3, <2>4
<1> QED BY <1>8, <1>9

LEMMA CountSentStep ==
    ASSUME PerfTypeOK, PerfInv, CountSent
    PROVE  PerfTypeOK' /\ PerfInv'
<1> DEFINE n == Len(periods)
<1>1. /\ periods' \in Seq(Period) /\ statsList' \in Seq(Nat)
      /\ current' = Len(periods') /\ current' # None
      /\ \A i \in 1..n :
            /\ i # current => periods'[i] = periods[i]
            /\ periods'[i].warmup = periods[i].warmup
            /\ periods'[i].succeed = periods[i].succeed
            /\ periods'[i].failed = periods[i].failed
      /\ periods'[current].sent = periods[current].sent + 1
      /\ \/ /\ current' = current /\ Len(periods') = n
            /\ ~(isWarmingUp /\ numSent + 1 = perfArgs.warmupRecords)
            /\ isWarmingUp' = isWarmingUp
         \/ /\ isWarmingUp /\ numSent + 1 = perfArgs.warmupRecords /\ ~isWarmingUp'
            /\ Len(periods') = n + 1
            /\ periods'[n + 1] = NewPeriod(FALSE)
      /\ InOrder' /\ AllCounted'
  BY CountSentPeriods
<1>2. /\ UNCHANGED <<tool, perfArgs, now, inflight, measuring, printed>>
      /\ mainPc = "sent" /\ mainPc' = "loop" /\ numSent' = numSent + 1
      /\ isWarmingUp' \in BOOLEAN
  BY DEF CountSent, fixed, callVars, reportVars, PerfTypeOK
<1>3. /\ n \in Nat /\ numSent \in Nat /\ current = n /\ current \in 1..n
      /\ Len(printed) \in Nat /\ Len(printed) < n
  BY <1>2 DEF PerfTypeOK, PerfInv, InOrder, InPhase, None
<1>4. Len(periods') = n \/ Len(periods') = n + 1
  BY <1>1
<1>5. PerfTypeOK'
  <2>1. 0..n \subseteq 0..Len(periods') /\ 1..n \subseteq 1..Len(periods')
    BY <1>3, <1>4
  <2>2. current' \in 0..Len(periods')
    BY <1>1, <1>3, <1>4
  <2>3. inflight' \subseteq Nat \X (1..Len(periods'))
    BY <1>2, <2>1 DEF PerfTypeOK
  <2>4. measuring' \in 0..Len(periods') /\ numSent' \in Nat
    BY <1>2, <1>3, <2>1 DEF PerfTypeOK
  <2> QED BY <1>1, <1>2, <2>2, <2>3, <2>4 DEF PerfTypeOK, AcceptedArgs
<1>6. InPhase'
  BY <1>1, <1>2 DEF PerfInv, InPhase
<1>7. Ledger'
  <2>1. ASSUME NEW m \in inflight'
        PROVE  m[1] <= numSent' + (IF mainPc' = "sent" THEN 1 ELSE 0)
    <3>1. m[1] \in Nat /\ m[1] <= numSent + 1
      BY <1>2 DEF PerfTypeOK, PerfInv, Ledger
    <3> QED BY <1>2, <1>3, <3>1
  <2>2. \A p : Awaited(p)' = Awaited(p) /\ Pending(p)' = 0
    BY <1>2 DEF Awaited, Pending
  <2>3. ASSUME NEW p \in 1..Len(periods')
        PROVE  periods'[p].sent = periods'[p].succeed + periods'[p].failed
                                     + Cardinality(Awaited(p)')
    <3>1. CASE p \in 1..n /\ p # current
      <4>1. Pending(p) = 0 /\ periods[p] \in Period
        BY <3>1, PeriodType DEF Pending
      <4>2. periods[p].sent = periods[p].succeed + periods[p].failed + Cardinality(Awaited(p))
        BY <3>1, <4>1 DEF PerfInv, Ledger, Period
      <4> QED BY <1>1, <2>2, <3>1, <4>2
    <3>2. CASE p = current
      <4>1. Pending(p) = 1
        BY <1>2, <3>2 DEF Pending
      <4>2. periods[p].sent + 1 = periods[p].succeed + periods[p].failed + Cardinality(Awaited(p))
        BY <1>3, <3>2, <4>1 DEF PerfInv, Ledger
      <4> QED BY <1>1, <1>3, <2>2, <3>2, <4>2
    <3>3. CASE p = n + 1 /\ Len(periods') = n + 1
      <4>1. Awaited(p) = {}
        BY <1>3, <3>3 DEF PerfTypeOK, Awaited
      <4>2. Cardinality(Awaited(p)') = 0
        BY <2>2, <4>1, FS_EmptySet
      <4>3. periods'[p].sent = 0 /\ periods'[p].succeed = 0 /\ periods'[p].failed = 0
        BY <1>1, <1>3, <3>3 DEF NewPeriod
      <4> QED BY <4>2, <4>3
    <3> QED BY <1>3, <1>4, <3>1, <3>2, <3>3
  <2>4. ASSUME NEW p \in 1..Len(periods')
        PROVE  periods'[p].sent + Pending(p)'
                  = periods'[p].succeed + periods'[p].failed + Cardinality(Awaited(p)')
    <3>1. periods'[p].sent \in Nat
      <4>1. periods'[p] \in Period
        BY <1>1
      <4> QED BY <4>1 DEF Period
    <3> QED BY <2>2, <2>3, <3>1
  <2> QED BY <2>1, <2>4 DEF Ledger
<1>8. LinesFinal'
  <2>1. \A i \in 1..Len(printed) : i \in 1..n /\ i # current
    BY <1>3
  <2>2. \A i \in 1..Len(printed) : periods'[i] = periods[i]
    BY <1>1, <2>1
  <2> QED BY <1>2, <2>2 DEF PerfInv, LinesFinal
<1>9. WarmUp'
  <2>1. CASE isWarmingUp'
    <3>1. /\ isWarmingUp /\ current' = current /\ Len(periods') = n
          /\ numSent + 1 # perfArgs.warmupRecords
      BY <1>1, <2>1
    <3>2. current = 1 /\ n = 1 /\ periods[1].sent = numSent /\ numSent < perfArgs.warmupRecords
      BY <3>1 DEF PerfInv, WarmUp
    <3>3. numSent + 1 < perfArgs.warmupRecords
      BY <1>3, <3>1, <3>2 DEF PerfTypeOK
    <3>4. \A p \in 1..Len(periods') : p = 1
      BY <3>1, <3>2
    <3> QED BY <1>1, <1>2, <2>1, <3>1, <3>2, <3>3, <3>4 DEF WarmUp
  <2>2. CASE ~isWarmingUp' /\ isWarmingUp
    <3>0. /\ numSent + 1 = perfArgs.warmupRecords /\ Len(periods') = n + 1
          /\ periods'[n + 1] = NewPeriod(FALSE)
      BY <1>1, <2>2, Zenon
    <3>1. /\ numSent + 1 = perfArgs.warmupRecords /\ Len(periods') = n + 1
          /\ ~periods'[n + 1].warmup
      BY <3>0 DEF NewPeriod
    <3>2. current = 1 /\ n = 1 /\ periods[1].sent = numSent
      BY <2>2 DEF PerfInv, WarmUp
    <3>3. \A p \in 1..Len(periods') : p = 1 \/ p = n + 1
      BY <3>1, <3>2
    <3>4. current' = 2 /\ periods'[1].sent = perfArgs.warmupRecords
      BY <1>1, <3>1, <3>2
    <3> QED BY <1>2, <2>2, <3>1, <3>2, <3>3, <3>4 DEF WarmUp
  <2>3. CASE ~isWarmingUp
    <3>0. current' = current /\ Len(periods') = n /\ isWarmingUp' = isWarmingUp
      BY <1>1, <2>3, Zenon
    <3>1. current' = current /\ Len(periods') = n /\ ~isWarmingUp'
      BY <2>3, <3>0
    <3>2. \A p \in 1..n : periods[p].warmup =>
              p = 1 /\ p # current /\ periods[p].sent = perfArgs.warmupRecords
      BY <2>3 DEF PerfInv, WarmUp
    <3>3. \A p \in 1..n : periods'[p].warmup =>
              p = 1 /\ p # current' /\ periods'[p].sent = perfArgs'.warmupRecords
      BY <1>1, <1>2, <3>1, <3>2
    <3> QED BY <3>1, <3>3 DEF WarmUp
  <2> QED BY <2>1, <2>2, <2>3
<1> QED BY <1>1, <1>5, <1>6, <1>7, <1>8, <1>9 DEF PerfInv

-----------------------------------------------------------------------------
(* The consumer counts what poll() returned, at once and in all counters.   *)
LEMMA MinOfTwo ==
    ASSUME NEW a \in Nat, NEW b \in Nat
    PROVE  Min({a, b}) \in Nat
<1>1. \E x \in {a, b} : \A y \in {a, b} : x <= y
  BY a <= b \/ b <= a
<1>2. Min({a, b}) \in {a, b}
  BY <1>1 DEF Min
<1> QED BY <1>2

LEMMA ReceivedIn ==
    ASSUME NEW p \in Period, NEW k \in Nat, p.sent = p.succeed + p.failed
    PROVE  LET r == [p EXCEPT !.sent = @ + k, !.succeed = @ + k, !.measured = @ + k] IN
           /\ r \in Period /\ r.sent = p.sent + k /\ r.warmup = p.warmup
           /\ r.sent = r.succeed + r.failed
<1> DEFINE r == [p EXCEPT !.sent = @ + k, !.succeed = @ + k, !.measured = @ + k]
<1>1. r \in Period
  BY CountedIn
<1>2. p.sent \in Nat /\ p.succeed \in Nat /\ p.failed \in Nat
  BY DEF Period
<1>3. /\ r.sent = p.sent + k /\ r.warmup = p.warmup
      /\ r.succeed = p.succeed + k /\ r.failed = p.failed
  BY DEF Period
<1>4. r.sent = r.succeed + r.failed
  BY <1>2, <1>3
<1> QED BY <1>1, <1>3, <1>4

LEMMA ReceivePeriods ==
    ASSUME PerfTypeOK, PerfInv, NEW b \in Nat, Receive(b)
    PROVE  /\ periods' \in Seq(Period) /\ statsList' \in Seq(Nat)
           /\ current' = Len(periods') /\ current' # None /\ numSent' \in Nat
           /\ \A i \in 1..Len(periods) :
                 /\ i # current => periods'[i] = periods[i]
                 /\ periods'[i].warmup = periods[i].warmup
           /\ Len(periods') = Len(periods) \/ /\ Len(periods') = Len(periods) + 1
                                              /\ ~periods'[Len(periods) + 1].warmup
           /\ \A i \in 1..Len(periods') : periods'[i].sent = periods'[i].succeed + periods'[i].failed
           /\ InOrder' /\ AllCounted'
<1> DEFINE n == Len(periods)
           k == Min({b, perfArgs.numRecords - numSent})
           Counted(p) == [p EXCEPT !.sent = @ + k, !.succeed = @ + k, !.measured = @ + k]
<1>1. /\ InOrder /\ AllCounted /\ current # None /\ current = n /\ n \in Nat /\ current \in 1..n
      /\ periods \in Seq(Period) /\ numSent \in Nat /\ now \in Nat
      /\ tool = "consumer" /\ numSent < perfArgs.numRecords
  BY DEF PerfTypeOK, PerfInv, InPhase, Receive, InOrder, None
<1>2. k \in Nat /\ UNCHANGED printed /\ numSent' = numSent + k
  <2>1. perfArgs.numRecords - numSent \in Nat
    BY <1>1 DEF PerfTypeOK
  <2>2. k \in Nat
    BY <2>1, MinOfTwo
  <2> QED BY <2>2 DEF Receive, reportVars
<1>3. ASSUME NEW i \in 1..n
      PROVE  periods[i] \in Period /\ periods[i].sent = periods[i].succeed + periods[i].failed
  <2>1. Awaited(i) = {} /\ Pending(i) = 0
    BY <1>1 DEF PerfInv, InPhase, Awaited, Pending
  <2>2. Cardinality(Awaited(i)) = 0
    BY <2>1, FS_EmptySet
  <2>3. periods[i] \in Period
    BY PeriodType
  <2>4. periods[i].sent + 0 = periods[i].succeed + periods[i].failed + 0
    BY <2>1, <2>2 DEF PerfInv, Ledger
  <2> QED BY <2>3, <2>4 DEF Period
<1>4. CASE IntervalOver
  <2> DEFINE p == periods[current]
             e == [p EXCEPT !.end = now]
             new == NewPeriod(FALSE)
             us == Append([periods EXCEPT ![current] = e], new)
             r == Counted(new)
             c == n + 1
  <2>1. /\ periods' = [us EXCEPT ![c].sent = @ + k, ![c].succeed = @ + k, ![c].measured = @ + k]
        /\ statsList' = Append(statsList, current) /\ current' = n + 1
    BY <1>1, <1>4 DEF Receive
  <2>2. /\ p \in Period /\ e \in Period /\ e.sent = p.sent /\ e.warmup = p.warmup
        /\ e.sent = e.succeed + e.failed
    <3>1. p \in Period /\ p.sent = p.succeed + p.failed
      BY <1>1, <1>3
    <3> HIDE DEF p
    <3>2. e \in Period
      BY <1>1, <3>1, CountedIn
    <3> QED BY <3>1, <3>2 DEF Period
  <2>3. new \in Period /\ new.sent = 0 /\ new.succeed = 0 /\ new.failed = 0 /\ new.warmup = FALSE
    BY NewPeriodType DEF NewPeriod
  <2> HIDE DEF k, e, new, c, p
  <2>4. r \in Period /\ r.sent = k /\ r.warmup = FALSE /\ r.sent = r.succeed + r.failed
    <3>1. new.sent = new.succeed + new.failed
      BY <2>3
    <3>2. /\ r \in Period /\ r.sent = new.sent + k /\ r.warmup = new.warmup
          /\ r.sent = r.succeed + r.failed
      BY <1>2, <2>3, <3>1, ReceivedIn
    <3> QED BY <1>2, <2>3, <3>2
  <2>5. /\ us \in Seq(Period) /\ Len(us) = n + 1
        /\ us[current] = e /\ us[n + 1] = new
        /\ \A i \in 1..n : i # current => us[i] = periods[i]
    <3> DEFINE d == current
    <3>1. d \in 1..n
      BY <1>1
    <3> HIDE DEF d
    <3>2. /\ Append([periods EXCEPT ![d] = e], new) \in Seq(Period)
          /\ Len(Append([periods EXCEPT ![d] = e], new)) = n + 1
          /\ Append([periods EXCEPT ![d] = e], new)[d] = e
          /\ Append([periods EXCEPT ![d] = e], new)[n + 1] = new
          /\ \A i \in 1..n : i # d => Append([periods EXCEPT ![d] = e], new)[i] = periods[i]
      BY <1>1, <2>2, <2>3, <3>1, AddedPeriod
    <3> QED BY <3>2, Zenon DEF d
  <2> HIDE DEF us
  <2>6. us[c] = new /\ c \in 1..Len(us) /\ c = n + 1
    BY <1>1, <2>5 DEF c
  <2>7. periods' = [us EXCEPT ![c] = r]
    <3>1. periods' = [us EXCEPT ![c] = Counted(us[c])]
      BY <2>1, <2>5, <2>6
    <3> QED BY <2>6, <3>1, Zenon
  <2> HIDE DEF r
  <2>8. /\ periods' \in Seq(Period) /\ Len(periods') = n + 1 /\ periods'[n + 1] = r
        /\ \A i \in 1..n : i # n + 1 => periods'[i] = us[i]
    BY <1>1, <2>4, <2>5, <2>6, <2>7
  <2>9. \A i \in 1..n : /\ i # current => periods'[i] = periods[i]
                        /\ periods'[i].sent = periods[i].sent
                        /\ periods'[i].warmup = periods[i].warmup
                        /\ periods'[i].sent = periods'[i].succeed + periods'[i].failed
    <3> SUFFICES ASSUME NEW i \in 1..n
                 PROVE  /\ i # current => periods'[i] = periods[i]
                        /\ periods'[i].sent = periods[i].sent
                        /\ periods'[i].warmup = periods[i].warmup
                        /\ periods'[i].sent = periods'[i].succeed + periods'[i].failed
      OBVIOUS
    <3>1. periods'[i] = us[i]
      BY <1>1, <2>8
    <3>2. CASE i = current
      BY <2>2, <2>5, <3>1, <3>2 DEF p
    <3>3. CASE i # current
      BY <1>3, <2>5, <3>1, <3>3
    <3> QED BY <3>2, <3>3
  <2>10. InOrder' /\ statsList' \in Seq(Nat) /\ current' # None
    BY <1>1, <1>2, <2>1, <2>8, OrderKept
  <2>11. AllCounted'
    <3>1. c \in 1..(n + 1)
      BY <1>1, <2>6
    <3>2. \A i \in 1..n : periods'[i].sent = IF i = c THEN periods[i].sent + k ELSE periods[i].sent
      BY <1>1, <2>6, <2>9
    <3>3. periods'[n + 1].sent = IF c = n + 1 THEN k ELSE 0
      BY <2>4, <2>6, <2>8
    <3> QED BY <1>1, <1>2, <2>8, <3>1, <3>2, <3>3, MoreSentAndNewPeriod
  <2>12. \A i \in 1..Len(periods') : periods'[i].sent = periods'[i].succeed + periods'[i].failed
    BY <1>1, <2>4, <2>8, <2>9
  <2>13. /\ current' = Len(periods') /\ Len(periods') = n + 1 /\ ~periods'[n + 1].warmup
         /\ numSent' \in Nat
    <3>1. ~periods'[n + 1].warmup
      BY <2>4, <2>8, Zenon
    <3> QED BY <1>1, <1>2, <2>1, <2>8, <3>1
  <2> QED BY <2>8, <2>9, <2>10, <2>11, <2>12, <2>13
<1>5. CASE ~IntervalOver
  <2> DEFINE p == periods[current]
             r == Counted(p)
  <2>1. periods' = [periods EXCEPT ![current] = r] /\ UNCHANGED <<statsList, current>>
    BY <1>5 DEF Receive
  <2>2. /\ r \in Period /\ r.sent = p.sent + k /\ r.warmup = p.warmup
        /\ r.sent = r.succeed + r.failed
    <3>1. p \in Period /\ p.sent = p.succeed + p.failed
      BY <1>1, <1>3
    <3> HIDE DEF p, k
    <3> QED BY <1>2, <3>1, ReceivedIn
  <2> HIDE DEF r, k
  <2>3. /\ periods' \in Seq(Period) /\ Len(periods') = n /\ periods'[current] = r
        /\ \A i \in 1..n : i # current => periods'[i] = periods[i]
    BY <1>1, <2>1, <2>2
  <2>4. \A i \in 1..n : /\ periods'[i].warmup = periods[i].warmup
                        /\ periods'[i].sent = periods'[i].succeed + periods'[i].failed
    BY <1>3, <2>2, <2>3
  <2>5. InOrder' /\ statsList' \in Seq(Nat)
    BY <1>1, <1>2, <2>1, <2>3 DEF PerfTypeOK, InOrder
  <2>6. AllCounted'
    <3> DEFINE c == current
    <3>1. /\ c \in 1..n /\ periods'[c].sent = periods[c].sent + k
          /\ \A i \in 1..n : i # c => periods'[i].sent = periods[i].sent
      BY <1>1, <2>2, <2>3
    <3> HIDE DEF c
    <3> QED BY <1>1, <1>2, <2>3, <3>1, MoreSent
  <2> QED BY <1>1, <1>2, <2>1, <2>3, <2>4, <2>5, <2>6
<1> QED BY <1>4, <1>5

LEMMA ReceiveStep ==
    ASSUME PerfTypeOK, PerfInv, NEW b \in Nat, Receive(b)
    PROVE  PerfTypeOK' /\ PerfInv'
<1> DEFINE n == Len(periods)
<1>1. /\ periods' \in Seq(Period) /\ statsList' \in Seq(Nat)
      /\ current' = Len(periods') /\ current' # None /\ numSent' \in Nat
      /\ \A i \in 1..n : /\ i # current => periods'[i] = periods[i]
                         /\ periods'[i].warmup = periods[i].warmup
      /\ Len(periods') = n \/ /\ Len(periods') = n + 1
                              /\ ~periods'[n + 1].warmup
      /\ \A i \in 1..Len(periods') : periods'[i].sent = periods'[i].succeed + periods'[i].failed
      /\ InOrder' /\ AllCounted'
  BY ReceivePeriods
<1>2. /\ UNCHANGED <<tool, perfArgs, mainPc, now, isWarmingUp, inflight, measuring, printed>>
      /\ tool = "consumer" /\ mainPc = "loop"
  BY DEF Receive, fixed, callVars, reportVars
<1>3. /\ n \in Nat /\ current = n /\ current \in 1..n /\ Len(periods') \in Nat
      /\ Len(printed) \in Nat /\ Len(printed) < n /\ inflight = {}
  BY <1>1, <1>2 DEF PerfTypeOK, PerfInv, InOrder, InPhase, None
<1>4. Len(periods') = n \/ Len(periods') = n + 1
  BY <1>1
<1>5. PerfTypeOK'
  <2>1. current' \in 0..Len(periods') /\ measuring' \in 0..Len(periods')
    BY <1>1, <1>2, <1>3, <1>4 DEF PerfTypeOK
  <2>2. IsFiniteSet(inflight') /\ inflight' \subseteq Nat \X (1..Len(periods'))
    BY <1>2, <1>3 DEF PerfTypeOK
  <2> QED BY <1>1, <1>2, <2>1, <2>2 DEF PerfTypeOK, AcceptedArgs
<1>6. InPhase'
  BY <1>1, <1>2, <1>3 DEF PerfInv, InPhase
<1>7. Ledger'
  <2>1. ASSUME NEW p \in 1..Len(periods')
        PROVE  periods'[p].sent + Pending(p)'
                  = periods'[p].succeed + periods'[p].failed + Cardinality(Awaited(p)')
    <3>1. Awaited(p)' = {} /\ Pending(p)' = 0
      BY <1>2, <1>3 DEF Awaited, Pending
    <3>2. Cardinality(Awaited(p)') = 0
      BY <3>1, FS_EmptySet
    <3>3. periods'[p] \in Period /\ periods'[p].sent = periods'[p].succeed + periods'[p].failed
      BY <1>1
    <3>4. periods'[p].sent \in Nat
      BY <3>3 DEF Period
    <3> QED BY <3>1, <3>2, <3>3, <3>4
  <2> QED BY <1>2, <1>3, <2>1 DEF Ledger
<1>8. LinesFinal'
  <2>1. \A i \in 1..Len(printed) : i \in 1..n /\ i # current
    BY <1>3
  <2>2. \A i \in 1..Len(printed) : periods'[i] = periods[i]
    BY <1>1, <2>1
  <2> QED BY <1>2, <2>2 DEF PerfInv, LinesFinal
<1>9. WarmUp'
  <2>1. ~isWarmingUp
    <3>1. perfArgs.warmupRecords = 0
      BY <1>2 DEF PerfTypeOK, AcceptedArgs
    <3> QED BY <3>1 DEF PerfTypeOK, PerfInv, WarmUp
  <2>2. ASSUME NEW p \in 1..Len(periods'), periods'[p].warmup
        PROVE  p = 1 /\ p # current' /\ periods'[p].sent = perfArgs'.warmupRecords
    <3>1. p \in 1..n /\ periods[p].warmup
      <4>1. CASE p \in 1..n
        BY <1>1, <2>2, <4>1
      <4>2. CASE p \notin 1..n
        <5>1. p = n + 1 /\ Len(periods') = n + 1
          BY <1>3, <1>4, <4>2
        <5>2. ~periods'[n + 1].warmup
          <6>1. Len(periods') # n
            BY <1>3, <5>1
          <6> QED BY <1>1, <6>1, Zenon
        <5> QED BY <2>2, <5>1, <5>2, Zenon
      <4> QED BY <4>1, <4>2
    <3>2. p = 1 /\ p # current /\ periods[p].sent = perfArgs.warmupRecords
      BY <2>1, <3>1 DEF PerfInv, WarmUp
    <3> QED BY <1>1, <1>2, <1>3, <1>4, <3>1, <3>2
  <2> QED BY <1>2, <2>1, <2>2 DEF WarmUp
<1> QED BY <1>1, <1>5, <1>6, <1>7, <1>8, <1>9 DEF PerfInv

-----------------------------------------------------------------------------
(* Stats::completePeriodStats().                                           *)
LEMMA CompletedPeriods ==
    ASSUME PerfTypeOK, PerfInv, CompletePeriodStats
    PROVE  /\ periods' \in Seq(Period) /\ Len(periods') = Len(periods)
           /\ statsList' \in Seq(Nat) /\ InOrder'
           /\ \A i \in 1..Len(periods) :
                 /\ i # current => periods'[i] = periods[i]
                 /\ periods'[i].sent = periods[i].sent
                 /\ periods'[i].warmup = periods[i].warmup
                 /\ periods'[i].succeed = periods[i].succeed
                 /\ periods'[i].failed = periods[i].failed
<1> DEFINE n == Len(periods)
           p == periods[current]
           r == [p EXCEPT !.end = now]
<1>1. /\ n \in Nat /\ current = n /\ current \in 1..n /\ periods \in Seq(Period)
      /\ Len(printed) \in Nat /\ Len(statsList) \in Nat /\ statsList \in Seq(Nat)
      /\ n = Len(printed) + Len(statsList) + 1 /\ now \in Nat
      /\ \A i \in 1..Len(printed) : printed[i][1] = i
      /\ \A k \in 1..Len(statsList) : statsList[k] = Len(printed) + k
  BY DEF PerfTypeOK, PerfInv, InOrder, InPhase, CompletePeriodStats, None
<1>2. UNCHANGED printed /\ current' = 0 /\ p \in Period
  BY <1>1, PeriodType DEF CompletePeriodStats, reportVars, None
<1>3. r \in Period
  <2> HIDE DEF p
  <2> QED BY <1>1, <1>2, CountedIn
<1>4. CASE p.sent > 0
  <2>1. periods' = [periods EXCEPT ![current] = r] /\ statsList' = Append(statsList, current)
    BY <1>4 DEF CompletePeriodStats
  <2>2. /\ periods' \in Seq(Period) /\ Len(periods') = n /\ periods'[current] = r
        /\ \A i \in 1..n : i # current => periods'[i] = periods[i]
    <3> HIDE DEF r, p
    <3> QED BY <1>1, <1>3, <2>1
  <2>3. /\ r.sent = p.sent /\ r.warmup = p.warmup /\ r.succeed = p.succeed
        /\ r.failed = p.failed
    <3> HIDE DEF p
    <3> QED BY <1>2 DEF Period
  <2>4. /\ statsList' \in Seq(Nat) /\ Len(statsList') = Len(statsList) + 1
        /\ \A k \in 1..Len(statsList) : statsList'[k] = statsList[k]
        /\ statsList'[Len(statsList) + 1] = n
    BY <1>1, <2>1
  <2>5. \A k \in 1..Len(statsList') : statsList'[k] = Len(printed) + k
    <3>1. statsList'[Len(statsList) + 1] = Len(printed) + (Len(statsList) + 1)
      BY <1>1, <2>4
    <3>2. \A k \in 1..Len(statsList) : statsList'[k] = Len(printed) + k
      BY <1>1, <2>4
    <3>3. \A k \in 1..Len(statsList') : k \in 1..Len(statsList) \/ k = Len(statsList) + 1
      BY <1>1, <2>4
    <3> QED BY <3>1, <3>2, <3>3
  <2>6. InOrder'
    BY <1>1, <1>2, <2>2, <2>4, <2>5 DEF InOrder, None
  <2> QED BY <2>2, <2>3, <2>4, <2>6
<1>5. CASE ~(p.sent > 0)
  <2>1. UNCHANGED <<periods, statsList>>
    BY <1>5 DEF CompletePeriodStats
  <2>2. p.sent = 0
    BY <1>2, <1>5 DEF Period
  <2>3. InOrder'
    BY <1>1, <1>2, <2>1, <2>2 DEF InOrder, None
  <2> QED BY <1>1, <2>1, <2>3
<1> QED BY <1>4, <1>5

LEMMA CompletePeriodStatsStep ==
    ASSUME PerfTypeOK, PerfInv, CompletePeriodStats
    PROVE  PerfTypeOK' /\ PerfInv'
<1> DEFINE n == Len(periods)
<1>1. /\ periods' \in Seq(Period) /\ Len(periods') = n
      /\ statsList' \in Seq(Nat) /\ InOrder'
      /\ \A i \in 1..n :
            /\ i # current => periods'[i] = periods[i]
            /\ periods'[i].sent = periods[i].sent
            /\ periods'[i].warmup = periods[i].warmup
            /\ periods'[i].succeed = periods[i].succeed
            /\ periods'[i].failed = periods[i].failed
  BY CompletedPeriods
<1>2. /\ UNCHANGED <<tool, perfArgs, now, numSent, isWarmingUp, inflight, measuring, printed>>
      /\ mainPc = "loop" /\ mainPc' = "waiting" /\ numSent = perfArgs.numRecords /\ current' = 0
  BY DEF CompletePeriodStats, fixed, loopVars, callVars, reportVars, None
<1>3. n \in Nat /\ current = n /\ Len(printed) \in Nat /\ Len(printed) < n
  BY <1>2 DEF PerfTypeOK, PerfInv, InOrder, InPhase, None
<1>4. PerfTypeOK'
  <2>1. current' \in 0..Len(periods')
    BY <1>1, <1>2, <1>3
  <2> QED BY <1>1, <1>2, <2>1 DEF PerfTypeOK, AcceptedArgs
<1>5. InPhase'
  BY <1>2 DEF PerfInv, InPhase, None
<1>6. Ledger'
  <2>1. \A p : Awaited(p)' = Awaited(p) /\ Pending(p)' = 0 /\ Pending(p) = 0
    BY <1>2 DEF Awaited, Pending
  <2> QED BY <1>1, <1>2, <2>1 DEF PerfInv, Ledger
<1>7. LinesFinal'
  <2>1. \A i \in 1..Len(printed) : i \in 1..n /\ i # current
    BY <1>3
  <2>2. \A i \in 1..Len(printed) : periods'[i] = periods[i]
    BY <1>1, <2>1
  <2> QED BY <1>2, <2>2 DEF PerfInv, LinesFinal
<1>8. WarmUp'
  <2>1. ~isWarmingUp
    BY <1>2 DEF PerfTypeOK, AcceptedArgs, PerfInv, WarmUp
  <2>2. \A p \in 1..n : periods[p].warmup => p = 1 /\ periods[p].sent = perfArgs.warmupRecords
    BY <2>1 DEF PerfInv, WarmUp
  <2> QED BY <1>1, <1>2, <2>1, <2>2 DEF WarmUp
<1>9. AllCounted'
  BY <1>1, <1>2, SameSent DEF PerfInv
<1> QED BY <1>1, <1>4, <1>5, <1>6, <1>7, <1>8, <1>9 DEF PerfInv

(* Stats::popStatsReadyForReport() and the line printed.                    *)
LEMMA PrintPeriodStep ==
    ASSUME PerfTypeOK, PerfInv, PrintPeriod
    PROVE  PerfTypeOK' /\ PerfInv'
<1> DEFINE h == Head(statsList)
           l == Len(printed)
<1>1. /\ UNCHANGED <<tool, perfArgs, mainPc, now, numSent, isWarmingUp, periods, current, inflight,
                      measuring>>
      /\ statsList # <<>> /\ statsList' = Tail(statsList)
      /\ printed' = Append(printed, <<h, periods[h]>>)
  BY DEF PrintPeriod, ReadyForReport, fixed, loopVars, callVars
<1>2. /\ statsList \in Seq(Nat) /\ printed \in Seq(Nat \X Period) /\ l \in Nat
      /\ periods \in Seq(Period) /\ Len(periods) \in Nat
  BY DEF PerfTypeOK
<1>3. /\ h = l + 1 /\ h \in 1..Len(periods) /\ h # current
  <2>1. Len(statsList) \in Nat /\ Len(statsList) # 0 /\ h = statsList[1]
    BY <1>1, <1>2
  <2> QED BY <1>2, <2>1 DEF PerfTypeOK, PerfInv, InOrder, None
<1>4. periods[h] \in Period /\ periods[h].sent = periods[h].succeed + periods[h].failed
  <2>1. periods[h] \in Period
    BY <1>3, PeriodType
  <2>2. CASE tool = "producer"
    BY <2>1, <2>2 DEF PrintPeriod, ReadyForReport
  <2>3. CASE tool = "consumer"
    <3>1. Awaited(h) = {} /\ Pending(h) = 0
      BY <1>3, <2>3 DEF PerfInv, InPhase, Awaited, Pending
    <3>2. Cardinality(Awaited(h)) = 0
      BY <3>1, FS_EmptySet
    <3>3. periods[h].sent + 0 = periods[h].succeed + periods[h].failed + 0
      BY <1>3, <3>1, <3>2 DEF PerfInv, Ledger
    <3> QED BY <2>1, <3>3 DEF Period
  <2> QED BY <2>1, <2>2, <2>3 DEF PerfTypeOK
<1> HIDE DEF h
<1>5. /\ printed' \in Seq(Nat \X Period) /\ Len(printed') = l + 1
      /\ printed'[l + 1] = <<h, periods[h]>>
      /\ \A i \in 1..l : printed'[i] = printed[i]
  BY <1>1, <1>2, <1>3, <1>4
<1>6. /\ statsList' \in Seq(Nat) /\ Len(statsList') = Len(statsList) - 1
      /\ \A k \in 1..Len(statsList') : statsList'[k] = statsList[k + 1]
  BY <1>1, <1>2
<1>7. PerfTypeOK'
  BY <1>1, <1>5, <1>6 DEF PerfTypeOK, AcceptedArgs
<1>8. InOrder'
  <2>1. \A i \in 1..Len(printed') : printed'[i][1] = i
    <3>1. printed'[l + 1][1] = l + 1
      BY <1>3, <1>5
    <3>2. \A i \in 1..l : printed'[i][1] = i
      BY <1>5 DEF PerfInv, InOrder
    <3>3. \A i \in 1..Len(printed') : i \in 1..l \/ i = l + 1
      BY <1>2, <1>5
    <3> QED BY <3>1, <3>2, <3>3
  <2>2. \A k \in 1..Len(statsList') : statsList'[k] = Len(printed') + k
    BY <1>2, <1>5, <1>6 DEF PerfInv, InOrder
  <2>3. Len(printed') + Len(statsList') = Len(printed) + Len(statsList)
    BY <1>2, <1>5, <1>6
  <2> QED BY <1>1, <2>1, <2>2, <2>3 DEF PerfInv, InOrder
<1>9. InPhase'
  BY <1>1 DEF PerfInv, InPhase
<1>10. Ledger'
  <2>1. \A p : Awaited(p)' = Awaited(p) /\ Pending(p)' = Pending(p)
    BY <1>1 DEF Awaited, Pending
  <2> QED BY <1>1, <2>1 DEF PerfInv, Ledger
<1>11. LinesFinal'
  <2> SUFFICES ASSUME NEW i \in 1..(l + 1)
               PROVE  LET line == printed'[i][2] IN
                      /\ line.sent = line.succeed + line.failed
                      /\ line = [periods[i] EXCEPT !.measured = line.measured]
    BY <1>1, <1>5 DEF LinesFinal
  <2>1. CASE i = l + 1
    <3>1. ASSUME NEW p \in Period PROVE p = [p EXCEPT !.measured = p.measured]
      BY DEF Period
    <3> QED BY <1>3, <1>4, <1>5, <2>1, <3>1
  <2>2. CASE i # l + 1
    <3>1. i \in 1..l
      BY <1>2, <2>2
    <3> QED BY <1>5, <3>1 DEF PerfInv, LinesFinal
  <2> QED BY <2>1, <2>2
<1>12. WarmUp' /\ AllCounted'
  BY <1>1 DEF PerfInv, WarmUp, AllCounted
<1> QED BY <1>7, <1>8, <1>9, <1>10, <1>11, <1>12 DEF PerfInv

-----------------------------------------------------------------------------
LEMMA PerfInitially == PerfInit => PerfTypeOK /\ PerfInv
<1> SUFFICES ASSUME PerfInit PROVE PerfTypeOK /\ PerfInv
  OBVIOUS
<1> DEFINE w == perfArgs.warmupRecords > 0
           r == NewPeriod(w)
<1>1. /\ perfArgs \in Options /\ AcceptedArgs(tool, perfArgs) /\ tool \in {"producer", "consumer"}
      /\ now = 1 /\ numSent = 0 /\ isWarmingUp = w /\ periods = <<r>> /\ current = 1
      /\ statsList = <<>> /\ printed = <<>> /\ inflight = {} /\ measuring = 0 /\ mainPc = "loop"
  BY DEF PerfInit, StartTs, None
<1>2. perfArgs.numRecords \in Nat /\ perfArgs.warmupRecords \in Nat
  BY <1>1, PerfTestConstants DEF Options
<1>3. /\ r \in Period /\ r.sent = 0 /\ r.succeed = 0 /\ r.failed = 0 /\ r.warmup = w
  BY <1>1, <1>2 DEF NewPeriod, Period
<1> HIDE DEF r
<1>4. periods \in Seq(Period) /\ Len(periods) = 1 /\ periods[1] = r
  BY <1>1, <1>3
<1>5. PerfTypeOK
  <2>1. IsFiniteSet(inflight)
    BY <1>1, FS_EmptySet
  <2> QED BY <1>1, <1>2, <1>4, <2>1 DEF PerfTypeOK
<1>6. InOrder /\ InPhase /\ LinesFinal
  BY <1>1, <1>4 DEF InOrder, InPhase, LinesFinal, None
<1>7. Ledger
  <2>1. \A p : Awaited(p) = {} /\ Pending(p) = 0
    BY <1>1 DEF Awaited, Pending
  <2>2. Cardinality({}) = 0
    BY FS_EmptySet
  <2>3. \A p \in 1..Len(periods) : p = 1
    BY <1>4
  <2>4. periods[1].sent + 0 = periods[1].succeed + periods[1].failed + 0
    BY <1>3, <1>4
  <2> QED BY <1>1, <2>1, <2>2, <2>3, <2>4 DEF Ledger
<1>8. WarmUp
  <2>1. isWarmingUp => perfArgs.warmupRecords > 0
    BY <1>1
  <2>2. r.warmup => isWarmingUp
    BY <1>1, <1>3
  <2> QED BY <1>1, <1>2, <1>3, <1>4, <2>1, <2>2 DEF WarmUp
<1>9. AllCounted
  <2>1. SentOf(periods) \in [1..1 -> Nat] /\ SentOf(periods)[1] = 0
    BY <1>3, <1>4 DEF SentOf
  <2> QED BY <1>1, <2>1, NoEntries DEF AllCounted
<1> QED BY <1>5, <1>6, <1>7, <1>8, <1>9 DEF PerfInv

LEMMA PerfStep == PerfTypeOK /\ PerfInv /\ [PerfNext]_perfVars => PerfTypeOK' /\ PerfInv'
<1> SUFFICES ASSUME PerfTypeOK, PerfInv, [PerfNext]_perfVars PROVE PerfTypeOK' /\ PerfInv'
  OBVIOUS
<1> DEFINE Same == UNCHANGED <<tool, perfArgs, numSent, isWarmingUp, periods, current, statsList,
                               inflight, measuring, printed>>
<1> USE DEF fixed, loopVars, statsVars, callVars, reportVars
<1>1. CASE Pass
  <2>1. Same /\ UNCHANGED <<mainPc, now>>
    BY <1>1 DEF Pass
  <2>2. InPhase' /\ now' \in Nat
    BY <2>1 DEF PerfTypeOK, PerfInv, InPhase
  <2> QED BY <2>1, <2>2, QuietStep
<1>2. CASE StatsEmpty
  <2>1. Same /\ UNCHANGED now /\ mainPc = "waiting" /\ mainPc' = "joining" /\ statsList = <<>>
    BY <1>2 DEF StatsEmpty
  <2>2. InPhase' /\ now' \in Nat
    BY <2>1 DEF PerfTypeOK, PerfInv, InPhase
  <2> QED BY <2>1, <2>2, QuietStep
<1>3. CASE Throws
  <2>1. Same /\ UNCHANGED now /\ mainPc = "loop" /\ mainPc' = "failing"
    BY <1>3 DEF Throws
  <2>2. InPhase' /\ now' \in Nat
    BY <2>1 DEF PerfTypeOK, PerfInv, InPhase
  <2> QED BY <2>1, <2>2, QuietStep
<1>4. CASE Join
  <2>1. /\ Same /\ UNCHANGED now
        /\ \/ mainPc = "joining" /\ mainPc' = "success"
           \/ mainPc = "failing" /\ mainPc' = "failure"
    BY <1>4 DEF Join
  <2>2. InPhase' /\ now' \in Nat
    BY <2>1 DEF PerfTypeOK, PerfInv, InPhase
  <2> QED BY <2>1, <2>2, QuietStep
<1>5. CASE WakeUp \/ NothingReady
  <2>1. Same /\ UNCHANGED <<mainPc, now>>
    BY <1>5 DEF WakeUp, NothingReady
  <2>2. InPhase' /\ now' \in Nat
    BY <2>1 DEF PerfTypeOK, PerfInv, InPhase
  <2> QED BY <2>1, <2>2, QuietStep
<1>6. CASE Tick
  <2>1. Same /\ UNCHANGED mainPc /\ now' = now + 1
    BY <1>6 DEF Tick
  <2>2. InPhase' /\ now' \in Nat
    BY <2>1 DEF PerfTypeOK, PerfInv, InPhase
  <2> QED BY <2>1, <2>2, QuietStep
<1>7. CASE UNCHANGED perfVars
  <2>1. Same /\ UNCHANGED <<mainPc, now>>
    BY <1>7 DEF perfVars
  <2>2. InPhase' /\ now' \in Nat
    BY <2>1 DEF PerfTypeOK, PerfInv, InPhase
  <2> QED BY <2>1, <2>2, QuietStep
<1>8. CASE Send
  BY <1>8, SendStep
<1>9. CASE CountSent
  BY <1>9, CountSentStep
<1>10. CASE CompletePeriodStats
  BY <1>10, CompletePeriodStatsStep
<1>11. CASE ReceiveSome \/ Receive(0)
  <2>1. PICK b \in Nat : Receive(b)
    BY <1>11, PerfTestConstants DEF ReceiveSome
  <2> QED BY <2>1, ReceiveStep
<1>12. CASE Measure
  BY <1>12, MeasureStep
<1>13. CASE \E m \in inflight : DeliveryFails(m) \/ Delivered(m)
  BY <1>13, DeliveryFailsStep, DeliveredStep
<1>14. CASE PrintPeriod
  BY <1>14, PrintPeriodStep
<1> QED BY <1>1, <1>2, <1>3, <1>4, <1>5, <1>6, <1>7, <1>8, <1>9, <1>10, <1>11, <1>12, <1>13, <1>14
        DEF PerfNext, MainStep, CallbackStep, ReporterStep

(* When the tool has ended, the lines have an entry for every record.       *)
LEMMA LinesHaveAll ==
    ASSUME PerfTypeOK, PerfInv, mainPc = "success"
    PROVE  Cardinality(Entries([i \in DOMAIN printed |-> printed[i][2].sent])) = perfArgs.numRecords
<1> DEFINE l == Len(printed)
           t == [i \in DOMAIN printed |-> printed[i][2].sent]
           s == SentOf(periods)
<1>1. /\ l \in Nat /\ DOMAIN printed = 1..l /\ Len(periods) \in Nat
      /\ s \in [1..Len(periods) -> Nat]
  BY SentOfType DEF PerfTypeOK
<1>2. Cardinality(Entries(s)) = perfArgs.numRecords
  BY DEF PerfInv, AllCounted, InPhase
<1>3. \/ Len(periods) = l
      \/ Len(periods) = l + 1 /\ periods[l + 1].sent = 0
  <2>1. current = None /\ Len(statsList) = 0
    BY DEF PerfInv, InPhase
  <2> QED BY <1>1, <2>1 DEF PerfInv, InOrder
<1>4. ASSUME NEW i \in 1..l
      PROVE  printed[i][2].sent = periods[i].sent /\ i \in 1..Len(periods)
  <2>1. i \in 1..Len(periods)
    BY <1>1, <1>3
  <2>2. periods[i] \in Period
    BY <2>1, PeriodType
  <2> QED BY <2>1, <2>2 DEF PerfInv, LinesFinal, Period
<1>5. t \in [1..l -> Nat] /\ \A i \in 1..l : t[i] = s[i]
  BY <1>1, <1>4 DEF SentOf
<1>6. CASE Len(periods) = l
  <2>1. t = s
    BY <1>1, <1>5, <1>6
  <2> QED BY <1>2, <2>1
<1>7. CASE Len(periods) = l + 1 /\ periods[l + 1].sent = 0
  <2>1. s \in [1..(l + 1) -> Nat] /\ s[l + 1] = 0
    BY <1>1, <1>7 DEF SentOf
  <2>2. \A i \in 1..l : s[i] = t[i]
    BY <1>5
  <2> HIDE DEF s, t, l
  <2>3. Entries(s) = Entries(t)
    BY <1>1, <1>5, <2>1, <2>2, EntriesSame
  <2> QED BY <1>2, <2>3 DEF t
<1> QED BY <1>3, <1>6, <1>7

(* What the performance tests print adds up, is final and, when they end,   *)
(* complete: for any number of records, throughput, interval and clock, and *)
(* whatever the order in which callbacks, main thread and reporter run.     *)
THEOREM ReportsAddUp == PerfSpec => []LinesAddUp
<1>1. PerfTypeOK /\ PerfInv => LinesAddUp
  <2> SUFFICES ASSUME PerfTypeOK, PerfInv PROVE LinesAddUp
    OBVIOUS
  <2>1. ASSUME NEW i \in 1..Len(printed)
        PROVE  LET line == printed[i][2] IN
               /\ line.sent = line.succeed + line.failed
               /\ LET final == periods[printed[i][1]] IN
                    line = [final EXCEPT !.measured = line.measured]
               /\ line.warmup => line.sent = perfArgs.warmupRecords
    <3> DEFINE line == printed[i][2]
    <3>1. /\ line.sent = line.succeed + line.failed /\ printed[i][1] = i
          /\ line = [periods[i] EXCEPT !.measured = line.measured]
      BY DEF PerfInv, LinesFinal, InOrder
    <3>2. i \in 1..Len(periods)
      BY DEF PerfTypeOK, PerfInv, InOrder
    <3>3. periods[i] \in Period
      BY <3>2, PeriodType
    <3>4. line.warmup = periods[i].warmup /\ line.sent = periods[i].sent
      BY <3>1, <3>3 DEF Period
    <3>5. ~isWarmingUp
      BY DEF PerfTypeOK, PerfInv, WarmUp, InOrder, None
    <3>6. periods[i].warmup => periods[i].sent = perfArgs.warmupRecords
      BY <3>2, <3>5 DEF PerfInv, WarmUp
    <3> QED BY <3>1, <3>4, <3>6
  <2> QED BY <2>1, LinesHaveAll DEF LinesAddUp
<1> QED BY PerfInitially, PerfStep, <1>1, PTL DEF PerfSpec
=============================================================================
