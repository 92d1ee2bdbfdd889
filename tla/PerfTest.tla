------------------------------ MODULE PerfTest ------------------------------
(***************************************************************************)
(* KafkaProducerPerfTest.cc and KafkaConsumerPerfTest.cc: a main thread     *)
(* that sends (or receives) numRecords records and counts them in periods,  *)
(* the thread that runs the delivery callbacks, and a reporter thread that  *)
(* prints the periods that are over.                                       *)
(*                                                                         *)
(* The clock ticks in seconds and does not step back (both tools read       *)
(* system_clock, which could).  External: the producer, which calls every   *)
(* delivery callback once, or throws from send(); the consumer.             *)
(***************************************************************************)
EXTENDS Integers, Sequences, FiniteSets, FiniteSetsExt, Functions

CONSTANTS MaxRecords,     \* bound on --num-records
          Throughputs,    \* values of --throughput
          Interval,       \* --reporting-interval
          MaxClock,       \* bound on the clock
          MaxBatch        \* bound on the records of a poll()

ASSUME PerfTestConstants ==
    /\ MaxRecords \in Nat \ {0}
    /\ Throughputs \subseteq Nat
    /\ Interval \in Nat
    /\ MaxClock \in Nat \ {0}
    /\ MaxBatch \in Nat \ {0}

StartTs == 1                    \* the time since the epoch is not 0
SizeModulus == 2 * (MaxRecords + MaxClock + 1)     \* 2^64 in the code
None == 0
NotGiven == -1                  \* the default of --throughput

VARIABLES
    tool,        \* "producer" or "consumer"
    build,       \* what the cast of a negative double to size_t gives
    perfArgs,    \* the accepted command line
    mainPc,      \* what the main thread does
    now,         \* getCurrentTimestampMs()
    numSent,     \* numSent, or numReceived
    numToSend,   \* left to send in this pass of the loop
    isWarmingUp,
    periodStart, \* periodStartTimestampMs
    periods,     \* every PeriodStats made, in order
    current,     \* _currentStats (and main's currentStats), an index of periods
    statsList,   \* _statsList
    inflight,    \* <<record, period its callback captured>>
    measuring,   \* the callback that has counted its record, not measured it
    reporter,    \* what the reporter thread does
    stop,        \* statsReporter.request_stop() was called
    printed      \* what the reporter has printed, per period

statsVars == <<periods, current, statsList>>
loopVars == <<numSent, numToSend, isWarmingUp, periodStart>>
callVars == <<inflight, measuring>>
reportVars == <<reporter, stop, printed>>
perfVars == <<tool, build, perfArgs, mainPc, now, loopVars, statsVars, callVars, reportVars>>
fixed == <<tool, build, perfArgs>>

Options == [numRecords : 0..MaxRecords, warmupRecords : 0..(MaxRecords + 1),
            throughput : Throughputs \cup {NotGiven}]

(* Arguments(): a required option that is missing or 0 is refused, and so   *)
(* is a warm-up longer than the test; the consumer has no warm-up.          *)
AcceptedArgs(t, a) ==
    /\ a.numRecords # 0
    /\ a.warmupRecords <= a.numRecords
    /\ t = "consumer" => a.warmupRecords = 0 /\ a.throughput = NotGiven

NewPeriod(warmup) == [warmup |-> warmup, sent |-> 0, succeed |-> 0, failed |-> 0,
                      measured |-> 0, begin |-> now, end |-> 0]

(* The first rollOutNewPeriodStats() has nothing to put on the list.        *)
PerfInit ==
    /\ tool \in {"producer", "consumer"}
    /\ build \in {"wraps", "saturates"}
    /\ perfArgs \in {a \in Options : AcceptedArgs(tool, a)}
    /\ mainPc = "loop"
    /\ now = StartTs
    /\ numSent = 0 /\ numToSend = 0
    /\ isWarmingUp = (perfArgs.warmupRecords > 0)
    /\ periodStart = StartTs
    /\ periods = <<NewPeriod(perfArgs.warmupRecords > 0)>>
    /\ current = 1
    /\ statsList = <<>>
    /\ inflight = {} /\ measuring = None
    /\ reporter = "sleeping" /\ stop = FALSE /\ printed = <<>>

-----------------------------------------------------------------------------
(* Stats::rollOutNewPeriodStats(): the current period ends and a new one    *)
(* takes its place; ps are the periods so far.                             *)
RollOut(ps, warmup) ==
    /\ periods' = Append([ps EXCEPT ![current].end = now], NewPeriod(warmup))
    /\ statsList' = Append(statsList, current)
    /\ current' = current + 1

IntervalOver == now - periodStart > Interval

(* How many records a pass of the loop sends: a size_t, so that a number    *)
(* below zero is a huge one, cut down to what is left.  The cast of a       *)
(* negative double (no --throughput) is undefined: it wraps or gives 0.     *)
NumToSend ==
    LET due == (now - StartTs) * perfArgs.throughput
        casted == IF due >= 0 \/ build = "wraps" THEN due % SizeModulus ELSE 0
    IN Min({(casted - numSent) % SizeModulus, perfArgs.numRecords - numSent})

Pass ==
    /\ tool = "producer" /\ mainPc = "loop"
    /\ numToSend = 0 /\ numSent < perfArgs.numRecords
    /\ NumToSend > 0
    /\ numToSend' = NumToSend
    /\ UNCHANGED <<fixed, mainPc, now, numSent, isWarmingUp, periodStart, statsVars, callVars,
                   reportVars>>

(* The next record: a new period if the interval is over (not during the    *)
(* warm-up), then producer.send(), whose callback captures the period.      *)
Send ==
    /\ tool = "producer" /\ mainPc = "loop" /\ numToSend > 0
    /\ IF ~isWarmingUp /\ IntervalOver
       THEN RollOut(periods, FALSE) /\ periodStart' = periodStart + Interval
       ELSE UNCHANGED <<statsVars, periodStart>>
    /\ inflight' = inflight \cup {<<numSent + 1, current'>>}
    /\ mainPc' = "sent"
    /\ UNCHANGED <<fixed, now, numSent, numToSend, isWarmingUp, measuring, reportVars>>

(* After send(): the record is counted, maybe after its callback; the       *)
(* warm-up ends with its last record.                                      *)
CountSent ==
    LET counted == [periods EXCEPT ![current].sent = @ + 1]
        warm == isWarmingUp /\ numSent + 1 = perfArgs.warmupRecords
    IN
    /\ mainPc = "sent"
    /\ numSent' = numSent + 1
    /\ numToSend' = numToSend - 1
    /\ IF warm
       THEN RollOut(counted, FALSE) /\ isWarmingUp' = FALSE /\ periodStart' = now
       ELSE periods' = counted
            /\ UNCHANGED <<statsList, current, isWarmingUp, periodStart>>
    /\ mainPc' = "loop"
    /\ UNCHANGED <<fixed, now, callVars, reportVars>>

(* poll() returned: n records and possibly errors, which are skipped; the   *)
(* records beyond numRecords are left uncounted.                           *)
Receive(n) ==
    LET counted == Min({n, perfArgs.numRecords - numSent})
        Add(ps, c) == [ps EXCEPT ![c].sent = @ + counted, ![c].succeed = @ + counted,
                                 ![c].measured = @ + counted]
    IN
    /\ tool = "consumer" /\ mainPc = "loop" /\ numSent < perfArgs.numRecords
    /\ IF IntervalOver
       THEN /\ periods' = Add(Append([periods EXCEPT ![current].end = now],
                                     NewPeriod(FALSE)), current + 1)
            /\ statsList' = Append(statsList, current)
            /\ current' = current + 1
            /\ periodStart' = periodStart + Interval
       ELSE /\ periods' = Add(periods, current)
            /\ UNCHANGED <<statsList, current, periodStart>>
    /\ numSent' = numSent + counted
    /\ UNCHANGED <<fixed, mainPc, now, numToSend, isWarmingUp, callVars, reportVars>>

(* Stats::completePeriodStats(): the last period, if it has a record.       *)
CompletePeriodStats ==
    /\ mainPc = "loop" /\ numToSend = 0 /\ numSent = perfArgs.numRecords
    /\ IF periods[current].sent > 0
       THEN /\ periods' = [periods EXCEPT ![current].end = now]
            /\ statsList' = Append(statsList, current)
       ELSE UNCHANGED <<periods, statsList>>
    /\ current' = None
    /\ mainPc' = "waiting"
    /\ UNCHANGED <<fixed, now, loopVars, callVars, reportVars>>

(* Stats::empty() at last; the reporter is asked to stop.                   *)
StatsEmpty ==
    /\ mainPc = "waiting" /\ current = None /\ statsList = <<>>
    /\ stop' = TRUE
    /\ mainPc' = "joining"
    /\ UNCHANGED <<fixed, now, loopVars, statsVars, callVars, reporter, printed>>

(* send() or poll() throws: the jthread is stopped and joined on the way    *)
(* out, whatever is left to report.                                        *)
Throws ==
    /\ mainPc = "loop" /\ numSent < perfArgs.numRecords
    /\ stop' = TRUE
    /\ mainPc' = "failing"
    /\ UNCHANGED <<fixed, now, loopVars, statsVars, callVars, reporter, printed>>

(* main() returns when the reporter has ended.                              *)
Join ==
    /\ mainPc \in {"joining", "failing"}
    /\ reporter = "ended"
    /\ mainPc' = IF mainPc = "joining" THEN "success" ELSE "failure"
    /\ UNCHANGED <<fixed, now, loopVars, statsVars, callVars, reportVars>>

-----------------------------------------------------------------------------
(* The delivery callback: PeriodStats::update(error) counts, and            *)
(* update(metadata) counts first and adds size and latency afterwards.      *)
DeliveryFails(m) ==
    /\ measuring = None /\ m \in inflight
    /\ inflight' = inflight \ {m}
    /\ periods' = [periods EXCEPT ![m[2]].failed = @ + 1]
    /\ UNCHANGED <<fixed, mainPc, now, loopVars, current, statsList, measuring, reportVars>>

Delivered(m) ==
    /\ measuring = None /\ m \in inflight
    /\ inflight' = inflight \ {m}
    /\ periods' = [periods EXCEPT ![m[2]].succeed = @ + 1]
    /\ measuring' = m[2]
    /\ UNCHANGED <<fixed, mainPc, now, loopVars, current, statsList, reportVars>>

Measure ==
    /\ measuring # None
    /\ periods' = [periods EXCEPT ![measuring].measured = @ + 1]
    /\ measuring' = None
    /\ UNCHANGED <<fixed, mainPc, now, loopVars, current, statsList, inflight, reportVars>>

(* Faulty: a period is ready as soon as it is over.                         *)
ReadyWhenOver == statsList # <<>> /\ periods[Head(statsList)].end # 0

(* Faulty: a record that failed keeps its period from being ready.          *)
ReadyOnSuccess ==
    /\ statsList # <<>>
    /\ LET stats == periods[Head(statsList)] IN stats.sent = stats.succeed

(* Stats::popStatsReadyForReport(): the producer's oldest period must have  *)
(* all of its callbacks behind it.                                         *)
ReadyForReport ==
    /\ statsList # <<>>
    /\ tool = "producer" =>
         LET stats == periods[Head(statsList)]
         IN stats.end # 0 /\ stats.sent = stats.succeed + stats.failed

(* reportPeriodStats(): sleep for a second, print what is ready, look at    *)
(* the stop token.                                                         *)
WakeUp ==
    /\ reporter = "sleeping"
    /\ reporter' = "printing"
    /\ UNCHANGED <<fixed, mainPc, now, loopVars, statsVars, callVars, stop, printed>>

PrintPeriod ==
    /\ reporter = "printing" /\ ReadyForReport
    /\ printed' = Append(printed, <<Head(statsList), periods[Head(statsList)]>>)
    /\ statsList' = Tail(statsList)
    /\ UNCHANGED <<fixed, mainPc, now, loopVars, periods, current, callVars, reporter, stop>>

NothingReady ==
    /\ reporter = "printing" /\ ~ReadyForReport
    /\ reporter' = IF stop THEN "ended" ELSE "sleeping"
    /\ UNCHANGED <<fixed, mainPc, now, loopVars, statsVars, callVars, stop, printed>>

Tick ==
    /\ mainPc \in {"loop", "sent"} /\ now < MaxClock
    /\ now' = now + 1
    /\ UNCHANGED <<fixed, mainPc, loopVars, statsVars, callVars, reportVars>>

-----------------------------------------------------------------------------
MainStep == Pass \/ Send \/ CountSent \/ CompletePeriodStats \/ StatsEmpty \/ Join
ReceiveSome == \E n \in 1..MaxBatch : Receive(n)
CallbackStep == Measure \/ \E m \in inflight : DeliveryFails(m) \/ Delivered(m)
ReporterStep == WakeUp \/ PrintPeriod \/ NothingReady

PerfNext ==
    \/ MainStep \/ Throws \/ ReceiveSome \/ Receive(0)
    \/ CallbackStep \/ ReporterStep \/ Tick

PerfSpec == PerfInit /\ [][PerfNext]_perfVars

-----------------------------------------------------------------------------
(* One entry for each record that the periods count, given each one's sent. *)
Entries(sent) == UNION {{p} \X (1..sent[p]) : p \in DOMAIN sent}

(* A printed line adds up and is final: all of the period's records have    *)
(* their result, and none is counted in it later.  A warm-up line has the   *)
(* first warmupRecords records.  When the tool ends, its lines have every   *)
(* record.  Callbacks, main thread and reporter share the counters with no  *)
(* lock.  The sizes and latencies of a line (measured) are left out: a      *)
(* callback counts its record before it adds those, so they may lack the    *)
(* last record.                                                            *)
LinesAddUp ==
    /\ \A i \in 1..Len(printed) :
         LET line == printed[i][2] IN
         /\ line.sent = line.succeed + line.failed
         /\ LET final == periods[printed[i][1]] IN
              line = [final EXCEPT !.measured = line.measured]
         /\ line.warmup => line.sent = perfArgs.warmupRecords
    /\ mainPc = "success" =>
         Cardinality(Entries([i \in DOMAIN printed |-> printed[i][2].sent])) = perfArgs.numRecords

(* The tool gets to its end; the producer's needs --throughput above 0, or  *)
(* a cast that wraps.                                                      *)
MayEnd == tool = "consumer" \/ perfArgs.throughput > 0 \/ build = "wraps"
=============================================================================
