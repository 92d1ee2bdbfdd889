# A TLA+ verification of modern-cpp-kafka

modern-cpp-kafka is a header-only C++17 client library for Apache Kafka on top of
librdkafka. Its own logic, as opposed to librdkafka's, is about *when* things may
happen: which thread runs a callback and who deletes it, which offset may be
committed, which partitions the consumer has while a rebalance is going on, what
`close()` still owes its caller. This project models that logic in TLA+, checks it
with TLC on small instances and proves most of the safety properties with TLAPS for
every instance. Paths below are relative to `src/include/kafka/` unless they
start with `src/`.

## 1. The system

| Component | State it keeps | Operations | Made correct by |
|---|---|---|---|
| `addons/UnorderedOffsetCommitQueue.h` | deque of received offsets, heap of acked ones, `_toCommit`, `_committed` | `waitOffset`, `ackOffset`, `popOffsetToCommit`, `lastPoppedOffset` | the offset popped is the frontier of the acked prefix, for any order of acks |
| `KafkaProducer.h` | `_opened`; per record a heap object `DeliveryCbOpaque` | `send`, `syncSend`, `flush`, `purge`, `close`, transactions | each callback runs once and before `close()` ends, nothing is deleted twice or leaked, `syncSend()` and `close()` return |
| `KafkaClient.h`, events polling | `_pollable`, `_pollThread` | `pollEvents`, start and stop of the background thread | reports are served as long as there may be any; the thread never outlives what it uses |
| `KafkaClient.h`, construction | `_properties`, callbacks, `_enableManualEventsPoll`, the librdkafka handle | constructors, `getProperty` | a client that comes out of its constructor does what its properties say; a constructor that throws leaves nothing behind |
| `addons/KafkaRecoverableProducer.h` | inner `_producer`, `_producerMutex`, `_fatalError`, `_pollThread` | the producer's methods under the mutex, recovery, `close` | recovery neither loses a report nor pulls the producer from under a caller; it ends |
| `KafkaConsumer.h`, offsets | `_offsetsToStore` | `poll`, `close`, `commitSync`, `commitAsync` | at-least-once: nothing is committed that nobody has processed |
| `KafkaConsumer.h`, assignment | `_userSubscription`, `_userAssignment`, `_assignment`, `_pendingEvent`, `_cooperativeEnabled` | `subscribe`, `unsubscribe`, `assign`, `onRebalance`, `pause`, `resume`, `close` | the copy of the assignment and what the callbacks are told agree with librdkafka; the calls do what they say and return |
| `KafkaConsumer.h`, seek and queries | none of its own | `seek`, `seekToBeginning`, `seekToEnd`; `position`, `committed`, `beginningOffsets`, `endOffsets`, `offsetsForTime`, `groupMetadata` | where `seek` returns, the next record is the one asked for; it gives up at its time limit |
| `AdminClient.h` | none between calls | `createTopics`, `deleteTopics`, `deleteRecords`, `listTopics` | what a call returns is true of the brokers; every call ends |
| `Error.h`, `KafkaException.h` | a rich error, or the fields that stand in for it | construction, copy, `isFatal`, `isRetriable`, `transactionRequiresAbort` | a copy says what the original said |
| transactions in `KafkaProducer.h` and `addons/KafkaRecoverableProducer.h` | librdkafka's | `initTransactions`, `beginTransaction`, `sendOffsetsToTransaction`, `commitTransaction`, `abortTransaction` | readers see all of a transaction or nothing, whatever throws, times out or is replaced in between |
| `Properties.h`, `*Config.h` | a map from keys to shared values | `put`, `get`, `remove`, `eraseAll`, `getProperty`, copy, assignment | a copy is a value of its own |
| `addons/KafkaMetrics.h` | a JSON document | `getInt`, `getString` with wildcards | finds every value whose path matches, and no other |
| `src/tools/console_clients` (five programs) | counters of periods, `running`, a command line | `main()` of each | what is printed and the exit status are true; the program ends |
| records, headers, `Types.h`, `Timestamp.h`, `RdKafkaHelper.h`, `Log.h`, `Utility.h`, `BrokerMetadata.h`, `Interceptors.h` | values | conversions, formatting | |
| `src/examples` | | programs | |

How they interact: every client owns a librdkafka handle, whose threads exist from
`rd_kafka_new()` on. librdkafka queues events (delivery reports, commit results,
errors, rebalances); user callbacks run on the thread that polls the queue. For a
producer that is the background thread of `KafkaClient`, or with
`enable.manual.events.poll=true` whoever calls `pollEvents()`, and in any case a
thread inside `flush()` or `close()`. Rebalance callbacks run on the thread that
calls the consumer. `KafkaRecoverableProducer` owns a `KafkaProducer` with manual
polling and a polling thread of its own. `UnorderedOffsetCommitQueue` sits between
the application and the consumer's `commitSync`/`commitAsync`, whose callbacks wait in
a queue of the consumer's own (`_rk_commit_cb_queue`) for the same kind of polling.
The tools are main threads on top of these clients; the performance tests add a
reporter thread, the console consumer a signal handler.

What is hard in this code: an opaque shared by two threads for a moment;
callbacks that refer to a stack; joining a thread that may need what the joiner
holds; offsets on their way to the coordinator across crashes and rebalances; events
that arrive after the call that waited for them has given up; a step of several that
fails after the state has been changed; an error that is copied and says less than
before; counters three threads share. `PROJECT.json` lists these hazards, each at
its line, with the properties that would notice it going wrong.

## 2. The modules

librdkafka, the brokers, the group coordinator and the application are external: they
are modelled from how the code uses them. Names in lower case are the code's own.
Operators marked "faulty" are plausible bugs; no specification uses them, they are
substituted to show that a property would notice.

**OffsetHeap** (implements **PriorityQueue**). `Heap<T>`: `data` is the vector, each
iteration of the loops of `push()` and `pop_front()` is a step, `current` is
`indexCurrent` (counted from 1). PriorityQueue is a bag from which only a minimum can
be taken; the refinement maps the vector to its bag.

**UnorderedOffsetCommitQueue** (implements **OffsetCommitter**). The five fields,
with the heap as a bag whose front is a minimum, which OffsetHeap justifies. Each
iteration of `ackOffset()`'s loop is `CommitFront`, `DropStaleAck` or `StopDraining`.
Reading an empty deque yields any offset and is recorded in `undefinedRead`. `waited`
and `acked` are history. Two callers: `Spec` acks every record once, as the class
comment asks; `AnyAckSpec` acks anything. OffsetCommitter says what a commit queue is
for, in three actions: wait, ack, pop the frontier.

**ManualCommit** extends UnorderedOffsetCommitQueue with the consumer that commits what
the queue pops. Each `commitAsync()` makes a copy of its callback (`opaque`); the
coordinator answers requests in order and may refuse them; the answers wait in
`cbQueue` and are served by the background thread or by `pollEvents()`. `commitSync()`
is a request and a wait. `close()` is the code's sequence: stop and join the thread,
`rd_kafka_consumer_close()` until every request is answered, then serve what is left in
the queue.

**KafkaProducer**. Application threads and the polling thread; for each the call it
is in (`act`), where it is in `send()` (`sendPc`), the callback it runs (`cb`). A
record goes unsent, producing, queued, reported, serving, done, or rejected. `send()`
is three steps, because between `rd_kafka_produceva` and `release()` both sides have
the opaque. A callback is two steps and may itself call `send()`. The callback of a
`syncSend()` has two more, for the mutex on the caller's stack: it locks and sets the
result, then writes the metadata, notifies and unlocks (`delivery`); the caller returns
when it sees the result and gets the mutex. `close()` is four:
request and join, flush, purge when flush timed out, `poll(0)`. `mode` is fixed at
construction: automatic polling or not, time limits or not, what callbacks do, the
queue's capacity. The application closes the producer when no other thread is inside
`send`, `flush` or `pollEvents` (the class has no lock against that); a thread may be
waiting in `syncSend`.

**KafkaRecoverableProducer** extends KafkaProducer, whose actions are its inner
producer's, and adds the mutex, the error callback, the loop of the polling thread
step by step (poll, look at the error, purge, look at the stop token, reset the
error, lock, close, recreate) and `close()`.

**Transactions**. The five calls, each of which may return, throw a retriable, an
abortable or a fatal error, or time out while librdkafka carries it out all the same;
an `Error` with its rich error and its four stand-in fields, the assignment operator
that makes a copy, and the exception that holds one. The application answers an
exception by asking the `Error` (style "documented", after the comments of `Error.h`)
or by aborting (style "abort", as `TestTransaction.cc` does). `Recover` replaces the
producer at any point, as KafkaRecoverableProducer does, by one that has not had
`initTransactions()`. librdkafka's transaction states are external.

**ConsumerOffsets**. `_offsetsToStore`, the commit requests under way, the group's
committed offsets, the partition logs, what has been processed by anybody. `poll()`
is two steps, commit and consume, with rebalances in between. `events` is chosen from
`EventSets` at the start of a behaviour and switches on crashes,
`subscribe()`/`unsubscribe()` between polls, fatal errors (commits throw) and
end-of-partition markers. The application processes what a `poll()` returned before it
calls the consumer again, as in `src/README.md` and the examples.

**ConsumerAssignment**. The consumer's fields and librdkafka's side: protocol, group
membership, one outstanding event, the assignment, the paused partitions.
`onRebalance()` is two steps around the user's callback. `subscribe()` and
`unsubscribe()` are the call, the loop that serves events, and the return or the time
limit. What `changeAssignment()` does to `_assignment` (`Changed`) is taken from its loops,
what librdkafka does to its own assignment (`RkChanged`, `Conflict`) from how its calls
are documented and used. librdkafka refuses an incremental change that conflicts with
its assignment, and, if `AnyRefusal`, any call. `pause()` and `resume()` without
arguments go by `_assignment`, between calls and in rebalance callbacks. `upset` records
which of four hazards have happened: librdkafka has "refused" something;
`unsubscribe()` from a subscription "threw" (it was refused, timed out, or served an
event that threw); it was called with a "stale" REVOKE event outstanding; a
cooperative `assign()` "reassigned", that is added to an assignment. The properties say
which of them they exclude.

**ConsumerSeek**. `seek()` calls `rd_kafka_seek()` until it succeeds or its time limit
passes; `seekToBeginning()` and `seekToEnd()` take one partition after the other. A
seek is an operation in the partition's queue; an attempt that timed out leaves its
operation there, to be executed at any later moment. A change of the assignment, which
only happens outside of `seek()`, makes operations outdated.

**AdminClient**. One calling thread; each request has a queue of its own, on which
its answer, an error, or a stray event is put, possibly after the caller has left.
The time limit passes at any moment. `listTopics()` is a call of its own and the loop
at the end of `createTopics()`.

**ClientConstruction**. The constructors as a sequence of steps over property maps,
each of which may throw: validate, the wrapper's options, configure librdkafka,
create the handle, add the brokers, then the derived class. `handle` is true from
`rd_kafka_new()` on, when librdkafka's threads may call back: `RdkafkaCallback` is the
log, statistics, error, OAuth or interceptor callback at any such moment, and
`calledBack` what became of it.

**TopicsTool** extends ClientConstruction and AdminClient, which it composes: one
`driver` constructs a client and uses it, either an application that makes any admin
calls or `KafkaTopics.cc` with its command line, one call and its exit status.

**Properties**. Two maps, the application's and a client's, from keys to objects they
may share; `get()` hands out a reference, through which the application may write.
`meant` is history: what the calls on each map have put in it.

**KafkaMetrics**. The look-up of `addons/KafkaMetrics.h`. A JSON document is a function
from its nodes, each named by the keys that lead to it, to their kinds. `getResults()`
is recursive: here each call is one step, the calls it makes join the set of pending
calls, and `get()` returns when none is left. Calls and results are sets, since only
the order of the results depends on which call comes first.

**PerfTest**. `KafkaProducerPerfTest.cc` and `KafkaConsumerPerfTest.cc`: main thread,
delivery callbacks and reporter, the counters of each period, a clock in seconds.
`build` is what the compiler makes of the conversion of a negative double to `size_t`,
which is undefined: it wraps, or saturates at 0.

**ConsoleClients**. `KafkaConsoleConsumer.cc` and `KafkaConsoleProducer.cc`: `main()`
with its exits, and SIGINT at any point with the handler in force there.

Modules that begin with MC compose these for TLC. MCAddons, MCKafkaProducer,
MCConsumerAssignment and MCTools run one of several parts per behaviour, chosen at the
start (`addon`, `about`, `program`), since the parts do not interact; the others stay in
one initial state. MCOffsetCommitQueue and MCClients are instances of the compositions
ManualCommit and TopicsTool.

## 3. The runs

| Run | Instance, states | Properties |
|---|---|---|
| `addons` | queue: offsets -1..3, 3 pending acks of any kind; heap: 4 values, 6 elements; metrics: every document of 2 keys and 2 levels and some of 4, paths up to 4; properties: 2 objects; 807k | `CommitNeverPassesUnacked`, `FindsWhatMatches`, `ValueSemantics`, `ImplementsPriorityQueue` |
| `commit_queue` | offsets -1..3, each acked once; 3 asynchronous commits, 2 errors; with and without the background thread; 95k | `NoUndefinedRead`, `CallbackOncePerCommit`, `GroupFollowsAcks`, `CommittedGrows`, `ImplementsOffsetCommitter`; live: `EveryCallbackCalled` |
| `producer` | delivery: 2 records, 2 threads, polling thread; three modes: automatic and manual polling with time limits and a queue of 1, and callbacks that send; transactions: 2 of 2 records and the consumed offsets, 2 time-outs, 2 fatal errors; both styles; 56k | `OpaqueDeletedOnce`, `AllReportedWhenClosed`, `SyncCallerWaits`, `PollableOutlivesPolling`, `AllOrNothing`; live: `EveryRecordReported`, `CloseCompletes`, `TransactionResolved` |
| `recoverable_producer` | 2 records, 2 threads, 2 calls, 2 fatal errors; 40k | `ProducerDestroyedUnused`; live: `RecordsReported`, `RecoveryCompletes`, `RCloseCompletes` |
| `recoverable_producer_sync` | 1 record, 1 thread, `syncSend()` allowed | `LockedSyncSendReturns`, **violated** |
| `transactions_abort` | the transactions of `producer` | `AbortableNotGivenUp`, **violated** |
| `consumer_offsets` | 2 partitions, 2 records each, 2 requests under way, 1 refused; without events, with crashes, with subscriptions, with fatal errors; 363k | `AtLeastOnce`, `ClosedCommitted`, `GroupNeverGoesBack`; live: `CommittedUnlessRefused` |
| `consumer_offsets_eof` | 1 partition with end-of-partition markers | `AtLeastOnce`, **violated** |
| `consumer_assignment` | groups: 2 partitions, 2 topic lists, both protocols, any call may be refused, calls stop after three of the four hazards; seek: 2 partitions, offsets 0..2, 2 operations per queue, 2 changes of the assignment; 378k | `PauseReachesAll`, `CallbacksTellAll`, `ManualAssignmentKept`, `SeekTakesEffect`; live: `EveryCallReturns` |
| `consumer_assignment_pause` | 2 partitions, 1 topic list; only conflicts are refused, calls stop after three hazards | `PauseSuspendsAll`, **violated** |
| `clients_and_tools` | clients: the properties of each client varied together, callbacks none, some, all; 2 topics, 2 admin calls, so that one can be answered during the other; command lines of KafkaTopics. Performance tests: up to 3 records, throughput 1, 2 or not given, periods of 1 second, clock up to 4, batches of 2. Console clients: 3 records, 3 signals; 232k | `SoleCommitter`, `ReportedIsInForce`, `CallbacksReady`, `ExitStatusIsReal`, `ResultIsReal`, `LinesAddUp`, `ConsoleTellsTruth`; live: `CallReturns`, `EveryToolEnds` |
| `clients_one_operation` | the clients of it | `OneOperationOnly`, **violated** |

What some of the properties say, beyond their names:

- `CallbackOncePerCommit`, `EveryCallbackCalled`: whichever of the background thread,
  `pollEvents()` and `close()` serves it, a commit callback runs once, in order, its
  copy is deleted after it, and none is left when `close()` returns.
- `GroupFollowsAcks`: the group's offset passes no record that is not acked, although
  commits are refused and popped offsets are not popped again.
- `AllOrNothing`: each transaction is visible as a whole or not at all, and as a whole
  whenever `commitTransaction()` returned; `TransactionResolved`: none stays open.
- `SeekTakesEffect`: late executions of attempts that timed out do not move a partition
  away from where a `seek()` that returned has put it.
- `SyncCallerWaits`: as long as the callback of a `syncSend()` may write to the caller's
  stack, that is until it has unlocked the mutex there, the caller is in that call. The
  result is set before the metadata: without the mutex the caller could leave between
  the two, which is the mutant.
- `PauseReachesAll`: what librdkafka takes or gives up in a step, `_assignment` takes or
  gives up in the same step, refusals before it or not; and as long as nothing has been
  refused, `pause()` suspends all that is assigned and `resume()` leaves nothing
  suspended. What refusals do to `pause()` is the run `consumer_assignment_pause`.
- `ManualAssignmentKept`: as long as every `unsubscribe()` from a subscription was a
  proper one (`LeftProperly`: it returned, and no REVOKE event was outstanding when it
  was called), nothing of a group is left that could take partitions assigned by hand,
  whatever else was refused; and librdkafka has them all if it has refused nothing.
  Each of these exclusions is needed: with any one dropped TLC finds a violation.
- `ResultIsReal`, `ExitStatusIsReal`: no error means that every topic named was done,
  an error that one was not, even if an earlier call's answer comes late; KafkaTopics'
  exit status says the same for a command line with one operation, and a refused line
  has sent nothing.
- `LinesAddUp`: every record is counted in one period and printed once, whichever
  thread comes first. It is about counts: the size and latency of a printed line may
  lack the last record, since a callback counts its record before it adds those
  (`src/tools/console_clients/KafkaProducerPerfTest.cc:130-137`). `ConsoleTellsTruth`:
  nothing is committed that was not printed, with the tool's default properties; with
  `enable.partition.eof=true` what `consumer_offsets_eof` shows applies to it too.
- `CallbacksReady` is about the hand-over: a callback that librdkafka's threads make, or
  queue, finds what the application gave. Statistics, error and OAuth callbacks are
  only made while somebody polls the client, which nothing does for an AdminClient.

Why the bounds are enough to be of interest: two records make reports overtake each
other and fill a queue of one; two threads let one close or flush while the other
waits in `syncSend()`; two fatal errors make a recovery follow a recovery, or strike
during `close()`; two offsets per partition and two requests under way let a commit
be overtaken by a rebalance, a refusal and another member's commit; two admin calls
are the smallest case of a late answer; two transactions let the second meet what a
time-out left of the first; two queued operations let a seek be overtaken by an attempt
of its own and by one of an earlier call; three records make two periods with one
unfinished. Six elements are a heap of three levels whose last inner node has no right
child. Deadlock is not checked, because applications may stop calling and programs end;
"waits for ever" is covered by the liveness properties.

**Fairness.** Only what the code's threads do by themselves: a thread inside a call is
scheduled, a user's callback returns, the background loop polls again (it polls
for 10 ms at a time), librdkafka answers or times out every message (`message.timeout.ms`), time
limits pass. No application thread is obliged to call anything, with these exceptions.
`consumer_offsets` assumes that `poll()` is called again and again and that
the coordinator answers, as `src/README.md` demands of consumers; a commit may be
refused all the same, which `CommittedUnlessRefused` allows for, and the property is
claimed where `events` is empty. `producer` assumes that an application with transactions
goes on with the one it began. `commit_queue` assumes that the polling thread and the
steps of `close()` run and that the coordinator answers, refusals included.
For admin calls `clients_and_tools` does not assume that brokers answer; for the
programs it assumes that each thread runs, time passes, every record is delivered or
times out, and the topic has records. `consumer_assignment` assumes strong fairness of a
loop whose event has come: `rd_kafka_poll()` returns at the end of its interval even if
one rebalance follows another; for `seek()` that the thread goes on, time passes and
librdkafka works off its queues.

### What the five violations show

- `consumer_offsets_eof`: `storeOffsetsIfNecessary()` (`KafkaConsumer.h:798`) treats an
  end-of-partition marker as a record. Its offset is that of the next record to be
  produced; the next `poll()` commits that offset plus one, and the record is skipped
  after a crash or a rebalance. Only with `enable.partition.eof=true`.
- `recoverable_producer_sync`: `syncSend()` waits for its report with `_producerMutex`
  held (`addons/KafkaRecoverableProducer.h:169`); a fatal error makes the polling
  thread, which alone serves that report, wait for the mutex (line 40).
- `transactions_abort`: `transactionRequiresAbort()` asks the rich error (`Error.h:133`),
  which a copy does not have; the flag the copy keeps instead (lines 45-58) is never
  read. An exception holds a copy (`KafkaException.h:28`), so the application never
  learns that it must abort, and one that follows the comments gives up.
- `consumer_assignment_pause`: `changeAssignment()` changes `_assignment` before it looks
  at librdkafka's answer (`KafkaConsumer.h:557-604`). In a cooperative consumer, after
  `assign({p1})`, an `assign({p1, p2})` is refused because p1 is assigned already, the
  `unsubscribe()` after it is refused because p2 is not, and `assign({p2})` succeeds:
  librdkafka has both, `_assignment` is {p2}, and `pause()`, which is said to suspend
  "all assigned partitions" (line 227), returns with p1 still fetched from.
- `clients_one_operation`: KafkaTopics says that exactly one operation must be chosen
  (`src/tools/console_clients/KafkaTopics.cc:110`), but counts the values of one
  variable (lines 105-107), so the count is always 1: the last of several operations
  wins, `--create --delete` deletes the topic, and none means create.

### Limits of the code met while modelling

The models allow for these; the properties are stated so that they exclude them, or
the instances leave them out. They are not covered by a run of their own.

- A delivery callback that sends during the `poll(0)` at the end of `close(timeout)`
  loses its report (`KafkaProducer.h:454`, against the promise at line 77): a mode with
  time limits and callbacks that send violates `AllReportedWhenClosed`.
- A delivery callback that sends with `Block` when the queue is full blocks the thread
  that empties the queue (`KafkaProducer.h:324`): mode `callbacks = "block"` violates
  the liveness properties.
- `syncSend()` with manual polling needs another thread that polls.
- A repeated ack can make `ackOffset()` read an empty deque
  (`addons/UnorderedOffsetCommitQueue.h:110,121`), although a comment at line 130
  expects duplicated acks. `size()` counts offsets not yet acked in order, not, as its
  comment says, those not popped.
- A refused asynchronous commit is not tried again with the same offsets
  (`KafkaConsumer.h:786`; `src/README.md:534` says "triggered (again) at a later time"):
  only later records of the partition, if there are any, bring the offset forward.
- Only `poll()` and `close()` commit stored offsets. A partition revoked inside
  `subscribe()` or `unsubscribe()` leaves an entry behind that is committed later; if
  the coordinator accepts it, it moves the group back (`GroupNeverGoesBack` fails when
  `events` has "subscribe", and does not claim it there). Records are then repeated, not lost.
- `unsubscribe()` from a subscription that throws, at its time limit (`KafkaConsumer.h:535`)
  or because of a refusal: the consumer is still leaving the group, or still in it, and
  the REVOKE event that comes late takes partitions assigned by hand meanwhile; a second
  `unsubscribe()` is skipped because `_userSubscription` is already empty. The same after
  an `unsubscribe()` that returned early, because a REVOKE event of an earlier rebalance
  was outstanding and ended its wait (line 912 compares only the type of the event).
  `ManualAssignmentKept` excludes both.
- In a cooperative consumer `assign({p1})`, `assign({p2})` and `unsubscribe()` leave p1
  assigned: `assign()` adds to the assignment (`KafkaConsumer.h:618`) and replaces
  `_userAssignment` (line 616), which is all that `unsubscribe()` removes (line 508). A
  test expects an empty assignment after `unsubscribe()`
  (`src/tests/integration/TestKafkaConsumer.cc:2062-2063`), and only tries one `assign()`.
- `createTopics()` calls `listTopics()` with its default time limit, not with what is
  left of its own. `CallReturns` assumes only that it returns.
- `max.poll.records` that is not a number throws a `std::exception`, not a
  `KafkaException`.
- `pollEvents()` of an AdminClient, or after `close()`, dereferences a null `_pollable`.
- `_fatalError` is read and written by two threads without a lock; `clientId()`,
  `name()` and `properties()` of the recoverable producer return references into an
  object that recovery destroys.
- The copy of the callback is leaked when `rd_kafka_commit_queue()` fails
  (`KafkaConsumer.h:1006`); the model has it as opaque "leaked".
- A `seek()` that threw may still be executed later: its operation stays in the queue
  (`KafkaConsumer.h:655`).
- `offsetsForTime()` drops a result that equals the timestamp asked for
  (`KafkaConsumer.h:715-718`).
- A recovery in the middle of a transaction leaves a producer on which nobody has called
  `initTransactions()`; the calls that follow throw.
- `Properties::get()` returns a reference to a value that copies share
  (`Properties.h:69,155`): a write through it is seen by all of them. `ValueSemantics`
  is claimed until somebody does that.
- `KafkaMetrics::getInt()` drops integers that need more than 32 bits.
- `KafkaProducerPerfTest.cc`: without `--throughput` a negative double is cast to an
  unsigned type (line 290, undefined; where it saturates the tool never sends);
  `--throughput 0` never ends; as many warm-up records as records are accepted although
  the message asks for "strictly fewer" (lines 95-96). `EveryToolEnds` excludes the
  first two.
- `KafkaTopics.cc`: values of `--topic-props` and `--admin-config` with a '=' are refused.
- `KafkaConsoleProducer.cc` does not catch the exception for a `--props` that is not
  key=value, and neither console client the one for a key that only takes a callback:
  the process is terminated.
- `src/README.md:698-706` has the two meanings of `enable.manual.events.poll` swapped.

## 4. The proofs

Theorems are in modules of their own, one for a component or for components that are
composed. They extend the component's module and also hold the inductive invariants;
the component's module has the model and the properties. All are proved for every
value of the constants: any number of records, threads, partitions, offsets, commits,
transactions or calls, and any bounds.
The assumptions are those the component's modules state: that bounds are naturals,
that offsets are integers, that the recoverable producer's inner producer polls manually
and without time limits, that the identities that mean "none" are not members of the
sets they are used with, that the polling thread is not an application thread, that
the topic the tool names is a topic, and that metrics documents are trees.

| Module | Theorem | Statement |
|---|---|---|
| CommitQueueProofs | `TypeCorrect` | `AnyAckSpec => []TypeOK` |
| | `CommitSafety` | `AnyAckSpec => []CommitNeverPassesUnacked` |
| | `ContractSafety` | `Spec => []NoUndefinedRead` |
| | `Refinement` | `Spec => ImplementsOffsetCommitter` |
| | `PopGrows` | `Spec => CommittedGrows` |
| | `WithinContract` | `CommitsSpec =>` the last three |
| | `CallbacksOnceInOrder` | `CommitsSpec => []CallbackOncePerCommit` |
| | `GroupOffsetIsSafe` | `CommitsSpec => []GroupFollowsAcks` |
| ProducerProofs | `TypeCorrect` | `Spec => []TypeOK` |
| | `OpaqueOwnership` | `Spec => []OpaqueDeletedOnce` |
| | `SyncResultOutlives` | `Spec => []SyncCallerWaits` |
| | `PollableLifetime` | `Spec => []PollableOutlivesPolling` |
| | `CloseReportsAll` | `Spec => [](FlushIsEnough => AllReportedWhenClosed)` |
| | `RecoveryKeepsOwnership` | `RSpec => [](OpaqueDeletedOnce /\ SyncCallerWaits)` |
| | `DestroyedUnused` | `RSpec => ProducerDestroyedUnused` |
| ConsumerOffsetsProofs | `TypeCorrect` | `Spec => []TypeOK` |
| | `NoRecordLost` | `Spec => []("eof" \notin events => AtLeastOnce)` |
| | `CloseCommits` | `Spec => []ClosedCommitted` |
| | `GroupOffsetGrows` | `Spec => GroupNeverGoesBack` |
| ConsumerGroupProofs | `TypeCorrect` | `Spec => []AssignmentTypeOK` |
| | `AssignmentMirrored` | `Spec => PauseReachesAll` |
| | `ApplicationKnows` | `Spec => []CallbacksTellAll` |
| | `HandAssignmentStays` | `Spec => []ManualAssignmentKept` |
| | `SeekTypeCorrect` | `SeekSpec => []SeekTypeOK` |
| | `SeekIsExact` | `SeekSpec => []SeekTakesEffect` |
| TransactionsProofs | `TypeCorrect` | `TransactionsSpec => []TransactionsTypeOK` |
| | `CommitsAllOrNothing` | `TransactionsSpec => []AllOrNothing` |
| | `ErrorSurvivesCopy` | what `Error::operator=` keeps and what it loses |
| ClientsProofs | `WrapperAloneCommits` | `Spec => []SoleCommitter` |
| | `GetPropertyIsTrue` | `Spec => []ReportedIsInForce` |
| | `NoCallbackLost` | `Spec => []CallbacksReady` |
| | `AdminResultIsReal` | `AdminSpec => ResultIsReal` |
| | `ToolComposes` | `ToolSpec => Spec /\ AdminSpec` |
| | `ToolTellsTheTruth` | `ToolSpec => []ExitStatusIsReal` |
| AddonsProofs | `HeapKeepsOrder` | `HeapSpec => []HeapOrder` |
| | `HeapIsPriorityQueue` | `HeapSpec => ImplementsPriorityQueue` |
| | `LookUpIsExact` | `MetricsSpec => []FindsWhatMatches` |
| | `PropertiesKeepValues` | `PropertiesSpec => []ValueSemantics` |
| ToolsProofs | `ConsoleIsHonest` | `ConsoleSpec => []ConsoleTellsTruth` |
| | `ReportsAddUp` | `PerfSpec => []LinesAddUp` |

Hardly any of the properties is inductive. Why they hold:

**The commit queue.** `CommitNeverPassesUnacked` speaks of what was waited for and
acked; nothing in it says where the unacked records are. `QueueInv` does.
The deque grows strictly (`ReceivedGrows`); everything in it has been waited for and
is at or above `_toCommit` (`ReceivedIsWaited`); what is in the heap has been acked
(`PendingIsAcked`); a record that was waited for is either still in the deque or below
`_toCommit` and acked (`WaitedIsReceivedOrDone`); `_committed` is not above `_toCommit`
(`CommittedBehind`). Only `CommitFront` moves a record from one side to the other, and
it takes the head of the deque, which is below all others, when the heap says that it
is acked. `QueueInv` claims nothing after an undefined read.

That no undefined read happens needs the contract, and a second invariant on top of the
first: `ContractInv` says that the heap holds exactly the acks of records still in the
deque, once each, and that between two calls the head of the deque is not acked
(`FrontUnacked`). So a heap that is not empty means a deque that is not empty, and the
loop never reads beyond it. Both together show that a pop returns the frontier, which
is the refinement; `Wait`, `Ack` and `Pop` correspond to `waitOffset` when it accepts,
`ackOffset`, and `popOffsetToCommit`; the iterations of the loop are stuttering steps.

**Manual commits.** Every step of the composition is a step of the queue under its
contract or leaves the queue alone (`WithinContract`), so the queue's invariants hold in it.
`CallbackInv`: a commit passes through the requests, the callback queue and the
calls. Each of these is strictly increasing (`CommitsInOrder`), and everything in one
stage is older than everything in the stage before it (`StagesInOrder`), so
that a callback is neither called twice nor overtakes. `HeldSomewhere` keeps an opaque
that is not deleted in one of the stages, so when `close()` has emptied them
(`NothingLeft`) none is left. A `commitSync()` in progress is the last request
(`SyncIsLast`). `GroupInv`: the group's offset is behind the requests, these grow and
are behind `_committed`, which `QueueInv` puts behind the acked prefix; a refused
request changes nothing of that.

**The producer.** `OpaqueInv`: a message that is being produced, or served, belongs to
exactly one thread, which is at the place in `send()`, or in a callback, that says so
(`CallbackServes`, `SendProduces`, `OneThreadEach`, `ServedBySomeone`,
`ProducedBySomeone`). Only that thread can delete the opaque, and the step by which it
does takes the message to its end. `SyncInv` adds that nobody waits for a record not
sent; a caller leaves its wait only with the result set and the mutex free, and then
the callback, which took the mutex before it set the result, has let go of it.
`LifeInv`: one thread closes (`OneCloses`), the others are idle or waiting in
`syncSend()` (`OthersDone`), sends in progress are inside callbacks (`SendingFrom`), and
`_pollable` is gone only after the polling thread has left its loop
(`PollableGoneLate`). `FinalInv`: once `close()` has flushed, or has purged after a
flush that timed out, every record is over, or is reported and in the batch its last
`poll(0)` serves. With time limits and callbacks that send this is false, as section 3
says, and `FlushIsEnough` excludes just that.

**The recoverable producer.** Types, `OpaqueInv` and `SyncInv` are preserved whoever
makes the calls (`AnyNext`: any thread, and a `close()` that waits for nobody), and every
step of the recoverable producer is such a step of its inner one or replaces it
(`InnerSteps`); so the ownership of opaques carries over. That a producer is destroyed
unused is what the mutex is for, and `RecoverInv` says how: an application thread inside
the inner producer has it (`CallersLock`); the poll thread polls without it but closes
and replaces the producer with it (`PollThreadPlace`); `close()` has joined the poll
thread before it takes it (`CloserPlace`). Hence whoever closes is alone, and since its
flush has no time limit nothing is left to report when it is over (`Flushed`).

**The consumer's offsets.** `OffsetsInv`: every place an offset passes through on its
way to the group (the position, `_offsetsToStore`, the requests under way, the committed
offset) is behind what has been processed, the first two at least behind what was
handed out and is about to be. This is false with end-of-partition markers, which is
what `consumer_offsets_eof` shows. `PipelineInv` is the other direction: what was handed
out is in the last of these places that names the partition; after `close()` only the
committed offset is left. `MonotoneInv`: each place is ahead of the ones it will
replace, and a partition that is revoked leaves no entry of `_offsetsToStore` behind; it
is stated for behaviours in which the subscription does not change between polls,
because `subscribe()` does leave one.

**The assignment.** For each of the four changes `ChangedAlike` compares what the loops
of `changeAssignment()` make of `_assignment` with what librdkafka makes of its own: a
change that is not refused moves the same partitions in both, and takes equal ones to
equal ones. So `MirrorAgrees` (they are equal as long as nothing was refused) and
`PausedAssigned` (only assigned partitions are paused) are inductive, and
`PauseReachesAll` follows step by step. `ManualAssignmentKept` needs `HandInv`, which
holds as long as `LeftProperly` does, whatever is refused: the stages of an
`unsubscribe()`, in which only its own REVOKE event ends the wait (`LeavingStages`);
that a consumer without a subscription is in no group and has no event left
(`OutOfGroup`); and that an assignment by hand exists only without a subscription
(`HandHeld`). `CallbacksTellAll` needs `SubscriptionInv`, as long as nothing of `upset`
has happened: events are served inside a call, one at a time, with the protocol known
(`ServedInCall`); what an outstanding event says is still true of the assignment when it
is served (`EventHolds`); what the callbacks have told, before, in and after one of them
(`ToldSoFar`); and that a consumer without a subscription has left the group for good,
with the stages of `unsubscribe()` until it has (`LeftGroup`, `Leaving`).

**Seek.** `SeekInv`: nothing is left in the queue of a partition where `seek()` has
returned, and it is where it was asked to be (`PromisesKept`); the operation
`rd_kafka_seek()` waits for is the last in its queue (`WaitsForTheLast`), so an answer
means that every earlier attempt has been executed (`AnsweredIsDone`).

**Transactions.** `TransactionsInv`: while a transaction is open its readers see nothing
of it (`OpenIsHidden`), and as long as librdkafka can still commit it, librdkafka has
been given just what the application put in it (`OpenIsComplete`), because a call that
is refused takes the application out of the transaction. The proof of the last goes
through the exception, whose `Error` is a copy: it uses only what `ErrorSurvivesCopy`
says the copy keeps.

**Clients.** `ConstructionInv` says what each stage of the constructors has
established: the properties are those given but for the ones the wrapper takes over
(`PropsReformed`, `PollAsAsked`), librdkafka's configuration and `_properties` are what
was set (`ConfAsReformed`, `RecordedAsSet`), and no callback is in the configuration
before it is in the client (`CallbacksSaved`). `AdminInv`: a call has one request at
most, which alone puts a result on the call's queue, once, and that result is what was
applied; nothing is applied for a call after it, so it is still true when the caller
looks at it, late or not. `ResultIsReal` is an action property and follows from it.
TopicsTool makes only steps of the two (`ToolComposes`), so all of this holds in the
composition; `ToolInv` adds that the tool calls only with a client, and only what the
command line says.

**The heap.** `HeapOrder` is inductive with the types. It has two parts: only the element
that is being moved may be out of order, against its parent on the way up and against
its children on the way down; and its children are not smaller than its parent, so that
a swap puts nothing else out of order. When no loop runs every element is at least its
parent, and a least index with an element below the root's would have a parent with a
smaller index and such an element too (`FrontIsMinimum`): well-foundedness of the
naturals takes the place of an induction. The refinement maps the vector to the bag of
its elements (`Content`): a swap keeps the bag (`SwapKeepsBag`), `Append` adds one
element (`AppendAddsOne`), and `pop_front()` is a swap of the first and the last element
that drops the last (`DropTakesOne`); the iterations of the loops are stuttering steps.
UnorderedOffsetCommitQueue takes its heap as such a bag.

**Metrics.** `MetricsInv`: a pending call or a result is at a node that the path matches
as far as the node goes, and has the keys of the wildcards so far (`Reached`); every
value that is to be found is a result, or lies below the node of a pending call. A call
takes this from its node to the members that match, because all that leads to a value
is in the document and is an object (`WantedBelow`). No induction over the document is
needed, as the invariant carries it from call to call.

**Properties.** `PropertiesInv`: every entry is an object that was made, of the kind its
key asks for, and, unless somebody has written through a reference, with the value
that was put there (`EntriesSound`). `put()` makes an object of its own, so no other
map's entry changes; a write through a reference changes the content of an object that
others may share, but never its kind.

**The tools.** ConsoleClients: outside of the loop over a batch everything polled has
been printed (`ConsumerInv`), and the producer is at most one line behind, between
`syncSend()` and its report (`ProducerInv`). PerfTest needs the order of the periods,
which are made, listed and printed in the same order (`InOrder`), what `main()` has
behind it (`InPhase`), and a `Ledger`: the records of a period are those with a result
and those in flight, with one in between, which main has sent and not counted although
its callback may have run. So a period whose counters agree, once main has left it, is
final (`LinesFinal`), although no lock protects them. `WarmUp` is the period before the
measured ones, and `AllCounted` adds the periods up to the records sent: one entry per
counted record, in a set whose cardinality each step raises by as much as it counts.

Each inductive invariant was accepted by TLC, as an invariant of the run of its
component, before it was proved. With a faulty model (a queue shared by two
admin calls, callbacks saved late, an ignored result, a time-out taken for success) the
proofs fail at the step of the action concerned.

**Only model-checked.** The liveness properties (`EveryCallbackCalled`,
`EveryRecordReported`, `CloseCompletes`, `RecordsReported`, `RecoveryCompletes`,
`RCloseCompletes`, `TransactionResolved`, `CommittedUnlessRefused`, `EveryCallReturns`,
`CallReturns`, `EveryToolEnds`), because fairness and ENABLED are beyond this prover. All
the other properties of the passing runs are theorems.

## 5. What is not modelled

The consumer's queries (`position`, `committed`, `beginningOffsets`, `endOffsets`,
`offsetsForTime`, `groupMetadata`) and `fetchBrokerMetadata`: each is one call of
librdkafka and a copy of its answer. Helpers, the key constants of the configurations,
`toString()` everywhere, percentiles and rates of the performance tests, log texts,
payloads, headers and timestamps of records: stateless, or data no property looks at.
The unit-test stubs of `KafkaProducer.h` (lines 195-215, 235-252). The examples:
programs for the documentation, whose use of the clients is what the models assume of
applications. Records that carry an error other than the end of a partition: `poll()`
stores their offset too, whatever librdkafka has put there. Torn reads of
unsynchronised C++ objects, `_fatalError` and the counters of the performance tests
among them: each access is atomic here.

## 6. Plan

Done: the models and runs of section 3 and the theorems of section 4, which state every
invariant, action property and refinement that a passing run checks.

What would come next:

1. The liveness properties, with a prover that reasons about ENABLED. The invariants of
   section 4 are what their proofs would rest on: `FinalInv` for `CloseCompletes`,
   `CallbackInv` for `EveryCallbackCalled`, `Ledger` for `EveryToolEnds`.
2. The hazards without a property: a delivery callback that sends with `Block` on a full
   queue, `_fatalError` read and written without a lock, and the REVOKE event that comes
   after an `unsubscribe()` has thrown. The first waits for a statement of what callbacks
   may do, the second for a model of torn accesses, the third for a statement of what a
   consumer may still do after such an exception.
3. Payloads, headers and timestamps of records, if a property about them is wanted.
