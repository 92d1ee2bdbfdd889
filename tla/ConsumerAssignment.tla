------------------------- MODULE ConsumerAssignment -------------------------
(***************************************************************************)
(* KafkaConsumer.h: which partitions the consumer has.  subscribe(),        *)
(* unsubscribe() and assign() change what is wanted; librdkafka's rebalance *)
(* events change what is assigned, and are served by onRebalance() on the   *)
(* application's own thread, inside subscribe(), unsubscribe(), poll() and  *)
(* close().  The consumer keeps a copy of the assignment in _assignment,    *)
(* which pause() and resume() without arguments use.                        *)
(*                                                                         *)
(* External: librdkafka's membership of the group and its assignment.  A    *)
(* rebalance is a REVOKE event, where partitions are to be given up, and    *)
(* then an ASSIGN event; the protocol is EAGER (everything is revoked) or   *)
(* COOPERATIVE (a part of it).  There is one event at a time: the next one  *)
(* is made when the application has served the last.                       *)
(***************************************************************************)
EXTENDS Naturals, FiniteSets

CONSTANTS Partition,
          Topics,           \* the topic lists the application subscribes to
          NoTopics,         \* the empty topic list
          AnyRefusal,       \* whether librdkafka may refuse any call, or only
                            \* changes that conflict with its assignment
          MaxHazards        \* bound: no further calls after more hazards than that

ASSUME NoTopicsIsNone ==
    NoTopics \notin Topics /\ AnyRefusal \in BOOLEAN /\ MaxHazards \in Nat

VARIABLES
    pc,                 \* the call in progress, "idle" or "closed"
    userSubscription,   \* _userSubscription
    userAssignment,     \* _userAssignment
    assignment,         \* _assignment
    pendingEvent,       \* _pendingEvent
    cooperative,        \* _cooperativeEnabled
    serving,            \* the event whose rebalance callback is running
    told,               \* what the rebalance callbacks have told the application
    protocol,           \* librdkafka: the group's rebalance protocol
    rkGroup,            \* librdkafka: its membership of the group
    event,              \* librdkafka: the rebalance event to be served
    rkAssignment,       \* librdkafka: the assignment
    paused,             \* librdkafka: the assigned partitions that are paused
    upset               \* history: which of the hazards below have happened

(* "refused"     librdkafka refused a subscription or a change of the      *)
(*               assignment, and the call or the rebalance threw           *)
(* "threw"       unsubscribe() from a subscription threw: it was refused,  *)
(*               timed out, or an event it served threw                    *)
(* "stale"       it was called with a REVOKE event outstanding             *)
(* "reassigned"  assign() added to an assignment instead of replacing it   *)
Hazards == {"refused", "threw", "stale", "reassigned"}

userVars == <<userSubscription, userAssignment, assignment, pendingEvent, cooperative>>
rkVars == <<protocol, rkGroup, event, rkAssignment, paused>>
vars == <<pc, userSubscription, userAssignment, assignment, pendingEvent, cooperative,
          serving, told, protocol, rkGroup, event, rkAssignment, paused, upset>>

NoEvent == [type |-> "none", tps |-> {}]

Init ==
    /\ pc = "idle"
    /\ userSubscription = NoTopics
    /\ userAssignment = {}
    /\ assignment = {}
    /\ pendingEvent = "none"
    /\ cooperative = "unknown"
    /\ serving = NoEvent
    /\ told = {}
    /\ protocol \in {"EAGER", "COOPERATIVE"}
    /\ rkGroup = "none"
    /\ event = NoEvent
    /\ rkAssignment = {}
    /\ paused = {}
    /\ upset = {}

isCooperativeEnabled == cooperative = "COOPERATIVE"

(* The application may make a call.  Calls that return or throw at once   *)
(* (assign() when subscribed, subscribe() when assigned, subscribe() to    *)
(* the same topics of a cooperative consumer, unsubscribe() of nothing)    *)
(* change nothing.                                                         *)
Idle == pc = "idle" /\ Cardinality(upset) <= MaxHazards

(* The thread is inside rd_kafka_poll(), rd_kafka_consume_batch_queue() or *)
(* rd_kafka_consumer_close() and not in a callback.                        *)
Polling == pc \in {"subscribe", "unsubscribe", "poll", "close"} /\ serving = NoEvent

-----------------------------------------------------------------------------
(* librdkafka                                                              *)

(* The group rebalances.                                                   *)
Rebalance ==
    /\ rkGroup = "member"
    /\ rkGroup' = "rebalancing"
    /\ UNCHANGED <<pc, userVars, serving, told, protocol, event, rkAssignment, paused, upset>>

NothingOutstanding == event = NoEvent /\ serving = NoEvent

RevokeEvent(S) ==
    /\ NothingOutstanding
    /\ S \subseteq rkAssignment
    /\ \/ /\ rkGroup = "rebalancing"
          /\ S # {} /\ (protocol = "EAGER" => S = rkAssignment)
          /\ rkGroup' = "assigning"
       \/ /\ rkGroup = "leaving"
          /\ S = rkAssignment
          /\ rkGroup' = "none"
    /\ event' = [type |-> "revoke", tps |-> S]
    /\ UNCHANGED <<pc, userVars, serving, told, protocol, rkAssignment, paused, upset>>

AssignEvent(S) ==
    /\ NothingOutstanding
    /\ \/ rkGroup = "assigning"
       \/ rkGroup = "rebalancing" /\ (protocol = "EAGER" => rkAssignment = {})
    /\ S \cap rkAssignment = {}
    /\ rkGroup' = "member"
    /\ event' = [type |-> "assign", tps |-> S]
    /\ UNCHANGED <<pc, userVars, serving, told, protocol, rkAssignment, paused, upset>>

-----------------------------------------------------------------------------
(* changeAssignment(change, tps).  _assignment is updated whatever the     *)
(* result, and the error is thrown after that.  The loops over tps add     *)
(* those that are not found, and erase those that are.                     *)
ChangedNoClear(old, change, tps) ==                 \* faulty: Revoke keeps them
    CASE change = "Assign"                            -> tps
      [] change = "IncrementalAssign"                 -> old \cup tps
      [] change \in {"Revoke", "IncrementalUnassign"} -> old \ tps

Changed(old, change, tps) ==
    CASE change = "Assign"              -> tps
      [] change = "Revoke"              -> {}
      [] change = "IncrementalAssign"   -> old \cup (tps \ old)
      [] change = "IncrementalUnassign" -> old \ (tps \cap old)

(* librdkafka: rd_kafka_assign() replaces the assignment, or drops it when *)
(* there is no list; rd_kafka_incremental_assign() adds partitions, and    *)
(* refuses the list if it has one of them already;                         *)
(* rd_kafka_incremental_unassign() removes partitions, and refuses the     *)
(* list if it has not all of them.  A refusal changes nothing.             *)
RkChanged(change, tps) ==
    CASE change = "Assign"              -> tps
      [] change = "Revoke"              -> {}
      [] change = "IncrementalAssign"   -> rkAssignment \cup tps
      [] change = "IncrementalUnassign" -> rkAssignment \ tps

Conflict(change, tps) ==
    \/ change = "IncrementalAssign" /\ tps \cap rkAssignment # {}
    \/ change = "IncrementalUnassign" /\ ~(tps \subseteq rkAssignment)

changeAssignment(change, tps, ok) ==
    /\ ok => ~Conflict(change, tps)
    /\ ~ok => Conflict(change, tps) \/ AnyRefusal
    /\ rkAssignment' = IF ok THEN RkChanged(change, tps) ELSE rkAssignment
    /\ assignment' = Changed(assignment, change, tps)
    /\ paused' = paused \cap rkAssignment'

Note(hazards) == upset' = upset \cup hazards
Refusal(ok) == IF ok THEN {} ELSE {"refused"}

(* The exception leaves the call that serves the event.                    *)
EventRefusal(ok) ==
    Refusal(ok) \cup (IF ~ok /\ pc = "unsubscribe" THEN {"threw"} ELSE {})

-----------------------------------------------------------------------------
(* subscribe(topics), up to its loop.                                      *)
subscribe(topics, ok) ==
    /\ Idle
    /\ userAssignment = {}
    /\ ~(isCooperativeEnabled /\ topics = userSubscription)
    /\ userSubscription' = topics
    /\ \/ /\ ok
          /\ rkGroup' = "rebalancing"
          /\ pendingEvent' = "assign"
          /\ pc' = "subscribe"
       \/ ~ok /\ AnyRefusal /\ UNCHANGED <<rkGroup, pendingEvent, pc>>
    /\ Note(Refusal(ok))
    /\ UNCHANGED <<userAssignment, assignment, cooperative, serving, told, protocol,
                   event, rkAssignment, paused>>

(* unsubscribe(), for an assignment made by assign().                      *)
unassign(ok) ==
    /\ Idle
    /\ userAssignment # {}
    /\ changeAssignment(IF isCooperativeEnabled THEN "IncrementalUnassign" ELSE "Revoke",
                        userAssignment, ok)
    /\ userAssignment' = IF ok THEN {} ELSE userAssignment
    /\ Note(Refusal(ok))
    /\ UNCHANGED <<pc, userSubscription, pendingEvent, cooperative, serving, told,
                   protocol, rkGroup, event>>

(* unsubscribe(), for a subscription, up to its loop.                      *)
unsubscribe(ok) ==
    /\ Idle
    /\ userAssignment = {}
    /\ userSubscription # NoTopics
    /\ userSubscription' = NoTopics
    /\ \/ /\ ok
          /\ rkGroup' = "leaving"
          /\ pendingEvent' = "revoke"
          /\ pc' = "unsubscribe"
       \/ ~ok /\ AnyRefusal /\ UNCHANGED <<rkGroup, pendingEvent, pc>>
    /\ Note((IF ok THEN {} ELSE {"threw"})
            \cup (IF event.type = "revoke" THEN {"stale"} ELSE {}))
    /\ UNCHANGED <<userAssignment, assignment, cooperative, serving, told, protocol,
                   event, rkAssignment, paused>>

(* The loops of subscribe() and unsubscribe() end: the event has come, or  *)
(* the time is over and the call throws.                                   *)
LoopReturns ==
    /\ pc \in {"subscribe", "unsubscribe"}
    /\ serving = NoEvent
    /\ pendingEvent = "none"
    /\ pc' = "idle"
    /\ UNCHANGED <<userVars, serving, told, rkVars, upset>>

AfterTimeout == "none"

LoopTimesOut ==
    /\ pc \in {"subscribe", "unsubscribe"}
    /\ serving = NoEvent
    /\ pendingEvent # "none"
    /\ pendingEvent' = AfterTimeout
    /\ pc' = "idle"
    /\ Note(IF pc = "unsubscribe" THEN {"threw"} ELSE {})
    /\ UNCHANGED <<userSubscription, userAssignment, assignment, cooperative, serving,
                   told, rkVars>>

(* assign(tps).                                                            *)
Assignable == userSubscription = NoTopics

assign(tps, ok) ==
    /\ Idle
    /\ Assignable
    /\ userAssignment' = tps
    /\ changeAssignment(IF isCooperativeEnabled THEN "IncrementalAssign" ELSE "Assign",
                        tps, ok)
    /\ Note(Refusal(ok)
            \cup (IF isCooperativeEnabled /\ assignment # {} THEN {"reassigned"} ELSE {}))
    /\ UNCHANGED <<pc, userSubscription, pendingEvent, cooperative, serving, told,
                   protocol, rkGroup, event>>

-----------------------------------------------------------------------------
(* onRebalance(), up to the callback: the protocol is asked for once, the  *)
(* event a call waits for is marked as come, and partitions that are       *)
(* assigned are taken before the callback is told of them.                 *)
AnyEventCounts == "none"                            \* faulty
NoEventCounts == pendingEvent                       \* faulty
PendingAfter == IF pendingEvent = event.type THEN "none" ELSE pendingEvent

LearnProtocol == cooperative' = IF cooperative = "unknown" THEN protocol ELSE cooperative

RevokesFirst == changeAssignment("Revoke", {}, TRUE)        \* faulty
RevokesLater == UNCHANGED <<assignment, rkAssignment, paused>>

onRebalance(ok) ==
    /\ Polling
    /\ event # NoEvent
    /\ LearnProtocol
    /\ pendingEvent' = PendingAfter
    /\ event' = NoEvent
    /\ IF event.type = "assign"
       THEN /\ changeAssignment(IF cooperative' = "COOPERATIVE" THEN "IncrementalAssign"
                                ELSE "Assign", event.tps, ok)
            /\ serving' = IF ok THEN event ELSE NoEvent
            /\ pc' = IF ok THEN pc ELSE "idle"
            /\ Note(EventRefusal(ok))
       ELSE /\ ok
            /\ serving' = event
            /\ RevokesLater
            /\ UNCHANGED <<pc, upset>>
    /\ UNCHANGED <<userSubscription, userAssignment, told, protocol, rkGroup>>

(* The callback returns; partitions that are revoked are given up after    *)
(* it.                                                                     *)
ToldAfter(e) ==
    IF e.type = "assign" THEN told \cup e.tps ELSE told \ e.tps

RevokeEnds(tps, ok) ==
    changeAssignment(IF isCooperativeEnabled THEN "IncrementalUnassign" ELSE "Revoke", tps, ok)

RebalanceCbReturns(ok) ==
    /\ serving # NoEvent
    /\ told' = ToldAfter(serving)
    /\ serving' = NoEvent
    /\ IF serving.type = "revoke"
       THEN /\ RevokeEnds(serving.tps, ok)
            /\ pc' = IF ok THEN pc ELSE "idle"
            /\ Note(EventRefusal(ok))
       ELSE /\ ok
            /\ UNCHANGED <<assignment, rkAssignment, paused, pc, upset>>
    /\ UNCHANGED <<userSubscription, userAssignment, pendingEvent, cooperative, protocol,
                   rkGroup, event>>

(* poll(): rebalance events are served while it waits for records.         *)
poll ==
    /\ Idle
    /\ pc' = "poll"
    /\ UNCHANGED <<userVars, serving, told, rkVars, upset>>

PollReturns ==
    /\ pc = "poll"
    /\ serving = NoEvent
    /\ pc' = "idle"
    /\ UNCHANGED <<userVars, serving, told, rkVars, upset>>

(* pause() and resume() of all partitions, also from a rebalance callback: *)
(* they go by _assignment, and librdkafka leaves out what it does not      *)
(* have.  pause() throws when nothing is left (and then changes nothing).  *)
pause ==
    /\ Idle \/ serving # NoEvent
    /\ paused' = paused \cup (assignment \cap rkAssignment)
    /\ UNCHANGED <<pc, userVars, serving, told, protocol, rkGroup, event, rkAssignment, upset>>

resume ==
    /\ Idle \/ serving # NoEvent
    /\ paused' = paused \ assignment
    /\ UNCHANGED <<pc, userVars, serving, told, protocol, rkGroup, event, rkAssignment, upset>>

(* close(): rd_kafka_consumer_close() leaves the group, which revokes the  *)
(* partitions, and returns when that has been served.                      *)
close ==
    /\ Idle
    /\ pc' = "close"
    /\ rkGroup' = IF rkGroup = "none" THEN "none" ELSE "leaving"
    /\ UNCHANGED <<userVars, serving, told, protocol, event, rkAssignment, paused, upset>>

CloseReturns ==
    /\ pc = "close"
    /\ serving = NoEvent
    /\ rkGroup = "none" /\ event = NoEvent
    /\ pc' = "closed"
    /\ UNCHANGED <<userVars, serving, told, rkVars, upset>>

-----------------------------------------------------------------------------
Librdkafka == \E S \in SUBSET Partition : RevokeEvent(S) \/ AssignEvent(S)

Serve == \E ok \in BOOLEAN : onRebalance(ok) \/ RebalanceCbReturns(ok)

Next ==
    \/ \E topics \in Topics, ok \in BOOLEAN : subscribe(topics, ok)
    \/ \E ok \in BOOLEAN : unassign(ok) \/ unsubscribe(ok)
    \/ \E tps \in (SUBSET Partition) \ {{}}, ok \in BOOLEAN : assign(tps, ok)
    \/ LoopReturns \/ LoopTimesOut
    \/ poll \/ PollReturns
    \/ pause \/ resume
    \/ close \/ CloseReturns
    \/ Rebalance \/ Librdkafka
    \/ Serve

(* librdkafka makes the events a rebalance needs, the thread serves them   *)
(* while it is in a call, and callbacks return.  rd_kafka_poll() returns   *)
(* at its interval even when one rebalance follows the other.  No call has *)
(* to time out.                                                            *)
Fairness ==
    /\ WF_vars(Librdkafka)
    /\ WF_vars(Serve)
    /\ SF_vars(LoopReturns)
    /\ WF_vars(CloseReturns)

Spec == Init /\ [][Next]_vars /\ Fairness

-----------------------------------------------------------------------------
Undisturbed == upset = {}

(* _assignment follows what librdkafka does, in calls and in rebalances of *)
(* either protocol: whatever has been refused before, a partition that     *)
(* librdkafka takes or gives up is taken or given up in _assignment by the *)
(* same step.  So pause() suspends all that the consumer has, and resume() *)
(* leaves nothing suspended, in a rebalance callback too, as long as no    *)
(* change has been refused.                                                *)
PauseReachesAll ==
    [][/\ \A p \in Partition :
            (p \in rkAssignment) # (p \in rkAssignment') =>
                ((p \in assignment') <=> (p \in rkAssignment'))
       /\ "refused" \notin upset /\ pause => paused' = rkAssignment
       /\ "refused" \notin upset /\ resume => paused' = {}]_vars

(* "Suspend fetching from all assigned partitions. Future calls to poll()  *)
(* will not return any records until they have been resumed using          *)
(* resume()" (KafkaConsumer.h:227): a pause() that returns, instead of     *)
(* throwing because there is nothing to pause, leaves no assigned          *)
(* partition that is fetched from.                                         *)
PauseSuspendsAll ==
    [][pause /\ assignment \cap rkAssignment # {} => rkAssignment \subseteq paused']_vars

(* Rebalance callbacks are told of partitions only while the consumer has   *)
(* them: from after they are taken until before they are given up, so that  *)
(* a callback can still commit what it has processed.  Between two          *)
(* callbacks of a subscribed consumer, they have told the application       *)
(* exactly what it has: state it keeps per partition is never stale.        *)
CallbacksTellAll ==
    Undisturbed =>
        /\ serving.tps \subseteq rkAssignment
        /\ serving = NoEvent /\ userAssignment = {} => told = assignment

(* Every unsubscribe() from a subscription has returned, none has thrown,  *)
(* and none was called with the REVOKE event of an earlier rebalance       *)
(* outstanding, which ends its wait before its own REVOKE event comes.     *)
LeftProperly == upset \cap {"threw", "stale"} = {}

(* Partitions assigned by hand stay assigned until unsubscribe(), if every *)
(* unsubscribe() from a subscription was a proper one: librdkafka is then  *)
(* in no group and has no event left that would take them, and, if it has  *)
(* refused nothing, has them all.  So an ASSIGN event that is outstanding  *)
(* when unsubscribe() is called does not end its wait, and what librdkafka *)
(* refuses to subscribe() or assign() leaves no trace in the group.  After *)
(* an improper unsubscribe() the REVOKE event that comes late takes them.  *)
ManualAssignmentKept ==
    userAssignment # {} /\ LeftProperly =>
        /\ rkGroup = "none" /\ NothingOutstanding
        /\ "refused" \notin upset => userAssignment \subseteq rkAssignment

(* subscribe(), unsubscribe() and close() return: the event they wait for  *)
(* comes, and no stray event makes them miss it.                           *)
CallsReturn == (pc \in {"subscribe", "unsubscribe", "close"}) ~> (pc \in {"idle", "closed"})
=============================================================================
