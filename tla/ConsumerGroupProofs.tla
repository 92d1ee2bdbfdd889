------------------------ MODULE ConsumerGroupProofs -------------------------
(***************************************************************************)
(* Proofs about ConsumerAssignment, for any partitions and topic lists and  *)
(* with any number of hazards in a behaviour, and about ConsumerSeek, for   *)
(* any partitions, offsets and lengths of librdkafka's queues.              *)
(***************************************************************************)
EXTENDS ConsumerAssignment, ConsumerSeek, SequenceTheorems, WellFoundedInduction, TLAPS

Event == [type : {"revoke", "assign"}, tps : SUBSET Partition] \cup {NoEvent}

AssignmentTypeOK ==
    /\ pc \in {"idle", "subscribe", "unsubscribe", "poll", "close", "closed"}
    /\ userSubscription \in Topics \cup {NoTopics}
    /\ userAssignment \subseteq Partition /\ assignment \subseteq Partition
    /\ pendingEvent \in {"none", "assign", "revoke"}
    /\ protocol \in {"EAGER", "COOPERATIVE"} /\ cooperative \in {"unknown", protocol}
    /\ serving \in Event /\ event \in Event
    /\ told \subseteq Partition /\ rkAssignment \subseteq Partition
    /\ paused \subseteq Partition
    /\ rkGroup \in {"none", "member", "rebalancing", "assigning", "leaving"}
    /\ upset \subseteq Hazards

(* The inductive invariant.  Events are served inside a call, one at a      *)
(* time, with the protocol known.                                           *)
ServedInCall ==
    serving # NoEvent =>
        /\ event = NoEvent
        /\ pc \in {"subscribe", "unsubscribe", "poll", "close"}
        /\ cooperative = protocol

(* What an outstanding event says is still true of the assignment.          *)
EventHolds ==
    /\ event.type = "revoke" => event.tps \subseteq rkAssignment
    /\ event.type = "revoke" /\ (protocol = "EAGER" \/ rkGroup = "none")
          => event.tps = rkAssignment
    /\ event.type = "assign" /\ protocol = "EAGER" => rkAssignment = {}
    /\ serving.tps \subseteq rkAssignment
    /\ serving.type = "revoke" /\ (protocol = "EAGER" \/ rkGroup = "none")
          => serving.tps = rkAssignment
    /\ protocol = "EAGER" /\ rkGroup = "assigning" =>
          \/ event.type = "revoke" \/ serving.type = "revoke"
          \/ NothingOutstanding /\ rkAssignment = {}

(* What the callbacks have told, before, in and after one of them.          *)
ToldSoFar ==
    /\ userAssignment # {} =>
          /\ userSubscription = NoTopics /\ pc # "unsubscribe"
          /\ told = {} /\ assignment = userAssignment
    /\ userAssignment = {} /\ serving.type = "assign" => told \cup serving.tps = assignment
    /\ userAssignment = {} /\ serving.type # "assign" => told = assignment

(* A consumer without a subscription has left the group for good; the       *)
(* stages of unsubscribe() until it has.                                    *)
LeftGroup ==
    userSubscription = NoTopics /\ pc # "unsubscribe" =>
        /\ rkGroup = "none" /\ NothingOutstanding
        /\ userAssignment = {} => assignment = {}
Leaving ==
    pc = "unsubscribe" =>
        /\ userSubscription = NoTopics
        /\ \/ /\ rkGroup = "leaving" /\ pendingEvent = "revoke"
              /\ event.type # "revoke" /\ serving.type # "revoke"
           \/ /\ rkGroup = "none" /\ pendingEvent = "revoke"
              /\ event.type = "revoke"
           \/ /\ rkGroup = "none" /\ pendingEvent = "none" /\ event = NoEvent
              /\ serving.type # "assign"
              /\ serving = NoEvent => assignment = {}

(* What is left of that whatever librdkafka refuses, when every             *)
(* unsubscribe() was a proper one: the stages of leaving, and that nothing  *)
(* of a group is left when it is over, so that partitions assigned by hand  *)
(* are out of its reach.                                                    *)
ServedInside ==
    serving # NoEvent =>
        event = NoEvent /\ pc \in {"subscribe", "unsubscribe", "poll", "close"}
OutOfGroup ==
    userSubscription = NoTopics /\ pc # "unsubscribe" => rkGroup = "none" /\ NothingOutstanding
LeavingStages ==
    pc = "unsubscribe" =>
        /\ userSubscription = NoTopics
        /\ \/ /\ rkGroup = "leaving" /\ pendingEvent = "revoke"
              /\ event.type # "revoke" /\ serving.type # "revoke"
           \/ /\ rkGroup = "none" /\ pendingEvent = "revoke"
              /\ event.type = "revoke"
           \/ /\ rkGroup = "none" /\ pendingEvent = "none" /\ event = NoEvent
              /\ serving.type # "assign"
HandHeld ==
    /\ userAssignment # {} => userSubscription = NoTopics /\ pc # "unsubscribe"
    /\ "refused" \notin upset => userAssignment \subseteq rkAssignment

HandInv == LeftProperly => ServedInside /\ OutOfGroup /\ LeavingStages /\ HandHeld

(* _assignment is librdkafka's assignment as long as librdkafka has refused *)
(* no change of it; only assigned partitions are paused.                    *)
MirrorAgrees == "refused" \notin upset => assignment = rkAssignment
PausedAssigned == paused \subseteq rkAssignment

SubscriptionInv ==
    Undisturbed => ServedInCall /\ EventHolds /\ ToldSoFar /\ LeftGroup /\ Leaving

-----------------------------------------------------------------------------
(* changeAssignment(), whichever the change: types are kept, and what       *)
(* librdkafka does not refuse is done to both copies alike.                 *)
Changes == {"Assign", "Revoke", "IncrementalAssign", "IncrementalUnassign"}

(* What librdkafka takes or gives up in this step is taken or given up in   *)
(* _assignment.                                                             *)
FollowsAlike ==
    \A p \in Partition :
        (p \in rkAssignment) # (p \in rkAssignment') =>
            ((p \in assignment') <=> (p \in rkAssignment'))

LEMMA ChangedAlike ==
    ASSUME NEW change \in Changes, NEW tps \in SUBSET Partition, NEW ok \in BOOLEAN,
           AssignmentTypeOK, changeAssignment(change, tps, ok)
    PROVE  /\ assignment' \in SUBSET Partition
           /\ rkAssignment' \in SUBSET Partition
           /\ paused' \in SUBSET Partition
           /\ paused' \subseteq rkAssignment'
           /\ ok /\ assignment = rkAssignment => assignment' = rkAssignment'
           /\ FollowsAlike
<1>1. /\ change = "Assign" => assignment' = tps /\ (ok => rkAssignment' = tps)
      /\ change = "Revoke" => assignment' = {} /\ (ok => rkAssignment' = {})
      /\ change = "IncrementalAssign" =>
            assignment' = assignment \cup tps /\ (ok => rkAssignment' = rkAssignment \cup tps)
      /\ change = "IncrementalUnassign" =>
            assignment' = assignment \ tps /\ (ok => rkAssignment' = rkAssignment \ tps)
      /\ ~ok => rkAssignment' = rkAssignment
      /\ paused' = paused \cap rkAssignment'
  BY DEF changeAssignment, Changed, RkChanged
<1> QED BY <1>1 DEF AssignmentTypeOK, Changes, FollowsAlike

LEMMA AssignmentTypeInit == Init => AssignmentTypeOK
  BY DEF Init, AssignmentTypeOK, Event

LEMMA AssignmentTypeStep == AssignmentTypeOK /\ [Next]_vars => AssignmentTypeOK'
<1> SUFFICES ASSUME AssignmentTypeOK, [Next]_vars
             PROVE  AssignmentTypeOK'
  OBVIOUS
<1> USE DEF userVars, rkVars
<1>0. ASSUME NEW hazards \in SUBSET Hazards, Note(hazards)
      PROVE  upset' \subseteq Hazards
  BY <1>0 DEF Note, AssignmentTypeOK
<1>00. ASSUME NEW ok
       PROVE  Refusal(ok) \in SUBSET Hazards /\ EventRefusal(ok) \in SUBSET Hazards
  BY DEF Refusal, EventRefusal, Hazards
<1>1. ASSUME NEW topics \in Topics, NEW ok \in BOOLEAN, subscribe(topics, ok)
      PROVE  AssignmentTypeOK'
  <2>1. upset' \subseteq Hazards
    BY <1>0, <1>00, <1>1 DEF subscribe
  <2> QED BY <1>1, <2>1 DEF subscribe, AssignmentTypeOK
<1>2. ASSUME NEW ok \in BOOLEAN, unassign(ok)
      PROVE  AssignmentTypeOK'
  <2>1. upset' \subseteq Hazards
    BY <1>0, <1>00, <1>2 DEF unassign
  <2> DEFINE change == IF isCooperativeEnabled THEN "IncrementalUnassign" ELSE "Revoke"
  <2>2. change \in Changes /\ changeAssignment(change, userAssignment, ok)
        /\ userAssignment \in SUBSET Partition
    BY <1>2 DEF unassign, Changes, AssignmentTypeOK
  <2> HIDE DEF change
  <2>3. /\ assignment' \in SUBSET Partition /\ rkAssignment' \in SUBSET Partition
        /\ paused' \in SUBSET Partition
    BY <2>2, ChangedAlike
  <2> QED BY <1>2, <2>1, <2>3 DEF unassign, AssignmentTypeOK
<1>3. ASSUME NEW ok \in BOOLEAN, unsubscribe(ok)
      PROVE  AssignmentTypeOK'
  <2>1. /\ (IF event.type = "revoke" THEN {"stale"} ELSE {}) \in SUBSET Hazards
        /\ (IF ok THEN {} ELSE {"threw"}) \in SUBSET Hazards
    BY DEF Hazards
  <2>2. upset' \subseteq Hazards
    BY <1>0, <1>00, <1>3, <2>1 DEF unsubscribe
  <2> QED BY <1>3, <2>2 DEF unsubscribe, AssignmentTypeOK
<1>4. ASSUME NEW tps \in SUBSET Partition, NEW ok \in BOOLEAN, assign(tps, ok)
      PROVE  AssignmentTypeOK'
  <2>1. (IF isCooperativeEnabled /\ assignment # {} THEN {"reassigned"} ELSE {})
          \in SUBSET Hazards
    BY DEF Hazards
  <2>2. upset' \subseteq Hazards
    BY <1>0, <1>00, <1>4, <2>1 DEF assign
  <2> DEFINE change == IF isCooperativeEnabled THEN "IncrementalAssign" ELSE "Assign"
  <2>3. change \in Changes /\ changeAssignment(change, tps, ok)
    BY <1>4 DEF assign, Changes
  <2> HIDE DEF change
  <2>4. /\ assignment' \in SUBSET Partition /\ rkAssignment' \in SUBSET Partition
        /\ paused' \in SUBSET Partition
    BY <2>3, ChangedAlike
  <2> QED BY <1>4, <2>2, <2>4 DEF assign, AssignmentTypeOK
<1>5. CASE LoopReturns \/ poll \/ PollReturns \/ close \/ CloseReturns \/ Rebalance
  BY <1>5 DEF LoopReturns, poll, PollReturns, close, CloseReturns, Rebalance, AssignmentTypeOK
<1>6. CASE LoopTimesOut
  <2>1. (IF pc = "unsubscribe" THEN {"threw"} ELSE {}) \in SUBSET Hazards
    BY DEF Hazards
  <2>2. upset' \subseteq Hazards
    BY <1>0, <1>6, <2>1 DEF LoopTimesOut
  <2> QED BY <1>6, <2>2 DEF LoopTimesOut, AfterTimeout, AssignmentTypeOK
<1>7. CASE pause \/ resume
  BY <1>7 DEF pause, resume, AssignmentTypeOK
<1>8. ASSUME NEW S \in SUBSET Partition, RevokeEvent(S) \/ AssignEvent(S)
      PROVE  AssignmentTypeOK'
  BY <1>8 DEF RevokeEvent, AssignEvent, AssignmentTypeOK, Event
<1>9. ASSUME NEW ok \in BOOLEAN, onRebalance(ok)
      PROVE  AssignmentTypeOK'
  <2>1. /\ cooperative' \in {"unknown", protocol'} /\ protocol' = protocol
        /\ pendingEvent' \in {"none", "assign", "revoke"}
    BY <1>9 DEF onRebalance, LearnProtocol, PendingAfter, AssignmentTypeOK
  <2>2. event \in Event /\ event.tps \in SUBSET Partition /\ event' \in Event
    BY <1>9 DEF onRebalance, AssignmentTypeOK, Event, NoEvent
  <2>3. upset' \subseteq Hazards
    BY <1>0, <1>00, <1>9 DEF onRebalance, AssignmentTypeOK
  <2>4. serving' \in Event /\ pc' \in {pc, "idle"}
    BY <1>9, <2>2 DEF onRebalance, Event
  <2> DEFINE change == IF cooperative' = "COOPERATIVE" THEN "IncrementalAssign" ELSE "Assign"
  <2>5. change \in Changes
    BY DEF Changes
  <2>6. \/ changeAssignment(change, event.tps, ok)
        \/ UNCHANGED <<assignment, rkAssignment, paused>>
    BY <1>9 DEF onRebalance, RevokesLater
  <2> HIDE DEF change
  <2>7. /\ assignment' \in SUBSET Partition /\ rkAssignment' \in SUBSET Partition
        /\ paused' \in SUBSET Partition
    BY <2>2, <2>5, <2>6, ChangedAlike DEF AssignmentTypeOK
  <2> QED BY <1>9, <2>1, <2>2, <2>3, <2>4, <2>7 DEF onRebalance, AssignmentTypeOK
<1>10. ASSUME NEW ok \in BOOLEAN, RebalanceCbReturns(ok)
       PROVE  AssignmentTypeOK'
  <2>1. serving.tps \in SUBSET Partition /\ serving' = NoEvent /\ NoEvent \in Event
    BY <1>10 DEF RebalanceCbReturns, AssignmentTypeOK, Event, NoEvent
  <2>2. upset' \subseteq Hazards
    BY <1>0, <1>00, <1>10 DEF RebalanceCbReturns, AssignmentTypeOK
  <2>3. told' \subseteq Partition /\ pc' \in {pc, "idle"}
    BY <1>10, <2>1 DEF RebalanceCbReturns, ToldAfter, AssignmentTypeOK
  <2> DEFINE change == IF isCooperativeEnabled THEN "IncrementalUnassign" ELSE "Revoke"
  <2>4. change \in Changes
    BY DEF Changes
  <2>5. \/ changeAssignment(change, serving.tps, ok)
        \/ UNCHANGED <<assignment, rkAssignment, paused>>
    BY <1>10 DEF RebalanceCbReturns, RevokeEnds
  <2> HIDE DEF change
  <2>6. /\ assignment' \in SUBSET Partition /\ rkAssignment' \in SUBSET Partition
        /\ paused' \in SUBSET Partition
    BY <2>1, <2>4, <2>5, ChangedAlike DEF AssignmentTypeOK
  <2> QED BY <1>10, <2>1, <2>2, <2>3, <2>6 DEF RebalanceCbReturns, AssignmentTypeOK
<1>11. CASE UNCHANGED vars
  BY <1>11 DEF vars, AssignmentTypeOK
<1> QED BY <1>1, <1>2, <1>3, <1>4, <1>5, <1>6, <1>7, <1>8, <1>9, <1>10, <1>11
        DEF Next, Librdkafka, Serve

(* Type correctness of the assignment model.                                *)
THEOREM TypeCorrect == Spec => []AssignmentTypeOK
  BY AssignmentTypeInit, AssignmentTypeStep, PTL DEF Spec

-----------------------------------------------------------------------------
LEMMA MirrorStep == AssignmentTypeOK /\ MirrorAgrees /\ [Next]_vars => MirrorAgrees'
<1> SUFFICES ASSUME AssignmentTypeOK, MirrorAgrees, [Next]_vars, "refused" \notin upset'
             PROVE  assignment' = rkAssignment'
  BY DEF MirrorAgrees
<1>1. \A ok \in BOOLEAN : (\E h : Note(Refusal(ok) \cup h)) => ok /\ "refused" \notin upset
  BY DEF Note, Refusal
<1>2. \A ok \in BOOLEAN : Note(Refusal(ok)) \/ Note(EventRefusal(ok)) =>
                           ok /\ "refused" \notin upset
  BY DEF Note, Refusal, EventRefusal
<1>3. ASSUME NEW change \in Changes, NEW tps \in SUBSET Partition,
             changeAssignment(change, tps, TRUE), "refused" \notin upset
      PROVE  assignment' = rkAssignment'
  <2>1. TRUE \in BOOLEAN
    OBVIOUS
  <2> QED BY <1>3, <2>1, ChangedAlike DEF MirrorAgrees
<1>4. ASSUME NEW ok \in BOOLEAN, unassign(ok)
      PROVE  assignment' = rkAssignment'
  <2> DEFINE change == IF isCooperativeEnabled THEN "IncrementalUnassign" ELSE "Revoke"
  <2>1. change \in Changes /\ changeAssignment(change, userAssignment, ok)
        /\ userAssignment \in SUBSET Partition /\ Note(Refusal(ok))
    BY <1>4 DEF unassign, Changes, AssignmentTypeOK
  <2> HIDE DEF change
  <2> QED BY <1>2, <1>3, <2>1
<1>5. ASSUME NEW tps \in SUBSET Partition, NEW ok \in BOOLEAN, assign(tps, ok)
      PROVE  assignment' = rkAssignment'
  <2> DEFINE change == IF isCooperativeEnabled THEN "IncrementalAssign" ELSE "Assign"
  <2>1. change \in Changes /\ changeAssignment(change, tps, ok)
    BY <1>5 DEF assign, Changes
  <2>2. ok /\ "refused" \notin upset
    BY <1>1, <1>5 DEF assign
  <2> HIDE DEF change
  <2> QED BY <1>3, <2>1, <2>2
<1>6. ASSUME NEW ok \in BOOLEAN, onRebalance(ok)
      PROVE  assignment' = rkAssignment'
  <2> DEFINE change == IF cooperative' = "COOPERATIVE" THEN "IncrementalAssign" ELSE "Assign"
  <2>1. change \in Changes /\ event.tps \in SUBSET Partition
    BY DEF Changes, AssignmentTypeOK, Event, NoEvent
  <2>2. CASE event.type = "assign"
    <3>1. changeAssignment(change, event.tps, ok) /\ Note(EventRefusal(ok))
      BY <1>6, <2>2 DEF onRebalance
    <3> HIDE DEF change
    <3> QED BY <1>2, <1>3, <2>1, <3>1
  <2>3. CASE event.type # "assign"
    BY <1>6, <2>3 DEF onRebalance, RevokesLater, MirrorAgrees
  <2> QED BY <2>2, <2>3
<1>7. ASSUME NEW ok \in BOOLEAN, RebalanceCbReturns(ok)
      PROVE  assignment' = rkAssignment'
  <2> DEFINE change == IF isCooperativeEnabled THEN "IncrementalUnassign" ELSE "Revoke"
  <2>1. change \in Changes /\ serving.tps \in SUBSET Partition
    BY DEF Changes, AssignmentTypeOK, Event, NoEvent
  <2>2. CASE serving.type = "revoke"
    <3>1. changeAssignment(change, serving.tps, ok) /\ Note(EventRefusal(ok))
      BY <1>7, <2>2 DEF RebalanceCbReturns, RevokeEnds
    <3> HIDE DEF change
    <3> QED BY <1>2, <1>3, <2>1, <3>1
  <2>3. CASE serving.type # "revoke"
    BY <1>7, <2>3 DEF RebalanceCbReturns, MirrorAgrees
  <2> QED BY <2>2, <2>3
<1>8. ASSUME UNCHANGED <<assignment, rkAssignment>>, upset \subseteq upset'
      PROVE  assignment' = rkAssignment'
  BY <1>8 DEF MirrorAgrees
<1>9. CASE \/ \E topics \in Topics, ok \in BOOLEAN : subscribe(topics, ok)
           \/ \E ok \in BOOLEAN : unsubscribe(ok)
           \/ LoopReturns \/ LoopTimesOut \/ poll \/ PollReturns \/ pause \/ resume
           \/ close \/ CloseReturns \/ Rebalance \/ Librdkafka \/ UNCHANGED vars
  <2>1. UNCHANGED <<assignment, rkAssignment>> /\ upset \subseteq upset'
    BY <1>9 DEF subscribe, unsubscribe, LoopReturns, LoopTimesOut, poll, PollReturns, pause,
           resume, close, CloseReturns, Rebalance, Librdkafka, RevokeEvent, AssignEvent, Note,
           userVars, rkVars, vars
  <2> QED BY <1>8, <2>1
<1> QED BY <1>4, <1>5, <1>6, <1>7, <1>9 DEF Next, Serve

(* Every step keeps to FollowsAlike, the refused ones too, and pauses only   *)
(* partitions that librdkafka has.                                          *)
LEMMA FollowStep ==
    AssignmentTypeOK /\ PausedAssigned /\ [Next]_vars => FollowsAlike /\ PausedAssigned'
<1> SUFFICES ASSUME AssignmentTypeOK, PausedAssigned, [Next]_vars
             PROVE  FollowsAlike /\ PausedAssigned'
  OBVIOUS
<1> DEFINE Goal == FollowsAlike /\ PausedAssigned'
<1>1. ASSUME NEW change \in Changes, NEW tps \in SUBSET Partition, NEW ok \in BOOLEAN,
             changeAssignment(change, tps, ok)
      PROVE  Goal
  BY <1>1, ChangedAlike DEF PausedAssigned
<1>2. ASSUME UNCHANGED <<assignment, rkAssignment, paused>>
      PROVE  Goal
  BY <1>2 DEF FollowsAlike, PausedAssigned
<1>3. ASSUME NEW ok \in BOOLEAN, unassign(ok)
      PROVE  Goal
  <2> DEFINE change == IF isCooperativeEnabled THEN "IncrementalUnassign" ELSE "Revoke"
  <2>1. change \in Changes /\ changeAssignment(change, userAssignment, ok)
        /\ userAssignment \in SUBSET Partition
    BY <1>3 DEF unassign, Changes, AssignmentTypeOK
  <2> HIDE DEF change, Goal
  <2> QED BY <1>1, <2>1
<1>4. ASSUME NEW tps \in SUBSET Partition, NEW ok \in BOOLEAN, assign(tps, ok)
      PROVE  Goal
  <2> DEFINE change == IF isCooperativeEnabled THEN "IncrementalAssign" ELSE "Assign"
  <2>1. change \in Changes /\ changeAssignment(change, tps, ok)
    BY <1>4 DEF assign, Changes
  <2> HIDE DEF change, Goal
  <2> QED BY <1>1, <2>1
<1>5. ASSUME NEW ok \in BOOLEAN, onRebalance(ok)
      PROVE  Goal
  <2> DEFINE change == IF cooperative' = "COOPERATIVE" THEN "IncrementalAssign" ELSE "Assign"
  <2>1. change \in Changes /\ event.tps \in SUBSET Partition
    BY DEF Changes, AssignmentTypeOK, Event, NoEvent
  <2>2. \/ changeAssignment(change, event.tps, ok)
        \/ UNCHANGED <<assignment, rkAssignment, paused>>
    BY <1>5 DEF onRebalance, RevokesLater
  <2> HIDE DEF change, Goal
  <2> QED BY <1>1, <1>2, <2>1, <2>2
<1>6. ASSUME NEW ok \in BOOLEAN, RebalanceCbReturns(ok)
      PROVE  Goal
  <2> DEFINE change == IF isCooperativeEnabled THEN "IncrementalUnassign" ELSE "Revoke"
  <2>1. change \in Changes /\ serving.tps \in SUBSET Partition
    BY DEF Changes, AssignmentTypeOK, Event, NoEvent
  <2>2. \/ changeAssignment(change, serving.tps, ok)
        \/ UNCHANGED <<assignment, rkAssignment, paused>>
    BY <1>6 DEF RebalanceCbReturns, RevokeEnds
  <2> HIDE DEF change, Goal
  <2> QED BY <1>1, <1>2, <2>1, <2>2
<1>7. CASE pause \/ resume
  BY <1>7 DEF pause, resume, userVars, FollowsAlike, PausedAssigned
<1>8. CASE \/ \E topics \in Topics, ok \in BOOLEAN : subscribe(topics, ok)
           \/ \E ok \in BOOLEAN : unsubscribe(ok)
           \/ LoopReturns \/ LoopTimesOut \/ poll \/ PollReturns
           \/ close \/ CloseReturns \/ Rebalance \/ Librdkafka \/ UNCHANGED vars
  <2>1. UNCHANGED <<assignment, rkAssignment, paused>>
    BY <1>8 DEF subscribe, unsubscribe, LoopReturns, LoopTimesOut, poll, PollReturns,
           close, CloseReturns, Rebalance, Librdkafka, RevokeEvent, AssignEvent, userVars,
           rkVars, vars
  <2> QED BY <1>2, <2>1
<1> QED BY <1>3, <1>4, <1>5, <1>6, <1>7, <1>8 DEF Next, Serve

(* _assignment follows librdkafka's assignment in every step, through       *)
(* refusals too, and pause() and resume(), which go by _assignment, reach   *)
(* all that librdkafka has as long as it has refused nothing.               *)
THEOREM AssignmentMirrored == Spec => PauseReachesAll
<1>1. Init => MirrorAgrees /\ PausedAssigned
  BY DEF Init, MirrorAgrees, PausedAssigned
<1>2. MirrorAgrees /\ PausedAssigned /\ pause /\ "refused" \notin upset
         => paused' = rkAssignment
  BY DEF MirrorAgrees, PausedAssigned, pause
<1>3. MirrorAgrees /\ PausedAssigned /\ resume /\ "refused" \notin upset => paused' = {}
  BY DEF MirrorAgrees, PausedAssigned, resume
<1> DEFINE Reaches ==
        /\ \A p \in Partition :
              (p \in rkAssignment) # (p \in rkAssignment') =>
                  ((p \in assignment') <=> (p \in rkAssignment'))
        /\ "refused" \notin upset /\ pause => paused' = rkAssignment
        /\ "refused" \notin upset /\ resume => paused' = {}
<1>4. FollowsAlike /\ MirrorAgrees /\ PausedAssigned => [Reaches]_vars
  BY <1>2, <1>3 DEF FollowsAlike
<1> QED BY <1>1, <1>4, AssignmentTypeInit, AssignmentTypeStep, MirrorStep, FollowStep, PTL
        DEF Spec, PauseReachesAll

-----------------------------------------------------------------------------
LEMMA SubscriptionInit == Init => SubscriptionInv
  BY DEF Init, SubscriptionInv, ServedInCall, EventHolds, ToldSoFar, LeftGroup, Leaving,
         NothingOutstanding, NoEvent

LEMMA SubscriptionStep ==
    AssignmentTypeOK /\ MirrorAgrees /\ SubscriptionInv /\ [Next]_vars => SubscriptionInv'
<1> SUFFICES ASSUME AssignmentTypeOK, MirrorAgrees, SubscriptionInv, [Next]_vars, upset' = {}
             PROVE  (ServedInCall /\ EventHolds /\ ToldSoFar /\ LeftGroup /\ Leaving)'
  BY DEF SubscriptionInv, Undisturbed
<1> DEFINE Inv == ServedInCall /\ EventHolds /\ ToldSoFar /\ LeftGroup /\ Leaving
<1>u. upset \subseteq upset'
  BY DEF Next, subscribe, unassign, unsubscribe, assign, LoopReturns, LoopTimesOut, poll,
         PollReturns, pause, resume, close, CloseReturns, Rebalance, Librdkafka, RevokeEvent,
         AssignEvent, Serve, onRebalance, RebalanceCbReturns, Note, userVars, rkVars, vars
<1>i. ServedInCall /\ EventHolds /\ ToldSoFar /\ LeftGroup /\ Leaving
  BY <1>u DEF SubscriptionInv, Undisturbed
<1>m. assignment = rkAssignment
  BY <1>u DEF MirrorAgrees
<1>n. \A ok \in BOOLEAN : (\E h : Note(Refusal(ok) \cup h)) => ok
  BY DEF Note, Refusal
<1>e. /\ event.type \in {"none", "revoke", "assign"} /\ (event.type = "none" <=> event = NoEvent)
      /\ serving.type \in {"none", "revoke", "assign"}
      /\ (serving.type = "none" <=> serving = NoEvent)
      /\ NoEvent.type = "none" /\ NoEvent.tps = {}
  BY DEF AssignmentTypeOK, Event, NoEvent
<1> USE DEF userVars, rkVars
<1>1. ASSUME NEW topics \in Topics, NEW ok \in BOOLEAN, subscribe(topics, ok)
      PROVE  Inv'
  <2>1. ok
    BY <1>1 DEF subscribe, Note, Refusal
  <2>2. serving = NoEvent
    BY <1>1, <1>i DEF subscribe, Idle, ServedInCall
  <2>3. topics # NoTopics
    BY NoTopicsIsNone
  <2> QED BY <1>1, <1>i, <1>e, <2>1, <2>2, <2>3 DEF subscribe, ServedInCall, EventHolds,
          ToldSoFar, LeftGroup, Leaving, NothingOutstanding
<1>2. ASSUME NEW ok \in BOOLEAN, unassign(ok)
      PROVE  Inv'
  <2>1. ok
    BY <1>2 DEF unassign, Note, Refusal
  <2>2. /\ userAssignment # {} /\ userAssignment' = {} /\ pc = "idle"
        /\ assignment = userAssignment /\ told = {}
        /\ userSubscription = NoTopics /\ rkGroup = "none" /\ NothingOutstanding
    BY <1>2, <1>i, <2>1 DEF unassign, Idle, ToldSoFar, LeftGroup
  <2>3. assignment' = {}
    BY <1>2, <2>1, <2>2 DEF unassign, changeAssignment, Changed
  <2>4. rkAssignment' = {}
    BY <1>2, <1>m, <2>1, <2>2 DEF unassign, changeAssignment, Changed, RkChanged
  <2> QED BY <1>2, <1>i, <1>e, <2>2, <2>3, <2>4 DEF unassign, ServedInCall, EventHolds,
          ToldSoFar, LeftGroup, Leaving, NothingOutstanding
<1>3. ASSUME NEW ok \in BOOLEAN, unsubscribe(ok)
      PROVE  Inv'
  <2>1. ok /\ event.type # "revoke"
    BY <1>3 DEF unsubscribe, Note, Refusal
  <2>2. serving = NoEvent
    BY <1>3, <1>i DEF unsubscribe, Idle, ServedInCall
  <2> QED BY <1>3, <1>i, <1>e, <2>1, <2>2 DEF unsubscribe, ServedInCall, EventHolds,
          ToldSoFar, LeftGroup, Leaving, NothingOutstanding
<1>4. ASSUME NEW tps \in (SUBSET Partition) \ {{}}, NEW ok \in BOOLEAN, assign(tps, ok)
      PROVE  Inv'
  <2>1. ok /\ (isCooperativeEnabled => assignment = {})
    BY <1>4 DEF assign, Note, Refusal
  <2>2. /\ userAssignment' = tps /\ tps # {} /\ pc = "idle"
        /\ userSubscription = NoTopics /\ rkGroup = "none" /\ NothingOutstanding
        /\ userAssignment = {} => assignment = {}
    BY <1>4, <1>i DEF assign, Idle, Assignable, LeftGroup
  <2>3. told = {}
    BY <1>i, <1>e, <2>2 DEF ToldSoFar, NothingOutstanding
  <2>4. assignment' = tps
    BY <1>4, <2>1 DEF assign, changeAssignment, Changed
  <2> QED BY <1>4, <1>i, <1>e, <2>2, <2>3, <2>4 DEF assign, ServedInCall, EventHolds,
          ToldSoFar, LeftGroup, Leaving, NothingOutstanding
<1>5. CASE LoopReturns
  BY <1>5, <1>i, <1>e DEF LoopReturns, ServedInCall, EventHolds, ToldSoFar, LeftGroup, Leaving,
          NothingOutstanding
<1>6. CASE LoopTimesOut
  <2>1. pc = "subscribe"
    BY <1>6 DEF LoopTimesOut, Note
  <2> QED BY <1>6, <1>i, <1>e, <2>1 DEF LoopTimesOut, ServedInCall, EventHolds, ToldSoFar,
          LeftGroup, Leaving, NothingOutstanding
<1>7. CASE poll \/ PollReturns \/ pause \/ resume
  BY <1>7, <1>i, <1>e DEF poll, PollReturns, pause, resume, Idle, ServedInCall, EventHolds,
          ToldSoFar, LeftGroup, Leaving, NothingOutstanding
<1>8. CASE close \/ CloseReturns
  BY <1>8, <1>i, <1>e DEF close, CloseReturns, Idle, ServedInCall, EventHolds, ToldSoFar,
          LeftGroup, Leaving, NothingOutstanding
<1>9. CASE Rebalance
  BY <1>9, <1>i, <1>e DEF Rebalance, ServedInCall, EventHolds, ToldSoFar, LeftGroup, Leaving,
          NothingOutstanding
<1>10. ASSUME NEW S \in SUBSET Partition, RevokeEvent(S)
       PROVE  Inv'
  BY <1>10, <1>i, <1>e DEF RevokeEvent, ServedInCall, EventHolds, ToldSoFar, LeftGroup, Leaving,
          NothingOutstanding
<1>11. ASSUME NEW S \in SUBSET Partition, AssignEvent(S)
       PROVE  Inv'
  BY <1>11, <1>i, <1>e DEF AssignEvent, ServedInCall, EventHolds, ToldSoFar, LeftGroup, Leaving,
          NothingOutstanding
<1>12. ASSUME NEW ok \in BOOLEAN, onRebalance(ok)
       PROVE  Inv'
  <2>0. /\ event # NoEvent /\ event' = NoEvent /\ serving = NoEvent
        /\ pc \in {"subscribe", "unsubscribe", "poll", "close"}
        /\ cooperative' = protocol
        /\ pendingEvent' = PendingAfter
        /\ UNCHANGED <<userSubscription, userAssignment, told, protocol, rkGroup>>
    BY <1>12 DEF onRebalance, Polling, LearnProtocol, AssignmentTypeOK
  <2>1. userAssignment = {}
    BY <1>i, <2>0 DEF ToldSoFar, LeftGroup, NothingOutstanding
  <2>2. ok /\ serving' = event /\ pc' = pc
    BY <1>12 DEF onRebalance, Note, Refusal, EventRefusal
  <2>3. CASE event.type = "assign"
    <3>1. /\ assignment' = assignment \cup event.tps
          /\ rkAssignment' = rkAssignment \cup event.tps
      <4>1. changeAssignment(IF protocol = "COOPERATIVE" THEN "IncrementalAssign" ELSE "Assign",
                             event.tps, ok)
        BY <1>12, <2>0, <2>3 DEF onRebalance
      <4>2. CASE protocol = "COOPERATIVE"
        BY <2>2, <4>1, <4>2 DEF changeAssignment, Changed, RkChanged
      <4>3. CASE protocol = "EAGER"
        <5>1. rkAssignment = {} /\ assignment = {}
          BY <1>i, <1>m, <2>3, <4>3 DEF EventHolds
        <5> QED BY <2>2, <4>1, <4>3, <5>1 DEF changeAssignment, Changed, RkChanged
      <4> QED BY <4>2, <4>3 DEF AssignmentTypeOK
    <3> QED BY <1>i, <1>e, <2>0, <2>1, <2>2, <2>3, <3>1 DEF PendingAfter, ServedInCall, EventHolds,
            ToldSoFar, LeftGroup, Leaving, NothingOutstanding
  <2>4. CASE event.type = "revoke"
    <3>1. UNCHANGED <<assignment, rkAssignment>>
      BY <1>12, <2>4 DEF onRebalance, RevokesLater
    <3> QED BY <1>i, <1>e, <2>0, <2>1, <2>2, <2>4, <3>1 DEF PendingAfter, ServedInCall, EventHolds,
            ToldSoFar, LeftGroup, Leaving, NothingOutstanding
  <2> QED BY <1>e, <2>0, <2>3, <2>4
<1>13. ASSUME NEW ok \in BOOLEAN, RebalanceCbReturns(ok)
       PROVE  Inv'
  <2>0. /\ serving # NoEvent /\ serving' = NoEvent
        /\ event = NoEvent /\ cooperative = protocol
        /\ pc \in {"subscribe", "unsubscribe", "poll", "close"}
        /\ told' = ToldAfter(serving)
        /\ UNCHANGED <<userSubscription, userAssignment, pendingEvent, cooperative, protocol,
                       rkGroup, event>>
    BY <1>13, <1>i DEF RebalanceCbReturns, ServedInCall
  <2>1. userAssignment = {}
    BY <1>i, <2>0 DEF ToldSoFar, LeftGroup, NothingOutstanding
  <2>2. ok /\ pc' = pc
    BY <1>13 DEF RebalanceCbReturns, Note, Refusal, EventRefusal
  <2>3. CASE serving.type = "revoke"
    <3>1. /\ assignment' = assignment \ serving.tps
          /\ rkAssignment' = rkAssignment \ serving.tps
      <4>1. changeAssignment(IF isCooperativeEnabled THEN "IncrementalUnassign" ELSE "Revoke",
                             serving.tps, ok)
        BY <1>13, <2>3 DEF RebalanceCbReturns, RevokeEnds
      <4>2. CASE protocol = "COOPERATIVE"
        BY <2>0, <2>2, <4>1, <4>2 DEF isCooperativeEnabled, changeAssignment, Changed, RkChanged
      <4>3. CASE protocol = "EAGER"
        <5>1. rkAssignment = serving.tps /\ assignment = serving.tps
          BY <1>i, <1>m, <2>3, <4>3 DEF EventHolds
        <5> QED BY <2>0, <2>2, <4>1, <4>3, <5>1 DEF isCooperativeEnabled, changeAssignment,
                Changed, RkChanged
      <4> QED BY <4>2, <4>3 DEF AssignmentTypeOK
    <3>2. told' = told \ serving.tps
      BY <2>0, <2>3 DEF ToldAfter
    <3> QED BY <1>i, <1>m, <1>e, <2>0, <2>1, <2>2, <2>3, <3>1, <3>2 DEF ServedInCall, EventHolds,
            ToldSoFar, LeftGroup, Leaving, NothingOutstanding
  <2>4. CASE serving.type = "assign"
    <3>1. UNCHANGED <<assignment, rkAssignment>>
      BY <1>13, <2>4 DEF RebalanceCbReturns
    <3>2. told' = told \cup serving.tps
      BY <2>0, <2>4 DEF ToldAfter
    <3> QED BY <1>i, <1>e, <2>0, <2>1, <2>2, <2>4, <3>1, <3>2 DEF ServedInCall, EventHolds,
            ToldSoFar, LeftGroup, Leaving, NothingOutstanding
  <2> QED BY <1>e, <2>0, <2>3, <2>4
<1>14. CASE UNCHANGED vars
  BY <1>14, <1>i DEF vars, ServedInCall, EventHolds, ToldSoFar, LeftGroup, Leaving,
          NothingOutstanding
<1> QED BY <1>1, <1>2, <1>3, <1>4, <1>5, <1>6, <1>7, <1>8, <1>9, <1>10, <1>11, <1>12, <1>13,
           <1>14 DEF Next, Librdkafka, Serve

LEMMA SubscriptionInvariants == Spec => [](AssignmentTypeOK /\ MirrorAgrees /\ SubscriptionInv)
<1>1. Init => MirrorAgrees
  BY DEF Init, MirrorAgrees
<1> QED BY <1>1, AssignmentTypeInit, AssignmentTypeStep, MirrorStep, SubscriptionInit,
           SubscriptionStep, PTL DEF Spec

(* Between two rebalance callbacks these have told the application exactly  *)
(* the partitions it has, and in a callback the consumer still has, or      *)
(* already has, those it is about: with either protocol, whatever calls     *)
(* the events arrive in, as long as no hazard has happened.                 *)
THEOREM ApplicationKnows == Spec => []CallbacksTellAll
<1>1. AssignmentTypeOK /\ SubscriptionInv => CallbacksTellAll
  BY DEF SubscriptionInv, EventHolds, ToldSoFar, CallbacksTellAll, NoEvent
<1> QED BY <1>1, SubscriptionInvariants, PTL

-----------------------------------------------------------------------------
LEMMA HandInit == Init => HandInv
  BY DEF Init, HandInv, ServedInside, OutOfGroup, LeavingStages, HandHeld, NothingOutstanding,
         NoEvent

LEMMA HandStep == AssignmentTypeOK /\ HandInv /\ [Next]_vars => HandInv'
<1> SUFFICES ASSUME AssignmentTypeOK, HandInv, [Next]_vars, LeftProperly'
             PROVE  (ServedInside /\ OutOfGroup /\ LeavingStages /\ HandHeld)'
  BY DEF HandInv
<1> DEFINE Inv == ServedInside /\ OutOfGroup /\ LeavingStages /\ HandHeld
<1>u. upset \subseteq upset'
  BY DEF Next, subscribe, unassign, unsubscribe, assign, LoopReturns, LoopTimesOut, poll,
         PollReturns, pause, resume, close, CloseReturns, Rebalance, Librdkafka, RevokeEvent,
         AssignEvent, Serve, onRebalance, RebalanceCbReturns, Note, userVars, rkVars, vars
<1>i. ServedInside /\ OutOfGroup /\ LeavingStages /\ HandHeld
  BY <1>u DEF HandInv, LeftProperly
<1>p. "threw" \notin upset' /\ "stale" \notin upset'
  BY DEF LeftProperly
<1>e. /\ event.type \in {"none", "revoke", "assign"} /\ (event.type = "none" <=> event = NoEvent)
      /\ serving.type \in {"none", "revoke", "assign"}
      /\ (serving.type = "none" <=> serving = NoEvent)
      /\ NoEvent.type = "none"
  BY DEF AssignmentTypeOK, Event, NoEvent
<1>h. serving # NoEvent \/ event # NoEvent => userAssignment = {}
  BY <1>i DEF OutOfGroup, HandHeld, NothingOutstanding
<1> USE DEF userVars, rkVars
<1>1. ASSUME NEW topics \in Topics, NEW ok \in BOOLEAN, subscribe(topics, ok)
      PROVE  Inv'
  <2>1. /\ serving = NoEvent /\ topics # NoTopics /\ userAssignment = {} /\ pc = "idle"
        /\ userSubscription' = topics /\ pc' \in {"idle", "subscribe"}
        /\ UNCHANGED <<userAssignment, serving, event>>
    BY <1>1, <1>i, NoTopicsIsNone DEF subscribe, Idle, ServedInside
  <2> QED BY <1>i, <1>e, <2>1 DEF ServedInside, OutOfGroup, LeavingStages, HandHeld
<1>2. ASSUME NEW ok \in BOOLEAN, unassign(ok)
      PROVE  Inv'
  <2>1. ~ok => "refused" \in upset'
    BY <1>2 DEF unassign, Note, Refusal
  <2>2. /\ pc = "idle" /\ userAssignment' = (IF ok THEN {} ELSE userAssignment)
        /\ UNCHANGED <<pc, userSubscription, pendingEvent, serving, rkGroup, event>>
    BY <1>2 DEF unassign, Idle
  <2> QED BY <1>i, <1>e, <2>1, <2>2 DEF ServedInside, OutOfGroup, LeavingStages, HandHeld,
          NothingOutstanding
<1>3. ASSUME NEW ok \in BOOLEAN, unsubscribe(ok)
      PROVE  Inv'
  <2>1. ok /\ event.type # "revoke"
    BY <1>3, <1>p DEF unsubscribe, Note
  <2>2. /\ serving = NoEvent /\ userAssignment = {}
        /\ rkGroup' = "leaving" /\ pendingEvent' = "revoke" /\ pc' = "unsubscribe"
        /\ userSubscription' = NoTopics /\ UNCHANGED <<userAssignment, serving, event>>
    BY <1>3, <1>i, <2>1 DEF unsubscribe, Idle, ServedInside
  <2> QED BY <1>e, <2>1, <2>2 DEF ServedInside, OutOfGroup, LeavingStages, HandHeld
<1>4. ASSUME NEW tps \in SUBSET Partition, NEW ok \in BOOLEAN, assign(tps, ok)
      PROVE  Inv'
  <2>1. /\ pc = "idle" /\ userSubscription = NoTopics /\ userAssignment' = tps
        /\ UNCHANGED <<pc, userSubscription, pendingEvent, serving, rkGroup, event>>
    BY <1>4 DEF assign, Idle, Assignable
  <2>2. "refused" \notin upset' => tps \subseteq rkAssignment'
    <3>1. "refused" \notin upset' => ok
      BY <1>4 DEF assign, Note, Refusal
    <3>2. ok => tps \subseteq rkAssignment'
      BY <1>4 DEF assign, changeAssignment, RkChanged
    <3> QED BY <3>1, <3>2
  <2> QED BY <1>i, <1>e, <2>1, <2>2 DEF ServedInside, OutOfGroup, LeavingStages, HandHeld,
          NothingOutstanding
<1>5. CASE LoopReturns
  BY <1>5, <1>i, <1>e DEF LoopReturns, ServedInside, OutOfGroup, LeavingStages, HandHeld,
          NothingOutstanding
<1>6. CASE LoopTimesOut
  <2>1. pc = "subscribe"
    BY <1>6, <1>p DEF LoopTimesOut, Note
  <2> QED BY <1>6, <1>i, <1>u, <2>1 DEF LoopTimesOut, ServedInside, OutOfGroup, LeavingStages,
          HandHeld, NothingOutstanding
<1>7. CASE poll \/ PollReturns \/ pause \/ resume
  BY <1>7, <1>i, <1>e DEF poll, PollReturns, pause, resume, Idle, ServedInside, OutOfGroup,
          LeavingStages, HandHeld, NothingOutstanding
<1>8. CASE close \/ CloseReturns
  BY <1>8, <1>i, <1>e DEF close, CloseReturns, Idle, ServedInside, OutOfGroup, LeavingStages,
          HandHeld, NothingOutstanding
<1>9. CASE Rebalance
  BY <1>9, <1>i, <1>e DEF Rebalance, ServedInside, OutOfGroup, LeavingStages, HandHeld,
          NothingOutstanding
<1>10. ASSUME NEW S \in SUBSET Partition, RevokeEvent(S) \/ AssignEvent(S)
       PROVE  Inv'
  BY <1>10, <1>i, <1>e DEF RevokeEvent, AssignEvent, ServedInside, OutOfGroup, LeavingStages,
          HandHeld, NothingOutstanding
<1>11. ASSUME NEW ok \in BOOLEAN, onRebalance(ok)
       PROVE  Inv'
  <2>1. /\ event # NoEvent /\ event' = NoEvent /\ serving = NoEvent
        /\ pc \in {"subscribe", "unsubscribe", "poll", "close"}
        /\ pendingEvent' = PendingAfter
        /\ UNCHANGED <<userSubscription, userAssignment, rkGroup>>
    BY <1>11 DEF onRebalance, Polling
  <2>2. userAssignment = {}
    BY <1>h, <2>1
  <2>3. \/ serving' = event /\ pc' = pc
        \/ serving' = NoEvent /\ pc' = "idle" /\ pc # "unsubscribe"
    BY <1>11, <1>p DEF onRebalance, Note, EventRefusal
  <2> QED BY <1>i, <1>e, <2>1, <2>2, <2>3 DEF PendingAfter, ServedInside, OutOfGroup,
          LeavingStages, HandHeld, NothingOutstanding
<1>12. ASSUME NEW ok \in BOOLEAN, RebalanceCbReturns(ok)
       PROVE  Inv'
  <2>1. /\ serving # NoEvent /\ serving' = NoEvent /\ event = NoEvent
        /\ pc \in {"subscribe", "unsubscribe", "poll", "close"}
        /\ UNCHANGED <<userSubscription, userAssignment, pendingEvent, rkGroup, event>>
    BY <1>12, <1>i DEF RebalanceCbReturns, ServedInside
  <2>2. userAssignment = {}
    BY <1>h, <2>1
  <2>3. pc' = pc \/ (pc' = "idle" /\ pc # "unsubscribe")
    BY <1>12, <1>p DEF RebalanceCbReturns, Note, EventRefusal
  <2> QED BY <1>i, <1>e, <2>1, <2>2, <2>3 DEF ServedInside, OutOfGroup, LeavingStages, HandHeld,
          NothingOutstanding
<1>13. CASE UNCHANGED vars
  BY <1>13, <1>i DEF vars, ServedInside, OutOfGroup, LeavingStages, HandHeld, NothingOutstanding
<1> QED BY <1>1, <1>2, <1>3, <1>4, <1>5, <1>6, <1>7, <1>8, <1>9, <1>10, <1>11, <1>12, <1>13
        DEF Next, Librdkafka, Serve

(* Partitions assigned by hand are out of reach of any group, whatever      *)
(* subscriptions came before, whatever librdkafka refused and wherever      *)
(* stray events came in, provided that every unsubscribe() from a           *)
(* subscription returned, and none began with a REVOKE event outstanding;   *)
(* and librdkafka has them all if it has refused nothing.  Without the      *)
(* proviso it is false: a late REVOKE event takes them.                     *)
THEOREM HandAssignmentStays == Spec => []ManualAssignmentKept
<1>1. HandInv => ManualAssignmentKept
  BY DEF HandInv, OutOfGroup, HandHeld, ManualAssignmentKept
<1> QED BY <1>1, AssignmentTypeInit, AssignmentTypeStep, HandInit, HandStep, PTL DEF Spec

-----------------------------------------------------------------------------
(* seek().                                                                  *)
SeekTypeOK ==
    /\ fetchState \in [SeekPartitions -> {"none", "starting", "active"}]
    /\ ops \in [SeekPartitions -> Seq(0..MaxOffset)]
    /\ position \in [SeekPartitions -> 0..MaxOffset]
    /\ seeking \in [tps : SUBSET SeekPartitions, offset : 0..MaxOffset]
    /\ respErr \in {"none", "pending", "NO_ERROR", "STATE", "UNKNOWN_PARTITION",
                    "TIMED_OUT", "OUTDATED"}
    /\ expired \in BOOLEAN
    /\ promised \in [SeekPartitions -> {NoPromise} \cup 0..MaxOffset]
    /\ assignments \in 0..MaxAssignments
    /\ seeking # NoCall => seeking.tps # {}
    /\ respErr # "none" => seeking # NoCall

(* Why SeekTakesEffect holds.  Nothing is left in the queue of a partition  *)
(* where seek() returned; a partition still to be sought carries no         *)
(* promise; the operation rd_kafka_seek() waits for is the last in its      *)
(* queue, so that when it is answered all the earlier attempts have been    *)
(* executed.                                                                *)
PromisesKept ==
    \A p \in SeekPartitions :
        promised[p] # NoPromise => ops[p] = <<>> /\ position[p] = promised[p]

NotPromisedYet == \A p \in seeking.tps : promised[p] = NoPromise

WaitsForTheLast ==
    respErr = "pending" => /\ ops[Sought] # <<>>
                           /\ ops[Sought][Len(ops[Sought])] = seeking.offset

AnsweredIsDone ==
    respErr = "NO_ERROR" => ops[Sought] = <<>> /\ position[Sought] = seeking.offset

SeekInv == PromisesKept /\ NotPromisedYet /\ WaitsForTheLast /\ AnsweredIsDone

-----------------------------------------------------------------------------
(* The partitions of one call have a least one: Sought is one of them.      *)
LEMMA HasLeast ==
    ASSUME NEW T \in SUBSET Nat, T # {}
    PROVE  \E p \in T : \A q \in T : p <= q
<1> DEFINE R == OpToRel(<, Nat)
<1>1. \A x, y \in Nat : <<y, x>> \in R <=> y < x
  BY DEF OpToRel
<1>2. IsWellFoundedOn(R, Nat)
  BY NatLessThanWellFounded, Zenon
<1> HIDE DEF R
<1>3. PICK p \in T : \A q \in T : ~(<<q, p>> \in R)
  BY <1>2, WFMin, Zenon
<1>4. \A q \in T : p <= q
  <2> TAKE q \in T
  <2>1. ~(<<q, p>> \in R) /\ p \in Nat /\ q \in Nat
    BY <1>3
  <2>2. ~(q < p)
    BY <1>1, <2>1, Zenon
  <2> QED BY <2>1, <2>2
<1> QED BY <1>4

LEMMA SoughtIsSeeking ==
    ASSUME SeekTypeOK, ~Free
    PROVE  Sought \in seeking.tps /\ Sought \in SeekPartitions
<1>1. seeking.tps \in SUBSET Nat /\ seeking.tps # {} /\ seeking.tps \subseteq SeekPartitions
  BY SeekConstants DEF SeekTypeOK, Free
<1>2. \E p \in seeking.tps : \A q \in seeking.tps : p <= q
  BY <1>1, HasLeast
<1>3. Sought \in seeking.tps
  BY <1>2, Zenon DEF Sought
<1> QED BY <1>1, <1>3

LEMMA SameSought == UNCHANGED seeking => UNCHANGED Sought
  BY Zenon DEF Sought

-----------------------------------------------------------------------------
(* What the queues are made of.                                             *)
LEMMA WithoutLast ==
    ASSUME NEW S, NEW s \in Seq(S), s # <<>>
    PROVE  SubSeq(s, 1, Len(s) - 1) \in Seq(S)
<1>1. Len(s) - 1 \in Int /\ \A i \in 1..(Len(s) - 1) : s[i] \in S
  BY ElementOfSeq, LenProperties
<1> QED BY <1>1, SubSeqProperties

LEMMA AppendLast ==
    ASSUME NEW S, NEW s \in Seq(S), NEW x \in S
    PROVE  /\ Append(s, x) \in Seq(S)
           /\ Append(s, x) # <<>>
           /\ Append(s, x)[Len(Append(s, x))] = x
  BY AppendProperties

LEMMA TailLast ==
    ASSUME NEW S, NEW s \in Seq(S), s # <<>>
    PROVE  /\ Head(s) \in S /\ Tail(s) \in Seq(S)
           /\ Len(s) = 1 => Tail(s) = <<>> /\ Head(s) = s[Len(s)]
           /\ Len(s) # 1 => Tail(s) # <<>> /\ Tail(s)[Len(Tail(s))] = s[Len(s)]
<1>1. /\ Head(s) \in S /\ Tail(s) \in Seq(S) /\ Len(Tail(s)) = Len(s) - 1
      /\ \A i \in 1..Len(Tail(s)) : Tail(s)[i] = s[i + 1]
  BY HeadTailProperties
<1>2. /\ Len(s) \in Nat \ {0} /\ Len(<<>>) = 0
      /\ Head(s) = s[1]
  <2>1. Len(s) \in Nat \ {0} /\ Len(<<>>) = 0
    BY EmptySeq
  <2>2. Head(s) = s[1]
    OBVIOUS
  <2> QED BY <2>1, <2>2
<1>3. CASE Len(s) = 1
  <2>1. Len(Tail(s)) = 0
    BY <1>1, <1>3
  <2>2. Tail(s) = <<>>
    BY <1>1, <2>1, EmptySeq
  <2> QED BY <1>1, <1>2, <1>3, <2>2
<1>4. CASE Len(s) # 1
  <2>1. Len(Tail(s)) \in Nat \ {0}
    BY <1>1, <1>2, <1>4
  <2>2. Tail(s) # <<>>
    BY <1>2, <2>1
  <2>3. Tail(s)[Len(Tail(s))] = s[Len(Tail(s)) + 1]
    BY <1>1, <2>1
  <2> QED BY <1>1, <1>2, <1>4, <2>2, <2>3
<1> QED BY <1>3, <1>4

-----------------------------------------------------------------------------
LEMMA SeekTypeInit == SeekInit => SeekTypeOK
<1> SUFFICES ASSUME SeekInit PROVE SeekTypeOK
  OBVIOUS
<1>1. <<>> \in Seq(0..MaxOffset)
  BY EmptySeq
<1>2. ops \in [SeekPartitions -> Seq(0..MaxOffset)]
  BY <1>1 DEF SeekInit
<1>3. seeking \in [tps : SUBSET SeekPartitions, offset : 0..MaxOffset]
  BY SeekConstants DEF SeekInit, NoCall
<1>4. expired \in BOOLEAN
  BY DEF SeekInit
<1> QED BY <1>2, <1>3, <1>4, SeekConstants DEF SeekInit, SeekTypeOK

LEMMA SeekTypeStep ==
    ASSUME SeekTypeOK, [SeekNext]_seekVars
    PROVE  SeekTypeOK'
<1> USE SeekConstants DEF rkSeekVars
<1> DEFINE O == Seq(0..MaxOffset)
<1>1. ASSUME NEW tps \in SUBSET SeekPartitions, NEW o \in 0..MaxOffset, tps # {}, seek(tps, o)
      PROVE  SeekTypeOK'
  <2>1. promised' \in [SeekPartitions -> {NoPromise} \cup 0..MaxOffset]
    BY <1>1 DEF seek, SeekTypeOK
  <2>2. /\ seeking' \in [tps : SUBSET SeekPartitions, offset : 0..MaxOffset]
        /\ seeking'.tps # {} /\ respErr' = "none"
    BY <1>1 DEF seek
  <2> QED BY <1>1, <2>1, <2>2 DEF seek, SeekTypeOK
<1>2. CASE CallRkSeek
  <2>1. Sought \in SeekPartitions /\ ~Free
    BY <1>2, SoughtIsSeeking DEF CallRkSeek
  <2>2. ops[Sought] \in O /\ seeking.offset \in 0..MaxOffset
    BY <2>1 DEF SeekTypeOK
  <2>3. Append(ops[Sought], seeking.offset) \in O
    BY <2>2, AppendLast
  <2> HIDE DEF O
  <2>4. ops' \in [SeekPartitions -> O]
    BY <1>2, <2>3 DEF CallRkSeek, SeekTypeOK, O
  <2> QED BY <1>2, <2>1, <2>4 DEF CallRkSeek, SeekTypeOK, O, Free
<1>3. CASE RkSeekTimesOut
  BY <1>3 DEF RkSeekTimesOut, SeekTypeOK
<1>4. CASE RkSeekOutdated
  <2>1. Sought \in SeekPartitions /\ ops[Sought] \in O
    BY <1>4, SoughtIsSeeking DEF RkSeekOutdated, SeekTypeOK, Free
  <2>2. CASE ops[Sought] # <<>>
    <3>1. SubSeq(ops[Sought], 1, Len(ops[Sought]) - 1) \in O
      BY <2>1, <2>2, WithoutLast
    <3> HIDE DEF O
    <3> QED BY <1>4, <2>1, <3>1 DEF RkSeekOutdated, SeekTypeOK, O
  <2>3. CASE ops[Sought] = <<>>
    <3>1. SubSeq(<<>>, 1, Len(<<>>) - 1) = <<>>
      BY EmptySeq, SubSeqEmpty
    <3>2. SubSeq(ops[Sought], 1, Len(ops[Sought]) - 1) \in O
      BY <2>1, <2>3, <3>1
    <3> HIDE DEF O
    <3> QED BY <1>4, <2>1, <3>2 DEF RkSeekOutdated, SeekTypeOK, O
  <2> QED BY <2>2, <2>3
<1>5. ASSUME NEW p \in SeekPartitions, ExecuteSeek(p)
      PROVE  SeekTypeOK'
  <2>1. ops[p] \in O /\ ops[p] # <<>>
    BY <1>5 DEF ExecuteSeek, SeekTypeOK
  <2>2. Head(ops[p]) \in 0..MaxOffset /\ Tail(ops[p]) \in O
    BY <2>1, TailLast
  <2> HIDE DEF O
  <2>3. ops' \in [SeekPartitions -> O] /\ position' \in [SeekPartitions -> 0..MaxOffset]
    BY <1>5, <2>2 DEF ExecuteSeek, SeekTypeOK, O
  <2> QED BY <1>5, <2>3 DEF ExecuteSeek, SeekTypeOK, O
<1>6. CASE RetrySeek
  BY <1>6 DEF RetrySeek, SeekTypeOK
<1>7. CASE SeekDone
  <2>0. NoCall \in [tps : SUBSET SeekPartitions, offset : 0..MaxOffset]
    BY DEF NoCall
  <2>1. Sought \in SeekPartitions /\ Sought \in seeking.tps
    BY <1>7, SoughtIsSeeking DEF SeekDone, IsSuccess, SeekTypeOK, Free
  <2>2. promised' \in [SeekPartitions -> {NoPromise} \cup 0..MaxOffset]
    BY <1>7, <2>1 DEF SeekDone, SeekTypeOK
  <2>3. /\ seeking' \in [tps : SUBSET SeekPartitions, offset : 0..MaxOffset]
        /\ seeking' # NoCall => seeking'.tps # {}
    <3>1. CASE seeking.tps = {Sought}
      BY <1>7, <2>0, <3>1 DEF SeekDone
    <3>2. CASE seeking.tps # {Sought}
      <4>1. /\ seeking \in [tps : SUBSET SeekPartitions, offset : 0..MaxOffset]
            /\ seeking' = [seeking EXCEPT !.tps = @ \ {Sought}]
        BY <1>7, <3>2 DEF SeekDone, SeekTypeOK
      <4>2. /\ seeking' \in [tps : SUBSET SeekPartitions, offset : 0..MaxOffset]
            /\ seeking'.tps = seeking.tps \ {Sought}
        BY <4>1
      <4> QED BY <2>1, <3>2, <4>2
    <3> QED BY <3>1, <3>2
  <2>4. respErr' = "none" /\ expired' = FALSE /\ UNCHANGED rkSeekVars
    BY <1>7 DEF SeekDone
  <2> QED BY <2>2, <2>3, <2>4 DEF SeekTypeOK
<1>8. CASE SeekThrows
  <2>1. NoCall \in [tps : SUBSET SeekPartitions, offset : 0..MaxOffset]
    BY DEF NoCall
  <2> QED BY <1>8, <2>1 DEF SeekThrows, SeekTypeOK
<1>9. CASE SeekExpires
  BY <1>9 DEF SeekExpires, SeekTypeOK
<1>10. ASSUME NEW p \in SeekPartitions, Reassign(p)
       PROVE  SeekTypeOK'
  <2>1. <<>> \in O
    BY EmptySeq
  <2> HIDE DEF O
  <2>2. ops' \in [SeekPartitions -> O]
    BY <1>10, <2>1 DEF Reassign, SeekTypeOK, O
  <2>3. fetchState' \in [SeekPartitions -> {"none", "starting", "active"}]
    BY <1>10 DEF Reassign, SeekTypeOK
  <2> QED BY <1>10, <2>2, <2>3 DEF Reassign, SeekTypeOK, O
<1>11. ASSUME NEW p \in SeekPartitions, Ready(p)
       PROVE  SeekTypeOK'
  BY <1>11 DEF Ready, SeekTypeOK
<1>12. ASSUME NEW p \in SeekPartitions, PollRecord(p)
       PROVE  SeekTypeOK'
  <2>1. position' \in [SeekPartitions -> 0..MaxOffset]
    BY <1>12 DEF PollRecord, SeekTypeOK
  <2> QED BY <1>12, <2>1 DEF PollRecord, SeekTypeOK
<1>13. CASE UNCHANGED seekVars
  BY <1>13 DEF seekVars, SeekTypeOK
<1>14. CASE \E p \in SeekPartitions, o \in 0..MaxOffset : seek({p}, o)
  <2>1. PICK p \in SeekPartitions, o \in 0..MaxOffset : seek({p}, o)
    BY <1>14
  <2>2. {p} \in SUBSET SeekPartitions /\ {p} # {}
    OBVIOUS
  <2> QED BY <1>1, <2>1, <2>2
<1>15. CASE \E tps \in SUBSET SeekPartitions, o \in {0, MaxOffset} : tps # {} /\ seek(tps, o)
  <2>1. 0 \in 0..MaxOffset /\ MaxOffset \in 0..MaxOffset
    OBVIOUS
  <2> QED BY <1>1, <1>15, <2>1
<1> QED
  BY <1>2, <1>3, <1>4, <1>5, <1>6, <1>7, <1>8, <1>9, <1>10, <1>11, <1>12, <1>13, <1>14, <1>15
  DEF SeekNext, SeekStep

(* Whatever the constants are, every variable stays within its type.        *)
THEOREM SeekTypeCorrect == SeekSpec => []SeekTypeOK
<1>1. SeekInit => SeekTypeOK
  BY SeekTypeInit
<1>2. SeekTypeOK /\ [SeekNext]_seekVars => SeekTypeOK'
  BY SeekTypeStep
<1> QED BY <1>1, <1>2, PTL DEF SeekSpec

-----------------------------------------------------------------------------
LEMMA SeekInvInit == SeekInit => SeekInv
  BY DEF SeekInit, SeekInv, PromisesKept, NotPromisedYet, WaitsForTheLast, AnsweredIsDone, NoCall

(* Steps that leave the queues, the positions and the promises as they are, *)
(* and take the call to no answer that says more.                           *)
LEMMA NothingMoves ==
    ASSUME SeekInv, UNCHANGED <<ops, position, promised>>,
           \/ UNCHANGED seeking /\ respErr' \in {respErr, "none", "STATE", "UNKNOWN_PARTITION",
                                                "TIMED_OUT"}
           \/ seeking' = NoCall /\ respErr' = "none"
    PROVE  SeekInv'
<1>1. PromisesKept'
  BY DEF SeekInv, PromisesKept
<1>2. NotPromisedYet'
  BY DEF SeekInv, NotPromisedYet, NoCall
<1>3. CASE UNCHANGED seeking /\ respErr' = respErr
  <2>1. Sought' = Sought
    BY <1>3, SameSought
  <2>2. WaitsForTheLast' /\ AnsweredIsDone'
    BY <1>3, <2>1 DEF SeekInv, WaitsForTheLast, AnsweredIsDone
  <2> QED BY <1>1, <1>2, <2>2 DEF SeekInv
<1>4. CASE respErr' \notin {"pending", "NO_ERROR"}
  BY <1>1, <1>2, <1>4 DEF SeekInv, WaitsForTheLast, AnsweredIsDone
<1> QED BY <1>3, <1>4

LEMMA SeekInvStep ==
    ASSUME SeekTypeOK, SeekInv, [SeekNext]_seekVars
    PROVE  SeekInv'
<1> USE DEF rkSeekVars
<1>1. ASSUME NEW tps \in SUBSET SeekPartitions, NEW o, seek(tps, o)
      PROVE  SeekInv'
  <2>1. PromisesKept' /\ NotPromisedYet'
    BY <1>1 DEF seek, SeekInv, PromisesKept, NotPromisedYet
  <2> QED BY <1>1, <2>1 DEF seek, SeekInv, WaitsForTheLast, AnsweredIsDone
<1>2. CASE CallRkSeek
  <2>1. CASE UNCHANGED ops /\ respErr' \in {"STATE", "UNKNOWN_PARTITION"}
    BY <1>2, <2>1, NothingMoves DEF CallRkSeek
  <2>2. CASE /\ respErr' = "pending"
             /\ ops' = [ops EXCEPT ![Sought] = Append(@, seeking.offset)]
    <3>1. /\ Sought \in SeekPartitions /\ Sought \in seeking.tps /\ Sought' = Sought
          /\ UNCHANGED <<position, promised, seeking>>
      BY <1>2, SoughtIsSeeking, SameSought DEF CallRkSeek
    <3>2. ops[Sought] \in Seq(0..MaxOffset) /\ seeking.offset \in 0..MaxOffset
      BY <3>1 DEF SeekTypeOK
    <3>3. /\ ops'[Sought] # <<>> /\ ops'[Sought][Len(ops'[Sought])] = seeking.offset
      <4>1. ops'[Sought] = Append(ops[Sought], seeking.offset)
        BY <2>2, <3>1 DEF SeekTypeOK
      <4> QED BY <3>2, <4>1, AppendLast
    <3>4. \A p \in SeekPartitions : promised[p] # NoPromise => ops'[p] = ops[p]
      BY <2>2, <3>1 DEF SeekTypeOK, SeekInv, NotPromisedYet
    <3>5. PromisesKept'
      BY <3>1, <3>4 DEF SeekInv, PromisesKept
    <3>6. NotPromisedYet'
      BY <3>1 DEF SeekInv, NotPromisedYet
    <3>7. WaitsForTheLast' /\ AnsweredIsDone'
      BY <2>2, <3>1, <3>3 DEF WaitsForTheLast, AnsweredIsDone
    <3> QED BY <3>5, <3>6, <3>7 DEF SeekInv
  <2> QED BY <1>2, <2>1, <2>2 DEF CallRkSeek
<1>3. CASE RkSeekTimesOut
  BY <1>3, NothingMoves DEF RkSeekTimesOut
<1>4. CASE RkSeekOutdated
  <2>1. /\ Sought \in SeekPartitions /\ Sought \in seeking.tps /\ respErr' = "OUTDATED"
        /\ UNCHANGED <<position, promised, seeking>>
    BY <1>4, SoughtIsSeeking DEF RkSeekOutdated, SeekTypeOK, Free
  <2>2. \A p \in SeekPartitions : promised[p] # NoPromise => ops'[p] = ops[p]
    BY <1>4, <2>1 DEF RkSeekOutdated, SeekTypeOK, SeekInv, NotPromisedYet
  <2>3. PromisesKept'
    BY <2>1, <2>2 DEF SeekInv, PromisesKept
  <2>4. NotPromisedYet'
    BY <2>1 DEF SeekInv, NotPromisedYet
  <2> QED BY <2>1, <2>3, <2>4 DEF SeekInv, WaitsForTheLast, AnsweredIsDone
<1>5. ASSUME NEW p \in SeekPartitions, ExecuteSeek(p)
      PROVE  SeekInv'
  <2>1. /\ ops[p] \in Seq(0..MaxOffset) /\ ops[p] # <<>>
        /\ UNCHANGED <<promised, seeking>>
    BY <1>5 DEF ExecuteSeek, SeekTypeOK
  <2>2. /\ ops'[p] = Tail(ops[p]) /\ position'[p] = Head(ops[p])
        /\ \A q \in SeekPartitions : q # p => ops'[q] = ops[q] /\ position'[q] = position[q]
    BY <1>5 DEF ExecuteSeek, SeekTypeOK
  <2>3. PromisesKept'
    BY <2>1, <2>2 DEF SeekInv, PromisesKept
  <2>4. NotPromisedYet'
    BY <2>1 DEF SeekInv, NotPromisedYet
  <2>5. Sought' = Sought
    BY <2>1, SameSought
  <2>6. respErr # "none" => Sought \in SeekPartitions
    BY SoughtIsSeeking DEF SeekTypeOK, Free
  <2>7. CASE respErr = "pending" /\ p = Sought
    <3>1. ops[p][Len(ops[p])] = seeking.offset
      BY <2>7 DEF SeekInv, WaitsForTheLast
    <3>2. CASE Len(ops[p]) = 1
      <4>1. respErr' = "NO_ERROR" /\ ops'[p] = <<>> /\ position'[p] = seeking.offset
        BY <1>5, <2>1, <2>2, <2>7, <3>1, <3>2, TailLast DEF ExecuteSeek
      <4> QED BY <2>1, <2>3, <2>4, <2>5, <2>7, <4>1 DEF SeekInv, WaitsForTheLast, AnsweredIsDone
    <3>3. CASE Len(ops[p]) # 1
      <4>1. /\ respErr' = "pending" /\ ops'[p] # <<>>
            /\ ops'[p][Len(ops'[p])] = seeking.offset
        BY <1>5, <2>1, <2>2, <2>7, <3>1, <3>3, TailLast DEF ExecuteSeek
      <4> QED BY <2>1, <2>3, <2>4, <2>5, <2>7, <4>1 DEF SeekInv, WaitsForTheLast, AnsweredIsDone
    <3> QED BY <3>2, <3>3
  <2>8. CASE ~(respErr = "pending" /\ p = Sought)
    <3>1. respErr' = respErr
      BY <1>5, <2>8 DEF ExecuteSeek
    <3>2. WaitsForTheLast'
      BY <2>1, <2>2, <2>5, <2>6, <2>8, <3>1 DEF SeekInv, WaitsForTheLast
    <3>3. AnsweredIsDone'
      BY <2>1, <2>2, <2>5, <2>6, <3>1 DEF SeekInv, AnsweredIsDone
    <3> QED BY <2>3, <2>4, <3>2, <3>3 DEF SeekInv
  <2> QED BY <2>7, <2>8
<1>6. CASE RetrySeek
  BY <1>6, NothingMoves DEF RetrySeek
<1>7. CASE SeekDone
  <2>1. /\ Sought \in SeekPartitions /\ Sought \in seeking.tps /\ respErr' = "none"
        /\ UNCHANGED <<ops, position>>
    BY <1>7, SoughtIsSeeking DEF SeekDone, IsSuccess, SeekTypeOK, Free
  <2>2. /\ promised'[Sought] = seeking.offset
        /\ \A p \in SeekPartitions : p # Sought => promised'[p] = promised[p]
    BY <1>7, <2>1 DEF SeekDone, SeekTypeOK
  <2>3. ops[Sought] = <<>> /\ position[Sought] = seeking.offset
    BY <1>7 DEF SeekDone, IsSuccess, SeekInv, AnsweredIsDone
  <2>4. PromisesKept'
    BY <2>1, <2>2, <2>3 DEF SeekInv, PromisesKept
  <2>5. seeking'.tps \subseteq seeking.tps \ {Sought}
    BY <1>7, <2>1 DEF SeekDone, SeekTypeOK, NoCall
  <2>6. NotPromisedYet'
    BY <2>2, <2>5 DEF SeekInv, NotPromisedYet, SeekTypeOK
  <2> QED BY <2>1, <2>4, <2>6 DEF SeekInv, WaitsForTheLast, AnsweredIsDone
<1>8. CASE SeekThrows
  BY <1>8, NothingMoves DEF SeekThrows
<1>9. CASE SeekExpires
  BY <1>9, NothingMoves DEF SeekExpires
<1>10. ASSUME NEW p \in SeekPartitions, Reassign(p)
       PROVE  SeekInv'
  <2>1. /\ seeking' = NoCall /\ respErr' = "none"
    BY <1>10 DEF Reassign, Free, SeekTypeOK
  <2>2. /\ promised'[p] = NoPromise
        /\ \A q \in SeekPartitions : q # p => /\ ops'[q] = ops[q]
                                             /\ position'[q] = position[q]
                                             /\ promised'[q] = promised[q]
    BY <1>10 DEF Reassign, SeekTypeOK
  <2>3. PromisesKept'
    BY <2>2 DEF SeekInv, PromisesKept
  <2> QED BY <2>1, <2>3 DEF SeekInv, NotPromisedYet, WaitsForTheLast, AnsweredIsDone, NoCall
<1>11. ASSUME NEW p \in SeekPartitions, Ready(p)
       PROVE  SeekInv'
  BY <1>11, NothingMoves DEF Ready
<1>12. ASSUME NEW p \in SeekPartitions, PollRecord(p)
       PROVE  SeekInv'
  <2>1. /\ seeking' = NoCall /\ respErr' = "none"
    BY <1>12 DEF PollRecord, Free, SeekTypeOK
  <2>2. /\ promised'[p] = NoPromise /\ UNCHANGED ops
        /\ \A q \in SeekPartitions : q # p => /\ position'[q] = position[q]
                                             /\ promised'[q] = promised[q]
    BY <1>12 DEF PollRecord, SeekTypeOK
  <2>3. PromisesKept'
    BY <2>2 DEF SeekInv, PromisesKept
  <2> QED BY <2>1, <2>3 DEF SeekInv, NotPromisedYet, WaitsForTheLast, AnsweredIsDone, NoCall
<1>13. CASE UNCHANGED seekVars
  BY <1>13, NothingMoves DEF seekVars
<1>14. CASE \E p \in SeekPartitions, o \in 0..MaxOffset : seek({p}, o)
  BY <1>1, <1>14
<1> QED
  BY <1>1, <1>2, <1>3, <1>4, <1>5, <1>6, <1>7, <1>8, <1>9, <1>10, <1>11, <1>12, <1>13, <1>14
  DEF SeekNext, SeekStep

(* Where seek() returned, the next record of the partition is the one at    *)
(* the offset asked for, however many attempts of this call, or of earlier  *)
(* ones that threw, were still in librdkafka's queues.                      *)
THEOREM SeekIsExact == SeekSpec => []SeekTakesEffect
<1>1. SeekInit => SeekInv
  BY SeekInvInit
<1>2. SeekTypeOK /\ SeekInv /\ [SeekNext]_seekVars => SeekInv'
  BY SeekInvStep
<1>3. SeekInv => SeekTakesEffect
  BY DEF SeekInv, PromisesKept, SeekTakesEffect
<1> QED BY <1>1, <1>2, <1>3, SeekTypeCorrect, PTL DEF SeekSpec
=============================================================================
