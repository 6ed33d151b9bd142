------------------------- MODULE SysioDeviceProofs -------------------------
(***************************************************************************)
(* Theorems about SysioDevice for every value of its constants.            *)
(***************************************************************************)
EXTENDS SysioDevice, TLAPS, WellFoundedInduction, FiniteSetTheorems

-----------------------------------------------------------------------------
(* The helpers of the COV code *)

LEMMA LiveSubset == Live \subseteq subs
  BY DEF Live

LEMMA AlarmObjectsSubset == AlarmObjects \subseteq Objects
  BY DEF AlarmObjects

\* What a notification carries is well-formed whatever the subscription monitors.
LEMMA SnapshotType ==
    ASSUME NEW st \in Stores, NEW s \in Subscription
    PROVE  Snapshot(s, st) \in Snapshots
  <1> DEFINE D == {MonitoredProperty(s), "sf"} \cap PropertiesOf(s.obj)
  <1>1. s.obj \in Objects /\ s.monitor \in {"object"} \cup Properties
    BY ConstantsAssumption DEF Subscription
  <1>2. MonitoredProperty(s) \in Properties
    BY <1>1 DEF MonitoredProperty, Properties
  <1>3. "sf" \in D /\ D \subseteq {MonitoredProperty(s), "sf"}
    BY DEF PropertiesOf
  <1>4. D = {"sf"} \/ D = {"pv", "sf"} \/ D = {"es", "sf"} \/ D = {"hl", "sf"} \/ D = {"at", "sf"}
    BY <1>2, <1>3 DEF Properties
  <1>5. st[s.obj] \in [pv : Values, sf : BOOLEAN, es : EventStates, hl : Values,
                       at : [Transitions -> BOOLEAN]]
    BY <1>1 DEF Stores
  <1>6. Snapshot(s, st) = [p \in D |-> st[s.obj][p]]
    BY DEF Snapshot
  <1> HIDE DEF D
  <1>7. CASE D = {"sf"}
    BY <1>5, <1>6, <1>7 DEF Snapshots
  <1>8. CASE D = {"pv", "sf"}
    BY <1>5, <1>6, <1>8 DEF Snapshots
  <1>9. CASE D = {"es", "sf"}
    BY <1>5, <1>6, <1>9 DEF Snapshots
  <1>10. CASE D = {"hl", "sf"}
    BY <1>5, <1>6, <1>10 DEF Snapshots
  <1>11. CASE D = {"at", "sf"}
    BY <1>5, <1>6, <1>11 DEF Snapshots
  <1>12. QED
    BY <1>4, <1>7, <1>8, <1>9, <1>10, <1>11

LEMMA CovNotificationType ==
    ASSUME NEW st \in Stores, NEW s \in Subscription
    PROVE  CovNotification(s, st) \in Notification
  <1>1. TimeRemaining(s) \in Nat
    BY ConstantsAssumption DEF TimeRemaining, Subscription
  <1>2. QED
    BY <1>1, SnapshotType DEF CovNotification, Notification, Subscription

LEMMA NotificationsType ==
    ASSUME NEW st \in Stores, NEW o, NEW p, subs \subseteq Subscription
    PROVE  Notifications(o, p, st) \subseteq Notification
  BY CovNotificationType, LiveSubset DEF Notifications

LEMMA EnqueueType ==
    ASSUME NEW q \in Seq((SUBSET Notification) \ {{}}), NEW batch \in SUBSET Notification
    PROVE  Enqueue(q, batch) \in Seq((SUBSET Notification) \ {{}})
  BY DEF Enqueue

\* A set of priorities has a highest one, which is the smallest number.
LEMMA SmallestPriority ==
    ASSUME NEW set \in SUBSET Nat, set # {}
    PROVE  \E p \in set : \A q \in set : p <= q
  <1>1. PICK p \in set : \A q \in set : ~(<<q, p>> \in OpToRel(<, Nat))
    BY NatLessThanWellFounded, WFMin
  <1>2. \A q \in set : ~(q < p)
    BY <1>1 DEF OpToRel
  <1>3. QED
    BY <1>2

LEMMA CommandedType ==
    ASSUME NEW slots \in [Priorities -> Values \cup {Null}]
    PROVE  Commanded(slots) \in Values
  <1> DEFINE set == {p \in Priorities : slots[p] # Null}
  <1>1. CASE set = {}
    BY <1>1, ConstantsAssumption DEF Commanded
  <1>2. CASE set # {}
    <2>1. \E p \in set : \A q \in set : p <= q
      BY <1>2, ConstantsAssumption, SmallestPriority
    <2>2. (CHOOSE p \in set : \A q \in set : p <= q) \in set
      BY <2>1
    <2>3. QED
      BY <1>2, <2>2 DEF Commanded
  <1>3. QED
    BY <1>1, <1>2

-----------------------------------------------------------------------------
(* The helpers of the alarm code *)

LEMMA AlarmAfterType ==
    ASSUME NEW o \in AlarmObjects, alarm \in [AlarmObjects -> AlarmStates], NEW next \in EventStates
    PROVE  AlarmAfter(o, next) \in AlarmStates
  BY DEF AlarmAfter, AlarmStates, TransitionTo, EventStates, Transitions

LEMMA EvaluatedStateType ==
    ASSUME NEW st, NEW o PROVE EvaluatedState(st, o) \in EventStates
  BY DEF EvaluatedState, EventStates

\* The three storage writes of a transition keep the storage well-formed.
LEMMA TransitionStores ==
    ASSUME NEW st \in Stores, NEW o \in Objects, NEW a \in AlarmStates
    PROVE  /\ WithEventState(st, o, a) \in Stores
           /\ WithStatusFlags(st, o, a) \in Stores
           /\ WithAcked(st, o, a) \in Stores
  <1>1. WithEventState(st, o, a) \in Stores
    BY DEF WithEventState, Stores, AlarmStates
  <1>2. WithStatusFlags(st, o, a) \in Stores
    BY <1>1 DEF WithStatusFlags, Stores, AlarmStates
  <1>3. WithAcked(st, o, a) \in Stores
    BY <1>2 DEF WithAcked, Stores, AlarmStates
  <1>4. QED
    BY <1>1, <1>2, <1>3

LEMMA QueueTransitionType ==
    ASSUME NEW q \in Seq((SUBSET Notification) \ {{}}), NEW st \in Stores, NEW o \in AlarmObjects,
           NEW a \in AlarmStates, NEW c \in Clients,
           subs \subseteq Subscription, alarm \in [AlarmObjects -> AlarmStates]
    PROVE  QueueTransition(q, st, o, a, c) \in Seq((SUBSET Notification) \ {{}})
  <1> DEFINE Queues == Seq((SUBSET Notification) \ {{}})
             ev == EventNotification(c, o, alarm[o].state, a.state)
             n1 == Notifications(o, "es", WithEventState(st, o, a))
             n2 == Notifications(o, "sf", WithStatusFlags(st, o, a))
             n3 == Notifications(o, "at", WithAcked(st, o, a))
             n5 == Notifications(o, "pv", WithAcked(st, o, a))
             q1 == Enqueue(q, n1)
             q2 == Enqueue(q1, n2)
             q3 == Enqueue(q2, n3)
             q4 == Enqueue(q3, {ev})
  <1>1. n1 \in SUBSET Notification /\ n2 \in SUBSET Notification
        /\ n3 \in SUBSET Notification /\ n5 \in SUBSET Notification
    BY AlarmObjectsSubset, TransitionStores, NotificationsType
  <1>2. {ev} \in SUBSET Notification
    BY AlarmObjectsSubset DEF EventNotification, Notification, AlarmStates
  <1>3. QueueTransition(q, st, o, a, c) = Enqueue(q4, n5)
    BY DEF QueueTransition
  <1> HIDE DEF n1, n2, n3, n5, ev
  <1>4. q1 \in Queues
    BY <1>1, EnqueueType
  <1>5. q2 \in Queues
    BY <1>1, <1>4, EnqueueType
  <1>6. q3 \in Queues
    BY <1>1, <1>5, EnqueueType
  <1>7. q4 \in Queues
    BY <1>2, <1>6, EnqueueType
  <1>8. QED
    BY <1>1, <1>3, <1>7, EnqueueType

LEMMA EnqueueLength ==
    ASSUME NEW q \in Seq((SUBSET Notification) \ {{}}), NEW batch \in SUBSET Notification
    PROVE  Len(Enqueue(q, batch)) \in Nat /\ Len(Enqueue(q, batch)) >= Len(q)
  BY DEF Enqueue

LEMMA QueueTransitionLength ==
    ASSUME NEW q \in Seq((SUBSET Notification) \ {{}}), NEW st \in Stores, NEW o \in AlarmObjects,
           NEW a \in AlarmStates, NEW c \in Clients,
           subs \subseteq Subscription, alarm \in [AlarmObjects -> AlarmStates]
    PROVE  Len(QueueTransition(q, st, o, a, c)) \in Nat /\ Len(QueueTransition(q, st, o, a, c)) >= Len(q)
  <1> DEFINE Queues == Seq((SUBSET Notification) \ {{}})
             ev == EventNotification(c, o, alarm[o].state, a.state)
             n1 == Notifications(o, "es", WithEventState(st, o, a))
             n2 == Notifications(o, "sf", WithStatusFlags(st, o, a))
             n3 == Notifications(o, "at", WithAcked(st, o, a))
             n5 == Notifications(o, "pv", WithAcked(st, o, a))
             q1 == Enqueue(q, n1)
             q2 == Enqueue(q1, n2)
             q3 == Enqueue(q2, n3)
             q4 == Enqueue(q3, {ev})
  <1>1. n1 \in SUBSET Notification /\ n2 \in SUBSET Notification
        /\ n3 \in SUBSET Notification /\ n5 \in SUBSET Notification
    BY AlarmObjectsSubset, TransitionStores, NotificationsType
  <1>2. {ev} \in SUBSET Notification
    BY AlarmObjectsSubset DEF EventNotification, Notification, AlarmStates
  <1>3. QueueTransition(q, st, o, a, c) = Enqueue(q4, n5)
    BY DEF QueueTransition
  <1> HIDE DEF n1, n2, n3, n5, ev
  <1>4. q1 \in Queues /\ Len(q1) \in Nat /\ Len(q1) >= Len(q)
    BY <1>1, EnqueueType, EnqueueLength
  <1>5. q2 \in Queues /\ Len(q2) \in Nat /\ Len(q2) >= Len(q1)
    BY <1>1, <1>4, EnqueueType, EnqueueLength
  <1>6. q3 \in Queues /\ Len(q3) \in Nat /\ Len(q3) >= Len(q2)
    BY <1>1, <1>5, EnqueueType, EnqueueLength
  <1>7. q4 \in Queues /\ Len(q4) \in Nat /\ Len(q4) >= Len(q3)
    BY <1>2, <1>6, EnqueueType, EnqueueLength
  <1>8. Len(Enqueue(q4, n5)) \in Nat /\ Len(Enqueue(q4, n5)) >= Len(q4)
    BY <1>1, <1>7, EnqueueLength
  <1> HIDE DEF q1, q2, q3, q4
  <1>9. Len(q) \in Nat
    OBVIOUS
  <1>10. QED
    BY <1>3, <1>4, <1>5, <1>6, <1>7, <1>8, <1>9

\* A change of Present_Value leaves storage, alarm and queue well-formed, and
\* takes nothing out of the queue.
LEMMA PresentValueChangedType ==
    ASSUME TypeOK, NEW st \in Stores, NEW o \in Objects, NEW c \in Clients,
           PresentValueChanged(st, o, c)
    PROVE  /\ alarm' \in [AlarmObjects -> AlarmStates]
           /\ store' \in Stores
           /\ queue' \in Seq((SUBSET Notification) \ {{}})
           /\ Len(queue') \in Nat /\ Len(queue') >= Len(queue)
  <1> DEFINE a == AlarmAfter(o, EvaluatedState(st, o))
  <1>1. CASE IsTransition(st, o)
    <2>1. o \in AlarmObjects
      BY <1>1 DEF IsTransition
    <2>2. a \in AlarmStates
      BY <2>1, AlarmAfterType, EvaluatedStateType DEF TypeOK
    <2>3. alarm' = [alarm EXCEPT ![o] = a] /\ store' = WithAcked(st, o, a)
          /\ queue' = QueueTransition(queue, st, o, a, c)
      BY <1>1 DEF PresentValueChanged
    <2> HIDE DEF a
    <2>4. alarm' \in [AlarmObjects -> AlarmStates]
      BY <2>2, <2>3 DEF TypeOK
    <2>5. QED
      BY <2>1, <2>2, <2>3, <2>4, TransitionStores, QueueTransitionType, QueueTransitionLength DEF TypeOK
  <1>2. CASE ~IsTransition(st, o)
    <2>1. store' = st /\ alarm' = alarm /\ queue' = Enqueue(queue, Notifications(o, "pv", st))
      BY <1>2 DEF PresentValueChanged
    <2>2. Notifications(o, "pv", st) \in SUBSET Notification
      BY NotificationsType DEF TypeOK
    <2>3. QED
      BY <2>1, <2>2, EnqueueType, EnqueueLength DEF TypeOK
  <1>3. QED
    BY <1>1, <1>2

-----------------------------------------------------------------------------
(* Type correctness *)

LEMMA TypeInit == Init => TypeOK
  <1> SUFFICES ASSUME Init PROVE TypeOK
    OBVIOUS
  <1>1. store \in Stores
    BY ConstantsAssumption DEF Init, Stores, EventStates, Transitions
  <1>2. commands \in [Objects -> [Priorities -> Values \cup {Null}]]
    BY DEF Init
  <1>3. alarm \in [AlarmObjects -> AlarmStates]
    BY DEF Init, AlarmStates, EventStates, Transitions
  <1>4. told \in [Keys -> Snapshots \cup {Null}]
    BY DEF Init
  <1>5. queue \in Seq((SUBSET Notification) \ {{}}) /\ subs \subseteq Subscription
    BY DEF Init
  <1>6. QED
    BY <1>1, <1>2, <1>3, <1>4, <1>5 DEF Init, TypeOK

LEMMA TypeWrites ==
    ASSUME TypeOK, NEW w \in WriteRequest, PerformWrite(w) \/ RefuseWrite(w)
    PROVE  TypeOK'
  <1>1. CASE PerformWrite(w)
    <2>1. w.obj \in Objects /\ w.prio \in Priorities /\ w.val \in Values \cup {Null}
          /\ (w.prop = "hl" => w.val \in Values)
      BY <1>1 DEF PerformWrite, Accepts, WriteRequest
    <2>2. caller \in Clients /\ stage = "writing"
      BY <1>1 DEF PerformWrite, ContinueWrite, TypeOK
    <2>3. /\ commands' \in [Objects -> [Priorities -> Values \cup {Null}]]
          /\ alarm' \in [AlarmObjects -> AlarmStates]
          /\ store' \in Stores
          /\ queue' \in Seq((SUBSET Notification) \ {{}})
          /\ Len(queue') \in Nat /\ Len(queue') >= Len(queue)
      <3>1. CASE w.prop = "pv" /\ WritePresentValue(w.obj, w.val, w.prio)
        <4> DEFINE slots == [commands[w.obj] EXCEPT ![w.prio] = w.val]
                   st    == [store EXCEPT ![w.obj]["pv"] = Commanded(slots)]
        <4>1. commands' = [commands EXCEPT ![w.obj] = slots] /\ PresentValueChanged(st, w.obj, caller)
          BY <3>1 DEF WritePresentValue
        <4>2. slots \in [Priorities -> Values \cup {Null}]
          BY <2>1 DEF TypeOK
        <4>3. Commanded(slots) \in Values
          BY <4>2, CommandedType
        <4> HIDE DEF slots
        <4>4. st \in Stores
          BY <2>1, <4>3 DEF TypeOK, Stores
        <4> HIDE DEF st
        <4>5. QED
          BY <2>1, <2>2, <4>1, <4>2, <4>4, PresentValueChangedType DEF TypeOK
      <3>2. CASE w.prop = "hl" /\ WriteHighLimit(w.obj, w.val)
        <4> DEFINE st == [store EXCEPT ![w.obj]["hl"] = w.val]
        <4>1. store' = st /\ queue' = Enqueue(queue, Notifications(w.obj, "hl", st))
              /\ commands' = commands /\ alarm' = alarm
          BY <3>2 DEF WriteHighLimit
        <4>2. st \in Stores
          BY <2>1, <3>2 DEF TypeOK, Stores
        <4> HIDE DEF st
        <4>3. Notifications(w.obj, "hl", st) \in SUBSET Notification
          BY <4>2, NotificationsType DEF TypeOK
        <4>4. QED
          BY <4>1, <4>2, <4>3, EnqueueType, EnqueueLength DEF TypeOK
      <3>3. QED
        BY <1>1, <3>1, <3>2 DEF PerformWrite
    <2>4. subs' \subseteq Subscription
      BY <1>1, LiveSubset DEF PerformWrite, TypeOK
    <2>5. written' \in Nat /\ fresh' \in Nat
      <3>1. Len(queue) \in Nat /\ written \in Nat /\ fresh \in Nat
        BY DEF TypeOK
      <3>2. written' = written + 1 /\ fresh' = fresh + Len(queue') - Len(queue)
        BY <1>1 DEF PerformWrite
      <3>3. QED
        BY <2>3, <3>1, <3>2
    <2>6. UNCHANGED <<notifier, told, emitted, stage, caller, initial>>
      BY <1>1 DEF PerformWrite
    <2>7. QED
      BY <2>2, <2>3, <2>4, <2>5, <2>6 DEF TypeOK, Keys
  <1>2. CASE RefuseWrite(w)
    BY <1>2 DEF RefuseWrite, TypeOK, ContinueWrite, Keys
  <1>3. QED
    BY <1>1, <1>2

LEMMA TypeSubscriptions ==
    ASSUME TypeOK, NEW c \in Clients, NEW pid \in ProcessIds, NEW o \in Objects, NEW m \in Monitors,
           \/ CancelSubscription(c, pid, o, m)
           \/ \E confirmed \in BOOLEAN, life \in Lifetimes : Subscribe(c, pid, o, m, confirmed, life)
    PROVE  TypeOK'
  <1>1. CASE CancelSubscription(c, pid, o, m)
    <2>1. subs' \subseteq Subscription
      BY <1>1, LiveSubset DEF CancelSubscription, TypeOK
    <2>2. QED
      BY <1>1, <2>1 DEF CancelSubscription, TypeOK, handlerVars, Keys
  <1>2. ASSUME NEW confirmed \in BOOLEAN, NEW life \in Lifetimes, Subscribe(c, pid, o, m, confirmed, life)
        PROVE  TypeOK'
    <2> DEFINE s == [addr |-> c, pid |-> pid, obj |-> o, monitor |-> m,
                     confirmed |-> confirmed, life |-> life, left |-> life]
    <2>1. s \in Subscription
      BY ConstantsAssumption DEF Subscription
    <2>2. subs' = (Live \ Existing(c, pid, o, m)) \cup {s} /\ initial' = s /\ stage' = "initial"
          /\ UNCHANGED <<store, commands, alarm, queue, notifier, told, emitted, caller, written, fresh>>
      BY <1>2 DEF Subscribe
    <2> HIDE DEF s
    <2>3. subs' \subseteq Subscription
      BY <2>1, <2>2, LiveSubset DEF TypeOK
    <2>4. QED
      BY <2>1, <2>2, <2>3 DEF TypeOK, Keys
  <1>3. QED
    BY <1>1, <1>2

LEMMA TypeQueueInitial == ASSUME TypeOK, QueueInitial PROVE TypeOK'
  <1>1. initial \in Subscription
    BY DEF QueueInitial, TypeOK
  <1>2. {CovNotification(initial, store)} \in SUBSET Notification
    BY <1>1, CovNotificationType DEF TypeOK
  <1>3. queue' \in Seq((SUBSET Notification) \ {{}})
    BY <1>2, EnqueueType DEF QueueInitial, TypeOK
  <1>4. QED
    BY <1>3 DEF QueueInitial, TypeOK, Keys

LEMMA TypeAcknowledge ==
    ASSUME TypeOK, NEW o \in Objects, NEW state \in EventStates, NEW stamped \in BOOLEAN,
           AcknowledgeAlarm(o, state, stamped)
    PROVE  TypeOK'
  <1> DEFINE acked == [alarm[o].acked EXCEPT ![TransitionTo(state)] = TRUE]
             st    == [store EXCEPT ![o]["at"] = acked]
  <1>1. o \in AlarmObjects
    BY DEF AcknowledgeAlarm, Acknowledgeable
  <1>2. acked \in [Transitions -> BOOLEAN]
    BY <1>1 DEF TypeOK, AlarmStates
  <1>3. /\ alarm' = [alarm EXCEPT ![o].acked = acked] /\ store' = st
        /\ queue' = Enqueue(queue, Notifications(o, "at", st)) /\ subs' = Live
        /\ stage' = "replying" /\ fresh' = Len(queue') - Len(queue)
        /\ stage = "free"
        /\ UNCHANGED <<commands, notifier, told, emitted, caller, written, initial>>
    BY DEF AcknowledgeAlarm
  <1> HIDE DEF acked
  <1>4. alarm' \in [AlarmObjects -> AlarmStates]
    BY <1>2, <1>3 DEF TypeOK, AlarmStates
  <1>5. st \in Stores
    BY <1>2 DEF TypeOK, Stores
  <1> HIDE DEF st
  <1>6. Notifications(o, "at", st) \in SUBSET Notification
    BY <1>5, NotificationsType DEF TypeOK
  <1>7. queue' \in Seq((SUBSET Notification) \ {{}}) /\ Len(queue') \in Nat /\ Len(queue') >= Len(queue)
    BY <1>3, <1>6, EnqueueType, EnqueueLength DEF TypeOK
  <1>8. fresh' \in Nat
    <2>1. Len(queue) \in Nat
      BY DEF TypeOK
    <2>2. QED
      BY <1>3, <1>7, <2>1
  <1>9. subs' \subseteq Subscription
    BY <1>3, LiveSubset DEF TypeOK
  <1>10. QED
    BY <1>3, <1>4, <1>5, <1>7, <1>8, <1>9 DEF TypeOK, Keys

LEMMA TypeFirstRead == ASSUME TypeOK, NEW c \in Clients, FirstReadProperty(c) PROVE TypeOK'
  <1>1. EventTarget \in Objects \cup {Unknown}
    BY DEF EventTarget
  <1>2. {EventNotification(c, EventTarget, "normal", "high")} \in SUBSET Notification
    BY <1>1 DEF EventNotification, Notification, EventStates
  <1>3. queue' \in Seq((SUBSET Notification) \ {{}})
    BY <1>2, EnqueueType DEF FirstReadProperty, TypeOK
  <1>4. QED
    BY <1>3 DEF FirstReadProperty, TypeOK, handlerVars, Keys

LEMMA TypeNotifier ==
    ASSUME TypeOK, queue # <<>>, NEW n \in Head(queue), NotifierSend(n)
    PROVE  TypeOK'
  <1> DEFINE Batches == (SUBSET Notification) \ {{}}
  <1>1. queue \in Seq(Batches) /\ Len(queue) \in Nat /\ Len(queue) > 0
    BY DEF TypeOK
  <1>2. Head(queue) \in Batches /\ Head(queue) = queue[1] /\ n \in Notification
    BY <1>1 DEF TypeOK
  <1>3. queue' \in Seq(Batches)
    <2>1. CASE Head(queue) = {n}
      BY <1>1, <2>1 DEF NotifierSend
    <2>2. CASE Head(queue) # {n}
      <3>1. Head(queue) \ {n} \in Batches
        BY <1>2, <2>2
      <3>2. queue' = [queue EXCEPT ![1] = Head(queue) \ {n}]
        BY <1>2, <2>2 DEF NotifierSend
      <3>3. QED
        BY <1>1, <3>1, <3>2
    <2>3. QED
      BY <2>1, <2>2
  <1>4. told' \in [Keys -> Snapshots \cup {Null}]
    <2>1. CASE n.kind = "cov"
      <3>1. NotifiedKey(n) \in Keys /\ n.values \in Snapshots
        BY <1>2, <2>1 DEF Notification, NotifiedKey, Keys
      <3>2. told' = [told EXCEPT ![NotifiedKey(n)] = n.values]
        BY <2>1 DEF NotifierSend
      <3>3. QED
        BY <3>1, <3>2 DEF TypeOK
    <2>2. CASE n.kind # "cov"
      BY <2>2 DEF NotifierSend, TypeOK
    <2>3. QED
      BY <2>1, <2>2
  <1>5. notifier' \in {"idle", "waiting"}
        /\ UNCHANGED <<store, commands, alarm, subs, emitted, stage, caller, written, fresh, initial>>
    BY DEF NotifierSend, handlerVars
  <1>6. QED
    BY <1>3, <1>4, <1>5 DEF TypeOK

LEMMA TypeTick == ASSUME TypeOK, Tick PROVE TypeOK'
  <1>1. ASSUME NEW s \in subs
        PROVE  [s EXCEPT !.left = IF @ > 0 THEN @ - 1 ELSE 0] \in Subscription
    <2>1. s \in Subscription /\ s.left \in Nat
      BY DEF TypeOK, Subscription
    <2>2. (IF s.left > 0 THEN s.left - 1 ELSE 0) \in Nat
      BY <2>1
    <2>3. QED
      BY <2>1, <2>2 DEF Subscription
  <1>2. subs' \subseteq Subscription
    BY <1>1 DEF Tick
  <1>3. QED
    BY <1>2 DEF Tick, TypeOK, handlerVars, Keys

\* The server's state is well-formed in every reachable state: a queued
\* notification, the value a subscriber holds and the stored values are always
\* of the shape the handlers, the notifier thread and the alarm code rely on.
THEOREM TypeCorrect == Spec => []TypeOK
  <1>1. Init => TypeOK
    BY TypeInit
  <1>2. TypeOK /\ [Next]_vars => TypeOK'
    <2> SUFFICES ASSUME TypeOK, [Next]_vars PROVE TypeOK'
      OBVIOUS
    <2>1. ASSUME NEW c \in Clients, BeginWrite(c) PROVE TypeOK'
      BY <2>1 DEF BeginWrite, TypeOK, Keys
    <2>2. ASSUME NEW c \in Clients, FirstReadProperty(c) PROVE TypeOK'
      BY <2>2, TypeFirstRead
    <2>3. ASSUME NEW o \in Objects \cup {Unknown}, NEW m \in Monitors, RefuseSubscription(o, m) PROVE TypeOK'
      BY <2>3, LiveSubset DEF RefuseSubscription, TypeOK, handlerVars, Keys
    <2>4. ASSUME NEW c \in Clients, NEW pid \in ProcessIds, NEW o \in Objects, NEW m \in Monitors,
                 \/ CancelSubscription(c, pid, o, m)
                 \/ \E confirmed \in BOOLEAN, life \in Lifetimes : Subscribe(c, pid, o, m, confirmed, life)
          PROVE  TypeOK'
      BY <2>4, TypeSubscriptions
    <2>5. ASSUME NEW o \in Objects, NEW state \in EventStates, NEW stamped \in BOOLEAN,
                 AcknowledgeAlarm(o, state, stamped)
          PROVE  TypeOK'
      BY <2>5, TypeAcknowledge
    <2>6. CASE WriteStep
      BY <2>6, TypeWrites DEF WriteStep
    <2>7. CASE Reply
      BY <2>7 DEF Reply, TypeOK, Keys
    <2>8. CASE QueueInitial
      BY <2>8, TypeQueueInitial
    <2>9. CASE Notify
      BY <2>9, TypeNotifier DEF Notify
    <2>10. CASE NotifierResume
      BY <2>10 DEF NotifierResume, TypeOK, handlerVars, Keys
    <2>11. CASE Tick
      BY <2>11, TypeTick
    <2>12. CASE UNCHANGED vars
      BY <2>12 DEF vars, handlerVars, TypeOK, Keys
    <2>13. QED
      BY <2>1, <2>2, <2>3, <2>4, <2>5, <2>6, <2>7, <2>8, <2>9, <2>10, <2>11, <2>12 DEF Next, ClientRequest
  <1>3. QED
    BY <1>1, <1>2, PTL DEF Spec

-----------------------------------------------------------------------------
(* The subscription table *)

\* Every handler that touches the table removes the expired subscriptions; only
\* Subscribe adds one, and only time changes one.
LEMMA TableSteps ==
    ASSUME [Next]_vars
    PROVE  \/ subs' \subseteq subs
           \/ \E c \in Clients, pid \in ProcessIds, o \in Objects, m \in Monitors,
                 confirmed \in BOOLEAN, life \in Lifetimes : Subscribe(c, pid, o, m, confirmed, life)
           \/ Tick
  <1>1. CASE \E c \in Clients : BeginWrite(c) \/ FirstReadProperty(c)
    BY <1>1 DEF BeginWrite, FirstReadProperty
  <1>2. CASE \E o \in Objects \cup {Unknown}, m \in Monitors : RefuseSubscription(o, m)
    BY <1>2, LiveSubset DEF RefuseSubscription
  <1>3. CASE \E c \in Clients, pid \in ProcessIds, o \in Objects, m \in Monitors : CancelSubscription(c, pid, o, m)
    BY <1>3, LiveSubset DEF CancelSubscription
  <1>4. CASE \E o \in Objects, state \in EventStates, stamped \in BOOLEAN : AcknowledgeAlarm(o, state, stamped)
    BY <1>4, LiveSubset DEF AcknowledgeAlarm
  <1>5. CASE WriteStep
    BY <1>5, LiveSubset DEF WriteStep, PerformWrite, RefuseWrite
  <1>6. CASE Reply \/ QueueInitial \/ NotifierResume \/ UNCHANGED vars
    BY <1>6 DEF Reply, QueueInitial, NotifierResume, vars
  <1>7. CASE Notify
    BY <1>7 DEF Notify, NotifierSend
  <1>8. QED
    BY <1>1, <1>2, <1>3, <1>4, <1>5, <1>6, <1>7 DEF Next, ClientRequest

\* No change is ever notified twice to one subscriber: the subscription table
\* has at most one entry for a client, process identifier, object and monitored
\* property, through every renewal, cancellation, expiry and clock tick.
THEOREM UniqueSubscriptions == Spec => []OneSubscriptionPerKey
  <1>1. Init => OneSubscriptionPerKey
    BY DEF Init, OneSubscriptionPerKey
  <1>2. TypeOK /\ OneSubscriptionPerKey /\ [Next]_vars => OneSubscriptionPerKey'
    <2> SUFFICES ASSUME TypeOK, OneSubscriptionPerKey, [Next]_vars PROVE OneSubscriptionPerKey'
      OBVIOUS
    <2>1. CASE subs' \subseteq subs
      BY <2>1 DEF OneSubscriptionPerKey, KeyOf
    <2>2. ASSUME NEW c \in Clients, NEW pid \in ProcessIds, NEW o \in Objects, NEW m \in Monitors,
                 NEW confirmed \in BOOLEAN, NEW life \in Lifetimes, Subscribe(c, pid, o, m, confirmed, life)
          PROVE  OneSubscriptionPerKey'
      <3> DEFINE s == [addr |-> c, pid |-> pid, obj |-> o, monitor |-> m,
                       confirmed |-> confirmed, life |-> life, left |-> life]
      <3>1. subs' = (Live \ Existing(c, pid, o, m)) \cup {s}
        BY <2>2 DEF Subscribe
      <3>2. KeyOf(s) = <<c, pid, o, m>>
        BY DEF KeyOf
      <3>3. \A t \in Live \ Existing(c, pid, o, m) : t \in subs /\ KeyOf(t) # KeyOf(s)
        BY <3>2, LiveSubset DEF Existing
      <3> HIDE DEF s
      <3>4. QED
        BY <3>1, <3>3 DEF OneSubscriptionPerKey, KeyOf
    <2>3. CASE Tick
      <3> DEFINE aged(s) == [s EXCEPT !.left = IF @ > 0 THEN @ - 1 ELSE 0]
      <3>1. subs' = {aged(s) : s \in subs}
        BY <2>3 DEF Tick
      <3>2. \A s \in subs : KeyOf(aged(s)) = KeyOf(s)
        BY DEF KeyOf, TypeOK, Subscription
      <3> HIDE DEF aged
      <3>3. ASSUME NEW s \in subs', NEW t \in subs', KeyOf(s) = KeyOf(t) PROVE s = t
        BY <3>1, <3>2, <3>3 DEF OneSubscriptionPerKey
      <3>4. QED
        BY <3>3 DEF OneSubscriptionPerKey, KeyOf
    <2>4. QED
      BY <2>1, <2>2, <2>3, TableSteps
  <1>3. QED
    BY <1>1, <1>2, TypeCorrect, PTL DEF Spec

-----------------------------------------------------------------------------
(* The alarm and the storage *)

\* Only a write or an acknowledgement touches an alarm or the storage.
LEMMA StorageSteps ==
    ASSUME [Next]_vars
    PROVE  \/ UNCHANGED <<store, alarm>>
           \/ \E w \in WriteRequest : PerformWrite(w)
           \/ \E o \in Objects, state \in EventStates, stamped \in BOOLEAN : AcknowledgeAlarm(o, state, stamped)
  <1>1. CASE \E c \in Clients : BeginWrite(c) \/ FirstReadProperty(c)
    BY <1>1 DEF BeginWrite, FirstReadProperty
  <1>2. CASE \E o \in Objects \cup {Unknown}, m \in Monitors : RefuseSubscription(o, m)
    BY <1>2 DEF RefuseSubscription
  <1>3. CASE \E c \in Clients, pid \in ProcessIds, o \in Objects, m \in Monitors :
                 \/ CancelSubscription(c, pid, o, m)
                 \/ \E confirmed \in BOOLEAN, life \in Lifetimes : Subscribe(c, pid, o, m, confirmed, life)
    BY <1>3 DEF CancelSubscription, Subscribe
  <1>4. CASE WriteStep
    BY <1>4 DEF WriteStep, RefuseWrite
  <1>5. CASE Reply \/ QueueInitial \/ NotifierResume \/ UNCHANGED vars
    BY <1>5 DEF Reply, QueueInitial, NotifierResume, vars
  <1>6. CASE Notify
    BY <1>6 DEF Notify, NotifierSend
  <1>7. CASE Tick
    BY <1>7 DEF Tick
  <1>8. QED
    BY <1>1, <1>2, <1>3, <1>4, <1>5, <1>6, <1>7 DEF Next, ClientRequest

\* What performing a write does to the storage, the alarms and the queue: the alarm
\* of the object is left alone, or evaluated anew together with the storage.
LEMMA WriteEffect ==
    ASSUME TypeOK, NEW w \in WriteRequest, PerformWrite(w)
    PROVE  /\ w.obj \in Objects
           /\ \E st \in Stores :
                 /\ \A o \in Objects : o # w.obj => st[o] = store[o]
                 /\ st[w.obj].es = store[w.obj].es /\ st[w.obj].sf = store[w.obj].sf
                 /\ st[w.obj].at = store[w.obj].at
                 /\ \/ w.prop = "hl" /\ st[w.obj].pv = store[w.obj].pv /\ store' = st /\ alarm' = alarm
                       /\ queue' = Enqueue(queue, Notifications(w.obj, "hl", st))
                    \/ w.prop = "pv" /\ st[w.obj].hl = store[w.obj].hl /\ PresentValueChanged(st, w.obj, caller)
  <1>1. w.obj \in Objects /\ w.prio \in Priorities /\ w.val \in Values \cup {Null}
        /\ (w.prop = "hl" => w.val \in Values)
    BY DEF PerformWrite, Accepts, WriteRequest
  <1>2. store[w.obj] \in [pv : Values, sf : BOOLEAN, es : EventStates, hl : Values,
                          at : [Transitions -> BOOLEAN]]
    BY <1>1 DEF TypeOK, Stores
  <1>3. CASE w.prop = "pv" /\ WritePresentValue(w.obj, w.val, w.prio)
    <2> DEFINE slots == [commands[w.obj] EXCEPT ![w.prio] = w.val]
               st    == [store EXCEPT ![w.obj]["pv"] = Commanded(slots)]
    <2>1. PresentValueChanged(st, w.obj, caller)
      BY <1>3 DEF WritePresentValue
    <2>2. slots \in [Priorities -> Values \cup {Null}]
      BY <1>1 DEF TypeOK
    <2>3. Commanded(slots) \in Values
      BY <2>2, CommandedType
    <2> HIDE DEF slots
    <2>4. st \in Stores
      BY <1>1, <2>3 DEF TypeOK, Stores
    <2>5. /\ \A o \in Objects : o # w.obj => st[o] = store[o]
          /\ st[w.obj].es = store[w.obj].es /\ st[w.obj].sf = store[w.obj].sf
          /\ st[w.obj].at = store[w.obj].at /\ st[w.obj].hl = store[w.obj].hl
      BY <1>1, <1>2 DEF TypeOK, Stores
    <2> HIDE DEF st
    <2>6. QED
      BY <1>1, <1>3, <2>1, <2>4, <2>5
  <1>4. CASE w.prop = "hl" /\ WriteHighLimit(w.obj, w.val)
    <2> DEFINE st == [store EXCEPT ![w.obj]["hl"] = w.val]
    <2>1. store' = st /\ alarm' = alarm /\ queue' = Enqueue(queue, Notifications(w.obj, "hl", st))
      BY <1>4 DEF WriteHighLimit
    <2>2. st \in Stores
      BY <1>1, <1>4 DEF TypeOK, Stores
    <2>3. /\ \A o \in Objects : o # w.obj => st[o] = store[o]
          /\ st[w.obj].es = store[w.obj].es /\ st[w.obj].sf = store[w.obj].sf
          /\ st[w.obj].at = store[w.obj].at /\ st[w.obj].pv = store[w.obj].pv
      BY <1>1, <1>2 DEF TypeOK, Stores
    <2> HIDE DEF st
    <2>4. QED
      BY <1>1, <1>4, <2>1, <2>2, <2>3
  <1>5. QED
    BY <1>3, <1>4 DEF PerformWrite

\* The storage that a transition of o leaves: the alarm's three properties are
\* those of the alarm, everything else is as the write left it.
LEMMA TransitionStoresAlarm ==
    ASSUME NEW st \in Stores, NEW o \in Objects, NEW a \in AlarmStates
    PROVE  /\ \A x \in Objects : x # o => WithAcked(st, o, a)[x] = st[x]
           /\ WithAcked(st, o, a)[o].es = a.state
           /\ WithAcked(st, o, a)[o].sf = (a.state # "normal")
           /\ WithAcked(st, o, a)[o].at = a.acked
           /\ WithAcked(st, o, a)[o].pv = st[o].pv
           /\ WithAcked(st, o, a)[o].hl = st[o].hl
           /\ WithEventState(st, o, a)[o].es = a.state
           /\ WithStatusFlags(st, o, a)[o].sf = (a.state # "normal")
  <1>1. WithEventState(st, o, a) \in Stores /\ WithStatusFlags(st, o, a) \in Stores
    BY TransitionStores
  <1>2. /\ \A x \in Objects : x # o => WithEventState(st, o, a)[x] = st[x]
        /\ WithEventState(st, o, a)[o].es = a.state
        /\ WithEventState(st, o, a)[o].pv = st[o].pv /\ WithEventState(st, o, a)[o].hl = st[o].hl
    BY DEF WithEventState, Stores
  <1>3. /\ \A x \in Objects : x # o => WithStatusFlags(st, o, a)[x] = st[x]
        /\ WithStatusFlags(st, o, a)[o].es = a.state
        /\ WithStatusFlags(st, o, a)[o].sf = (a.state # "normal")
        /\ WithStatusFlags(st, o, a)[o].pv = st[o].pv /\ WithStatusFlags(st, o, a)[o].hl = st[o].hl
    BY <1>1, <1>2 DEF WithStatusFlags, Stores
  <1>4. QED
    BY <1>1, <1>2, <1>3 DEF WithAcked, Stores

LEMMA AcknowledgeEffect ==
    ASSUME TypeOK, NEW o \in Objects, NEW state \in EventStates, NEW stamped \in BOOLEAN,
           AcknowledgeAlarm(o, state, stamped)
    PROVE  /\ o \in AlarmObjects /\ alarm[o].state = state
           /\ \A x \in AlarmObjects : x # o => alarm'[x] = alarm[x] /\ store'[x] = store[x]
           /\ alarm'[o].state = alarm[o].state
           /\ alarm'[o].acked = [alarm[o].acked EXCEPT ![TransitionTo(state)] = TRUE]
           /\ store'[o].es = store[o].es /\ store'[o].sf = store[o].sf /\ store'[o].at = alarm'[o].acked
           /\ store'[o].pv = store[o].pv /\ store'[o].hl = store[o].hl
           /\ \A x \in Objects : x # o => store'[x] = store[x]
           /\ store' \in Stores /\ queue' = Enqueue(queue, Notifications(o, "at", store'))
  <1> DEFINE acked == [alarm[o].acked EXCEPT ![TransitionTo(state)] = TRUE]
  <1>1. o \in AlarmObjects /\ alarm[o].state = state
    BY DEF AcknowledgeAlarm, Acknowledgeable
  <1>2. alarm' = [alarm EXCEPT ![o].acked = acked] /\ store' = [store EXCEPT ![o]["at"] = acked]
    BY DEF AcknowledgeAlarm
  <1> HIDE DEF acked
  <1>3. store \in Stores /\ alarm \in [AlarmObjects -> AlarmStates]
    BY DEF TypeOK
  <1>4. /\ \A x \in AlarmObjects : x # o => alarm'[x] = alarm[x]
        /\ alarm'[o].state = alarm[o].state /\ alarm'[o].acked = acked
    BY <1>1, <1>2, <1>3 DEF AlarmStates
  <1>5. /\ \A x \in Objects : x # o => store'[x] = store[x]
        /\ store'[o].es = store[o].es /\ store'[o].sf = store[o].sf /\ store'[o].at = acked
        /\ store'[o].pv = store[o].pv /\ store'[o].hl = store[o].hl
    BY <1>2, <1>3 DEF Stores
  <1>6. store' \in Stores /\ queue' = Enqueue(queue, Notifications(o, "at", store'))
    <2>1. TypeOK'
      BY TypeAcknowledge
    <2>2. queue' = Enqueue(queue, Notifications(o, "at", [store EXCEPT ![o]["at"] = acked]))
      BY DEF AcknowledgeAlarm, acked
    <2>3. store' \in Stores
      BY <2>1 DEF TypeOK
    <2>4. QED
      BY <1>2, <2>2, <2>3
  <1>7. QED
    BY <1>1, <1>4, <1>5, <1>6, AlarmObjectsSubset DEF acked

\* An alarm after a transition: only to-offnormal waits for an acknowledgement.
LEMMA AlarmAfterEffect ==
    ASSUME NEW o \in AlarmObjects, alarm \in [AlarmObjects -> AlarmStates], NEW next \in EventStates
    PROVE  /\ AlarmAfter(o, next).state = next
           /\ alarm[o].acked["fault"] => AlarmAfter(o, next).acked["fault"]
           /\ alarm[o].acked["normal"] => AlarmAfter(o, next).acked["normal"]
           /\ ~alarm[o].acked["offnormal"] => ~AlarmAfter(o, next).acked["offnormal"]
  BY DEF AlarmAfter, AlarmStates, TransitionTo, EventStates, Transitions

\* What ReadProperty and COV answer from the storage is the state
\* GetEventInformation and AcknowledgeAlarm use, after every write, transition
\* and acknowledgement, however many Analog Values there are.
THEOREM StorageIsConsistent == Spec => []StorageShowsTheAlarm
  <1>1. Init => StorageShowsTheAlarm
    <2> SUFFICES ASSUME Init, NEW o \in AlarmObjects
                 PROVE  /\ store[o]["es"] = alarm[o].state
                        /\ store[o]["sf"] = (alarm[o].state # "normal")
                        /\ store[o]["at"] = alarm[o].acked
                        /\ alarm[o].acked["fault"] /\ alarm[o].acked["normal"]
      BY DEF StorageShowsTheAlarm
    <2>1. store[o] = [pv |-> InitialValue, sf |-> FALSE, es |-> "normal", hl |-> AlarmHighLimit,
                      at |-> [t \in Transitions |-> TRUE]]
      BY AlarmObjectsSubset DEF Init
    <2>2. alarm[o] = [state |-> "normal", acked |-> [t \in Transitions |-> TRUE]]
      BY DEF Init
    <2>3. store[o]["es"] = alarm[o].state /\ store[o]["at"] = alarm[o].acked
      BY <2>1, <2>2
    <2>4. store[o]["sf"] = FALSE /\ alarm[o].state = "normal"
      BY <2>1, <2>2
    <2>5. alarm[o].acked = [t \in Transitions |-> TRUE]
      BY <2>2
    <2>6. alarm[o].acked["fault"] /\ alarm[o].acked["normal"]
      BY <2>5 DEF Transitions
    <2>7. QED
      BY <2>3, <2>4, <2>6
  <1>2. TypeOK /\ StorageShowsTheAlarm /\ [Next]_vars => StorageShowsTheAlarm'
    <2> SUFFICES ASSUME TypeOK, StorageShowsTheAlarm, [Next]_vars, NEW x \in AlarmObjects
                 PROVE  /\ store'[x].es = alarm'[x].state
                        /\ store'[x].sf = (alarm'[x].state # "normal")
                        /\ store'[x].at = alarm'[x].acked
                        /\ alarm'[x].acked["fault"] /\ alarm'[x].acked["normal"]
      BY DEF StorageShowsTheAlarm, AlarmObjects
    <2>1. /\ store[x].es = alarm[x].state
          /\ store[x].sf = (alarm[x].state # "normal")
          /\ store[x].at = alarm[x].acked
          /\ alarm[x].acked["fault"] /\ alarm[x].acked["normal"]
      BY DEF StorageShowsTheAlarm
    <2>2. x \in Objects /\ alarm \in [AlarmObjects -> AlarmStates]
      BY AlarmObjectsSubset DEF TypeOK
    <2>3. CASE UNCHANGED <<store, alarm>>
      BY <2>1, <2>3
    <2>4. ASSUME NEW w \in WriteRequest, PerformWrite(w)
          PROVE  /\ store'[x].es = alarm'[x].state
                 /\ store'[x].sf = (alarm'[x].state # "normal")
                 /\ store'[x].at = alarm'[x].acked
                 /\ alarm'[x].acked["fault"] /\ alarm'[x].acked["normal"]
      <3>1. w.obj \in Objects
        BY <2>4, WriteEffect
      <3>2. PICK st \in Stores :
                 /\ \A o \in Objects : o # w.obj => st[o] = store[o]
                 /\ st[w.obj].es = store[w.obj].es /\ st[w.obj].sf = store[w.obj].sf
                 /\ st[w.obj].at = store[w.obj].at
                 /\ \/ w.prop = "hl" /\ st[w.obj].pv = store[w.obj].pv /\ store' = st /\ alarm' = alarm
                    \/ w.prop = "pv" /\ PresentValueChanged(st, w.obj, caller)
        BY <2>4, WriteEffect
      <3>3. st[x].es = store[x].es /\ st[x].sf = store[x].sf /\ st[x].at = store[x].at
        BY <2>2, <3>2
      <3>4. CASE store' = st /\ alarm' = alarm
        BY <2>1, <3>3, <3>4
      <3>5. CASE PresentValueChanged(st, w.obj, caller) /\ IsTransition(st, w.obj)
        <4> DEFINE a == AlarmAfter(w.obj, EvaluatedState(st, w.obj))
        <4>1. w.obj \in AlarmObjects /\ alarm' = [alarm EXCEPT ![w.obj] = a] /\ store' = WithAcked(st, w.obj, a)
          BY <3>5 DEF PresentValueChanged, IsTransition
        <4>2. a \in AlarmStates
          BY <2>2, <4>1, AlarmAfterType, EvaluatedStateType
        <4>3. (alarm[w.obj].acked["fault"] => a.acked["fault"]) /\ (alarm[w.obj].acked["normal"] => a.acked["normal"])
          BY <2>2, <4>1, AlarmAfterEffect, EvaluatedStateType
        <4> HIDE DEF a
        <4>4. CASE x = w.obj
          BY <2>1, <2>2, <3>1, <4>1, <4>2, <4>3, <4>4, TransitionStoresAlarm
        <4>5. CASE x # w.obj
          <5>1. alarm'[x] = alarm[x]
            BY <2>2, <4>1, <4>5
          <5>2. store'[x] = st[x]
            BY <2>2, <3>1, <4>1, <4>2, <4>5, TransitionStoresAlarm
          <5>3. QED
            BY <2>1, <3>3, <5>1, <5>2
        <4>6. QED
          BY <4>4, <4>5
      <3>6. CASE PresentValueChanged(st, w.obj, caller) /\ ~IsTransition(st, w.obj)
        <4>1. store' = st /\ alarm' = alarm
          BY <3>6 DEF PresentValueChanged
        <4>2. QED
          BY <3>4, <4>1
      <3>7. QED
        BY <3>2, <3>4, <3>5, <3>6
    <2>5. ASSUME NEW o \in Objects, NEW state \in EventStates, NEW stamped \in BOOLEAN,
                 AcknowledgeAlarm(o, state, stamped)
          PROVE  /\ store'[x].es = alarm'[x].state
                 /\ store'[x].sf = (alarm'[x].state # "normal")
                 /\ store'[x].at = alarm'[x].acked
                 /\ alarm'[x].acked["fault"] /\ alarm'[x].acked["normal"]
      <3>1. CASE x = o
        <4>1. alarm[x].acked \in [Transitions -> BOOLEAN]
          BY <2>2 DEF AlarmStates
        <4>2. alarm'[x].acked = [alarm[x].acked EXCEPT ![TransitionTo(state)] = TRUE]
              /\ alarm'[x].state = alarm[x].state
              /\ store'[x].es = store[x].es /\ store'[x].sf = store[x].sf /\ store'[x].at = alarm'[x].acked
          BY <2>5, <3>1, AcknowledgeEffect
        <4>3. alarm'[x].acked["fault"] /\ alarm'[x].acked["normal"]
          BY <2>1, <4>1, <4>2 DEF Transitions
        <4>4. QED
          BY <2>1, <4>2, <4>3
      <3>2. CASE x # o
        <4>1. alarm'[x] = alarm[x] /\ store'[x] = store[x]
          BY <2>5, <3>2, AcknowledgeEffect
        <4>2. QED
          BY <2>1, <4>1
      <3>3. QED
        BY <3>1, <3>2
    <2>6. QED
      BY <2>3, <2>4, <2>5, StorageSteps
  <1>3. QED
    BY <1>1, <1>2, TypeCorrect, PTL DEF Spec

-----------------------------------------------------------------------------
(* What a step may do to an alarm *)

\* No write that changes a Present_Value is left unevaluated, whichever commands
\* the Priority_Array holds: the alarm is where the value and the limit put it.
THEOREM WritesAreEvaluated == Spec => PresentValueIsEvaluated
  <1>1. TypeOK /\ [Next]_vars =>
          [\A o \in AlarmObjects :
              store'[o]["pv"] # store[o]["pv"] => alarm'[o].state = EvaluatedState(store', o)]_vars
    <2> SUFFICES ASSUME TypeOK, [Next]_vars, NEW x \in AlarmObjects, store'[x].pv # store[x].pv
                 PROVE  alarm'[x].state = EvaluatedState(store', x)
      OBVIOUS
    <2>1. x \in Objects /\ alarm \in [AlarmObjects -> AlarmStates]
      BY AlarmObjectsSubset DEF TypeOK
    <2>2. ASSUME NEW w \in WriteRequest, PerformWrite(w)
          PROVE  alarm'[x].state = EvaluatedState(store', x)
      <3>1. w.obj \in Objects
        BY <2>2, WriteEffect
      <3>2. PICK st \in Stores :
                 /\ \A o \in Objects : o # w.obj => st[o] = store[o]
                 /\ \/ w.prop = "hl" /\ st[w.obj].pv = store[w.obj].pv /\ store' = st /\ alarm' = alarm
                    \/ w.prop = "pv" /\ PresentValueChanged(st, w.obj, caller)
        BY <2>2, WriteEffect
      <3>3. CASE store' = st /\ st[w.obj].pv = store[w.obj].pv
        BY <2>1, <3>2, <3>3
      <3>4. CASE PresentValueChanged(st, w.obj, caller) /\ ~IsTransition(st, w.obj)
        <4>1. store' = st /\ alarm' = alarm
          BY <3>4 DEF PresentValueChanged
        <4>2. x = w.obj
          BY <2>1, <3>2, <4>1
        <4>3. alarm[x].state = EvaluatedState(st, x)
          BY <3>4, <4>2 DEF IsTransition
        <4>4. QED
          BY <4>1, <4>3
      <3>5. CASE PresentValueChanged(st, w.obj, caller) /\ IsTransition(st, w.obj)
        <4> DEFINE a == AlarmAfter(w.obj, EvaluatedState(st, w.obj))
        <4>1. w.obj \in AlarmObjects /\ alarm' = [alarm EXCEPT ![w.obj] = a] /\ store' = WithAcked(st, w.obj, a)
          BY <3>5 DEF PresentValueChanged, IsTransition
        <4>2. a \in AlarmStates /\ a.state = EvaluatedState(st, w.obj)
          BY <2>1, <4>1, AlarmAfterType, AlarmAfterEffect, EvaluatedStateType
        <4> HIDE DEF a
        <4>3. x = w.obj
          BY <2>1, <3>1, <3>2, <4>1, <4>2, TransitionStoresAlarm
        <4>4. store'[x].pv = st[x].pv /\ store'[x].hl = st[x].hl
          BY <3>1, <4>1, <4>2, <4>3, TransitionStoresAlarm
        <4>5. alarm'[x].state = EvaluatedState(st, x)
          BY <2>1, <4>1, <4>2, <4>3
        <4>6. QED
          BY <4>4, <4>5 DEF EvaluatedState
      <3>6. QED
        BY <3>2, <3>3, <3>4, <3>5
    <2>3. ASSUME NEW o \in Objects, NEW state \in EventStates, NEW stamped \in BOOLEAN,
                 AcknowledgeAlarm(o, state, stamped)
          PROVE  store'[x].pv = store[x].pv
      BY <2>3, AcknowledgeEffect
    <2>4. QED
      BY <2>2, <2>3, StorageSteps
  <1>2. QED
    BY <1>1, TypeCorrect, PTL DEF Spec, PresentValueIsEvaluated

-----------------------------------------------------------------------------
(* What a step does to the queue *)

Queues == Seq((SUBSET Notification) \ {{}})

LEMMA EnqueueEffect ==
    ASSUME NEW q \in Queues, NEW batch \in SUBSET Notification
    PROVE  LET q2 == Enqueue(q, batch)
           IN  /\ q2 \in Queues
               /\ batch = {} => q2 = q
               /\ batch # {} => /\ Len(q2) = Len(q) + 1 /\ q2[Len(q) + 1] = batch
                                /\ \A i \in 1..Len(q) : q2[i] = q[i]
  BY DEF Enqueue, Queues

\* A step that is not one of these leaves the queue alone.
LEMMA QueueSteps ==
    ASSUME [Next]_vars
    PROVE  \/ UNCHANGED queue
           \/ \E w \in WriteRequest : PerformWrite(w)
           \/ \E o \in Objects, state \in EventStates, stamped \in BOOLEAN : AcknowledgeAlarm(o, state, stamped)
           \/ \E c \in Clients : FirstReadProperty(c)
           \/ QueueInitial
           \/ queue # <<>> /\ \E n \in Head(queue) : NotifierSend(n)
  <1>1. CASE \E c \in Clients : BeginWrite(c) \/ FirstReadProperty(c)
    BY <1>1 DEF BeginWrite
  <1>2. CASE \E o \in Objects \cup {Unknown}, m \in Monitors : RefuseSubscription(o, m)
    BY <1>2 DEF RefuseSubscription
  <1>3. CASE \E c \in Clients, pid \in ProcessIds, o \in Objects, m \in Monitors :
                 \/ CancelSubscription(c, pid, o, m)
                 \/ \E confirmed \in BOOLEAN, life \in Lifetimes : Subscribe(c, pid, o, m, confirmed, life)
    BY <1>3 DEF CancelSubscription, Subscribe
  <1>4. CASE WriteStep
    BY <1>4 DEF WriteStep, RefuseWrite
  <1>5. CASE Reply \/ NotifierResume \/ Tick \/ UNCHANGED vars
    BY <1>5 DEF Reply, NotifierResume, Tick, vars
  <1>6. CASE Notify
    BY <1>6 DEF Notify
  <1>7. QED
    BY <1>1, <1>2, <1>3, <1>4, <1>5, <1>6 DEF Next, ClientRequest

\* The queue after the notifier thread took one notification out of its head.
LEMMA SendEffect ==
    ASSUME TypeOK, queue # <<>>, NEW n \in Head(queue), NotifierSend(n)
    PROVE  /\ queue \in Queues /\ Len(queue) \in Nat \ {0} /\ Head(queue) = queue[1] /\ n \in Notification
           /\ \/ /\ queue[1] = {n} /\ Len(queue') = Len(queue) - 1
                 /\ \A i \in 1..Len(queue') : queue'[i] = queue[i + 1]
              \/ /\ queue[1] # {n} /\ Len(queue') = Len(queue)
                 /\ queue'[1] = queue[1] \ {n}
                 /\ \A i \in 2..Len(queue) : queue'[i] = queue[i]
           /\ queue' \in Queues
  <1>1. queue \in Queues /\ Len(queue) \in Nat \ {0} /\ Head(queue) = queue[1] /\ queue[1] \in (SUBSET Notification) \ {{}}
    BY DEF TypeOK, Queues
  <1>2. CASE Head(queue) = {n}
    <2>1. queue' = Tail(queue)
      BY <1>2 DEF NotifierSend
    <2>2. QED
      BY <1>1, <1>2, <2>1 DEF Queues
  <1>3. CASE Head(queue) # {n}
    <2>1. queue' = [queue EXCEPT ![1] = @ \ {n}]
      BY <1>3 DEF NotifierSend
    <2>2. queue[1] \ {n} \in (SUBSET Notification) \ {{}}
      BY <1>1, <1>3
    <2>3. queue' \in Queues /\ Len(queue') = Len(queue) /\ queue'[1] = queue[1] \ {n}
          /\ \A i \in 2..Len(queue) : queue'[i] = queue[i]
      BY <1>1, <2>1, <2>2 DEF Queues
    <2>4. QED
      BY <1>1, <1>3, <2>3
  <1>4. QED
    BY <1>2, <1>3

-----------------------------------------------------------------------------
(* Whom a step notifies *)

\* q2 is q followed by sets of notifications that are all in B.
Extends(q, q2, B) ==
    /\ Len(q) <= Len(q2)
    /\ \A i \in (Len(q) + 1)..Len(q2) : q2[i] \subseteq B

\* The notifications a step may queue: events, and those for live subscriptions.
LiveNews == {n \in Notification : n.kind = "event" \/ \E s \in Live : Concerns(n, s)}

LEMMA EnqueueExtends ==
    ASSUME NEW q0 \in Queues, NEW q \in Queues, NEW B \in SUBSET Notification, NEW batch \in SUBSET B,
           Extends(q0, q, B)
    PROVE  Enqueue(q, batch) \in Queues /\ Extends(q0, Enqueue(q, batch), B)
  <1> DEFINE q2 == Enqueue(q, batch)
  <1>1. /\ q2 \in Queues
        /\ batch = {} => q2 = q
        /\ batch # {} => /\ Len(q2) = Len(q) + 1 /\ q2[Len(q) + 1] = batch
                         /\ \A i \in 1..Len(q) : q2[i] = q[i]
    BY EnqueueEffect
  <1>2. Len(q) \in Nat /\ Len(q0) \in Nat
    BY DEF Queues
  <1> HIDE DEF q2
  <1>3. CASE batch = {}
    BY <1>1, <1>3 DEF q2
  <1>4. CASE batch # {}
    <2>1. \A i \in (Len(q0) + 1)..(Len(q) + 1) : q2[i] \subseteq B
      <3>1. ASSUME NEW i \in (Len(q0) + 1)..(Len(q) + 1) PROVE q2[i] \subseteq B
        <4>1. i = Len(q) + 1 \/ (i \in (Len(q0) + 1)..Len(q) /\ i \in 1..Len(q))
          BY <1>2
        <4>2. QED
          BY <1>1, <1>4, <4>1 DEF Extends
      <3>2. QED
        BY <3>1
    <2>2. Extends(q0, q2, B)
      BY <1>1, <1>2, <1>4, <2>1 DEF Extends
    <2>3. QED
      BY <1>1, <2>2 DEF q2
  <1>5. QED
    BY <1>3, <1>4

LEMMA NotificationsAreLive ==
    ASSUME NEW st \in Stores, NEW o, NEW p, subs \subseteq Subscription
    PROVE  Notifications(o, p, st) \in SUBSET LiveNews
  <1>1. Notifications(o, p, st) \subseteq Notification
    BY NotificationsType
  <1>2. ASSUME NEW s \in Live PROVE Concerns(CovNotification(s, st), s)
    BY DEF Concerns, CovNotification, NotifiedKey, KeyOf
  <1>3. QED
    BY <1>1, <1>2 DEF Notifications, LiveNews

LEMMA TransitionExtends ==
    ASSUME NEW q \in Queues, NEW st \in Stores, NEW o \in AlarmObjects, NEW a \in AlarmStates, NEW c \in Clients,
           subs \subseteq Subscription, alarm \in [AlarmObjects -> AlarmStates]
    PROVE  Extends(q, QueueTransition(q, st, o, a, c), LiveNews)
  <1> DEFINE ev == EventNotification(c, o, alarm[o].state, a.state)
             n1 == Notifications(o, "es", WithEventState(st, o, a))
             n2 == Notifications(o, "sf", WithStatusFlags(st, o, a))
             n3 == Notifications(o, "at", WithAcked(st, o, a))
             n5 == Notifications(o, "pv", WithAcked(st, o, a))
             q1 == Enqueue(q, n1)
             q2 == Enqueue(q1, n2)
             q3 == Enqueue(q2, n3)
             q4 == Enqueue(q3, {ev})
  <1>1. /\ n1 \in SUBSET LiveNews /\ n2 \in SUBSET LiveNews /\ n3 \in SUBSET LiveNews /\ n5 \in SUBSET LiveNews
    BY AlarmObjectsSubset, TransitionStores, NotificationsAreLive
  <1>2. {ev} \in SUBSET LiveNews
    BY AlarmObjectsSubset DEF EventNotification, Notification, AlarmStates, LiveNews
  <1>3. QueueTransition(q, st, o, a, c) = Enqueue(q4, n5)
    BY DEF QueueTransition
  <1>4. LiveNews \in SUBSET Notification
    BY DEF LiveNews
  <1>5. Extends(q, q, LiveNews)
    BY DEF Extends, Queues
  <1> HIDE DEF n1, n2, n3, n5, ev
  <1>6. q1 \in Queues /\ Extends(q, q1, LiveNews)
    BY <1>1, <1>4, <1>5, EnqueueExtends
  <1>7. q2 \in Queues /\ Extends(q, q2, LiveNews)
    BY <1>1, <1>4, <1>6, EnqueueExtends
  <1>8. q3 \in Queues /\ Extends(q, q3, LiveNews)
    BY <1>1, <1>4, <1>7, EnqueueExtends
  <1>9. q4 \in Queues /\ Extends(q, q4, LiveNews)
    BY <1>2, <1>4, <1>8, EnqueueExtends
  <1>10. QED
    BY <1>1, <1>3, <1>4, <1>9, EnqueueExtends

\* A write and an acknowledgement queue for the live subscriptions.
LEMMA ChangesExtend ==
    ASSUME TypeOK,
           \/ \E w \in WriteRequest : PerformWrite(w)
           \/ \E o \in Objects, state \in EventStates, stamped \in BOOLEAN : AcknowledgeAlarm(o, state, stamped)
    PROVE  Extends(queue, queue', LiveNews) /\ subs' = Live
  <1>1. queue \in Queues /\ subs \subseteq Subscription /\ LiveNews \in SUBSET Notification /\ Extends(queue, queue, LiveNews)
    BY DEF TypeOK, Queues, LiveNews, Extends
  <1>2. ASSUME NEW w \in WriteRequest, PerformWrite(w) PROVE Extends(queue, queue', LiveNews) /\ subs' = Live
    <2>1. subs' = Live
      BY <1>2 DEF PerformWrite
    <2>2. caller \in Clients
      BY <1>2 DEF PerformWrite, ContinueWrite, TypeOK
    <2>3. PICK st \in Stores : \/ queue' = Enqueue(queue, Notifications(w.obj, "hl", st))
                              \/ PresentValueChanged(st, w.obj, caller)
      BY <1>2, WriteEffect
    <2>4. CASE queue' = Enqueue(queue, Notifications(w.obj, "hl", st))
      <3>1. Notifications(w.obj, "hl", st) \in SUBSET LiveNews
        BY <1>1, NotificationsAreLive
      <3>2. QED
        BY <1>1, <2>1, <2>4, <3>1, EnqueueExtends
    <2>5. CASE PresentValueChanged(st, w.obj, caller) /\ IsTransition(st, w.obj)
      <3> DEFINE a == AlarmAfter(w.obj, EvaluatedState(st, w.obj))
      <3>1. w.obj \in AlarmObjects /\ queue' = QueueTransition(queue, st, w.obj, a, caller)
        BY <2>5 DEF PresentValueChanged, IsTransition
      <3>2. alarm \in [AlarmObjects -> AlarmStates]
        BY DEF TypeOK
      <3>3. a \in AlarmStates
        BY <3>1, <3>2, AlarmAfterType, EvaluatedStateType
      <3> HIDE DEF a
      <3>4. QED
        BY <1>1, <2>1, <2>2, <3>1, <3>2, <3>3, TransitionExtends
    <2>6. CASE PresentValueChanged(st, w.obj, caller) /\ ~IsTransition(st, w.obj)
      <3>1. queue' = Enqueue(queue, Notifications(w.obj, "pv", st))
        BY <2>6 DEF PresentValueChanged
      <3>2. Notifications(w.obj, "pv", st) \in SUBSET LiveNews
        BY <1>1, NotificationsAreLive
      <3>3. QED
        BY <1>1, <2>1, <3>1, <3>2, EnqueueExtends
    <2>7. QED
      BY <2>3, <2>4, <2>5, <2>6
  <1>3. ASSUME NEW o \in Objects, NEW state \in EventStates, NEW stamped \in BOOLEAN,
               AcknowledgeAlarm(o, state, stamped)
        PROVE  Extends(queue, queue', LiveNews) /\ subs' = Live
    <2> DEFINE acked == [alarm[o].acked EXCEPT ![TransitionTo(state)] = TRUE]
               st == [store EXCEPT ![o]["at"] = acked]
    <2>1. subs' = Live /\ store' = st /\ queue' = Enqueue(queue, Notifications(o, "at", st))
      BY <1>3 DEF AcknowledgeAlarm
    <2>2. store' \in Stores
      <3>1. TypeOK'
        BY <1>3, TypeAcknowledge
      <3>2. QED
        BY <3>1 DEF TypeOK
    <2> HIDE DEF st
    <2>3. Notifications(o, "at", st) \in SUBSET LiveNews
      BY <1>1, <2>1, <2>2, NotificationsAreLive
    <2>4. QED
      BY <1>1, <2>1, <2>3, EnqueueExtends
  <1>4. QED
    BY <1>2, <1>3

\* Nobody is notified who is not subscribed: a step queues COV notifications for
\* live subscriptions of the table only, or the initial one for the subscription
\* just made, whatever expires, is renewed or cancelled meanwhile.
THEOREM NotifiedAreSubscribed == Spec => OnlyLiveSubscribersNotified
  <1>1. TypeOK /\ [Next]_vars =>
          [\A i \in DOMAIN queue' : i > Len(queue) =>
              \A n \in queue'[i] :
                  \/ n.kind = "event"
                  \/ stage = "initial" /\ Concerns(n, initial)
                  \/ \E s \in subs' : Concerns(n, s) /\ ~Expired(s)]_vars
    <2> SUFFICES ASSUME TypeOK, [Next]_vars, NEW i \in DOMAIN queue', i > Len(queue), NEW n \in queue'[i]
                 PROVE  \/ n.kind = "event"
                        \/ stage = "initial" /\ Concerns(n, initial)
                        \/ \E s \in subs' : Concerns(n, s) /\ ~Expired(s)
      OBVIOUS
    <2>1. queue \in Queues /\ Len(queue) \in Nat /\ DOMAIN queue = 1..Len(queue)
      BY DEF TypeOK, Queues
    <2>2. CASE UNCHANGED queue
      BY <2>1, <2>2
    <2>3. CASE \/ \E w \in WriteRequest : PerformWrite(w)
               \/ \E o \in Objects, state \in EventStates, stamped \in BOOLEAN : AcknowledgeAlarm(o, state, stamped)
      <3>1. Extends(queue, queue', LiveNews) /\ subs' = Live
        BY <2>3, ChangesExtend
      <3>2. queue' \in Queues
        BY <2>3, TypeWrites, TypeAcknowledge DEF TypeOK, Queues
      <3>3. i \in (Len(queue) + 1)..Len(queue')
        BY <2>1, <3>2 DEF Queues
      <3>4. n \in LiveNews
        BY <3>1, <3>3 DEF Extends
      <3>5. QED
        BY <3>1, <3>4 DEF LiveNews, Live
    <2>4. ASSUME NEW c \in Clients, FirstReadProperty(c) PROVE n.kind = "event"
      <3>1. queue' = Append(queue, {EventNotification(c, EventTarget, "normal", "high")})
        BY <2>4 DEF FirstReadProperty, Enqueue
      <3>2. i = Len(queue) + 1 /\ queue'[i] = {EventNotification(c, EventTarget, "normal", "high")}
        BY <2>1, <3>1 DEF Queues
      <3>3. QED
        BY <3>2 DEF EventNotification
    <2>5. CASE QueueInitial
      <3>1. stage = "initial" /\ queue' = Append(queue, {CovNotification(initial, store)})
        BY <2>5 DEF QueueInitial, Enqueue
      <3>2. i = Len(queue) + 1 /\ queue'[i] = {CovNotification(initial, store)}
        BY <2>1, <3>1 DEF Queues
      <3>3. QED
        BY <3>1, <3>2 DEF Concerns, CovNotification, NotifiedKey, KeyOf
    <2>6. ASSUME queue # <<>>, NEW m \in Head(queue), NotifierSend(m) PROVE FALSE
      <3>1. Len(queue') <= Len(queue) /\ DOMAIN queue' = 1..Len(queue')
        BY <2>6, SendEffect DEF Queues
      <3>2. QED
        BY <2>1, <3>1
    <2>7. QED
      BY <2>2, <2>3, <2>4, <2>5, <2>6, QueueSteps
  <1>2. QED
    BY <1>1, TypeCorrect, PTL DEF Spec, OnlyLiveSubscribersNotified
-----------------------------------------------------------------------------
(* The order of the events                                                 *)

IsEvent(n) == n.kind = "event"
Positions(q, o) == {i \in DOMAIN q : \E n \in q[i] : IsEvent(n) /\ n.obj = o}

\* An event is queued alone.
EventsAreAlone(q) == \A i \in DOMAIN q : \A n \in q[i] : IsEvent(n) => q[i] = {n}

\* The events about o in q follow one another, and the last leads to state.
Chained(q, o, state) ==
    \A i \in Positions(q, o) : \A n \in q[i] :
        /\ n.from # n.next
        /\ (\A j \in Positions(q, o) : j <= i) => n.next = state
        /\ \A j \in Positions(q, o) : (j > i /\ \A k \in Positions(q, o) : k <= i \/ j <= k)
               => \A m \in q[j] : m.from = n.next

EventsInv ==
    /\ EventsAreAlone(queue)
    /\ EmitEvent \/ \A o \in AlarmObjects : Chained(queue, o, alarm[o].state)

\* COV notifications change neither.
LEMMA CovKeepsChain ==
    ASSUME NEW q \in Queues, NEW batch \in SUBSET Notification, \A n \in batch : ~IsEvent(n),
           EventsAreAlone(q)
    PROVE  /\ EventsAreAlone(Enqueue(q, batch))
           /\ \A o \in AlarmObjects, state \in EventStates :
                  Chained(q, o, state) => Chained(Enqueue(q, batch), o, state)
  <1> DEFINE q2 == Enqueue(q, batch)
  <1>1. /\ q2 \in Queues
        /\ batch = {} => q2 = q
        /\ batch # {} => /\ Len(q2) = Len(q) + 1 /\ q2[Len(q) + 1] = batch
                         /\ \A i \in 1..Len(q) : q2[i] = q[i]
    BY EnqueueEffect
  <1> HIDE DEF q2
  <1>2. CASE batch = {}
    BY <1>1, <1>2 DEF q2
  <1>3. CASE batch # {}
    <2>1. DOMAIN q = 1..Len(q) /\ DOMAIN q2 = 1..(Len(q) + 1) /\ Len(q) \in Nat
      BY <1>1, <1>3 DEF Queues
    <2>2. EventsAreAlone(q2)
      BY <1>1, <1>3, <2>1 DEF EventsAreAlone
    <2>3. ASSUME NEW o PROVE Positions(q2, o) = Positions(q, o) /\ \A i \in Positions(q, o) : q2[i] = q[i]
      BY <1>1, <1>3, <2>1 DEF Positions
    <2>4. ASSUME NEW o, NEW state, Chained(q, o, state) PROVE Chained(q2, o, state)
      BY <2>3, <2>4 DEF Chained
    <2>5. QED
      BY <2>2, <2>4 DEF q2
  <1>4. QED
    BY <1>2, <1>3

\* An event about o that leaves the state the last one led to continues its chain
\* and leaves the other objects' alone.
LEMMA EventJoinsChain ==
    ASSUME NEW q \in Queues, NEW e \in Notification, IsEvent(e), e.from # e.next, EventsAreAlone(q)
    PROVE  /\ EventsAreAlone(Enqueue(q, {e}))
           /\ Chained(q, e.obj, e.from) => Chained(Enqueue(q, {e}), e.obj, e.next)
           /\ \A o, state : o # e.obj /\ Chained(q, o, state) => Chained(Enqueue(q, {e}), o, state)
  <1> DEFINE q2 == Enqueue(q, {e})
             last == Len(q) + 1
  <1>1. /\ q2 \in Queues /\ Len(q2) = last /\ q2[last] = {e}
        /\ \A i \in 1..Len(q) : q2[i] = q[i]
    BY EnqueueEffect
  <1>2. DOMAIN q = 1..Len(q) /\ DOMAIN q2 = 1..last /\ Len(q) \in Nat /\ last \in Nat
    BY <1>1 DEF Queues
  <1> HIDE DEF q2
  <1>3. last = Len(q) + 1 /\ last \in Int
    BY <1>2
  <1> HIDE DEF last
  <1>4. /\ \A i \in 1..last : (i = last) \/ (i \in 1..Len(q) /\ i < last /\ i \in Int)
        /\ \A i \in 1..Len(q) : i \in 1..last /\ i # last /\ i < last /\ i \in Int
        /\ last \in 1..last
    BY <1>2, <1>3
  <1>5. EventsAreAlone(q2)
    BY <1>1, <1>2, <1>4 DEF EventsAreAlone
  <1>6. ASSUME NEW o, o # e.obj PROVE Positions(q2, o) = Positions(q, o) /\ \A i \in Positions(q, o) : q2[i] = q[i]
    <2>1. last \notin Positions(q2, o)
      BY <1>1, <1>6 DEF Positions
    <2>2. \A i \in 1..Len(q) : i \in Positions(q2, o) <=> i \in Positions(q, o)
      BY <1>1, <1>2, <1>4 DEF Positions
    <2>3. Positions(q2, o) \subseteq 1..last /\ Positions(q, o) \subseteq 1..Len(q)
      BY <1>2 DEF Positions
    <2>4. \A i \in Positions(q2, o) : i \in 1..Len(q)
      BY <1>4, <2>1, <2>3
    <2>5. Positions(q2, o) = Positions(q, o)
      BY <2>2, <2>3, <2>4
    <2>6. QED
      BY <1>1, <2>3, <2>5
  <1>7. ASSUME NEW o, NEW state, o # e.obj, Chained(q, o, state) PROVE Chained(q2, o, state)
    BY <1>6, <1>7 DEF Chained
  <1>8. ASSUME Chained(q, e.obj, e.from) PROVE Chained(q2, e.obj, e.next)
    <2> DEFINE P == Positions(q, e.obj)
    <2>1. Positions(q2, e.obj) = P \cup {last} /\ P \subseteq 1..Len(q)
      <3>1. last \in Positions(q2, e.obj)
        BY <1>1, <1>2, <1>4 DEF Positions
      <3>2. \A i \in 1..Len(q) : i \in Positions(q2, e.obj) <=> i \in P
        BY <1>1, <1>2, <1>4 DEF Positions
      <3>3. Positions(q2, e.obj) \subseteq 1..last /\ P \subseteq 1..Len(q)
        BY <1>2 DEF Positions
      <3> HIDE DEF P
      <3>4. \A i \in Positions(q2, e.obj) : i = last \/ i \in 1..Len(q)
        BY <1>4, <3>3
      <3>5. QED
        BY <3>1, <3>2, <3>3, <3>4
    <2>2. \A i \in P : q2[i] = q[i] /\ i < last /\ i \in Int /\ last \in Int
      BY <1>1, <1>3, <1>4, <2>1
    <2>3. \A i \in P : \A n \in q[i] :
              /\ n.from # n.next
              /\ (\A j \in P : j <= i) => n.next = e.from
              /\ \A j \in P : (j > i /\ \A k \in P : k <= i \/ j <= k) => \A m \in q[j] : m.from = n.next
      BY <1>8 DEF Chained
    <2> HIDE DEF P
    <2>4. ASSUME NEW i \in P, NEW n \in q2[i]
          PROVE  /\ n.from # n.next
                 /\ (\A j \in P \cup {last} : j <= i) => n.next = e.next
                 /\ \A j \in P \cup {last} : (j > i /\ \A k \in P \cup {last} : k <= i \/ j <= k)
                        => \A m \in q2[j] : m.from = n.next
      <3>1. n \in q[i]
        BY <2>2
      <3>2. n.from # n.next
        BY <2>3, <3>1
      <3>3. ~(\A j \in P \cup {last} : j <= i)
        BY <2>2
      <3>4. ASSUME NEW j \in P, j > i, \A k \in P \cup {last} : k <= i \/ j <= k, NEW m \in q2[j]
            PROVE  m.from = n.next
        BY <2>2, <2>3, <3>1, <3>4
      <3>5. ASSUME \A k \in P \cup {last} : k <= i \/ last <= k, NEW m \in q2[last]
            PROVE  m.from = n.next
        <4>1. \A j \in P : j <= i
          BY <2>2, <3>5
        <4>2. m = e
          BY <1>1
        <4>3. QED
          BY <2>3, <3>1, <4>1, <4>2
      <3>6. QED
        BY <3>2, <3>3, <3>4, <3>5
    <2>5. ASSUME NEW n \in q2[last]
          PROVE  /\ n.from # n.next /\ n.next = e.next
                 /\ \A j \in P \cup {last} : ~(j > last)
      BY <1>1, <2>2, <1>2
    <2>6. \A i \in P \cup {last} : \A n \in q2[i] :
              /\ n.from # n.next
              /\ (\A j \in P \cup {last} : j <= i) => n.next = e.next
              /\ \A j \in P \cup {last} : (j > i /\ \A k \in P \cup {last} : k <= i \/ j <= k)
                     => \A m \in q2[j] : m.from = n.next
      BY <2>4, <2>5
    <2>7. QED
      BY <2>1, <2>6 DEF Chained
  <1>9. QED
    BY <1>5, <1>7, <1>8 DEF q2

\* Taking the first notification out keeps the order of the rest.
LEMMA SendKeepsChain ==
    ASSUME TypeOK, EventsInv, queue # <<>>, NEW n \in Head(queue), NotifierSend(n)
    PROVE  EventsInv'
  <1>1. /\ queue \in Queues /\ Len(queue) \in Nat \ {0} /\ Head(queue) = queue[1] /\ queue' \in Queues
        /\ \/ /\ queue[1] = {n} /\ Len(queue') = Len(queue) - 1
              /\ \A i \in 1..Len(queue') : queue'[i] = queue[i + 1]
           \/ /\ queue[1] # {n} /\ Len(queue') = Len(queue)
              /\ queue'[1] = queue[1] \ {n}
              /\ \A i \in 2..Len(queue) : queue'[i] = queue[i]
    BY SendEffect
  <1>2. DOMAIN queue = 1..Len(queue) /\ DOMAIN queue' = 1..Len(queue') /\ Len(queue') \in Nat
    BY <1>1 DEF Queues
  <1>3. alarm' = alarm /\ EventsAreAlone(queue)
    BY DEF NotifierSend, EventsInv
  <1>4. CASE queue[1] = {n} /\ Len(queue') = Len(queue) - 1 /\ \A i \in 1..Len(queue') : queue'[i] = queue[i + 1]
    <2>1. EventsAreAlone(queue')
      BY <1>1, <1>2, <1>3, <1>4 DEF EventsAreAlone
    <2>2. ASSUME NEW o, NEW state, Chained(queue, o, state) PROVE Chained(queue', o, state)
      <3> DEFINE P == Positions(queue, o)
                 P2 == Positions(queue', o)
      <3>1. \A i \in P2 : i \in Nat /\ i + 1 \in P /\ queue'[i] = queue[i + 1]
        BY <1>1, <1>2, <1>4 DEF Positions
      <3>2. \A i \in P : i \in Nat /\ (i > 1 => i - 1 \in P2)
        <4>1. ASSUME NEW i \in P, i > 1 PROVE i - 1 \in P2
          <5>1. i \in 1..Len(queue)
            BY <1>2 DEF Positions
          <5>2. i - 1 \in 1..Len(queue') /\ i - 1 + 1 = i
            BY <1>1, <1>4, <4>1, <5>1
          <5>3. queue'[i - 1] = queue[i]
            BY <1>4, <5>2
          <5>4. \E m \in queue[i] : IsEvent(m) /\ m.obj = o
            BY DEF Positions
          <5>5. QED
            BY <1>2, <5>2, <5>3, <5>4 DEF Positions
        <4>2. P \subseteq Nat
          BY <1>2 DEF Positions
        <4>3. QED
          BY <4>1, <4>2
      <3> HIDE DEF P, P2
      <3>3. \A i \in P : \A m \in queue[i] :
              /\ m.from # m.next
              /\ (\A j \in P : j <= i) => m.next = state
              /\ \A j \in P : (j > i /\ \A k \in P : k <= i \/ j <= k) => \A l \in queue[j] : l.from = m.next
        BY <2>2 DEF Chained, P
      <3>4. ASSUME NEW i \in P2, NEW m \in queue'[i]
            PROVE  /\ m.from # m.next
                   /\ (\A j \in P2 : j <= i) => m.next = state
                   /\ \A j \in P2 : (j > i /\ \A k \in P2 : k <= i \/ j <= k) => \A l \in queue'[j] : l.from = m.next
        <4>1. i \in Nat /\ i + 1 \in P /\ m \in queue[i + 1]
          BY <3>1
        <4>2. (\A j \in P2 : j <= i) => \A j \in P : j <= i + 1
          BY <3>2, <4>1
        <4>3. ASSUME NEW j \in P2, j > i, \A k \in P2 : k <= i \/ j <= k, NEW l \in queue'[j] PROVE l.from = m.next
          <5>1. j \in Nat /\ j + 1 \in P /\ l \in queue[j + 1] /\ j + 1 > i + 1
            <6>1. j \in Nat /\ j + 1 \in P /\ l \in queue[j + 1]
              BY <3>1, <4>3
            <6>2. j + 1 > i + 1
              BY <4>1, <4>3, <6>1
            <6>3. QED
              BY <6>1, <6>2
          <5>2. \A k \in P : k <= i + 1 \/ j + 1 <= k
            <6>1. ASSUME NEW k \in P, k > 1 PROVE k <= i + 1 \/ j + 1 <= k
              <7>1. k \in Nat /\ k - 1 \in P2
                BY <3>2, <6>1
              <7>2. k - 1 <= i \/ j <= k - 1
                BY <4>3, <7>1
              <7>3. QED
                BY <4>1, <5>1, <7>1, <7>2
            <6>2. ASSUME NEW k \in P, ~(k > 1) PROVE k <= i + 1
              BY <3>2, <4>1, <6>2
            <6>3. QED
              BY <6>1, <6>2
          <5>3. QED
            BY <3>3, <4>1, <5>1, <5>2
        <4>4. QED
          BY <3>3, <4>1, <4>2, <4>3
      <3>5. QED
        BY <3>4 DEF Chained, P2
    <2>3. QED
      BY <1>3, <2>1, <2>2 DEF EventsInv
  <1>5. CASE /\ queue[1] # {n} /\ Len(queue') = Len(queue)
             /\ queue'[1] = queue[1] \ {n} /\ \A i \in 2..Len(queue) : queue'[i] = queue[i]
    <2>1. \A m \in queue[1] : ~IsEvent(m)
      <3>1. n \in queue[1] /\ 1 \in DOMAIN queue
        <4>1. Head(queue) = queue[1] /\ Len(queue) \in Nat \ {0}
          BY <1>1
        <4>2. n \in queue[1]
          BY <4>1, Zenon
        <4>3. QED
          BY <1>2, <4>1, <4>2
      <3>2. ASSUME NEW m \in queue[1], IsEvent(m) PROVE queue[1] = {m}
        BY <1>3, <3>1, <3>2 DEF EventsAreAlone
      <3>3. QED
        BY <1>5, <3>1, <3>2
    <2>2. \A i \in 1..Len(queue) : i = 1 \/ i \in 2..Len(queue)
      OBVIOUS
    <2>3. EventsAreAlone(queue')
      BY <1>2, <1>3, <1>5, <2>1, <2>2 DEF EventsAreAlone
    <2>4. ASSUME NEW o PROVE Positions(queue', o) = Positions(queue, o) /\ \A i \in Positions(queue, o) : queue'[i] = queue[i]
      BY <1>2, <1>5, <2>1, <2>2 DEF Positions
    <2>5. ASSUME NEW o, NEW state, Chained(queue, o, state) PROVE Chained(queue', o, state)
      BY <2>4, <2>5 DEF Chained
    <2>6. QED
      BY <1>3, <2>3, <2>5 DEF EventsInv
  <1>6. QED
    BY <1>1, <1>4, <1>5

LEMMA NotificationsAreCov == \A o, p, st : \A n \in Notifications(o, p, st) : ~IsEvent(n)
  BY DEF Notifications, CovNotification, IsEvent

\* A transition of o queues one event about o, from the state the alarm is in to
\* the one it enters, and nothing else about the events.
LEMMA TransitionKeepsChain ==
    ASSUME NEW q \in Queues, NEW st \in Stores, NEW o \in AlarmObjects, NEW a \in AlarmStates, NEW c \in Clients,
           subs \subseteq Subscription, alarm \in [AlarmObjects -> AlarmStates],
           EventsAreAlone(q), a.state # alarm[o].state
    PROVE  LET q2 == QueueTransition(q, st, o, a, c)
           IN  /\ EventsAreAlone(q2)
               /\ Chained(q, o, alarm[o].state) => Chained(q2, o, a.state)
               /\ \A x \in AlarmObjects, state \in EventStates :
                      x # o /\ Chained(q, x, state) => Chained(q2, x, state)
  <1> DEFINE ev == EventNotification(c, o, alarm[o].state, a.state)
             n1 == Notifications(o, "es", WithEventState(st, o, a))
             n2 == Notifications(o, "sf", WithStatusFlags(st, o, a))
             n3 == Notifications(o, "at", WithAcked(st, o, a))
             n5 == Notifications(o, "pv", WithAcked(st, o, a))
             q1 == Enqueue(q, n1)
             q2 == Enqueue(q1, n2)
             q3 == Enqueue(q2, n3)
             q4 == Enqueue(q3, {ev})
             q5 == Enqueue(q4, n5)
  <1>1. /\ n1 \in SUBSET Notification /\ n2 \in SUBSET Notification
        /\ n3 \in SUBSET Notification /\ n5 \in SUBSET Notification
    BY AlarmObjectsSubset, TransitionStores, NotificationsType
  <1>2. /\ \A n \in n1 : ~IsEvent(n)
        /\ \A n \in n2 : ~IsEvent(n)
        /\ \A n \in n3 : ~IsEvent(n)
        /\ \A n \in n5 : ~IsEvent(n)
    BY NotificationsAreCov
  <1>3. /\ ev \in Notification /\ IsEvent(ev) /\ ev.obj = o
        /\ ev.from = alarm[o].state /\ ev.next = a.state
    BY AlarmObjectsSubset DEF EventNotification, Notification, AlarmStates, IsEvent
  <1>4. QueueTransition(q, st, o, a, c) = q5
    BY DEF QueueTransition
  <1>5. alarm[o].state \in EventStates /\ a.state \in EventStates
    BY DEF AlarmStates
  <1> HIDE DEF n1, n2, n3, n5, ev
  <1>6. q1 \in Queues /\ q2 \in Queues /\ q3 \in Queues /\ q4 \in Queues
    <2>1. q1 \in Queues
      BY <1>1, EnqueueEffect
    <2>2. q2 \in Queues
      BY <1>1, <2>1, EnqueueEffect
    <2>3. q3 \in Queues
      BY <1>1, <2>2, EnqueueEffect
    <2>4. {ev} \in SUBSET Notification
      BY <1>3
    <2>5. q4 \in Queues
      BY <2>3, <2>4, EnqueueEffect
    <2>6. QED
      BY <2>1, <2>2, <2>3, <2>5
  <1> HIDE DEF q5
  <1>7. /\ EventsAreAlone(q1)
        /\ \A x \in AlarmObjects, state \in EventStates : Chained(q, x, state) => Chained(q1, x, state)
    BY <1>1, <1>2, CovKeepsChain
  <1> HIDE DEF q1
  <1>8. /\ EventsAreAlone(q2)
        /\ \A x \in AlarmObjects, state \in EventStates : Chained(q1, x, state) => Chained(q2, x, state)
    BY <1>1, <1>2, <1>6, <1>7, CovKeepsChain
  <1> HIDE DEF q2
  <1>9. /\ EventsAreAlone(q3)
        /\ \A x \in AlarmObjects, state \in EventStates : Chained(q2, x, state) => Chained(q3, x, state)
    BY <1>1, <1>2, <1>6, <1>8, CovKeepsChain
  <1> HIDE DEF q3
  <1>10. /\ EventsAreAlone(q4)
         /\ Chained(q3, ev.obj, ev.from) => Chained(q4, ev.obj, ev.next)
         /\ \A x, state : x # ev.obj /\ Chained(q3, x, state) => Chained(q4, x, state)
    <2>1. ev.from # ev.next
      BY <1>3
    <2>2. QED
      BY <1>3, <1>6, <1>9, <2>1, EventJoinsChain
  <1> HIDE DEF q4
  <1>11. /\ EventsAreAlone(q5)
         /\ \A x \in AlarmObjects, state \in EventStates : Chained(q4, x, state) => Chained(q5, x, state)
    BY <1>1, <1>2, <1>6, <1>10, CovKeepsChain DEF q5
  <1>12. ASSUME Chained(q, o, alarm[o].state) PROVE Chained(q5, o, a.state)
    <2>1. Chained(q3, o, alarm[o].state)
      BY <1>5, <1>7, <1>8, <1>9, <1>12
    <2>2. Chained(q4, o, a.state)
      BY <1>3, <1>10, <2>1
    <2>3. QED
      BY <1>5, <1>11, <2>2
  <1>13. ASSUME NEW x \in AlarmObjects, NEW state \in EventStates, x # o, Chained(q, x, state)
         PROVE  Chained(q5, x, state)
    <2>1. Chained(q3, x, state)
      BY <1>7, <1>8, <1>9, <1>13
    <2>2. Chained(q4, x, state)
      BY <1>3, <1>10, <1>13, <2>1
    <2>3. QED
      BY <1>11, <2>2
  <1>14. QED
    BY <1>4, <1>11, <1>12, <1>13

\* The events wait in the order of the transitions, however many notifications
\* stand between them and however far the notifier thread is behind.
THEOREM EventsInOrder == Spec => []EventsFollowTheAlarm
  <1>1. Init => EventsInv
    BY DEF Init, EventsInv, EventsAreAlone, Chained, Positions
  <1>2. TypeOK /\ EventsInv /\ [Next]_vars => EventsInv'
    <2> SUFFICES ASSUME TypeOK, EventsInv, [Next]_vars PROVE EventsInv'
      OBVIOUS
    <2>1. /\ queue \in Queues /\ subs \subseteq Subscription /\ alarm \in [AlarmObjects -> AlarmStates]
          /\ store \in Stores /\ AlarmObjects \subseteq Objects
      BY AlarmObjectsSubset DEF TypeOK, Queues
    <2>2. \A x \in AlarmObjects : alarm[x].state \in EventStates
      BY <2>1 DEF AlarmStates
    <2>3. ASSUME NEW batch \in SUBSET Notification, \A n \in batch : ~IsEvent(n),
                 queue' = Enqueue(queue, batch), \A x \in AlarmObjects : alarm'[x].state = alarm[x].state
          PROVE  EventsInv'
      BY <2>1, <2>2, <2>3, CovKeepsChain DEF EventsInv
    <2>4. ASSUME NEW w \in WriteRequest, PerformWrite(w) PROVE EventsInv'
      <3>1. w.obj \in Objects /\ caller \in Clients
        BY <2>4, WriteEffect DEF PerformWrite, ContinueWrite, TypeOK
      <3>2. PICK st \in Stores :
                 \/ alarm' = alarm /\ queue' = Enqueue(queue, Notifications(w.obj, "hl", st))
                 \/ PresentValueChanged(st, w.obj, caller)
        BY <2>4, WriteEffect
      <3>3. CASE alarm' = alarm /\ queue' = Enqueue(queue, Notifications(w.obj, "hl", st))
        BY <2>1, <2>3, <3>3, NotificationsType, NotificationsAreCov
      <3>4. CASE PresentValueChanged(st, w.obj, caller) /\ ~IsTransition(st, w.obj)
        <4>1. alarm' = alarm /\ queue' = Enqueue(queue, Notifications(w.obj, "pv", st))
          BY <3>4 DEF PresentValueChanged
        <4>2. QED
          BY <2>1, <2>3, <4>1, NotificationsType, NotificationsAreCov
      <3>5. CASE PresentValueChanged(st, w.obj, caller) /\ IsTransition(st, w.obj)
        <4> DEFINE a == AlarmAfter(w.obj, EvaluatedState(st, w.obj))
        <4>1. w.obj \in AlarmObjects /\ alarm' = [alarm EXCEPT ![w.obj] = a]
              /\ queue' = QueueTransition(queue, st, w.obj, a, caller)
              /\ EvaluatedState(st, w.obj) # alarm[w.obj].state
          BY <3>5 DEF PresentValueChanged, IsTransition
        <4>2. a \in AlarmStates /\ a.state = EvaluatedState(st, w.obj)
          BY <2>1, <4>1, AlarmAfterType, AlarmAfterEffect, EvaluatedStateType
        <4> HIDE DEF a
        <4>3. alarm'[w.obj].state = a.state /\ \A x \in AlarmObjects : x # w.obj => alarm'[x].state = alarm[x].state
          BY <2>1, <4>1
        <4>4. /\ EventsAreAlone(queue')
              /\ Chained(queue, w.obj, alarm[w.obj].state) => Chained(queue', w.obj, a.state)
              /\ \A x \in AlarmObjects, state \in EventStates :
                     x # w.obj /\ Chained(queue, x, state) => Chained(queue', x, state)
          <5>1. EventsAreAlone(queue)
            BY DEF EventsInv
          <5>2. QED
            BY <2>1, <3>1, <4>1, <4>2, <5>1, TransitionKeepsChain
        <4>5. ASSUME ~EmitEvent, NEW x \in AlarmObjects PROVE Chained(queue', x, alarm'[x].state)
          <5>1. Chained(queue, x, alarm[x].state)
            BY <4>5 DEF EventsInv
          <5>2. QED
            BY <2>2, <4>1, <4>3, <4>4, <5>1
        <4>6. QED
          BY <4>4, <4>5 DEF EventsInv
      <3>6. QED
        BY <3>2, <3>3, <3>4, <3>5
    <2>5. ASSUME NEW o \in Objects, NEW state \in EventStates, NEW stamped \in BOOLEAN,
                 AcknowledgeAlarm(o, state, stamped)
          PROVE  EventsInv'
      <3> DEFINE acked == [alarm[o].acked EXCEPT ![TransitionTo(state)] = TRUE]
                 st == [store EXCEPT ![o]["at"] = acked]
      <3>1. store' = st /\ queue' = Enqueue(queue, Notifications(o, "at", st))
        BY <2>5 DEF AcknowledgeAlarm
      <3>2. store' \in Stores
        <4>1. TypeOK'
          BY <2>5, TypeAcknowledge
        <4>2. QED
          BY <4>1 DEF TypeOK
      <3> HIDE DEF st
      <3>3. \A x \in AlarmObjects : alarm'[x].state = alarm[x].state
        BY <2>1, <2>5, AcknowledgeEffect
      <3>4. Notifications(o, "at", st) \in SUBSET Notification /\ \A n \in Notifications(o, "at", st) : ~IsEvent(n)
        BY <2>1, <3>1, <3>2, NotificationsType, NotificationsAreCov
      <3>5. QED
        BY <2>3, <3>1, <3>3, <3>4
    <2>6. ASSUME NEW c \in Clients, FirstReadProperty(c) PROVE EventsInv'
      <3> DEFINE e == EventNotification(c, EventTarget, "normal", "high")
      <3>1. EmitEvent /\ queue' = Enqueue(queue, {e})
        BY <2>6 DEF FirstReadProperty
      <3>2. e \in Notification /\ IsEvent(e) /\ e.from # e.next
        <4>1. EventTarget \in Objects \cup {Unknown}
          BY DEF EventTarget
        <4>2. QED
          BY <4>1 DEF EventNotification, Notification, IsEvent, EventStates
      <3> HIDE DEF e
      <3>3. EventsAreAlone(queue)
        BY DEF EventsInv
      <3>4. EventsAreAlone(Enqueue(queue, {e}))
        BY <2>1, <3>2, <3>3, EventJoinsChain
      <3>5. QED
        BY <3>1, <3>4 DEF EventsInv
    <2>7. CASE QueueInitial
      <3>1. /\ stage = "initial" /\ initial \in Subscription /\ alarm' = alarm
            /\ queue' = Enqueue(queue, {CovNotification(initial, store)})
        BY <2>7 DEF QueueInitial, TypeOK
      <3>2. CovNotification(initial, store) \in Notification
        BY <2>1, <3>1, CovNotificationType
      <3>3. ~IsEvent(CovNotification(initial, store))
        BY DEF IsEvent, CovNotification
      <3>4. QED
        BY <2>3, <3>1, <3>2, <3>3
    <2>8. ASSUME queue # <<>>, NEW n \in Head(queue), NotifierSend(n) PROVE EventsInv'
      BY <2>8, SendKeepsChain
    <2>9. CASE UNCHANGED <<queue, alarm>>
      BY <2>9 DEF EventsInv, EventsAreAlone, Chained, Positions
    <2>10. QED
      BY <2>4, <2>5, <2>6, <2>7, <2>8, <2>9, QueueSteps, StorageSteps
  <1>3. TypeOK /\ EventsInv => EventsFollowTheAlarm
    <2> SUFFICES ASSUME TypeOK, EventsInv, ~EmitEvent, NEW o \in AlarmObjects, NEW i \in EventPositions(o), NEW n \in queue[i]
                 PROVE  LET later == {j \in EventPositions(o) : j > i} IN
                        IF later = {}
                        THEN n.next = alarm[o].state /\ n.from # n.next
                        ELSE \A j \in later : (\A k \in later : j <= k) => \A m \in queue[j] : m.from = n.next
      BY DEF EventsFollowTheAlarm
    <2>1. EventPositions(o) = Positions(queue, o)
      BY DEF EventPositions, Positions, IsEvent
    <2>2. Chained(queue, o, alarm[o].state)
      BY DEF EventsInv
    <2>3. /\ n.from # n.next
          /\ (\A j \in EventPositions(o) : j <= i) => n.next = alarm[o].state
          /\ \A j \in EventPositions(o) : (j > i /\ \A k \in EventPositions(o) : k <= i \/ j <= k)
                 => \A m \in queue[j] : m.from = n.next
      BY <2>1, <2>2 DEF Chained
    <2>4. EventPositions(o) \subseteq Int
      BY DEF EventPositions, TypeOK
    <2>5. \A j \in EventPositions(o) : j > i \/ j <= i
      BY <2>4
    <2>6. QED
      BY <2>3, <2>5
  <1>4. QED
    BY <1>1, <1>2, <1>3, TypeCorrect, PTL DEF Spec
-----------------------------------------------------------------------------
(* What a subscriber was sent last, or will be                             *)

About(n, k)  == n.kind = "cov" /\ NotifiedKey(n) = k
Due(q, k)    == {i \in DOMAIN q : \E n \in q[i] : About(n, k)}

\* v is what the subscription with key k holds once the queue q is sent: the
\* values of a newest notification about it, or what it was told when none is due.
IsNewest(q, t, k, v) ==
    \/ Due(q, k) = {} /\ v = t[k]
    \/ \E i \in Due(q, k) :
          /\ \A j \in Due(q, k) : j <= i
          /\ \E n \in q[i] : About(n, k) /\ v = n.values

\* What a notification about property m of o carries, and whether v is it.
SnapshotOf(o, m, st) ==
    [p \in {IF m = "object" THEN "pv" ELSE m, "sf"} \cap PropertiesOf(o) |-> st[o][p]]
Current(o, m, st, v) ==
    /\ v # Null
    /\ IF m \in {"es", "hl"} THEN v[m] = st[o][m] ELSE v = SnapshotOf(o, m, st)

\* The newest news of a live subscription is current, unless its initial
\* notification is still to be queued; and only what has the property is watched.
NewsInv ==
    /\ \A s \in subs : Subscribable(s.obj, s.monitor)
    /\ \A s \in Live :
          \/ stage = "initial" /\ KeyOf(initial) = KeyOf(s)
          \/ \A v : IsNewest(queue, told, KeyOf(s), v) => Current(s.obj, s.monitor, store, v)

LEMMA SnapshotByKey ==
    ASSUME NEW s \in Subscription, NEW st
    PROVE  /\ Snapshot(s, st) = SnapshotOf(s.obj, s.monitor, st)
           /\ CovNotification(s, st).values = SnapshotOf(s.obj, s.monitor, st)
           /\ \A k : About(CovNotification(s, st), k) <=> k = KeyOf(s)
  BY DEF Snapshot, SnapshotOf, MonitoredProperty, CovNotification, About, NotifiedKey, KeyOf

LEMMA SameKeySameMonitor ==
    ASSUME NEW s, NEW t, KeyOf(s) = KeyOf(t)
    PROVE  s.obj = t.obj /\ s.monitor = t.monitor
  BY DEF KeyOf

\* What was just read from the storage is current.
LEMMA SnapshotIsCurrent ==
    ASSUME NEW st \in Stores, NEW s \in Subscription, Subscribable(s.obj, s.monitor)
    PROVE  Current(s.obj, s.monitor, st, SnapshotOf(s.obj, s.monitor, st))
  <1>1. SnapshotOf(s.obj, s.monitor, st) \in Snapshots
    BY SnapshotType, SnapshotByKey
  <1>2. SnapshotOf(s.obj, s.monitor, st) # Null
    BY <1>1, NullAssumption
  <1>3. s.monitor \in {"es", "hl"} => s.monitor \in PropertiesOf(s.obj)
    BY DEF Subscribable
  <1>4. QED
    BY <1>2, <1>3 DEF Current, SnapshotOf

\* v stays current while the storage keeps what it is about.
LEMMA StaysCurrent ==
    ASSUME NEW o, NEW m, NEW st, NEW st2, NEW v, Current(o, m, st, v),
           IF m \in {"es", "hl"} THEN st2[o][m] = st[o][m]
           ELSE \A p \in {IF m = "object" THEN "pv" ELSE m, "sf"} : st2[o][p] = st[o][p]
    PROVE  Current(o, m, st2, v)
  <1>1. CASE m \in {"es", "hl"}
    BY <1>1 DEF Current
  <1>2. CASE m \notin {"es", "hl"}
    <2>1. SnapshotOf(o, m, st2) = SnapshotOf(o, m, st)
      BY <1>2 DEF SnapshotOf
    <2>2. QED
      BY <1>2, <2>1 DEF Current
  <1>3. QED
    BY <1>1, <1>2

\* A set of notifications that is queued decides for whom it is about.
LEMMA NewestAfterBatch ==
    ASSUME NEW q \in Queues, NEW batch \in SUBSET Notification, NEW t, NEW k, NEW v,
           IsNewest(Enqueue(q, batch), t, k, v)
    PROVE  IF \E n \in batch : About(n, k)
           THEN \E n \in batch : About(n, k) /\ v = n.values
           ELSE IsNewest(q, t, k, v)
  <1> DEFINE q2 == Enqueue(q, batch)
             last == Len(q) + 1
  <1>1. /\ q2 \in Queues
        /\ batch = {} => q2 = q
        /\ batch # {} => /\ Len(q2) = last /\ q2[last] = batch
                         /\ \A i \in 1..Len(q) : q2[i] = q[i]
    BY EnqueueEffect
  <1>2. IsNewest(q2, t, k, v)
    OBVIOUS
  <1> HIDE DEF q2
  <1>3. CASE batch = {}
    BY <1>1, <1>2, <1>3
  <1>4. CASE batch # {}
    <2>1. DOMAIN q = 1..Len(q) /\ DOMAIN q2 = 1..last /\ Len(q) \in Nat
      BY <1>1, <1>4 DEF Queues
    <2>2. last = Len(q) + 1 /\ last \in Int
      BY <2>1
    <2> HIDE DEF last
    <2>3. /\ \A i \in 1..last : (i = last) \/ (i \in 1..Len(q) /\ i < last /\ i \in Int)
          /\ \A i \in 1..Len(q) : i \in 1..last /\ i # last /\ i < last /\ i \in Int
          /\ last \in 1..last
      BY <2>1, <2>2
    <2>4. CASE \E n \in batch : About(n, k)
      <3>1. last \in Due(q2, k)
        BY <1>1, <1>4, <2>1, <2>3, <2>4 DEF Due
      <3>2. PICK i \in Due(q2, k) : /\ \A j \in Due(q2, k) : j <= i
                                    /\ \E n \in q2[i] : About(n, k) /\ v = n.values
        BY <1>2, <3>1 DEF IsNewest
      <3>3. i \in 1..last
        BY <2>1 DEF Due
      <3>4. last <= i
        BY <3>1, <3>2
      <3>5. i = last
        BY <2>2, <2>3, <3>3, <3>4
      <3>6. QED
        BY <1>1, <1>4, <2>4, <3>2, <3>5
    <2>5. CASE ~\E n \in batch : About(n, k)
      <3>1. Due(q2, k) \subseteq 1..last /\ Due(q, k) \subseteq 1..Len(q) /\ last \notin Due(q2, k)
        BY <1>1, <1>4, <2>1, <2>5 DEF Due
      <3>2. \A i \in 1..Len(q) : i \in Due(q2, k) <=> i \in Due(q, k)
        BY <1>1, <1>4, <2>1, <2>3 DEF Due
      <3>3. \A i \in Due(q2, k) : i \in 1..Len(q)
        BY <2>3, <3>1
      <3>4. Due(q2, k) = Due(q, k) /\ \A i \in Due(q, k) : q2[i] = q[i]
        BY <1>1, <1>4, <3>1, <3>2, <3>3
      <3>5. IsNewest(q, t, k, v)
        BY <1>2, <3>4 DEF IsNewest
      <3>6. QED
        BY <2>5, <3>5
    <2>6. QED
      BY <2>4, <2>5
  <1>5. QED
    BY <1>3, <1>4

\* A change of property p of o is the newest news of those who watch it, and no
\* news for the others.
LEMMA NewestAfterChange ==
    ASSUME NEW q \in Queues, NEW st \in Stores, NEW o, NEW p, NEW t, NEW v, subs \subseteq Subscription,
           NEW s \in Live, IsNewest(Enqueue(q, Notifications(o, p, st)), t, KeyOf(s), v)
    PROVE  IF s.obj = o /\ Watches(s, p)
           THEN v = SnapshotOf(s.obj, s.monitor, st)
           ELSE IsNewest(q, t, KeyOf(s), v)
  <1> DEFINE batch == Notifications(o, p, st)
  <1>1. batch \in SUBSET Notification
    BY NotificationsType
  <1>2. \A n \in batch : About(n, KeyOf(s)) =>
            s.obj = o /\ Watches(s, p) /\ n.values = SnapshotOf(s.obj, s.monitor, st)
    <2>1. ASSUME NEW n \in batch, About(n, KeyOf(s))
          PROVE  s.obj = o /\ Watches(s, p) /\ n.values = SnapshotOf(s.obj, s.monitor, st)
      <3>1. PICK u \in Live : u.obj = o /\ Watches(u, p) /\ n = CovNotification(u, st)
        BY DEF Notifications
      <3>2. u \in Subscription
        BY <3>1, LiveSubset
      <3>3. KeyOf(u) = KeyOf(s) /\ n.values = SnapshotOf(u.obj, u.monitor, st)
        BY <2>1, <3>1, <3>2, SnapshotByKey
      <3>4. u.obj = s.obj /\ u.monitor = s.monitor
        BY <3>3, SameKeySameMonitor
      <3>5. QED
        BY <3>1, <3>3, <3>4 DEF Watches
    <2>2. QED
      BY <2>1
  <1>3. ASSUME s.obj = o, Watches(s, p) PROVE \E n \in batch : About(n, KeyOf(s))
    <2>1. CovNotification(s, st) \in batch
      BY <1>3 DEF Notifications
    <2>2. About(CovNotification(s, st), KeyOf(s))
      BY LiveSubset, SnapshotByKey
    <2>3. QED
      BY <2>1, <2>2
  <1> HIDE DEF batch
  <1>4. IF \E n \in batch : About(n, KeyOf(s))
        THEN \E n \in batch : About(n, KeyOf(s)) /\ v = n.values
        ELSE IsNewest(q, t, KeyOf(s), v)
    BY <1>1, NewestAfterBatch DEF batch
  <1>5. QED
    BY <1>2, <1>3, <1>4

\* Sending the first notification gives nobody newer or older news.
LEMMA NewestAfterSend ==
    ASSUME TypeOK, queue # <<>>, NEW n \in Head(queue), NotifierSend(n),
           NEW k \in Keys, NEW v, IsNewest(queue', told', k, v)
    PROVE  IsNewest(queue, told, k, v)
  <1>1. /\ queue \in Queues /\ Len(queue) \in Nat \ {0} /\ Head(queue) = queue[1] /\ queue' \in Queues
        /\ \/ /\ queue[1] = {n} /\ Len(queue') = Len(queue) - 1
              /\ \A i \in 1..Len(queue') : queue'[i] = queue[i + 1]
           \/ /\ queue[1] # {n} /\ Len(queue') = Len(queue)
              /\ queue'[1] = queue[1] \ {n}
              /\ \A i \in 2..Len(queue) : queue'[i] = queue[i]
    BY SendEffect
  <1>2. DOMAIN queue = 1..Len(queue) /\ DOMAIN queue' = 1..Len(queue') /\ Len(queue') \in Nat
    BY <1>1 DEF Queues
  <1>3. n \in queue[1] /\ 1 \in DOMAIN queue
    <2>1. Head(queue) = queue[1] /\ Len(queue) \in Nat \ {0}
      BY <1>1
    <2>2. n \in queue[1]
      BY <2>1, Zenon
    <2>3. QED
      BY <1>2, <2>1, <2>2
  <1>4. told' = IF n.kind = "cov" THEN [told EXCEPT ![NotifiedKey(n)] = n.values] ELSE told
    BY DEF NotifierSend
  <1>5. told \in [Keys -> Snapshots \cup {Null}]
    BY DEF TypeOK
  <1>6. told'[k] = IF About(n, k) THEN n.values ELSE told[k]
    BY <1>4, <1>5 DEF About
  <1> DEFINE D  == Due(queue, k)
             D2 == Due(queue', k)
  <1>7. D \subseteq 1..Len(queue) /\ D2 \subseteq 1..Len(queue')
    BY <1>2 DEF Due
  <1>8. About(n, k) => 1 \in D
    BY <1>3 DEF Due
  <1>9. ASSUME D \subseteq {1}, About(n, k) PROVE IsNewest(queue, told, k, n.values)
    <2>1. 1 \in D /\ \A j \in D : j <= 1
      BY <1>8, <1>9
    <2>2. QED
      BY <1>3, <1>9, <2>1 DEF IsNewest
  <1>10. CASE queue[1] = {n} /\ Len(queue') = Len(queue) - 1 /\ \A i \in 1..Len(queue') : queue'[i] = queue[i + 1]
    <2>1. \A i \in D2 : i \in Nat /\ i + 1 \in D /\ queue'[i] = queue[i + 1]
      BY <1>1, <1>2, <1>10 DEF Due
    <2>2. \A i \in D : i \in Nat /\ (i = 1 \/ (i > 1 /\ i - 1 \in D2))
      <3>1. ASSUME NEW i \in D, i > 1 PROVE i - 1 \in D2
        <4>1. i \in 1..Len(queue)
          BY <1>7
        <4>2. i - 1 \in 1..Len(queue') /\ i - 1 + 1 = i
          BY <1>1, <1>10, <3>1, <4>1
        <4>3. queue'[i - 1] = queue[i]
          BY <1>10, <4>2
        <4>4. QED
          BY <1>2, <4>2, <4>3 DEF Due
      <3>2. \A i \in D : i \in Nat /\ (i = 1 \/ i > 1)
        BY <1>1, <1>7
      <3>3. QED
        BY <3>1, <3>2
    <2>3. 1 \in D => About(n, k)
      BY <1>10 DEF Due
    <2> HIDE DEF D, D2
    <2>4. CASE D2 = {} /\ v = told'[k]
      <3>1. D \subseteq {1}
        BY <2>2, <2>4
      <3>2. CASE About(n, k)
        BY <1>6, <1>9, <2>4, <3>1, <3>2
      <3>3. CASE ~About(n, k)
        <4>1. D = {}
          BY <2>3, <3>1, <3>3
        <4>2. QED
          BY <1>6, <2>4, <3>3, <4>1 DEF IsNewest, D
      <3>4. QED
        BY <3>2, <3>3
    <2>5. ASSUME NEW i \in D2, \A j \in D2 : j <= i, \E m \in queue'[i] : About(m, k) /\ v = m.values
          PROVE  IsNewest(queue, told, k, v)
      <3>1. i \in Nat /\ i + 1 \in D /\ queue'[i] = queue[i + 1]
        BY <2>1
      <3>2. \A j \in D : j <= i + 1
        <4>1. ASSUME NEW j \in D PROVE j <= i + 1
          <5>1. j \in Nat /\ (j = 1 \/ (j > 1 /\ j - 1 \in D2))
            BY <2>2
          <5>2. CASE j = 1
            BY <3>1, <5>2
          <5>3. CASE j - 1 \in D2
            <6>1. j - 1 <= i
              BY <2>5, <5>3
            <6>2. QED
              BY <3>1, <5>1, <6>1
          <5>4. QED
            BY <5>1, <5>2, <5>3
        <4>2. QED
          BY <4>1
      <3>3. \E m \in queue[i + 1] : About(m, k) /\ v = m.values
        BY <2>5, <3>1
      <3>4. QED
        BY <3>1, <3>2, <3>3 DEF IsNewest, D
    <2>6. QED
      BY <2>4, <2>5 DEF IsNewest, D2
  <1>11. CASE /\ queue[1] # {n} /\ Len(queue') = Len(queue)
              /\ queue'[1] = queue[1] \ {n} /\ \A i \in 2..Len(queue) : queue'[i] = queue[i]
    <2>1. \A i \in 1..Len(queue) : i = 1 \/ i \in 2..Len(queue)
      OBVIOUS
    <2>2. \A i \in 1..Len(queue) : queue'[i] \subseteq queue[i] /\ (i # 1 => queue'[i] = queue[i])
      BY <1>11, <2>1
    <2>3. D2 \subseteq D
      BY <1>2, <1>11, <2>2 DEF Due
    <2>4. \A i \in D : i \in Nat /\ (i = 1 \/ i \in D2)
      BY <1>2, <1>11, <2>2 DEF Due
    <2>5. 1 \in D /\ ~About(n, k) => 1 \in D2
      BY <1>2, <1>3, <1>11 DEF Due
    <2> HIDE DEF D, D2
    <2>6. CASE D2 = {} /\ v = told'[k]
      <3>1. D \subseteq {1}
        BY <2>4, <2>6
      <3>2. CASE About(n, k)
        BY <1>6, <1>9, <2>6, <3>1, <3>2
      <3>3. CASE ~About(n, k)
        <4>1. D = {}
          BY <2>5, <2>6, <3>1, <3>3
        <4>2. QED
          BY <1>6, <2>6, <3>3, <4>1 DEF IsNewest, D
      <3>4. QED
        BY <3>2, <3>3
    <2>7. ASSUME NEW i \in D2, \A j \in D2 : j <= i, \E m \in queue'[i] : About(m, k) /\ v = m.values
          PROVE  IsNewest(queue, told, k, v)
      <3>1. i \in D /\ i \in 1..Len(queue)
        BY <1>7, <2>3
      <3>2. \A j \in D : j <= i
        BY <2>4, <2>7, <3>1
      <3>3. \E m \in queue[i] : About(m, k) /\ v = m.values
        BY <2>2, <2>7, <3>1
      <3>4. QED
        BY <3>1, <3>2, <3>3 DEF IsNewest, D
    <2>8. QED
      BY <2>6, <2>7 DEF IsNewest, D2
  <1>12. QED
    BY <1>1, <1>10, <1>11

\* A step in which no subscription is made, and nothing queued, sent or stored,
\* changes nobody's news.
LEMMA QuietSteps ==
    ASSUME NewsInv, UNCHANGED <<store, queue, told>>,
           \A s \in subs' : \E t \in subs : t.obj = s.obj /\ t.monitor = s.monitor,
           \A s \in Live' : \E t \in Live : KeyOf(t) = KeyOf(s),
           stage = "initial" => stage' = "initial" /\ initial' = initial
    PROVE  NewsInv'
  <1>1. \A s \in subs' : Subscribable(s.obj, s.monitor)
    BY DEF NewsInv
  <1>2. ASSUME NEW s \in Live'
        PROVE  \/ stage' = "initial" /\ KeyOf(initial') = KeyOf(s)
               \/ \A v : IsNewest(queue', told', KeyOf(s), v) => Current(s.obj, s.monitor, store', v)
    <2>1. PICK t \in Live : KeyOf(t) = KeyOf(s)
      OBVIOUS
    <2>2. t.obj = s.obj /\ t.monitor = s.monitor
      BY <2>1, SameKeySameMonitor
    <2>3. CASE stage = "initial" /\ KeyOf(initial) = KeyOf(t)
      BY <2>1, <2>3
    <2>4. CASE \A v : IsNewest(queue, told, KeyOf(t), v) => Current(t.obj, t.monitor, store, v)
      BY <2>1, <2>2, <2>4
    <2>5. QED
      BY <2>3, <2>4 DEF NewsInv
  <1>3. QED
    BY <1>1, <1>2 DEF NewsInv

\* The news after the notifications of a transition of o.
LEMMA NewestAfterTransition ==
    ASSUME NEW st \in Stores, NEW o \in AlarmObjects, NEW a \in AlarmStates, NEW c \in Clients,
           TypeOK, NEW s \in Live, NEW v,
           IsNewest(QueueTransition(queue, st, o, a, c), told, KeyOf(s), v)
    PROVE  /\ s.obj = o /\ s.monitor \in {"object", "pv", "at"} =>
                  v = SnapshotOf(s.obj, s.monitor, WithAcked(st, o, a))
           /\ s.obj = o /\ s.monitor = "sf" => v = SnapshotOf(s.obj, s.monitor, WithStatusFlags(st, o, a))
           /\ s.obj = o /\ s.monitor = "es" => v = SnapshotOf(s.obj, s.monitor, WithEventState(st, o, a))
           /\ s.obj # o \/ s.monitor = "hl" => IsNewest(queue, told, KeyOf(s), v)
  <1> DEFINE ev == EventNotification(c, o, alarm[o].state, a.state)
             n1 == Notifications(o, "es", WithEventState(st, o, a))
             n2 == Notifications(o, "sf", WithStatusFlags(st, o, a))
             n3 == Notifications(o, "at", WithAcked(st, o, a))
             n5 == Notifications(o, "pv", WithAcked(st, o, a))
             q1 == Enqueue(queue, n1)
             q2 == Enqueue(q1, n2)
             q3 == Enqueue(q2, n3)
             q4 == Enqueue(q3, {ev})
  <1>1. subs \subseteq Subscription /\ alarm \in [AlarmObjects -> AlarmStates] /\ queue \in Queues
        /\ s \in Subscription /\ s.monitor \in Monitors
    BY LiveSubset DEF TypeOK, Queues, Subscription
  <1>2. WithEventState(st, o, a) \in Stores /\ WithStatusFlags(st, o, a) \in Stores /\ WithAcked(st, o, a) \in Stores
    BY AlarmObjectsSubset, TransitionStores
  <1>3. /\ n1 \in SUBSET Notification /\ n2 \in SUBSET Notification
        /\ n3 \in SUBSET Notification /\ n5 \in SUBSET Notification
    BY <1>1, <1>2, NotificationsType
  <1>4. {ev} \in SUBSET Notification /\ ~About(ev, KeyOf(s))
    BY <1>1, AlarmObjectsSubset DEF EventNotification, Notification, AlarmStates, About
  <1>5. IsNewest(Enqueue(q4, n5), told, KeyOf(s), v)
    BY DEF QueueTransition
  <1>6. q1 \in Queues /\ q2 \in Queues /\ q3 \in Queues /\ q4 \in Queues
    <2> HIDE DEF n1, n2, n3, n5, ev
    <2>1. q1 \in Queues
      BY <1>1, <1>3, EnqueueEffect
    <2>2. q2 \in Queues
      BY <1>3, <2>1, EnqueueEffect
    <2>3. q3 \in Queues
      BY <1>3, <2>2, EnqueueEffect
    <2>4. q4 \in Queues
      BY <1>4, <2>3, EnqueueEffect
    <2>5. QED
      BY <2>1, <2>2, <2>3, <2>4
  <1>7. IF s.obj = o /\ Watches(s, "pv") THEN v = SnapshotOf(s.obj, s.monitor, WithAcked(st, o, a))
        ELSE IsNewest(q4, told, KeyOf(s), v)
    <2> HIDE DEF q4
    <2>1. QED
      BY <1>1, <1>2, <1>5, <1>6, NewestAfterChange
  <1>8. IsNewest(q4, told, KeyOf(s), v) => IsNewest(q3, told, KeyOf(s), v)
    <2> HIDE DEF q3, ev
    <2>1. QED
      BY <1>4, <1>6, NewestAfterBatch
  <1>9. IsNewest(q3, told, KeyOf(s), v) =>
            IF s.obj = o /\ Watches(s, "at") THEN v = SnapshotOf(s.obj, s.monitor, WithAcked(st, o, a))
            ELSE IsNewest(q2, told, KeyOf(s), v)
    <2> HIDE DEF q2
    <2>1. QED
      BY <1>1, <1>2, <1>6, NewestAfterChange
  <1>10. IsNewest(q2, told, KeyOf(s), v) =>
            IF s.obj = o /\ Watches(s, "sf") THEN v = SnapshotOf(s.obj, s.monitor, WithStatusFlags(st, o, a))
            ELSE IsNewest(q1, told, KeyOf(s), v)
    <2> HIDE DEF q1
    <2>1. QED
      BY <1>1, <1>2, <1>6, NewestAfterChange
  <1>11. IsNewest(q1, told, KeyOf(s), v) =>
            IF s.obj = o /\ Watches(s, "es") THEN v = SnapshotOf(s.obj, s.monitor, WithEventState(st, o, a))
            ELSE IsNewest(queue, told, KeyOf(s), v)
    BY <1>1, <1>2, NewestAfterChange
  <1> HIDE DEF q1, q2, q3, q4
  <1>12. /\ Watches(s, "pv") <=> s.monitor \in {"object", "pv"}
         /\ Watches(s, "at") <=> s.monitor = "at"
         /\ Watches(s, "sf") <=> s.monitor \in {"object", "sf"}
         /\ Watches(s, "es") <=> s.monitor = "es"
    BY DEF Watches
  <1>13. QED
    BY <1>7, <1>8, <1>9, <1>10, <1>11, <1>12

\* A write leaves every live subscription with current news.
LEMMA WritesKeepNews ==
    ASSUME TypeOK, NewsInv, NEW w \in WriteRequest, PerformWrite(w)
    PROVE  NewsInv'
  <1>1. /\ subs' = Live /\ Live' = Live /\ told' = told /\ stage = "writing" /\ caller \in Clients
        /\ subs \subseteq Subscription /\ queue \in Queues /\ alarm \in [AlarmObjects -> AlarmStates]
    BY DEF PerformWrite, ContinueWrite, Live, TypeOK, Queues
  <1>2. w.obj \in Objects
    BY WriteEffect
  <1>3. PICK st \in Stores :
               /\ \A o \in Objects : o # w.obj => st[o] = store[o]
               /\ st[w.obj].es = store[w.obj].es /\ st[w.obj].sf = store[w.obj].sf
               /\ st[w.obj].at = store[w.obj].at
               /\ \/ /\ st[w.obj].pv = store[w.obj].pv /\ store' = st
                     /\ queue' = Enqueue(queue, Notifications(w.obj, "hl", st))
                  \/ st[w.obj].hl = store[w.obj].hl /\ PresentValueChanged(st, w.obj, caller)
    BY WriteEffect
  <1>4. ASSUME NEW s \in Live, NEW v, IsNewest(queue', told, KeyOf(s), v)
        PROVE  Current(s.obj, s.monitor, store', v)
    <2>1. /\ s \in Subscription /\ s.obj \in Objects /\ Subscribable(s.obj, s.monitor)
          /\ s.monitor \in {"object", "pv", "sf", "es", "hl", "at"}
      BY <1>1, LiveSubset, ConstantsAssumption DEF NewsInv, Subscription, Properties
    <2>2. ASSUME IsNewest(queue, told, KeyOf(s), v) PROVE Current(s.obj, s.monitor, store, v)
      BY <1>1, <2>2 DEF NewsInv
    <2>3. \A t \in Stores : Current(s.obj, s.monitor, t, SnapshotOf(s.obj, s.monitor, t))
      BY <2>1, SnapshotIsCurrent
    <2>4. CASE /\ st[w.obj].pv = store[w.obj].pv /\ store' = st
               /\ queue' = Enqueue(queue, Notifications(w.obj, "hl", st))
      <3>1. IF s.obj = w.obj /\ Watches(s, "hl") THEN v = SnapshotOf(s.obj, s.monitor, st)
            ELSE IsNewest(queue, told, KeyOf(s), v)
        BY <1>1, <1>4, <2>4, NewestAfterChange
      <3>2. CASE s.obj = w.obj /\ Watches(s, "hl")
        BY <2>3, <2>4, <3>1, <3>2
      <3>3. CASE ~(s.obj = w.obj /\ Watches(s, "hl"))
        <4>1. Current(s.obj, s.monitor, store, v)
          BY <2>2, <3>1, <3>3
        <4>2. IF s.monitor \in {"es", "hl"} THEN st[s.obj][s.monitor] = store[s.obj][s.monitor]
              ELSE \A p \in {IF s.monitor = "object" THEN "pv" ELSE s.monitor, "sf"} : st[s.obj][p] = store[s.obj][p]
          BY <1>3, <2>1, <2>4, <3>3 DEF Watches
        <4>3. QED
          BY <2>4, <4>1, <4>2, StaysCurrent
      <3>4. QED
        BY <3>2, <3>3
    <2>5. CASE PresentValueChanged(st, w.obj, caller) /\ ~IsTransition(st, w.obj) /\ st[w.obj].hl = store[w.obj].hl
      <3>1. store' = st /\ queue' = Enqueue(queue, Notifications(w.obj, "pv", st))
        BY <2>5 DEF PresentValueChanged
      <3>2. IF s.obj = w.obj /\ Watches(s, "pv") THEN v = SnapshotOf(s.obj, s.monitor, st)
            ELSE IsNewest(queue, told, KeyOf(s), v)
        BY <1>1, <1>4, <3>1, NewestAfterChange
      <3>3. CASE s.obj = w.obj /\ Watches(s, "pv")
        BY <2>3, <3>1, <3>2, <3>3
      <3>4. CASE ~(s.obj = w.obj /\ Watches(s, "pv"))
        <4>1. Current(s.obj, s.monitor, store, v)
          BY <2>2, <3>2, <3>4
        <4>2. IF s.monitor \in {"es", "hl"} THEN st[s.obj][s.monitor] = store[s.obj][s.monitor]
              ELSE \A p \in {IF s.monitor = "object" THEN "pv" ELSE s.monitor, "sf"} : st[s.obj][p] = store[s.obj][p]
          BY <1>3, <2>1, <2>5, <3>4 DEF Watches
        <4>3. QED
          BY <3>1, <4>1, <4>2, StaysCurrent
      <3>5. QED
        BY <3>3, <3>4
    <2>6. CASE PresentValueChanged(st, w.obj, caller) /\ IsTransition(st, w.obj) /\ st[w.obj].hl = store[w.obj].hl
      <3> DEFINE o == w.obj
                 a == AlarmAfter(w.obj, EvaluatedState(st, w.obj))
      <3>1. o \in AlarmObjects /\ store' = WithAcked(st, o, a) /\ queue' = QueueTransition(queue, st, o, a, caller)
        BY <2>6 DEF PresentValueChanged, IsTransition
      <3>2. a \in AlarmStates
        BY <1>1, <3>1, AlarmAfterType, EvaluatedStateType
      <3> HIDE DEF a
      <3>3. /\ s.obj = o /\ s.monitor \in {"object", "pv", "at"} =>
                  v = SnapshotOf(s.obj, s.monitor, WithAcked(st, o, a))
            /\ s.obj = o /\ s.monitor = "sf" => v = SnapshotOf(s.obj, s.monitor, WithStatusFlags(st, o, a))
            /\ s.obj = o /\ s.monitor = "es" => v = SnapshotOf(s.obj, s.monitor, WithEventState(st, o, a))
            /\ s.obj # o \/ s.monitor = "hl" => IsNewest(queue, told, KeyOf(s), v)
        BY <1>1, <1>4, <3>1, <3>2, NewestAfterTransition
      <3>4. /\ WithEventState(st, o, a) \in Stores /\ WithStatusFlags(st, o, a) \in Stores
            /\ WithAcked(st, o, a) \in Stores
        BY <1>2, <3>2, TransitionStores
      <3>5. /\ \A x \in Objects : x # o => store'[x] = st[x]
            /\ WithEventState(st, o, a)[o].es = a.state /\ store'[o].es = a.state
            /\ WithStatusFlags(st, o, a)[o].sf = store'[o].sf
            /\ store'[o].hl = st[o].hl
        BY <1>2, <3>1, <3>2, TransitionStoresAlarm
      <3>6. CASE s.obj = o /\ s.monitor \in {"object", "pv", "at"}
        BY <2>3, <3>1, <3>3, <3>4, <3>6
      <3>7. CASE s.obj = o /\ s.monitor = "sf"
        <4>1. Current(s.obj, s.monitor, WithStatusFlags(st, o, a), v)
          BY <2>3, <3>3, <3>4, <3>7
        <4>2. \A p \in {"sf"} : store'[o][p] = WithStatusFlags(st, o, a)[o][p]
          BY <3>5
        <4>3. QED
          BY <3>7, <4>1, <4>2, StaysCurrent
      <3>8. CASE s.obj = o /\ s.monitor = "es"
        <4>1. Current(s.obj, s.monitor, WithEventState(st, o, a), v)
          BY <2>3, <3>3, <3>4, <3>8
        <4>2. QED
          BY <3>5, <3>8, <4>1, StaysCurrent
      <3>9. CASE s.obj # o
        <4>1. Current(s.obj, s.monitor, store, v)
          BY <2>2, <3>3, <3>9
        <4>2. store'[s.obj] = store[s.obj]
          BY <1>3, <2>1, <3>5, <3>9
        <4>3. QED
          BY <4>1, <4>2, StaysCurrent
      <3>10. CASE s.obj = o /\ s.monitor = "hl"
        <4>1. Current(s.obj, s.monitor, store, v)
          BY <2>2, <3>3, <3>10
        <4>2. store'[s.obj].hl = store[s.obj].hl
          BY <2>6, <3>5, <3>10
        <4>3. QED
          BY <3>10, <4>1, <4>2, StaysCurrent
      <3>11. QED
        BY <2>1, <3>6, <3>7, <3>8, <3>9, <3>10
    <2>7. QED
      BY <1>3, <2>4, <2>5, <2>6
  <1>5. \A s \in subs' : Subscribable(s.obj, s.monitor)
    BY <1>1, LiveSubset DEF NewsInv
  <1>6. QED
    BY <1>1, <1>4, <1>5 DEF NewsInv

\* So does an acknowledgement.
LEMMA AcknowledgementsKeepNews ==
    ASSUME TypeOK, NewsInv, NEW o \in Objects, NEW state \in EventStates, NEW stamped \in BOOLEAN,
           AcknowledgeAlarm(o, state, stamped)
    PROVE  NewsInv'
  <1>1. /\ subs' = Live /\ Live' = Live /\ told' = told /\ stage = "free"
        /\ subs \subseteq Subscription /\ queue \in Queues
    BY DEF AcknowledgeAlarm, Live, TypeOK, Queues
  <1>2. /\ \A x \in Objects : x # o => store'[x] = store[x]
        /\ store'[o].es = store[o].es /\ store'[o].sf = store[o].sf
        /\ store'[o].pv = store[o].pv /\ store'[o].hl = store[o].hl
        /\ store' \in Stores /\ queue' = Enqueue(queue, Notifications(o, "at", store'))
    BY AcknowledgeEffect
  <1>3. ASSUME NEW s \in Live, NEW v, IsNewest(queue', told, KeyOf(s), v)
        PROVE  Current(s.obj, s.monitor, store', v)
    <2>1. /\ s \in Subscription /\ s.obj \in Objects /\ Subscribable(s.obj, s.monitor)
          /\ s.monitor \in {"object", "pv", "sf", "es", "hl", "at"}
      BY <1>1, LiveSubset, ConstantsAssumption DEF NewsInv, Subscription, Properties
    <2>2. PICK st \in Stores : st = store'
      BY <1>2
    <2>3. IF s.obj = o /\ Watches(s, "at") THEN v = SnapshotOf(s.obj, s.monitor, st)
          ELSE IsNewest(queue, told, KeyOf(s), v)
      BY <1>1, <1>2, <1>3, <2>2, NewestAfterChange
    <2>4. CASE s.obj = o /\ Watches(s, "at")
      BY <2>1, <2>2, <2>3, <2>4, SnapshotIsCurrent
    <2>5. CASE ~(s.obj = o /\ Watches(s, "at"))
      <3>1. Current(s.obj, s.monitor, store, v)
        BY <1>1, <2>3, <2>5 DEF NewsInv
      <3>2. IF s.monitor \in {"es", "hl"} THEN st[s.obj][s.monitor] = store[s.obj][s.monitor]
            ELSE \A p \in {IF s.monitor = "object" THEN "pv" ELSE s.monitor, "sf"} : st[s.obj][p] = store[s.obj][p]
        BY <1>2, <2>1, <2>2, <2>5 DEF Watches
      <3>3. QED
        BY <2>2, <3>1, <3>2, StaysCurrent
    <2>6. QED
      BY <2>4, <2>5
  <1>4. \A s \in subs' : Subscribable(s.obj, s.monitor)
    BY <1>1, LiveSubset DEF NewsInv
  <1>5. QED
    BY <1>1, <1>3, <1>4 DEF NewsInv

\* Every subscriber ends with the present value: whatever was written, renewed,
\* cancelled, expired or left in the queue, the newest notification of a live
\* subscription, or what it was last sent, shows what the storage holds.
THEOREM NewsIsCurrent == Spec => []LatestNotificationIsCurrent
  <1>1. Init => NewsInv
    BY DEF Init, NewsInv, Live
  <1>2. TypeOK /\ NewsInv /\ [Next]_vars => NewsInv'
    <2> SUFFICES ASSUME TypeOK, NewsInv, [Next]_vars PROVE NewsInv'
      OBVIOUS
    <2>1. subs \subseteq Subscription /\ Live \subseteq subs /\ queue \in Queues /\ store \in Stores
      BY LiveSubset DEF TypeOK, Queues
    <2>2. ASSUME UNCHANGED <<store, queue, told>>, subs' \subseteq subs, Live' \subseteq Live,
                 stage = "initial" => stage' = "initial" /\ initial' = initial
          PROVE  NewsInv'
      BY <2>2, QuietSteps
    <2>3. ASSUME subs' \subseteq Live PROVE subs' \subseteq subs /\ Live' \subseteq Live
      BY <2>3 DEF Live, Expired
    <2>4. CASE \E c \in Clients : BeginWrite(c) \/ FirstReadProperty(c)
      <3>1. ASSUME NEW c \in Clients, BeginWrite(c) PROVE NewsInv'
        BY <2>2, <3>1 DEF BeginWrite, Live
      <3>2. ASSUME NEW c \in Clients, FirstReadProperty(c) PROVE NewsInv'
        <4> DEFINE e == EventNotification(c, EventTarget, "normal", "high")
        <4>1. /\ queue' = Enqueue(queue, {e}) /\ told' = told /\ store' = store /\ subs' = subs /\ Live' = Live
              /\ stage = "free"
          BY <3>2 DEF FirstReadProperty, Live, handlerVars
        <4>2. {e} \in SUBSET Notification /\ \A k : ~About(e, k)
          <5>1. EventTarget \in Objects \cup {Unknown}
            BY DEF EventTarget
          <5>2. QED
            BY <5>1 DEF EventNotification, Notification, EventStates, About
        <4> HIDE DEF e
        <4>3. \A k, v : IsNewest(queue', told, k, v) => IsNewest(queue, told, k, v)
          BY <2>1, <4>1, <4>2, NewestAfterBatch
        <4>4. QED
          BY <4>1, <4>3 DEF NewsInv
      <3>3. QED
        BY <2>4, <3>1, <3>2
    <2>5. CASE \E o \in Objects \cup {Unknown}, m \in Monitors : RefuseSubscription(o, m)
      BY <2>2, <2>3, <2>5 DEF RefuseSubscription
    <2>6. ASSUME NEW c \in Clients, NEW pid \in ProcessIds, NEW o \in Objects, NEW m \in Monitors,
                 CancelSubscription(c, pid, o, m)
          PROVE  NewsInv'
      BY <2>2, <2>3, <2>6 DEF CancelSubscription
    <2>7. ASSUME NEW c \in Clients, NEW pid \in ProcessIds, NEW o \in Objects, NEW m \in Monitors,
                 NEW confirmed \in BOOLEAN, NEW life \in Lifetimes,
                 Subscribe(c, pid, o, m, confirmed, life)
          PROVE  NewsInv'
      <3> DEFINE s == [addr |-> c, pid |-> pid, obj |-> o, monitor |-> m,
                       confirmed |-> confirmed, life |-> life, left |-> life]
      <3>1. /\ stage = "free" /\ Subscribable(o, m)
            /\ subs' \subseteq Live \cup {s} /\ stage' = "initial" /\ initial' = s
            /\ store' = store /\ queue' = queue /\ told' = told
        BY <2>7 DEF Subscribe
      <3>2. s.obj = o /\ s.monitor = m
        OBVIOUS
      <3> HIDE DEF s
      <3>3. \A t \in subs' : Subscribable(t.obj, t.monitor)
        BY <2>1, <3>1, <3>2 DEF NewsInv
      <3>4. \A t \in Live' : t = s \/ t \in Live
        BY <3>1 DEF Live
      <3>5. \A t \in Live : \A v : IsNewest(queue, told, KeyOf(t), v) => Current(t.obj, t.monitor, store, v)
        BY <3>1 DEF NewsInv
      <3>6. QED
        BY <3>1, <3>3, <3>4, <3>5 DEF NewsInv
    <2>8. ASSUME NEW w \in WriteRequest, RefuseWrite(w) PROVE NewsInv'
      BY <2>2, <2>8 DEF RefuseWrite, ContinueWrite, Live
    <2>9. ASSUME NEW w \in WriteRequest, PerformWrite(w) PROVE NewsInv'
      BY <2>9, WritesKeepNews
    <2>10. ASSUME NEW o \in Objects, NEW state \in EventStates, NEW stamped \in BOOLEAN,
                  AcknowledgeAlarm(o, state, stamped)
           PROVE  NewsInv'
      BY <2>10, AcknowledgementsKeepNews
    <2>11. CASE Reply
      BY <2>2, <2>11 DEF Reply, Live
    <2>12. CASE QueueInitial
      <3>1. /\ stage = "initial" /\ initial \in Subscription
            /\ queue' = Enqueue(queue, {CovNotification(initial, store)})
            /\ told' = told /\ store' = store /\ subs' = subs /\ Live' = Live
        BY <2>12 DEF QueueInitial, TypeOK, Live
      <3> DEFINE n == CovNotification(initial, store)
      <3>2. {n} \in SUBSET Notification
        BY <2>1, <3>1, CovNotificationType
      <3>3. n.values = SnapshotOf(initial.obj, initial.monitor, store) /\ \A k : About(n, k) <=> k = KeyOf(initial)
        BY <3>1, SnapshotByKey
      <3> HIDE DEF n
      <3>4. ASSUME NEW s \in Live, NEW v, IsNewest(queue', told, KeyOf(s), v)
            PROVE  Current(s.obj, s.monitor, store, v)
        <4>1. IF About(n, KeyOf(s)) THEN v = n.values ELSE IsNewest(queue, told, KeyOf(s), v)
          BY <2>1, <3>1, <3>2, <3>4, NewestAfterBatch DEF n
        <4>2. CASE KeyOf(s) = KeyOf(initial)
          <5>1. s.obj = initial.obj /\ s.monitor = initial.monitor
            BY <4>2, SameKeySameMonitor
          <5>2. v = SnapshotOf(s.obj, s.monitor, store)
            BY <3>3, <4>1, <4>2, <5>1
          <5>3. s \in Subscription /\ Subscribable(s.obj, s.monitor)
            BY <2>1 DEF NewsInv
          <5>4. QED
            BY <2>1, <5>2, <5>3, SnapshotIsCurrent
        <4>3. CASE KeyOf(s) # KeyOf(initial)
          BY <3>3, <4>1, <4>3 DEF NewsInv
        <4>4. QED
          BY <4>2, <4>3
      <3>5. QED
        BY <3>1, <3>4 DEF NewsInv
    <2>13. ASSUME queue # <<>>, NEW n \in Head(queue), NotifierSend(n) PROVE NewsInv'
      <3>1. store' = store /\ subs' = subs /\ Live' = Live /\ stage' = stage /\ initial' = initial
        BY <2>13 DEF NotifierSend, handlerVars, Live
      <3>2. \A s \in subs : KeyOf(s) \in Keys
        BY <2>1 DEF KeyOf, Keys, Subscription
      <3>3. \A k \in Keys : \A v : IsNewest(queue', told', k, v) => IsNewest(queue, told, k, v)
        BY <2>13, NewestAfterSend
      <3>4. QED
        BY <2>1, <3>1, <3>2, <3>3 DEF NewsInv
    <2>14. CASE NotifierResume
      BY <2>2, <2>14 DEF NotifierResume, Live, handlerVars
    <2>15. CASE Tick
      <3>1. /\ subs' = {[s EXCEPT !.left = IF @ > 0 THEN @ - 1 ELSE 0] : s \in subs}
            /\ UNCHANGED <<store, queue, told, stage, initial>>
        BY <2>15 DEF Tick, handlerVars
      <3>2. ASSUME NEW s \in subs'
            PROVE  \E t \in subs : t.obj = s.obj /\ t.monitor = s.monitor /\ KeyOf(t) = KeyOf(s)
                                   /\ (~Expired(s) => ~Expired(t))
        <4>1. PICK t \in subs : s = [t EXCEPT !.left = IF @ > 0 THEN @ - 1 ELSE 0]
          BY <3>1
        <4>2. t \in Subscription
          BY <2>1
        <4>3. QED
          BY <4>1, <4>2 DEF Subscription, KeyOf, Expired
      <3>3. \A s \in Live' : \E t \in Live : KeyOf(t) = KeyOf(s)
        BY <3>2 DEF Live
      <3>4. QED
        BY <3>1, <3>2, <3>3, QuietSteps
    <2>16. CASE UNCHANGED vars
      BY <2>2, <2>16 DEF vars, Live, handlerVars
    <2>17. QED
      <3>1. CASE ClientRequest
        BY <2>4, <2>5, <2>6, <2>7, <2>10, <3>1 DEF ClientRequest
      <3>2. CASE WriteStep
        BY <2>8, <2>9, <3>2 DEF WriteStep
      <3>3. CASE Notify
        BY <2>13, <3>3 DEF Notify
      <3>4. QED
        BY <2>11, <2>12, <2>14, <2>15, <2>16, <3>1, <3>2, <3>3 DEF Next
  <1>3. TypeOK /\ NewsInv => LatestNotificationIsCurrent
    <2> SUFFICES ASSUME TypeOK, NewsInv, NEW s \in Live, ~(stage = "initial" /\ KeyOf(initial) = KeyOf(s))
                 PROVE  LET due == {i \in DOMAIN queue : \E n \in queue[i] : Concerns(n, s)} IN
                        IF due = {}
                        THEN UpToDate(s, told[KeyOf(s)])
                        ELSE \A i \in due : (\A j \in due : j <= i) =>
                                 \A n \in queue[i] : Concerns(n, s) => UpToDate(s, n.values)
      BY DEF LatestNotificationIsCurrent
    <2>1. s \in Subscription
      BY LiveSubset DEF TypeOK
    <2>2. \A v : UpToDate(s, v) <=> Current(s.obj, s.monitor, store, v)
      BY <2>1, SnapshotByKey DEF UpToDate, Current
    <2>3. {i \in DOMAIN queue : \E n \in queue[i] : Concerns(n, s)} = Due(queue, KeyOf(s))
      BY DEF Concerns, Due, About
    <2>4. \A v : IsNewest(queue, told, KeyOf(s), v) => UpToDate(s, v)
      BY <2>2 DEF NewsInv
    <2>5. ASSUME Due(queue, KeyOf(s)) = {} PROVE UpToDate(s, told[KeyOf(s)])
      BY <2>4, <2>5 DEF IsNewest
    <2>6. ASSUME NEW i \in Due(queue, KeyOf(s)), \A j \in Due(queue, KeyOf(s)) : j <= i,
                 NEW n \in queue[i], Concerns(n, s)
          PROVE  UpToDate(s, n.values)
      <3>1. About(n, KeyOf(s))
        BY <2>6 DEF About, Concerns
      <3>2. IsNewest(queue, told, KeyOf(s), n.values)
        BY <2>6, <3>1 DEF IsNewest
      <3>3. QED
        BY <2>4, <3>2
    <2>7. QED
      BY <2>3, <2>5, <2>6
  <1>4. QED
    BY <1>1, <1>2, <1>3, TypeCorrect, PTL DEF Spec
-----------------------------------------------------------------------------
(* The queue drains                                                        *)

\* The table and every entry of the queue are finite.
BatchesAreFinite(q) == \A i \in DOMAIN q : IsFiniteSet(q[i])
FiniteInv == IsFiniteSet(subs) /\ BatchesAreFinite(queue)

\* A step of the notifier thread either takes an entry off the queue, or ends its
\* wait for an acknowledgement, or takes a notification out of the entry in front.
Shorter ==
    \/ Len(queue') < Len(queue)
    \/ queue' = queue /\ notifier = "waiting" /\ notifier' = "idle"
    \/ Len(queue') = Len(queue) /\ Cardinality(Head(queue')) < Cardinality(Head(queue))

\* The entry in front is never empty and can be emptied, so that a notification is
\* always there to be sent; every step of the notifier thread comes nearer to the
\* empty queue, and none of them writes to the storage or to the table.
NotifierComesNearerToTheEnd ==
    [][/\ queue # <<>> => Cardinality(Head(queue)) \in Nat \ {0}
       /\ Notify \/ NotifierResume => Shorter /\ UNCHANGED <<store, alarm, subs>>]_vars

LEMMA NotificationsAreFinite ==
    ASSUME IsFiniteSet(subs), NEW o, NEW p, NEW st
    PROVE  IsFiniteSet(Notifications(o, p, st))
  <1> DEFINE S == {t \in Live : t.obj = o /\ Watches(t, p)}
             f == [s \in S |-> CovNotification(s, st)]
  <1>1. S \in SUBSET subs
    BY LiveSubset
  <1>2. IsFiniteSet(S)
    BY <1>1, FS_Subset
  <1>3. Notifications(o, p, st) = {f[s] : s \in S}
    BY DEF Notifications
  <1> HIDE DEF S
  <1>4. f \in Surjection(S, {f[s] : s \in S})
    BY DEF Surjection
  <1> HIDE DEF f
  <1>5. QED
    BY <1>2, <1>3, <1>4, FS_Surjection

LEMMA EnqueueFinite ==
    ASSUME NEW q \in Queues, NEW batch \in SUBSET Notification, BatchesAreFinite(q), IsFiniteSet(batch)
    PROVE  Enqueue(q, batch) \in Queues /\ BatchesAreFinite(Enqueue(q, batch))
  <1> DEFINE q2 == Enqueue(q, batch)
  <1>1. /\ q2 \in Queues
        /\ batch = {} => q2 = q
        /\ batch # {} => /\ Len(q2) = Len(q) + 1 /\ q2[Len(q) + 1] = batch
                         /\ \A i \in 1..Len(q) : q2[i] = q[i]
    BY EnqueueEffect
  <1>2. Len(q) \in Nat /\ DOMAIN q = 1..Len(q)
    BY DEF Queues
  <1>3. DOMAIN q2 = 1..Len(q2)
    BY <1>1 DEF Queues
  <1> HIDE DEF q2
  <1>4. CASE batch = {}
    BY <1>1, <1>4 DEF q2
  <1>5. CASE batch # {}
    <2>1. ASSUME NEW i \in DOMAIN q2 PROVE IsFiniteSet(q2[i])
      <3>1. i = Len(q) + 1 \/ i \in 1..Len(q)
        <4>1. Len(q2) = Len(q) + 1 /\ Len(q) \in Nat
          BY <1>1, <1>2, <1>5
        <4>2. i \in 1..Len(q2)
          BY <1>3
        <4>3. QED
          BY <4>1, <4>2
      <3>2. CASE i = Len(q) + 1
        BY <1>1, <1>5, <3>2
      <3>3. CASE i \in 1..Len(q)
        BY <1>1, <1>2, <1>5, <3>3 DEF BatchesAreFinite
      <3>4. QED
        BY <3>1, <3>2, <3>3
    <2>2. QED
      BY <1>1, <2>1 DEF BatchesAreFinite, q2
  <1>6. QED
    BY <1>4, <1>5

LEMMA NotificationsEnqueued ==
    ASSUME NEW q \in Queues, BatchesAreFinite(q), NEW o, NEW p, NEW st \in Stores,
           IsFiniteSet(subs), subs \subseteq Subscription
    PROVE  /\ Enqueue(q, Notifications(o, p, st)) \in Queues
           /\ BatchesAreFinite(Enqueue(q, Notifications(o, p, st)))
  <1>1. Notifications(o, p, st) \in SUBSET Notification
    BY NotificationsType
  <1>2. IsFiniteSet(Notifications(o, p, st))
    BY NotificationsAreFinite
  <1>3. QED
    BY <1>1, <1>2, EnqueueFinite

LEMMA TransitionIsFinite ==
    ASSUME NEW q \in Queues, BatchesAreFinite(q), NEW st \in Stores, NEW o \in AlarmObjects,
           NEW a \in AlarmStates, NEW c \in Clients, IsFiniteSet(subs),
           subs \subseteq Subscription, alarm \in [AlarmObjects -> AlarmStates]
    PROVE  BatchesAreFinite(QueueTransition(q, st, o, a, c))
  <1> DEFINE ev == EventNotification(c, o, alarm[o].state, a.state)
             q1 == Enqueue(q, Notifications(o, "es", WithEventState(st, o, a)))
             q2 == Enqueue(q1, Notifications(o, "sf", WithStatusFlags(st, o, a)))
             q3 == Enqueue(q2, Notifications(o, "at", WithAcked(st, o, a)))
             q4 == Enqueue(q3, {ev})
  <1>1. /\ WithEventState(st, o, a) \in Stores /\ WithStatusFlags(st, o, a) \in Stores
        /\ WithAcked(st, o, a) \in Stores
    BY AlarmObjectsSubset, TransitionStores
  <1>2. {ev} \in SUBSET Notification
    BY AlarmObjectsSubset DEF EventNotification, Notification, AlarmStates
  <1>3. QueueTransition(q, st, o, a, c) = Enqueue(q4, Notifications(o, "pv", WithAcked(st, o, a)))
    BY DEF QueueTransition
  <1>4. q1 \in Queues /\ BatchesAreFinite(q1)
    BY <1>1, NotificationsEnqueued
  <1>5. IsFiniteSet({ev})
    BY FS_Singleton
  <1> HIDE DEF ev, q1
  <1>6. q2 \in Queues /\ BatchesAreFinite(q2)
    BY <1>1, <1>4, NotificationsEnqueued
  <1> HIDE DEF q2
  <1>7. q3 \in Queues /\ BatchesAreFinite(q3)
    BY <1>1, <1>6, NotificationsEnqueued
  <1> HIDE DEF q3
  <1>8. q4 \in Queues /\ BatchesAreFinite(q4)
    BY <1>2, <1>5, <1>7, EnqueueFinite
  <1> HIDE DEF q4
  <1>9. QED
    BY <1>1, <1>3, <1>8, NotificationsEnqueued

LEMMA ChangesAreFinite ==
    ASSUME TypeOK, FiniteInv,
           \/ \E w \in WriteRequest : PerformWrite(w)
           \/ \E o \in Objects, state \in EventStates, stamped \in BOOLEAN : AcknowledgeAlarm(o, state, stamped)
    PROVE  BatchesAreFinite(queue')
  <1>1. /\ queue \in Queues /\ subs \subseteq Subscription /\ IsFiniteSet(subs) /\ BatchesAreFinite(queue)
        /\ alarm \in [AlarmObjects -> AlarmStates]
    BY DEF TypeOK, Queues, FiniteInv
  <1>2. ASSUME NEW w \in WriteRequest, PerformWrite(w) PROVE BatchesAreFinite(queue')
    <2>1. caller \in Clients
      BY <1>2 DEF PerformWrite, ContinueWrite, TypeOK
    <2>2. PICK st \in Stores : \/ queue' = Enqueue(queue, Notifications(w.obj, "hl", st))
                              \/ PresentValueChanged(st, w.obj, caller)
      BY <1>2, WriteEffect
    <2>3. CASE queue' = Enqueue(queue, Notifications(w.obj, "hl", st))
      BY <1>1, <2>3, NotificationsEnqueued
    <2>4. CASE PresentValueChanged(st, w.obj, caller) /\ IsTransition(st, w.obj)
      <3> DEFINE a == AlarmAfter(w.obj, EvaluatedState(st, w.obj))
      <3>1. w.obj \in AlarmObjects /\ queue' = QueueTransition(queue, st, w.obj, a, caller)
        BY <2>4 DEF PresentValueChanged, IsTransition
      <3>2. a \in AlarmStates
        BY <1>1, <3>1, AlarmAfterType, EvaluatedStateType
      <3> HIDE DEF a
      <3>3. QED
        BY <1>1, <2>1, <3>1, <3>2, TransitionIsFinite
    <2>5. CASE PresentValueChanged(st, w.obj, caller) /\ ~IsTransition(st, w.obj)
      <3>1. queue' = Enqueue(queue, Notifications(w.obj, "pv", st))
        BY <2>5 DEF PresentValueChanged
      <3>2. QED
        BY <1>1, <3>1, NotificationsEnqueued
    <2>6. QED
      BY <2>2, <2>3, <2>4, <2>5
  <1>3. ASSUME NEW o \in Objects, NEW state \in EventStates, NEW stamped \in BOOLEAN,
               AcknowledgeAlarm(o, state, stamped)
        PROVE  BatchesAreFinite(queue')
    <2> DEFINE acked == [alarm[o].acked EXCEPT ![TransitionTo(state)] = TRUE]
               st == [store EXCEPT ![o]["at"] = acked]
    <2>1. store' = st /\ queue' = Enqueue(queue, Notifications(o, "at", st))
      BY <1>3 DEF AcknowledgeAlarm
    <2>2. store' \in Stores
      <3>1. TypeOK'
        BY <1>3, TypeAcknowledge
      <3>2. QED
        BY <3>1 DEF TypeOK
    <2> HIDE DEF st
    <2>3. QED
      BY <1>1, <2>1, <2>2, NotificationsEnqueued
  <1>4. QED
    BY <1>2, <1>3

\* The table grows by at most one subscription in a step, and the clock only ages
\* the ones that are there.
LEMMA TableStaysFinite ==
    ASSUME IsFiniteSet(subs), [Next]_vars
    PROVE  IsFiniteSet(subs')
  <1>1. CASE subs' \subseteq subs
    BY <1>1, FS_Subset
  <1>2. ASSUME NEW c \in Clients, NEW pid \in ProcessIds, NEW o \in Objects, NEW m \in Monitors,
               NEW confirmed \in BOOLEAN, NEW life \in Lifetimes, Subscribe(c, pid, o, m, confirmed, life)
        PROVE  IsFiniteSet(subs')
    <2> DEFINE rest == Live \ Existing(c, pid, o, m)
    <2>1. PICK s : subs' = rest \cup {s}
      BY <1>2 DEF Subscribe
    <2>2. rest \in SUBSET subs
      BY LiveSubset
    <2> HIDE DEF rest
    <2>3. IsFiniteSet(rest)
      BY <2>2, FS_Subset
    <2>4. QED
      BY <2>1, <2>3, FS_AddElement
  <1>3. CASE Tick
    <2> DEFINE aged == [s \in subs |-> [s EXCEPT !.left = IF @ > 0 THEN @ - 1 ELSE 0]]
    <2>1. subs' = {aged[s] : s \in subs}
      BY <1>3 DEF Tick
    <2>2. aged \in Surjection(subs, {aged[s] : s \in subs})
      BY DEF Surjection
    <2> HIDE DEF aged
    <2>3. QED
      BY <2>1, <2>2, FS_Surjection
  <1>4. QED
    BY <1>1, <1>2, <1>3, TableSteps

\* A send takes one notification out of the entry in front.
LEMMA SendIsShorter ==
    ASSUME TypeOK, FiniteInv, queue # <<>>, NEW n \in Head(queue), NotifierSend(n)
    PROVE  BatchesAreFinite(queue') /\ Shorter
  <1>1. /\ queue \in Queues /\ Len(queue) \in Nat \ {0} /\ Head(queue) = queue[1]
        /\ \/ /\ queue[1] = {n} /\ Len(queue') = Len(queue) - 1
              /\ \A i \in 1..Len(queue') : queue'[i] = queue[i + 1]
           \/ /\ queue[1] # {n} /\ Len(queue') = Len(queue)
              /\ queue'[1] = queue[1] \ {n}
              /\ \A i \in 2..Len(queue) : queue'[i] = queue[i]
        /\ queue' \in Queues
    BY SendEffect
  <1>2. /\ DOMAIN queue = 1..Len(queue) /\ DOMAIN queue' = 1..Len(queue')
        /\ Len(queue') \in Nat /\ (queue' # <<>> => Head(queue') = queue'[1])
    BY <1>1 DEF Queues
  <1>3. \A i \in 1..Len(queue) : IsFiniteSet(queue[i])
    BY <1>2 DEF FiniteInv, BatchesAreFinite
  <1>4. CASE queue[1] = {n} /\ Len(queue') = Len(queue) - 1
             /\ \A i \in 1..Len(queue') : queue'[i] = queue[i + 1]
    <2>1. Len(queue') < Len(queue)
      BY <1>1, <1>4
    <2>2. ASSUME NEW i \in 1..Len(queue') PROVE IsFiniteSet(queue'[i])
      <3>1. i + 1 \in 1..Len(queue)
        BY <1>1, <1>2, <1>4
      <3>2. QED
        BY <1>3, <1>4, <3>1
    <2>3. QED
      BY <1>2, <2>1, <2>2 DEF BatchesAreFinite, Shorter
  <1>5. CASE queue[1] # {n} /\ Len(queue') = Len(queue) /\ queue'[1] = queue[1] \ {n}
             /\ \A i \in 2..Len(queue) : queue'[i] = queue[i]
    <2>1. IsFiniteSet(queue[1]) /\ n \in queue[1]
      BY <1>1, <1>3
    <2>2. IsFiniteSet(queue[1] \ {n}) /\ Cardinality(queue[1] \ {n}) = Cardinality(queue[1]) - 1
      BY <2>1, FS_RemoveElement
    <2>3. Cardinality(queue[1]) \in Nat
      BY <2>1, FS_CardinalityType
    <2>4. Cardinality(queue'[1]) < Cardinality(queue[1])
      BY <1>5, <2>2, <2>3
    <2>5. Head(queue') = queue'[1]
      BY <1>1, <1>2, <1>5
    <2>6. ASSUME NEW i \in 1..Len(queue') PROVE IsFiniteSet(queue'[i])
      <3>1. i = 1 \/ i \in 2..Len(queue)
        BY <1>2, <1>5
      <3>2. QED
        BY <1>2, <1>3, <1>5, <2>2, <3>1
    <2>7. QED
      BY <1>1, <1>2, <1>5, <2>4, <2>5, <2>6 DEF BatchesAreFinite, Shorter
  <1>6. QED
    BY <1>1, <1>4, <1>5

LEMMA FiniteStep ==
    ASSUME TypeOK, FiniteInv, [Next]_vars
    PROVE  FiniteInv'
  <1>1. IsFiniteSet(subs')
    BY TableStaysFinite DEF FiniteInv
  <1>2. queue \in Queues /\ BatchesAreFinite(queue)
    BY DEF TypeOK, Queues, FiniteInv
  <1>3. ASSUME UNCHANGED queue PROVE BatchesAreFinite(queue')
    BY <1>2, <1>3
  <1>4. ASSUME \/ \E w \in WriteRequest : PerformWrite(w)
               \/ \E o \in Objects, state \in EventStates, stamped \in BOOLEAN : AcknowledgeAlarm(o, state, stamped)
        PROVE  BatchesAreFinite(queue')
    BY <1>4, ChangesAreFinite
  <1>5. ASSUME NEW c \in Clients, FirstReadProperty(c) PROVE BatchesAreFinite(queue')
    <2> DEFINE e == EventNotification(c, EventTarget, "normal", "high")
    <2>1. queue' = Enqueue(queue, {e})
      BY <1>5 DEF FirstReadProperty
    <2>2. {e} \in SUBSET Notification
      <3>1. EventTarget \in Objects \cup {Unknown}
        BY DEF EventTarget
      <3>2. QED
        BY <3>1 DEF EventNotification, Notification, EventStates
    <2> HIDE DEF e
    <2>3. IsFiniteSet({e})
      BY FS_Singleton
    <2>4. QED
      BY <1>2, <2>1, <2>2, <2>3, EnqueueFinite
  <1>6. ASSUME QueueInitial PROVE BatchesAreFinite(queue')
    <2> DEFINE e == CovNotification(initial, store)
    <2>1. queue' = Enqueue(queue, {e})
      BY <1>6 DEF QueueInitial
    <2>2. store \in Stores /\ initial \in Subscription
      BY <1>6 DEF QueueInitial, TypeOK
    <2>3. {e} \in SUBSET Notification
      BY <2>2, CovNotificationType
    <2> HIDE DEF e
    <2>4. IsFiniteSet({e})
      BY FS_Singleton
    <2>5. QED
      BY <1>2, <2>1, <2>3, <2>4, EnqueueFinite
  <1>7. ASSUME queue # <<>>, NEW n \in Head(queue), NotifierSend(n) PROVE BatchesAreFinite(queue')
    BY <1>7, SendIsShorter
  <1>8. BatchesAreFinite(queue')
    BY <1>3, <1>4, <1>5, <1>6, <1>7, QueueSteps
  <1>9. QED
    BY <1>1, <1>8 DEF FiniteInv, BatchesAreFinite

\* What lies in front of a notification is finite and only gets less: the notifier
\* thread empties every entry of the queue in as many sends as it holds
\* notifications, and goes on to the next one.  That it does take its steps is what
\* the fairness of the specification adds.
THEOREM QueueDrains == Spec => NotifierComesNearerToTheEnd
  <1>1. Init => FiniteInv
    BY FS_EmptySet DEF Init, FiniteInv, BatchesAreFinite
  <1>2. TypeOK /\ FiniteInv /\ [Next]_vars => FiniteInv'
    BY FiniteStep
  <1>3. TypeOK /\ FiniteInv /\ [Next]_vars =>
          [/\ queue # <<>> => Cardinality(Head(queue)) \in Nat \ {0}
           /\ Notify \/ NotifierResume => Shorter /\ UNCHANGED <<store, alarm, subs>>]_vars
    <2> SUFFICES ASSUME TypeOK, FiniteInv, [Next]_vars
                 PROVE  /\ queue # <<>> => Cardinality(Head(queue)) \in Nat \ {0}
                        /\ Notify \/ NotifierResume => Shorter /\ UNCHANGED <<store, alarm, subs>>
      OBVIOUS
    <2>1. ASSUME queue # <<>> PROVE Cardinality(Head(queue)) \in Nat \ {0}
      <3>1. queue \in Queues
        BY DEF TypeOK, Queues
      <3>2. Head(queue) = queue[1] /\ queue[1] # {} /\ 1 \in DOMAIN queue
        BY <2>1, <3>1 DEF Queues
      <3>3. IsFiniteSet(queue[1])
        BY <3>2 DEF FiniteInv, BatchesAreFinite
      <3>4. Cardinality(queue[1]) \in Nat /\ Cardinality(queue[1]) # 0
        BY <3>2, <3>3, FS_CardinalityType, FS_EmptySet
      <3>5. QED
        BY <3>2, <3>4
    <2>2. ASSUME queue # <<>>, NEW n \in Head(queue), NotifierSend(n)
          PROVE  Shorter /\ UNCHANGED <<store, alarm, subs>>
      <3>1. Shorter
        BY <2>2, SendIsShorter
      <3>2. QED
        BY <2>2, <3>1 DEF NotifierSend
    <2>3. ASSUME NotifierResume PROVE Shorter /\ UNCHANGED <<store, alarm, subs>>
      BY <2>3 DEF NotifierResume, Shorter
    <2>4. QED
      BY <2>1, <2>2, <2>3 DEF Notify
  <1>4. QED
    BY <1>1, <1>2, <1>3, TypeCorrect, PTL DEF Spec, NotifierComesNearerToTheEnd

\* When the queue is empty and no initial notification is owed, every live
\* subscriber was last sent what the storage holds now.
CaughtUp ==
    queue = <<>> /\ stage # "initial" => \A s \in Live : UpToDate(s, told[KeyOf(s)])

\* Where the draining of the queue ends: there is nothing left that a live
\* subscriber has not been told.
THEOREM DrainedMeansCaughtUp == Spec => []CaughtUp
  <1>1. LatestNotificationIsCurrent => CaughtUp
    <2> SUFFICES ASSUME LatestNotificationIsCurrent, queue = <<>>, stage # "initial", NEW s \in Live
                 PROVE  UpToDate(s, told[KeyOf(s)])
      BY DEF CaughtUp
    <2>1. {i \in DOMAIN queue : \E n \in queue[i] : Concerns(n, s)} = {}
      OBVIOUS
    <2>2. QED
      BY <2>1 DEF LatestNotificationIsCurrent
  <1>2. QED
    BY <1>1, NewsIsCurrent, PTL
=============================================================================
