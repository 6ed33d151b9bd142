---------------------------- MODULE SysioDevice ----------------------------
(***************************************************************************)
(* The System.IO.BACnet device server (adapters/sysiobacnet/src): request  *)
(* handlers on thread-pool threads that exclude one another with _gate,    *)
(* the object storage, the out-of-range alarm state of Analog Values, the  *)
(* COV subscription table and the FIFO of notifications that one           *)
(* background thread sends WITHOUT taking _gate.                            *)
(*                                                                         *)
(* A handler waiting for _gate is a request that has not arrived yet: the  *)
(* model chooses the request when the gate is acquired.  A handler that    *)
(* does one thing under the gate and then answers is one action; one whose *)
(* answer can be overtaken by the notifier thread takes several steps, and *)
(* `stage` says where the gate's holder stands.                             *)
(***************************************************************************)
EXTENDS Integers, Sequences, FiniteSets

CONSTANTS
    Clients,              (* BACnet/IP peers that send requests               *)
    ProcessIds,           (* subscriber process identifiers                   *)
    Objects,              (* object identifiers of the fixture                *)
    KindOf,               (* the type of each object                          *)
    HasNotificationClass, (* the fixture asks for alarms                      *)
    Values,               (* the numbers Present_Value and High_Limit take    *)
    InitialValue,         (* the fixture's present_value                      *)
    AlarmHighLimit,       (* the High_Limit every alarm object starts with    *)
    Priorities,           (* command priorities, lowest number first          *)
    EmitEvent,            (* BACNET_EMIT_EVENT                                *)
    Lifetimes,            (* lifetimes a subscriber asks for, in clock ticks;
                             0 is indefinite                                  *)
    Monitors,             (* what clients subscribe to: "object" or a property *)
    TicksPerSecond,       (* resolution of the clock                          *)
    MaxWrites,            (* bound: writes in one WritePropertyMultiple       *)
    MaxQueue,             (* bound: a handler starts a write, subscription or
                             acknowledgement only below this queue length     *)
    Unknown,              (* an object identifier no object has               *)
    Null                  (* no value: BACnet NULL, no client, nothing sent   *)

Kinds       == {"av", "bv", "ai", "tl"}
Properties  == {"pv", "sf", "es", "hl", "at"}
Transitions == {"offnormal", "fault", "normal"}
EventStates == {"normal", "high"}

ASSUME ConstantsAssumption ==
    /\ KindOf \in [Objects -> Kinds]
    /\ HasNotificationClass \in BOOLEAN /\ EmitEvent \in BOOLEAN
    /\ Values \subseteq Int /\ InitialValue \in Values /\ AlarmHighLimit \in Values
    /\ Priorities \subseteq Nat \ {0} /\ Priorities # {}
    /\ Monitors \subseteq {"object"} \cup Properties
    /\ Lifetimes \subseteq Nat /\ TicksPerSecond \in Nat \ {0}
    /\ MaxWrites \in Nat \ {0} /\ MaxQueue \in Nat \ {0}
    /\ Unknown \notin Objects /\ Null \notin Values

\* Alarm state exists for the Analog Values of a fixture with a Notification Class.
AlarmObjects == {o \in Objects : HasNotificationClass /\ KindOf[o] = "av"}
IsCovObject(o) == KindOf[o] \in {"av", "bv", "ai"}
Commandable(o) == KindOf[o] \in {"av", "bv"}

\* The properties the model keeps: Present_Value, Status_Flags, Event_State,
\* High_Limit and Acked_Transitions, and which objects have them.
PropertiesOf(o) ==
    {"sf", "es"} \cup (IF IsCovObject(o) THEN {"pv"} ELSE {})
                 \cup (IF o \in AlarmObjects THEN {"hl", "at"} ELSE {})

IsWritable(o, p) == \/ p = "pv" /\ Commandable(o)
                    \/ p = "hl" /\ KindOf[o] = "av"

VARIABLES
    store,      (* property values of every object (DeviceStorage)            *)
    commands,   (* the Priority_Array of every object                         *)
    alarm,      (* DeviceModel.Alarms: state and acknowledged transitions     *)
    subs,       (* _subscriptions                                             *)
    queue,      (* _notifications: one set of notifications per change, in
                   FIFO order; within a set the sends come in any order       *)
    notifier,   (* "waiting": the notifier thread blocks on a confirmed send  *)
    told,       (* what each subscription key was last sent                   *)
    emitted,    (* _emitted                                                   *)
    stage,      (* where the holder of _gate stands; "free": nobody holds it  *)
    caller,     (* the client whose write holds _gate (_requester)            *)
    written,    (* writes already performed for the request                   *)
    fresh,      (* notifications queued by the request before its answer      *)
    initial     (* the subscription that is owed its initial notification     *)

handlerVars == <<stage, caller, written, fresh, initial>>
vars == <<store, commands, alarm, subs, queue, notifier, told, emitted, handlerVars>>

-----------------------------------------------------------------------------
(* Subscriptions and notifications *)

Subscription ==
    [addr : Clients, pid : ProcessIds, obj : Objects, monitor : Monitors,
     confirmed : BOOLEAN, life : Lifetimes, left : Nat]

Keys == Clients \X ProcessIds \X Objects \X Monitors
KeyOf(s) == <<s.addr, s.pid, s.obj, s.monitor>>

Expired(s) == s.life # 0 /\ s.left = 0
Live == {s \in subs : ~Expired(s)}

\* Defect: the lookup searches the subscriptions that were removed.
ExistingAmongExpired(c, pid, o, m) == {s \in subs : Expired(s) /\ KeyOf(s) = <<c, pid, o, m>>}

\* The subscription a request refers to, once the expired ones are removed.
Existing(c, pid, o, m) == {s \in Live : KeyOf(s) = <<c, pid, o, m>>}

TimeRemaining(s) == IF s.life = 0 THEN 0 ELSE s.left \div TicksPerSecond

\* A subscription to an object watches Present_Value and Status_Flags, a
\* property subscription its property.
Watches(s, p) == IF s.monitor = "object" THEN p \in {"pv", "sf"} ELSE s.monitor = p

\* The values a notification for s carries: the monitored property and Status_Flags.
MonitoredProperty(s) == IF s.monitor = "object" THEN "pv" ELSE s.monitor
Snapshot(s, st) ==
    [p \in {MonitoredProperty(s), "sf"} \cap PropertiesOf(s.obj) |-> st[s.obj][p]]

\* What a notification may carry; Null stands for nothing sent yet.
Snapshots ==
    [sf : BOOLEAN] \cup [pv : Values, sf : BOOLEAN] \cup [es : EventStates, sf : BOOLEAN]
    \cup [hl : Values, sf : BOOLEAN] \cup [at : [Transitions -> BOOLEAN], sf : BOOLEAN]

ASSUME NullAssumption == Null \notin Snapshots

CovNotification(s, st) ==
    [kind |-> "cov", to |-> s.addr, pid |-> s.pid, obj |-> s.obj, monitor |-> s.monitor,
     confirmed |-> s.confirmed, remaining |-> TimeRemaining(s), values |-> Snapshot(s, st)]

\* Defect: the two states are swapped.
SwappedEventNotification(c, o, from, next) ==
    [kind |-> "event", to |-> c, obj |-> o, from |-> next, next |-> from, confirmed |-> FALSE]

EventNotification(c, o, from, next) ==
    [kind |-> "event", to |-> c, obj |-> o, from |-> from, next |-> next, confirmed |-> FALSE]

NotifiedKey(n) == <<n.to, n.pid, n.obj, n.monitor>>

\* Defects: an entry is queued although nobody subscribed; an entry is dropped
\* when another one waits.
EnqueueAlways(q, batch) == Append(q, batch)
EnqueueIfEmpty(q, batch) == IF batch = {} \/ q # <<>> THEN q ELSE <<batch>>

Enqueue(q, batch) == IF batch = {} THEN q ELSE Append(q, batch)

\* Defect: subscriptions that ran out are not removed first.
NotificationsToAll(o, p, st) ==
    {CovNotification(s, st) : s \in {t \in subs : t.obj = o /\ Watches(t, p)}}

\* What a change of property p of o queues: one notification for every live
\* subscription that watches it, with the values the storage then holds.
Notifications(o, p, st) ==
    {CovNotification(s, st) : s \in {t \in Live : t.obj = o /\ Watches(t, p)}}
-----------------------------------------------------------------------------
(* The alarm of an Analog Value *)

\* Present_Value above High_Limit is high-limit, otherwise normal.
EvaluatedState(st, o) == IF st[o]["pv"] > st[o]["hl"] THEN "high" ELSE "normal"

TransitionTo(state) == IF state = "normal" THEN "normal" ELSE "offnormal"

\* Only to-offnormal needs an acknowledgement.
AlarmAfter(o, next) ==
    [state |-> next,
     acked |-> [alarm[o].acked EXCEPT ![TransitionTo(next)] = TransitionTo(next) # "offnormal"]]

\* Defect: an alarm never returns to normal.
IsFirstTransition(st, o) == o \in AlarmObjects /\ EvaluatedState(st, o) = "high" /\ alarm[o].state = "normal"

\* Whether a Present_Value change of o, already in st, is a transition.
IsTransition(st, o) == o \in AlarmObjects /\ EvaluatedState(st, o) # alarm[o].state

\* The storage after the three writes EvaluateAlarm makes, one at a time: each
\* is a change of value of its own.
WithEventState(st, o, a)  == [st EXCEPT ![o]["es"] = a.state]
WithStatusFlags(st, o, a) == [WithEventState(st, o, a) EXCEPT ![o]["sf"] = a.state # "normal"]
\* Defect: Acked_Transitions is not stored.
WithoutAcked(st, o, a)    == WithStatusFlags(st, o, a)
WithAcked(st, o, a)       == [WithStatusFlags(st, o, a) EXCEPT ![o]["at"] = a.acked]

\* The notifications of those writes, the event notification to the client
\* whose write caused the transition, then those of Present_Value itself.
QueueTransition(q, st, o, a, c) ==
    LET q1 == Enqueue(q,  Notifications(o, "es", WithEventState(st, o, a)))
        q2 == Enqueue(q1, Notifications(o, "sf", WithStatusFlags(st, o, a)))
        q3 == Enqueue(q2, Notifications(o, "at", WithAcked(st, o, a)))
        q4 == Enqueue(q3, {EventNotification(c, o, alarm[o].state, a.state)})
    IN  Enqueue(q4, Notifications(o, "pv", WithAcked(st, o, a)))

\* DeviceStorage raised ChangeOfValue for Present_Value of o; st holds the new value.
PresentValueChanged(st, o, c) ==
    LET a == AlarmAfter(o, EvaluatedState(st, o)) IN
    IF IsTransition(st, o)
    THEN /\ alarm' = [alarm EXCEPT ![o] = a]
         /\ store' = WithAcked(st, o, a)
         /\ queue' = QueueTransition(queue, st, o, a, c)
    ELSE /\ store' = st
         /\ queue' = Enqueue(queue, Notifications(o, "pv", st))
         /\ UNCHANGED alarm

-----------------------------------------------------------------------------
(* WriteProperty and WritePropertyMultiple *)

WriteRequest ==
    [obj : Objects \cup {Unknown}, prop : Properties, wellFormed : BOOLEAN,
     val : Values \cup {Null}, prio : Priorities]

\* The checks of Write: known object, known property, writable, no array index,
\* one value, of the property's type, or NULL for a commandable one.
Accepts(w) ==
    /\ w.obj \in Objects
    /\ w.prop \in PropertiesOf(w.obj)
    /\ IsWritable(w.obj, w.prop)
    /\ w.wellFormed
    /\ w.val = Null => w.prop = "pv"

\* Present_Value follows the highest-priority command, else Relinquish_Default.
Commanded(slots) ==
    LET set == {p \in Priorities : slots[p] # Null}
    IN  IF set = {} THEN InitialValue
        ELSE slots[CHOOSE p \in set : \A q \in set : p <= q]

BeginWrite(c) ==
    /\ stage = "free" /\ Len(queue) < MaxQueue
    /\ stage' = "writing" /\ caller' = c /\ written' = 0 /\ fresh' = 0
    /\ UNCHANGED <<store, commands, alarm, subs, queue, notifier, told, emitted, initial>>

\* The loop's next write.  Which one it is only matters when it is performed.
ContinueWrite == stage = "writing" /\ written < MaxWrites /\ Len(queue) < MaxQueue

WritePresentValue(o, v, prio) ==
    LET slots == [commands[o] EXCEPT ![prio] = v]
        st    == [store EXCEPT ![o]["pv"] = Commanded(slots)]
    IN  /\ commands' = [commands EXCEPT ![o] = slots]
        /\ PresentValueChanged(st, o, caller)

WriteHighLimit(o, v) ==
    LET st == [store EXCEPT ![o]["hl"] = v]
    IN  /\ store' = st
        /\ queue' = Enqueue(queue, Notifications(o, "hl", st))
        /\ UNCHANGED <<commands, alarm>>

PerformWrite(w) ==
    /\ ContinueWrite /\ Accepts(w)
    /\ \/ w.prop = "pv" /\ WritePresentValue(w.obj, w.val, w.prio)
       \/ w.prop = "hl" /\ WriteHighLimit(w.obj, w.val)
    /\ subs' = Live
    /\ written' = written + 1
    /\ fresh' = fresh + Len(queue') - Len(queue)
    /\ UNCHANGED <<notifier, told, emitted, stage, caller, initial>>

\* The first failure ends the request; what was written before stays.
RefuseWrite(w) ==
    /\ ContinueWrite /\ ~Accepts(w)
    /\ stage' = "replying"
    /\ UNCHANGED <<store, commands, alarm, subs, queue, notifier, told, emitted,
                   caller, written, fresh, initial>>

\* Defect: a refused write is never answered.
ReplyToSuccess ==
    /\ stage = "writing" /\ written > 0
    /\ stage' = "free" /\ caller' = Null /\ fresh' = 0 /\ written' = 0
    /\ UNCHANGED <<store, commands, alarm, subs, queue, notifier, told, emitted, initial>>

\* The SimpleAck, or the Error, leaves and the gate is released.
Reply ==
    /\ stage = "replying" \/ (stage = "writing" /\ written > 0)
    /\ stage' = "free" /\ caller' = Null /\ fresh' = 0 /\ written' = 0
    /\ UNCHANGED <<store, commands, alarm, subs, queue, notifier, told, emitted, initial>>
-----------------------------------------------------------------------------
(* SubscribeCOV and SubscribeCOVProperty *)

Subscribable(o, m) ==
    /\ o \in Objects
    /\ IF m = "object" THEN IsCovObject(o) ELSE m \in PropertiesOf(o)

\* Cancelling a subscription that does not exist succeeds.
CancelSubscription(c, pid, o, m) ==
    /\ stage = "free"
    /\ subs' = Live \ Existing(c, pid, o, m)
    /\ UNCHANGED <<store, commands, alarm, queue, notifier, told, emitted, handlerVars>>

\* An unknown object or property, or an object that does not report COV: only
\* the expired subscriptions are gone afterwards.
RefuseSubscription(o, m) ==
    /\ stage = "free" /\ ~Subscribable(o, m)
    /\ subs' = Live
    /\ UNCHANGED <<store, commands, alarm, queue, notifier, told, emitted, handlerVars>>

\* A new subscription is added, an existing one is renewed; the SimpleAck has
\* left when the step ends and the initial notification is still to be queued.
Subscribe(c, pid, o, m, confirmed, life) ==
    LET s == [addr |-> c, pid |-> pid, obj |-> o, monitor |-> m,
              confirmed |-> confirmed, life |-> life, left |-> life]
    IN  /\ stage = "free" /\ Len(queue) < MaxQueue /\ Subscribable(o, m)
        /\ subs' = (Live \ Existing(c, pid, o, m)) \cup {s}
        /\ stage' = "initial" /\ initial' = s
        /\ UNCHANGED <<store, commands, alarm, queue, notifier, told, emitted,
                       caller, written, fresh>>

QueueInitial ==
    /\ stage = "initial"
    /\ queue' = Enqueue(queue, {CovNotification(initial, store)})
    /\ stage' = "free" /\ initial' = Null
    /\ UNCHANGED <<store, commands, alarm, subs, notifier, told, emitted, caller, written, fresh>>

-----------------------------------------------------------------------------
(* ReadProperty and AcknowledgeAlarm *)

EventTarget ==
    IF \E o \in Objects : KindOf[o] = "av" THEN CHOOSE o \in Objects : KindOf[o] = "av" ELSE Unknown

\* The first ReadProperty that succeeds: the answer, then the one event of
\* BACNET_EMIT_EVENT.  Every other read changes nothing.
FirstReadProperty(c) ==
    /\ stage = "free" /\ EmitEvent /\ ~emitted
    /\ emitted' = TRUE
    /\ queue' = Enqueue(queue, {EventNotification(c, EventTarget, "normal", "high")})
    /\ UNCHANGED <<store, commands, alarm, subs, notifier, told, handlerVars>>

\* The acknowledged state must be the alarm's state now, and the time stamp the
\* one of the last transition to it: `stamped` says that the request's is.
Acknowledgeable(o, state, stamped) ==
    o \in AlarmObjects /\ alarm[o].state = state /\ stamped

AcknowledgeAlarm(o, state, stamped) ==
    LET acked == [alarm[o].acked EXCEPT ![TransitionTo(state)] = TRUE]
        st    == [store EXCEPT ![o]["at"] = acked]
    IN  /\ stage = "free" /\ Len(queue) < MaxQueue /\ Acknowledgeable(o, state, stamped)
        /\ alarm' = [alarm EXCEPT ![o].acked = acked]
        /\ store' = st
        /\ queue' = Enqueue(queue, Notifications(o, "at", st))
        /\ subs' = Live
        /\ stage' = "replying" /\ fresh' = Len(queue') - Len(queue)
        /\ UNCHANGED <<commands, notifier, told, emitted, caller, written, initial>>

\* The objects GetEventInformation reports; it changes nothing.
EventInformation ==
    {o \in AlarmObjects : alarm[o].state # "normal" \/ \E t \in Transitions : ~alarm[o].acked[t]}

-----------------------------------------------------------------------------
(* The notifier thread, and time *)

\* The next notification is handed to the stack.  A confirmed one blocks the
\* thread until it is acknowledged or the stack gives up.
NotifierSend(n) ==
    /\ notifier = "idle" /\ queue # <<>> /\ n \in Head(queue)
    /\ queue' = IF Head(queue) = {n} THEN Tail(queue) ELSE [queue EXCEPT ![1] = @ \ {n}]
    /\ told' = IF n.kind = "cov" THEN [told EXCEPT ![NotifiedKey(n)] = n.values] ELSE told
    /\ notifier' = IF n.confirmed THEN "waiting" ELSE "idle"
    /\ UNCHANGED <<store, commands, alarm, subs, emitted, handlerVars>>

\* Acknowledged, refused or timed out: the outcome is only logged.
NotifierResume ==
    /\ notifier = "waiting"
    /\ notifier' = "idle"
    /\ UNCHANGED <<store, commands, alarm, subs, queue, told, emitted, handlerVars>>

Tick ==
    /\ \E s \in subs : s.left > 0
    /\ subs' = {[s EXCEPT !.left = IF @ > 0 THEN @ - 1 ELSE 0] : s \in subs}
    /\ UNCHANGED <<store, commands, alarm, queue, notifier, told, emitted, handlerVars>>

-----------------------------------------------------------------------------
Init ==
    /\ store = [o \in Objects |->
                  [pv |-> InitialValue, sf |-> FALSE, es |-> "normal", hl |-> AlarmHighLimit,
                   at |-> [t \in Transitions |-> TRUE]]]
    /\ commands = [o \in Objects |-> [p \in Priorities |-> Null]]
    /\ alarm = [o \in AlarmObjects |->
                  [state |-> "normal", acked |-> [t \in Transitions |-> TRUE]]]
    /\ subs = {} /\ queue = <<>> /\ notifier = "idle"
    /\ told = [k \in Keys |-> Null]
    /\ emitted = FALSE
    /\ stage = "free" /\ caller = Null /\ written = 0 /\ fresh = 0 /\ initial = Null

ClientRequest ==
    \/ \E c \in Clients : BeginWrite(c) \/ FirstReadProperty(c)
    \/ \E o \in Objects \cup {Unknown}, m \in Monitors : RefuseSubscription(o, m)
    \/ \E c \in Clients, pid \in ProcessIds, o \in Objects, m \in Monitors :
         \/ CancelSubscription(c, pid, o, m)
         \/ \E confirmed \in BOOLEAN, life \in Lifetimes : Subscribe(c, pid, o, m, confirmed, life)
    \/ \E o \in Objects, state \in EventStates, stamped \in BOOLEAN : AcknowledgeAlarm(o, state, stamped)

WriteStep == \E w \in WriteRequest : PerformWrite(w) \/ RefuseWrite(w)

Notify == queue # <<>> /\ \E n \in Head(queue) : NotifierSend(n)

Next == ClientRequest \/ WriteStep \/ Reply \/ QueueInitial \/ Notify \/ NotifierResume \/ Tick

\* A handler that holds the gate finishes, and the notifier thread runs: its
\* loop catches every exception and a confirmed send times out.  Requests and
\* the clock are the environment's.
Fairness ==
    /\ WF_vars(WriteStep) /\ WF_vars(Reply) /\ WF_vars(QueueInitial)
    /\ WF_vars(Notify) /\ WF_vars(NotifierResume)

Spec == Init /\ [][Next]_vars
FairSpec == Spec /\ Fairness

-----------------------------------------------------------------------------
(* Properties *)

Stores ==
    [Objects -> [pv : Values, sf : BOOLEAN, es : EventStates, hl : Values,
                 at : [Transitions -> BOOLEAN]]]
AlarmStates == [state : EventStates, acked : [Transitions -> BOOLEAN]]

Notification ==
    [kind : {"cov"}, to : Clients, pid : ProcessIds, obj : Objects, monitor : Monitors,
     confirmed : BOOLEAN, remaining : Nat, values : Snapshots]
    \cup
    [kind : {"event"}, to : Clients, obj : Objects \cup {Unknown}, from : EventStates,
     next : EventStates, confirmed : {FALSE}]

\* Type correctness of the server's state.
TypeOK ==
    /\ store \in Stores
    /\ commands \in [Objects -> [Priorities -> Values \cup {Null}]]
    /\ alarm \in [AlarmObjects -> AlarmStates]
    /\ subs \subseteq Subscription
    /\ queue \in Seq((SUBSET Notification) \ {{}})
    /\ notifier \in {"idle", "waiting"}
    /\ told \in [Keys -> Snapshots \cup {Null}]
    /\ emitted \in BOOLEAN
    /\ stage \in {"free", "writing", "replying", "initial"}
    /\ caller \in Clients \cup {Null}
    /\ (stage = "writing") => (caller \in Clients)
    /\ written \in Nat /\ fresh \in Nat
    /\ IF stage = "initial" THEN initial \in Subscription ELSE initial = Null

\* The table never holds two subscriptions of one client for the same process
\* identifier, object and monitored property, however often it is renewed,
\* cancelled, expired or replaced: no change is notified to it twice.
OneSubscriptionPerKey ==
    \A s, t \in subs : KeyOf(s) = KeyOf(t) => s = t

\* Event_State, Status_Flags and Acked_Transitions, which ReadProperty and COV
\* answer from the storage, agree with the alarm state GetEventInformation and
\* AcknowledgeAlarm use, and only to-offnormal ever waits for an acknowledgement.
StorageShowsTheAlarm ==
    \A o \in AlarmObjects :
        /\ store[o]["es"] = alarm[o].state
        /\ store[o]["sf"] = (alarm[o].state # "normal")
        /\ store[o]["at"] = alarm[o].acked
        /\ alarm[o].acked["fault"] /\ alarm[o].acked["normal"]

\* Whether what a subscriber holds is what the storage holds.  A subscription
\* to Event_State or High_Limit is not notified of the Status_Flags change that
\* follows, so only the property it names is compared for those two.
UpToDate(s, values) ==
    /\ values # Null
    /\ IF s.monitor \in {"es", "hl"}
       THEN values[s.monitor] = store[s.obj][s.monitor]
       ELSE values = Snapshot(s, store)

Concerns(n, s) == n.kind = "cov" /\ NotifiedKey(n) = KeyOf(s)

\* The newest thing a live subscriber was sent, or will be sent from the queue,
\* is the present state of what it monitors: nested storage writes, renewals,
\* expiry and leftovers of a cancelled subscription never leave an older
\* snapshot behind a newer one, and no change goes unnotified.
LatestNotificationIsCurrent ==
    \A s \in Live :
        \/ stage = "initial" /\ KeyOf(initial) = KeyOf(s)
        \/ LET due == {i \in DOMAIN queue : \E n \in queue[i] : Concerns(n, s)} IN
           IF due = {}
           THEN UpToDate(s, told[KeyOf(s)])
           ELSE \A i \in due : (\A j \in due : j <= i) =>
                    \A n \in queue[i] : Concerns(n, s) => UpToDate(s, n.values)

\* The events about one object wait in the order of the transitions: each leaves
\* the state the one before it entered, the last enters the state the alarm is in.
EventPositions(o) == {i \in DOMAIN queue : \E n \in queue[i] : n.kind = "event" /\ n.obj = o}
EventsFollowTheAlarm ==
    EmitEvent \/
    \A o \in AlarmObjects : \A i \in EventPositions(o) : \A n \in queue[i] :
        LET later == {j \in EventPositions(o) : j > i} IN
        IF later = {}
        THEN n.next = alarm[o].state /\ n.from # n.next
        ELSE \A j \in later : (\A k \in later : j <= k) => \A m \in queue[j] : m.from = n.next

\* A step queues COV notifications only for subscriptions that are in the table
\* and have not run out; the initial one belongs to the subscription just made.
OnlyLiveSubscribersNotified ==
    [][\A i \in DOMAIN queue' : i > Len(queue) =>
          \A n \in queue'[i] :
              \/ n.kind = "event"
              \/ stage = "initial" /\ Concerns(n, initial)
              \/ \E s \in subs' : Concerns(n, s) /\ ~Expired(s)]_vars

\* Every write that changes Present_Value leaves the alarm in the state the
\* value and the limit call for.
PresentValueIsEvaluated ==
    [][\A o \in AlarmObjects :
          store'[o]["pv"] # store[o]["pv"] => alarm'[o].state = EvaluatedState(store', o)]_vars

\* A subscriber that stays subscribed is, again and again, sent the present value
\* of what it monitors, unless the storage keeps changing: the queue in front of
\* its notification is drained even when other subscribers never acknowledge.
Subscribed(k) == \E s \in Live : KeyOf(s) = k
Holds(k) == \E s \in Live : KeyOf(s) = k /\ UpToDate(s, told[k])
SubscribersCatchUp ==
    \A k \in Keys : []<>(~Subscribed(k) \/ Holds(k)) \/ []<><<store' # store>>_vars

\* Whoever acquires _gate releases it: every path through a handler ends in an
\* answer.
GateIsReleased == stage # "free" ~> stage = "free"

-----------------------------------------------------------------------------
(* What the sources say and the program does not do *)

\* DeviceServer.cs 935-936: an event notification goes out "after the reply to
\* the request that caused it".  The head of the queue belongs to the request
\* that holds the gate when at most `fresh` entries are left.
EventsFollowReply ==
    [][\A n \in (IF queue = <<>> THEN {} ELSE Head(queue)) :
          NotifierSend(n) /\ n.kind = "event" =>
              ~(stage \in {"writing", "replying"} /\ Len(queue) <= fresh)]_vars

\* DeviceServer.cs 996: "The acknowledged state must be the one the transition
\* led to": a transition that GetEventInformation reports as unacknowledged is
\* acknowledged with the state it led to and its own time stamp.
ReportedTransitionsCanBeAcknowledged ==
    \A o \in EventInformation : ~alarm[o].acked["offnormal"] => Acknowledgeable(o, "high", TRUE)
=============================================================================
