----------------------------- MODULE SysioProgram -----------------------------
(***************************************************************************)
(* The sysiobacnet image from its start to its end: Program.cs, and what of    *)
(* DeviceServer.cs meets it, the handlers on thread-pool threads under _gate and  *)
(* the notifier thread.  The handlers' data are in SysioDevice; here it matters     *)
(* that requests are served before the ready event, and that at the end the queue     *)
(* of notifications closes while handlers run.                                          *)
(***************************************************************************)
EXTENDS DeviceProcess

VARIABLES
    gate,         (* the request whose handler holds _gate, or 0                *)
    queue,        (* _notifications                                             *)
    subscribers   (* _subscriptions, in order: who, to which object             *)

server == <<gate, queue, subscribers>>

IsSysio == adapter = "sysiobacnet"

SysioInit == gate = 0 /\ queue = <<>> /\ subscribers = <<>>

-----------------------------------------------------------------------------
(* Program.Main *)

ReadSettings == LoadsIf(Loads(config)) /\ UNCHANGED server

SysioTypes == {"analog-value", "binary-value", "analog-input", "trend-log", "file", "notification-class"}

FromFixture ==
    {<<config.objects[k].type, config.objects[k].instance>> :
        k \in {k \in DOMAIN config.objects : config.objects[k].type \in SysioTypes}}

\* DeviceServer.Start: from here requests are served.
StartServer == Binds(FromFixture) /\ UNCHANGED server

EmitSysioReady == Announces("bound", "ready") /\ UNCHANGED server

RegisterSignals == Advances("ready", "serving") /\ UNCHANGED server

\* Until the registration the runtime ends the process.
SysioSignalled ==
    \/ Advances("serving", "stopping") /\ UNCHANGED server
    \/ /\ phase \in {"loading", "building", "bound", "ready"}
       /\ phase' = (IF phase \in {"bound", "ready"} THEN "stopped" ELSE "failed") /\ Exit(143)
       /\ UNCHANGED <<adapter, config, lines, served, handlers, server>>

\* DeviceServer.Dispose: CompleteAdding.
DisposeServer == Advances("stopping", "closed") /\ UNCHANGED server

\* The client's socket, and the process: the notifier is a background thread.
ReturnFromMain ==
    /\ phase = "closed" /\ phase' = "stopped" /\ Exit(0)
    /\ UNCHANGED <<adapter, config, lines, served, handlers, server>>

SysioMain ==
    ReadSettings \/ StartServer \/ EmitSysioReady \/ RegisterSignals \/ DisposeServer \/ ReturnFromMain

-----------------------------------------------------------------------------
(* The handlers *)

SysioServes == phase \in {"bound", "ready", "serving", "stopping", "closed"}

Closed == phase = "closed"

\* The places of the subscribers of an object whose value is written.
Notified(write) ==
    {k \in DOMAIN subscribers : subscribers[k].object = write.object /\ write.property = "value"}

\* One notification for each of them, in their order.
NotificationsOf(r, write) ==
    LET places == Notified(write)
        Nth(n) == CHOOSE k \in places : Cardinality({j \in places : j <= k}) = n
    IN [n \in 1..Cardinality(places) |-> Message(subscribers[Nth(n)].client, "notification", r, {})]

TakeGate(r) ==
    /\ gate = 0 /\ gate' = r /\ Writes(r)
    /\ UNCHANGED <<shared, processVars, queue, subscribers>>

\* DeviceModel.IsWritable, and a value of the property's type.
SysioAccepts(write) ==
    /\ write.object \in served /\ write.fits
    /\ IF write.property = "value" THEN write.object[1] \in {"analog-value", "binary-value"}
                                   ELSE write.object[1] # "notification-class"

\* Write: the storage is changed and its subscribers' notifications are queued.
WriteStored(r) ==
    /\ HasNextWrite(r) /\ SysioAccepts(NextWrite(r))
    /\ LET notifications == NotificationsOf(r, NextWrite(r)) IN
        /\ ~Closed \/ notifications = <<>>
        /\ queue' = queue \o notifications
    /\ CarryOut(r) /\ UNCHANGED <<gate, subscribers>>

\* Add throws once the queue is closed: the write has been carried out, and an
\* error is answered.
WriteThrows(r) ==
    /\ HasNextWrite(r) /\ SysioAccepts(NextWrite(r))
    /\ Closed /\ NotificationsOf(r, NextWrite(r)) # <<>>
    /\ log' = Append(log, [by |-> r, write |-> place[r] + 1])
    /\ Answer(r, "device-error", {}) /\ Progress(r, "done") /\ gate' = 0
    /\ UNCHANGED <<shared, phase, place, told, event, queue, subscribers>>

\* _gate is held until the answer has been sent.  BacnetClient's Error has the
\* class and the code only.
AnswerWrites(r) ==
    /\ \/ HasNextWrite(r) /\ ~SysioAccepts(NextWrite(r)) /\ Refuse(r, {})
       \/ ~HasNextWrite(r) /\ Acknowledge(r)
    /\ gate' = 0 /\ UNCHANGED <<queue, subscribers>>

HandleWrite(r) == gate = r /\ Writes(r) /\ (WriteStored(r) \/ WriteThrows(r) \/ AnswerWrites(r))

Subscription(call) == [client |-> call.client, object |-> call.arg]

Subscribed(s) == IF \E k \in DOMAIN subscribers : subscribers[k] = s THEN subscribers ELSE Append(subscribers, s)

\* The acknowledgement, then the initial notification.
SubscribeCov(r) ==
    /\ Call(r).kind = "subscribe" /\ at[r] = "received" /\ gate = 0 /\ Progress(r, "done")
    /\ IF Call(r).arg \in served /\ Call(r).arg[1] \in {"analog-value", "binary-value", "analog-input"}
       THEN /\ Answer(r, "ack", {})
            /\ subscribers' = Subscribed(Subscription(Call(r)))
            /\ queue' = IF Closed THEN queue ELSE Append(queue, Message(Call(r).client, "notification", r, {}))
       ELSE Answer(r, "error", {}) /\ UNCHANGED <<queue, subscribers>>
    /\ UNCHANGED <<shared, phase, place, log, told, event, gate>>

\* The answer, then the event of BACNET_EMIT_EVENT.
ReadAndEmit(r) ==
    /\ Call(r).kind = "read" /\ at[r] = "received" /\ gate = 0 /\ Progress(r, "done")
    /\ IF Call(r).arg \in served
       THEN /\ Answer(r, "ack", {})
            /\ event' = (event \/ config.emitEvent)
            /\ queue' = IF config.emitEvent /\ ~event /\ ~Closed
                        THEN Append(queue, Message(Call(r).client, "event", r, {})) ELSE queue
       ELSE Answer(r, "error", {}) /\ UNCHANGED <<event, queue>>
    /\ UNCHANGED <<shared, phase, place, log, told, gate, subscribers>>

\* OnTimeSynchronize and OnReinitializeDevice take no lock; the line of the
\* second follows its answer.
SysioTells(r) ==
    \/ /\ Call(r).kind = "unconfirmed" /\ at[r] = "received" /\ Progress(r, "done")
       /\ Reports(r, "operation")
       /\ UNCHANGED <<adapter, config, exit, served, phase, place, log, sent, event, server>>
    \/ /\ Call(r).kind = "reinitialize" /\ at[r] = "received" /\ Progress(r, "told")
       /\ Answer(r, "ack", {})
       /\ UNCHANGED <<shared, phase, place, log, told, event, server>>
    \/ /\ Call(r).kind = "reinitialize" /\ at[r] = "told" /\ Progress(r, "done")
       /\ Reports(r, "operation")
       /\ UNCHANGED <<adapter, config, exit, served, phase, place, log, sent, event, server>>

Acknowledged(r) == Call(r).kind = "acknowledge" /\ at[r] = "told"

\* OnAcknowledgeAlarm: an error or the acknowledgement, as the alarm's state and
\* time stamps have it, which are in SysioDevice; then, still under _gate, the line.
AcknowledgeAlarm(r) ==
    /\ Call(r).kind = "acknowledge" /\ UNCHANGED <<queue, subscribers>>
    /\ \/ /\ at[r] = "received" /\ gate = 0
          /\ \/ Answer(r, "error", {}) /\ Progress(r, "done") /\ UNCHANGED gate
             \/ Call(r).arg \in served /\ Answer(r, "ack", {}) /\ Progress(r, "told") /\ gate' = r
          /\ UNCHANGED <<shared, phase, place, log, told, event>>
       \/ /\ Acknowledged(r) /\ gate = r /\ Progress(r, "done") /\ gate' = 0
          /\ Reports(r, "operation")
          /\ UNCHANGED <<adapter, config, exit, served, phase, place, log, sent, event>>

\* NotifyLoop: what cannot be sent is dropped.
NotifyNext ==
    /\ queue # <<>> /\ queue' = Tail(queue)
    /\ Send(Head(queue)) \/ UNCHANGED sent
    /\ UNCHANGED <<shared, phase, at, place, log, told, event, gate, subscribers>>

Handles(r) ==
    TakeGate(r) \/ HandleWrite(r) \/ SubscribeCov(r) \/ ReadAndEmit(r) \/ SysioTells(r) \/ AcknowledgeAlarm(r)

SysioHandlers == SysioServes /\ \E r \in Requests : Handles(r)

SysioNotifier == SysioServes /\ NotifyNext

SysioReceives == SysioServes /\ ~Closed /\ (\E r \in Requests : Arrives(r)) /\ UNCHANGED server

SysioNext == IsSysio /\ (SysioMain \/ SysioSignalled \/ SysioHandlers \/ SysioNotifier \/ SysioReceives)

sysioVars == <<shared, processVars, server>>

SysioFairness ==
    /\ WF_sysioVars(IsSysio /\ SysioMain)
    /\ WF_sysioVars(IsSysio /\ SysioHandlers)
    /\ WF_sysioVars(IsSysio /\ SysioNotifier)
=============================================================================
