---------------------------- MODULE Bacnet4jDevice ----------------------------
(***************************************************************************)
(* bacnet4j DeviceServer.java.  Three kinds of threads meet: main, which goes  *)
(* on after LocalDevice.initialize has bound the socket; the stack's transport  *)
(* thread, which calls the listeners, answers requests and sends what has been    *)
(* queued; and a sender for each SubscribeCOVPropertyMultiple.  The stack is        *)
(* external.  Requests are served before the ready event is written: lines is       *)
(* standard output from that event on, and told has the earlier lines too.           *)
(***************************************************************************)
EXTENDS DeviceProcess

VARIABLES
    thread,    (* the request the transport thread is at, or 0                *)
    outgoing,  (* what it has been given to send                              *)
    sender,    (* for each request, how far its sender thread is              *)
    early      (* the requests received before the ready event                *)

threads == <<thread, outgoing, sender, early>>

IsBacnet4j == adapter = "bacnet4j"

-----------------------------------------------------------------------------
(* The fixture *)

\* Built where a failure ends the program, where it skips the object, and only
\* after initialize, which starts the timer they need.
Required == {"analog-value", "binary-value", "trend-log"}
Optional == {"analog-input", "notification-class", "file", "life-safety-point", "life-safety-zone"}
Deferred == {"event-enrollment"}

ObjectsOf(types) ==
    {<<o.type, o.instance>> : o \in {o \in {config.objects[k] : k \in DOMAIN config.objects} : o.type \in types}}

\* The stack refuses an identifier it has; instance and name have defaults.
Constructs ==
    \A j, k \in DOMAIN config.objects :
        config.objects[j].type \in Required /\ config.objects[j].type = config.objects[k].type
            /\ config.objects[j].instance = config.objects[k].instance => j = k

-----------------------------------------------------------------------------
(* main *)

Bacnet4jInit ==
    /\ thread = 0 /\ outgoing = <<>> /\ early = {}
    /\ sender = [r \in Requests |-> "none"]

ReadFixture == LoadsIf(Constructs)

Initialize == Binds(ObjectsOf(Required \cup Optional))

CreateDeferred ==
    /\ phase = "bound" /\ phase' = "created"
    /\ served' = served \cup ObjectsOf(Deferred)
    /\ UNCHANGED <<adapter, config, lines, exit, handlers>>

HearServices == Advances("created", "hearing")
HearReads == Advances("hearing", "listening")
EmitReadyEvent == Announces("listening", "serving")

\* The shutdown hook has run.
HookEnds ==
    /\ phase = "stopping" /\ phase' = "stopped" /\ Exit(143)
    /\ UNCHANGED <<adapter, config, lines, served, handlers>>

\* The virtual machine hears SIGTERM from its beginning; the hook comes last.
Signalled ==
    /\ phase \notin {"stopping", "stopped", "failed"}
    /\ IF phase = "serving" THEN phase' = "stopping" /\ UNCHANGED exit
       ELSE Exit(143) /\ phase' = IF phase \in {"loading", "building"} THEN "failed" ELSE "stopped"
    /\ UNCHANGED <<adapter, config, lines, served, handlers>>

Main ==
    /\ ReadFixture \/ Initialize \/ CreateDeferred \/ HearServices \/ HearReads \/ EmitReadyEvent \/ HookEnds
    /\ UNCHANGED threads

-----------------------------------------------------------------------------
(* The transport thread *)

Online == phase \notin {"loading", "building", "failed", "stopped"}
HearsServices == phase \in {"hearing", "listening", "serving", "stopping"}
HearsReads == phase \in {"listening", "serving", "stopping"}

Messaging == {"unconfirmed", "confirmed"}

QueueFirst(message) == outgoing' = <<message>> \o outgoing

Queue(message) == outgoing' = Append(outgoing, message)

Receive(r) ==
    /\ thread = 0 /\ Online /\ Arrives(r)
    /\ thread' = r
    /\ early' = IF lines = <<>> THEN early \cup {r} ELSE early
    /\ UNCHANGED <<outgoing, sender>>

\* requestReceived of the first listener, and covMultipleReceived.
CallFirstListener ==
    /\ thread # 0 /\ at[thread] = "received" /\ Progress(thread, "heard")
    /\ IF HearsServices /\ Call(thread).kind \in Messaging \cup {"cov-multiple"}
       THEN Reports(thread, "operation") ELSE UNCHANGED <<lines, told>>
    /\ sender' = IF HearsServices /\ Call(thread).kind = "cov-multiple" /\ config.emitMultiple
                 THEN [sender EXCEPT ![thread] = "sleeping"] ELSE sender
    /\ UNCHANGED <<adapter, config, exit, served, phase, place, log, sent, event, thread, outgoing, early>>

\* compareAndSet, then the notification, whose failure is only logged.
CallSecondListener ==
    /\ thread # 0 /\ at[thread] = "heard" /\ Progress(thread, "told")
    /\ IF HearsReads /\ config.emitEvent /\ Call(thread).kind = "read" /\ ~event
       THEN /\ event' = TRUE
            /\ Queue(Message(Call(thread).client, "event", thread, {})) \/ UNCHANGED outgoing
       ELSE UNCHANGED <<event, outgoing>>
    /\ UNCHANGED <<shared, phase, place, log, sent, told, thread, sender, early>>

\* The stack's own answer.  SubscribeCOVPropertyMultiple is rejected; a private
\* transfer has a handler only once main is past the lifecycle.
Conclude ==
    /\ thread # 0 /\ at[thread] = "told" /\ Progress(thread, "done")
    /\ \/ Call(thread).kind = "unconfirmed" /\ UNCHANGED sent
       \/ Call(thread).kind = "cov-multiple" /\ Answer(thread, "reject", {})
       \/ Call(thread).kind = "read"
          /\ Answer(thread, IF Call(thread).arg \in served THEN "ack" ELSE "error", {})
       \/ Call(thread).kind = "confirmed"
          /\ \/ Answer(thread, "ack", {})
             \/ ~HearsServices /\ Answer(thread, "error", {})
    /\ thread' = 0
    /\ UNCHANGED <<shared, phase, place, log, told, event, outgoing, sender, early>>

Depart ==
    /\ thread = 0 /\ outgoing # <<>>
    /\ Send(Head(outgoing)) /\ outgoing' = Tail(outgoing)
    /\ UNCHANGED <<shared, phase, at, place, log, told, event, thread, sender, early>>

HasLine(r, what) == \E n \in DOMAIN told : told[n] = Line(r, what)

\* The ResponseConsumer: an answer of the requester, or none in time.
HearConfirmation(r) ==
    /\ thread = 0 /\ ~HasLine(r, "acknowledged")
    /\ \E k \in DOMAIN sent : sent[k].about = r /\ sent[k].kind = "confirmed-cov-multiple"
    /\ Reports(r, "acknowledged")
    /\ UNCHANGED <<adapter, config, exit, served, phase, at, place, log, sent, event, threads>>

Transport ==
    Online /\ (CallFirstListener \/ CallSecondListener \/ Conclude \/ Depart \/ \E r \in Requests : HearConfirmation(r))

-----------------------------------------------------------------------------
(* The sender threads: any exception ends one *)

Sends(r, from, to, kind) ==
    /\ sender[r] = from
    /\ \/ Queue(Message(Call(r).client, kind, r, {})) /\ sender' = [sender EXCEPT ![r] = to]
       \/ UNCHANGED outgoing /\ sender' = [sender EXCEPT ![r] = "ended"]
    /\ UNCHANGED <<shared, processVars, thread, early>>

Tells(r, from, to, what) ==
    /\ sender[r] = from /\ sender' = [sender EXCEPT ![r] = to]
    /\ Reports(r, what)
    /\ UNCHANGED <<adapter, config, exit, served, phase, at, place, log, sent, event, thread, outgoing, early>>

Sender(r) ==
    \/ Sends(r, "sleeping", "unconfirmed", "cov-multiple")
    \/ Tells(r, "unconfirmed", "between", "unconfirmed-sent")
    \/ Sends(r, "between", "confirmed", "confirmed-cov-multiple")
    \/ Tells(r, "confirmed", "ended", "confirmed-sent")

Senders == Online /\ \E r \in Requests : Sender(r)

Bacnet4jNext ==
    /\ IsBacnet4j
    /\ \/ Main \/ Transport \/ Senders
       \/ Signalled /\ UNCHANGED threads
       \/ phase # "stopping" /\ \E r \in Requests : Receive(r)

bacnet4jVars == <<shared, processVars, threads>>

Bacnet4jFairness ==
    /\ WF_bacnet4jVars(IsBacnet4j /\ Main)
    /\ WF_bacnet4jVars(IsBacnet4j /\ Transport)
    /\ WF_bacnet4jVars(IsBacnet4j /\ Senders)
=============================================================================
