--------------------------- MODULE Bacpypes3Device ---------------------------
(***************************************************************************)
(* bacpypes3/device_server.py: the start of the device and the services the   *)
(* adapter adds to the stack's.  One event loop runs a coroutine for each      *)
(* request; another one runs wherever a handler awaits, and there one action    *)
(* ends and the next begins.  The stack is external: the socket is bound when    *)
(* Application.from_args returns, as the adapter takes it to be.                  *)
(***************************************************************************)
EXTENDS DeviceProcess

VARIABLE audit    (* audit_emitted["done"] and how far emit_audit is            *)

IsBacpypes == adapter = "bacpypes3"

-----------------------------------------------------------------------------
(* The objects, and what the handlers compute *)

\* build_app skips the types for which the stack has no local object.
Supported == {"analog-value", "binary-value", "analog-input"}

Objects(fixture) ==
    {<<o.type, o.instance>> : o \in {o \in {fixture.objects[k] : k \in DOMAIN fixture.objects} : o.type \in Supported}}

Enrolled ==
    [type |-> {"analog-value", "binary-value"},
     event |-> [t \in {"analog-value", "binary-value"} |-> IF t = "analog-value" THEN "outOfRange" ELSE "changeOfState"],
     priority |-> [t \in {"analog-value", "binary-value"} |-> IF t = "analog-value" THEN 100 ELSE 200]]

PassesPriorityStrictly(filter, priority) == filter.low <= priority /\ priority < filter.high

PassesPriority(filter, priority) == filter.low <= priority /\ priority <= filter.high

\* Every enrollment is normal and acknowledged; states 2 and 3 are normal and all.
Summaries(filter) ==
    {o \in {config.objects[k] : k \in DOMAIN config.objects} :
        /\ o.type \in Enrolled.type
        /\ filter.acknowledgment # "not-acked"
        /\ filter.state \in {"absent", "normal", "all"}
        /\ filter.event \in {"absent", Enrolled.event[o.type]}
        /\ PassesPriority(filter, Enrolled.priority[o.type])}

RemoteSessionClamped(local) == IF local + 100 > 255 THEN 255 ELSE local + 100

RemoteSession(local) == (local + 100) % 256

\* An absent start, here -1, is record 100.
FirstRecord(start) == IF start = -1 THEN 100 ELSE start

Body(call) ==
    CASE call.kind = "vt-open"     -> {RemoteSession(call.arg)}
      [] call.kind = "audit-query" -> {FirstRecord(call.arg), FirstRecord(call.arg) + 1}
      [] call.kind = "enrollments" -> Summaries(call.arg)
      [] OTHER                     -> {}

-----------------------------------------------------------------------------
(* Start and stop *)

BacpypesInit == audit = [state |-> "none", to |-> "nobody"]

Load == LoadsIf(Loads(config)) /\ UNCHANGED audit

\* build_app: Application.from_args, which makes the network port, and the objects.
Build == Binds(NetworkPort \cup Objects(config)) /\ UNCHANGED audit

\* Nothing is awaited before this: no request can be handled earlier.
Announce == Announces("bound", "ready") /\ UNCHANGED audit

\* The signal handlers; a SIGTERM before them is not heard by the first process
\* of a container.  From here the event loop runs.
Listen == Advances("ready", "serving") /\ UNCHANGED audit

HearSignal == Advances("serving", "stopping") /\ UNCHANGED audit

\* app.close(); asyncio.run cancels what has not come to its end.
Close ==
    /\ phase = "stopping" /\ phase' = "stopped" /\ Exit(0)
    /\ at' = [r \in Requests |-> IF at[r] \in {"unsent", "done"} THEN at[r] ELSE "cancelled"]
    /\ UNCHANGED <<adapter, config, lines, served, place, log, sent, told, event, audit>>

LoopRuns == phase \in {"serving", "stopping"}

-----------------------------------------------------------------------------
(* The handlers *)

Told == {"unconfirmed", "confirmed", "vt-open", "audit-query", "enrollments"}

AnsweredWhenTold == Told \ {"unconfirmed"}

Answered == {"reinitialize", "confirmed", "vt-open", "audit-query", "enrollments"}

Arrive(r) == phase = "serving" /\ Arrives(r) /\ UNCHANGED audit

\* emit_operation or emit_decoded, as far as the handler's first await.
Tell(r) ==
    /\ at[r] = "received" /\ Call(r).kind \in Told
    /\ EmitOperation /\ told' = Append(told, Line(r, "operation"))
    /\ Progress(r, IF Call(r).kind \in Answered THEN "told" ELSE "done")
    /\ UNCHANGED <<adapter, config, exit, served, phase, place, log, sent, event, audit>>

MayRespondAtOnce(r) == Call(r).kind \in Answered /\ at[r] \in {"received", "told"}

MayRespond(r) ==
    /\ Call(r).kind \in Answered
    /\ at[r] = IF Call(r).kind \in Told THEN "told" ELSE "received"

Respond(r) ==
    /\ MayRespond(r)
    /\ Answer(r, "ack", Body(Call(r))) /\ Progress(r, "done")
    /\ UNCHANGED <<shared, phase, place, log, told, event, audit>>

\* get_object_id finds it, and the value casts to its type.
Writable(write) == write.object \in served /\ write.fits

\* do_WritePropertyMultipleRequest: each obj.write_property is awaited; an
\* exception becomes the stack's plain Error and leaves the earlier writes.
WriteMultiple(r) ==
    /\ Writes(r)
    /\ \/ HasNextWrite(r) /\ Writable(NextWrite(r)) /\ CarryOut(r)
       \/ HasNextWrite(r) /\ ~Writable(NextWrite(r)) /\ Refuse(r, {})
       \/ ~HasNextWrite(r) /\ Acknowledge(r)
    /\ UNCHANGED audit

\* orig_rp, the stack's do_ReadPropertyRequest: an answer, or an exception that
\* passes through both wrappers.
Read(r) ==
    /\ Call(r).kind = "read" /\ at[r] = "received"
    /\ IF Call(r).arg \in served
       THEN Answer(r, "ack", {}) /\ Progress(r, "read")
       ELSE Answer(r, "error", {}) /\ Progress(r, "done")
    /\ UNCHANGED <<shared, phase, place, log, told, event, audit>>

EmitsEveryEvent == config.emitEvent

EmitsEvent == config.emitEvent /\ ~event

\* The wrappers of orig_rp, without an await: the audit task is created, then
\* the event, whose request is awaited, is due.
AfterRead(r) ==
    /\ at[r] = "read"
    /\ audit' = IF config.emitAudit /\ audit.state = "none"
                THEN [state |-> "created", to |-> Call(r).client] ELSE audit
    /\ event' = (event \/ EmitsEvent)
    /\ Progress(r, IF EmitsEvent THEN "emitting" ELSE "done")
    /\ UNCHANGED <<shared, phase, place, log, sent, told>>

EmitEvent(r) ==
    /\ at[r] = "emitting"
    /\ Answer(r, "event", {}) \/ UNCHANGED sent  \* event emit failed
    /\ Progress(r, "done")
    /\ UNCHANGED <<shared, phase, place, log, told, event, audit>>

-----------------------------------------------------------------------------
(* emit_audit: any exception ends it *)

AuditEmitted == Line(0, "unconfirmed-sent")
AuditAcknowledged == Line(0, "acknowledged")

AuditTo(state) == audit' = [audit EXCEPT !.state = state]

SendUnconfirmedAudit ==
    /\ audit.state = "created"
    /\ \/ Send(Message(audit.to, "audit", 0, {})) /\ AuditTo("sent")
       \/ UNCHANGED sent /\ AuditTo("ended")
    /\ UNCHANGED <<shared, phase, at, place, log, told, event>>

SendConfirmedAudit ==
    /\ audit.state = "sent"
    /\ EmitOperation /\ told' = Append(told, AuditEmitted)
    /\ \/ Send(Message(audit.to, "confirmed-audit", 0, {})) /\ AuditTo("waiting")
       \/ UNCHANGED sent /\ AuditTo("ended")
    /\ UNCHANGED <<adapter, config, exit, served, phase, at, place, log, event>>

\* The SimpleACK or another answer; an error, an abort or no answer is an exception.
AuditAnswered(outcome) ==
    /\ audit.state = "waiting" /\ AuditTo("ended")
    /\ IF outcome = "answer"
       THEN EmitOperation /\ told' = Append(told, AuditAcknowledged)
       ELSE UNCHANGED <<lines, told>>
    /\ UNCHANGED <<adapter, config, exit, served, phase, at, place, log, sent, event>>

EmitAudit ==
    \/ SendUnconfirmedAudit \/ SendConfirmedAudit
    \/ \E outcome \in {"answer", "exception"} : AuditAnswered(outcome)

Handle(r) ==
    Tell(r) \/ Respond(r) \/ WriteMultiple(r) \/ Read(r) \/ AfterRead(r) \/ EmitEvent(r)

Program == Load \/ Build \/ Announce \/ Listen \/ Close

EventLoop == LoopRuns /\ (EmitAudit \/ \E r \in Requests : Handle(r))

BacpypesNext ==
    /\ IsBacpypes
    /\ Program \/ HearSignal \/ EventLoop \/ \E r \in Requests : Arrive(r)

bacpypesVars == <<shared, processVars, audit>>

BacpypesFairness ==
    /\ WF_bacpypesVars(IsBacpypes /\ Program)
    /\ WF_bacpypesVars(IsBacpypes /\ EventLoop)
=============================================================================
