--------------------------- MODULE WorldietyDevice ---------------------------
(***************************************************************************)
(* The worldiety device server: main.go, the loading of a fixture into the     *)
(* store, and the handlers that write to it or announce the device.  The stack   *)
(* is external; it may run several handlers at once, which the locks of Store      *)
(* and Object are for, and each access under a lock is an action.  Its ReadRange    *)
(* is in the module of that name.                                                   *)
(***************************************************************************)
EXTENDS DeviceProcess

IsWorldiety == adapter = "worldiety"

-----------------------------------------------------------------------------
(* LoadFile *)

Present == {"analog-value", "analog-input", "analog-output", "binary-value", "binary-input", "binary-output"}
Parsed == Present \cup {"device", "trend-log", "notification-class", "event-enrollment"}

\* An event-enrollment becomes a notification class.
StoredType(type) == IF type = "event-enrollment" THEN "notification-class" ELSE type

\* An instance or a name is enough; a type that is not served or a value of
\* another type ends the start.
LoadsFile ==
    /\ config.complete
    /\ \A k \in DOMAIN config.objects :
          /\ config.objects[k].type \in Parsed
          /\ config.objects[k].type \in Present => config.objects[k].data # "wrong"

\* Store.Add replaces an object that has the key already.  The device object,
\* which is added where a fixture leaves it out, is not counted.
Store ==
    {<<StoredType(config.objects[k].type), config.objects[k].instance>> :
        k \in {k \in DOMAIN config.objects : config.objects[k].type # "device"}}

-----------------------------------------------------------------------------
(* run *)

LoadFile == LoadsIf(LoadsFile)

NewClientRuntime == Binds(Store)

\* The handlers, the signals, and runtime.Run in a goroutine.
RegisterAndRun == Advances("bound", "running")

EmitReadyLine == Announces("running", "serving")

Returns(from, code) ==
    /\ phase = from /\ phase' = "stopped" /\ Exit(code)
    /\ UNCHANGED <<adapter, config, lines, served, handlers>>

\* ctx.Done, or what runtime.Run returned.
Select == Returns("stopping", 0)
RunFails == Returns("serving", 1)

\* Before NotifyContext a SIGTERM ends the program as Go's runtime does.
Interrupted ==
    \/ Advances("serving", "stopping")
    \/ /\ phase \in {"loading", "building", "bound"}
       /\ phase' = (IF phase = "bound" THEN "stopped" ELSE "failed") /\ Exit(2)
       /\ UNCHANGED <<adapter, config, lines, served, handlers>>

Run == LoadFile \/ NewClientRuntime \/ RegisterAndRun \/ EmitReadyLine \/ Select

-----------------------------------------------------------------------------
(* The handlers *)

WritableTypes == {"analog-value", "analog-output", "binary-value", "binary-output"}

\* writePropertyValue: a Present_Value or a Description of the right type.
Accepts(write) ==
    /\ write.object \in served /\ write.fits
    /\ write.property = "description" \/ (write.property = "value" /\ write.object[1] \in WritableTypes)

\* encodeWPMError names the write; the Error of a WriteProperty, whose request has
\* one write, does not.
Errors(r) == {{place[r] + 1}} \cup IF Len(Call(r).arg) = 1 THEN {{}} ELSE {}

\* handleWritePropertyMultiple, and handleWriteProperty for one write.
HandleWrites(r) ==
    /\ Writes(r)
    /\ \/ HasNextWrite(r) /\ Accepts(NextWrite(r)) /\ CarryOut(r)
       \/ HasNextWrite(r) /\ ~Accepts(NextWrite(r)) /\ \E named \in Errors(r) : Refuse(r, named)
       \/ ~HasNextWrite(r) /\ Acknowledge(r)

InRangeOpen(range, instance) == range.low < instance /\ instance <= range.high

InRange(range, instance) == range.low <= instance /\ instance <= range.high

\* handleWhoIs: a unicast I-Am, or nothing.
HandleWhoIs(r) ==
    /\ Call(r).kind = "who-is" /\ at[r] = "received" /\ Progress(r, "done")
    /\ IF InRange(Call(r).arg, config.instance) THEN Answer(r, "i-am", {config.instance}) ELSE UNCHANGED sent
    /\ UNCHANGED <<shared, phase, place, log, told, event>>

HandleRead(r) ==
    /\ Call(r).kind = "read" /\ at[r] = "received" /\ Progress(r, "done")
    /\ Answer(r, IF Call(r).arg \in served THEN "ack" ELSE "error", {})
    /\ UNCHANGED <<shared, phase, place, log, told, event>>

RuntimeRuns == phase \in {"running", "serving", "stopping"}

RunsHandlers ==
    RuntimeRuns /\ \E r \in Requests : HandleWrites(r) \/ HandleWhoIs(r) \/ HandleRead(r)

Dispatches == phase \in {"running", "serving"} /\ \E r \in Requests : Arrives(r)

WorldietyNext == IsWorldiety /\ (Run \/ RunFails \/ Interrupted \/ RunsHandlers \/ Dispatches)

worldietyVars == <<shared, processVars>>

WorldietyFairness ==
    /\ WF_worldietyVars(IsWorldiety /\ Run)
    /\ WF_worldietyVars(IsWorldiety /\ RunsHandlers)
=============================================================================
