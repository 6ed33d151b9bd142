---------------------------- MODULE CbsigmaDevice ----------------------------
(***************************************************************************)
(* The cbsigma image: main.go starts one of two upstream devices.  The device  *)
(* role reports each write from a callback of the stack; the simulator keeps     *)
(* lists of what it was sent, and a goroutine looks at them every 50 ms.  Both     *)
(* serve from before the ready event on.  The stacks are external.                   *)
(***************************************************************************)
EXTENDS DeviceProcess

VARIABLES
    recorded,  (* the requests in each list of the simulator, in order         *)
    counted,   (* how much of each list reportSim has taken                    *)
    batch      (* what it has taken and not yet reported                       *)

simulator == <<recorded, counted, batch>>

IsCbsigma == adapter = "cbsigma"

Lists == {"writes", "mgmt", "unconf", "acks", "registrations"}

CbsigmaInit ==
    /\ recorded = [list \in Lists |-> <<>>] /\ counted = [list \in Lists |-> 0]
    /\ batch = <<>>

-----------------------------------------------------------------------------
(* run *)

\* Every type of the fixtures has its number; a role is one of two.
LoadsCbsigma == config.complete /\ config.role \in {"device", "sim"}

LoadCbsigma == LoadsIf(LoadsCbsigma) /\ UNCHANGED simulator

ServedObjects ==
    {<<config.objects[k].type, config.objects[k].instance>> :
        k \in {k \in DOMAIN config.objects : config.objects[k].type # "device"}}

\* serveDevice or serveSim: the socket is bound, and reportSim started.
Serve == Binds(ServedObjects) /\ UNCHANGED simulator

EmitCbsigmaReady == Announces("bound", "ready") /\ UNCHANGED simulator

Notify == Advances("ready", "serving") /\ UNCHANGED simulator

\* Before signal.Notify a SIGTERM ends the program as Go's runtime does.
CbsigmaSignalled ==
    \/ Advances("serving", "stopping") /\ UNCHANGED simulator
    \/ /\ phase \in {"loading", "building", "bound", "ready"}
       /\ phase' = (IF phase \in {"bound", "ready"} THEN "stopped" ELSE "failed") /\ Exit(2)
       /\ UNCHANGED <<adapter, config, lines, served, handlers, simulator>>

\* The deferred stop closes done, wherever reportSim is.
StopCbsigma ==
    /\ phase = "stopping" /\ phase' = "stopped" /\ Exit(0)
    /\ UNCHANGED <<adapter, config, lines, served, handlers, simulator>>

CbsigmaMain == LoadCbsigma \/ Serve \/ EmitCbsigmaReady \/ Notify \/ StopCbsigma

-----------------------------------------------------------------------------
(* The device role *)

StackAccepts(write) == write.object \in served /\ write.fits

\* OnWrite tells of a write the stack has accepted, before it is answered.  What
\* the stack's errors say besides is left out.
WriteProperty(r) ==
    /\ config.role = "device" /\ Writes(r)
    /\ \/ /\ HasNextWrite(r) /\ StackAccepts(NextWrite(r))
          /\ log' = Append(log, [by |-> r, write |-> place[r] + 1])
          /\ place' = [place EXCEPT ![r] = @ + 1]
          /\ Reports(r, "operation")
          /\ UNCHANGED <<adapter, config, exit, served, phase, at, sent, event>>
       \/ HasNextWrite(r) /\ ~StackAccepts(NextWrite(r)) /\ Refuse(r, {})
       \/ ~HasNextWrite(r) /\ Acknowledge(r)
    /\ UNCHANGED simulator

-----------------------------------------------------------------------------
(* The simulator, and reportSim *)

\* Under its lock the simulator records the request; what it answers is its own.
Simulate(r) ==
    /\ config.role = "sim" /\ Call(r).kind = "simulated" /\ at[r] = "received"
    /\ recorded' = [recorded EXCEPT ![Call(r).arg.list] = Append(@, r)] /\ Progress(r, "done")
    /\ IF Call(r).arg.list = "unconf" THEN UNCHANGED sent ELSE Answer(r, "ack", {})
    /\ UNCHANGED <<shared, phase, place, log, told, event, counted, batch>>

FreshSkipping(list) == SubSeq(recorded[list], counted[list] + 2, Len(recorded[list]))

\* What a list has gained since the last look.
Fresh(list) == SubSeq(recorded[list], counted[list] + 1, Len(recorded[list]))

ReporterRuns == config.role = "sim" /\ phase \in {"bound", "ready", "serving", "stopping"}

\* Under the simulator's lock.
LookAtLists ==
    /\ batch = <<>> /\ \E list \in Lists : Fresh(list) # <<>>
    /\ batch' = Fresh("writes") \o Fresh("mgmt") \o Fresh("unconf") \o Fresh("acks") \o Fresh("registrations")
    /\ counted' = [list \in Lists |-> Len(recorded[list])]
    /\ UNCHANGED <<shared, processVars, recorded>>

\* A service without a name is passed over.
ReportNext ==
    /\ batch # <<>> /\ batch' = Tail(batch)
    /\ IF Call(Head(batch)).arg.named THEN Reports(Head(batch), "operation") ELSE UNCHANGED <<lines, told>>
    /\ UNCHANGED <<adapter, config, exit, served, phase, at, place, log, sent, event, recorded, counted>>

ReportSim == ReporterRuns /\ (LookAtLists \/ ReportNext)

-----------------------------------------------------------------------------
CbsigmaServes == phase \in {"bound", "ready", "serving", "stopping"}

UpstreamRuns == CbsigmaServes /\ \E r \in Requests : WriteProperty(r) \/ Simulate(r)

CbsigmaReceives == CbsigmaServes /\ phase # "stopping" /\ (\E r \in Requests : Arrives(r)) /\ UNCHANGED simulator

CbsigmaNext == IsCbsigma /\ (CbsigmaMain \/ CbsigmaSignalled \/ ReportSim \/ UpstreamRuns \/ CbsigmaReceives)

cbsigmaVars == <<shared, processVars, simulator>>

CbsigmaFairness ==
    /\ WF_cbsigmaVars(IsCbsigma /\ CbsigmaMain)
    /\ WF_cbsigmaVars(IsCbsigma /\ ReportSim)
    /\ WF_cbsigmaVars(IsCbsigma /\ UpstreamRuns)
=============================================================================
