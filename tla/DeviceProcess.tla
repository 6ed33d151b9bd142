---------------------------- MODULE DeviceProcess ----------------------------
(***************************************************************************)
(* The images whose first process is the device itself: what their programs   *)
(* keep of the requests they are sent, and the steps their handlers share.      *)
(* Each program is a module of its own: Bacpypes3Device, Bacnet4jDevice,           *)
(* WorldietyDevice, CbsigmaDevice, SysioProgram and RouterProgram.                  *)
(***************************************************************************)
EXTENDS Adapter

VARIABLES
    phase,   (* how far the program is                                        *)
    at,      (* for each request of config.calls, how far its handler is       *)
    place,   (* for each WritePropertyMultiple, the writes it has carried out  *)
    log,     (* the writes carried out, in their order                         *)
    sent,    (* the answers and notifications sent, in their order             *)
    told,    (* the operation lines written, in their order                    *)
    event    (* the notification of BACNET_EMIT_EVENT is due or was sent       *)

handlers == <<at, place, log, sent, told, event>>
processVars == <<phase, handlers>>

Processes == {"bacpypes3", "bacnet4j", "worldiety", "cbsigma", "sysiobacnet"}
IsProcess == adapter \in Processes
Requests == IF IsProcess THEN DOMAIN config.calls ELSE {}
Call(r) == config.calls[r]

IsSequence(s) == s \in Seq({s[k] : k \in DOMAIN s})

Filters ==
    [acknowledgment : {"all", "acked", "not-acked"}, low : 0..255, high : 0..255,
     state : {"absent", "offnormal", "fault", "normal", "all", "active"},
     event : {"absent", "outOfRange", "changeOfState", "other"}]

\* What clients can send: session identifiers and priorities are octets.
ASSUME CallsAssumption ==
    \A a \in Adapters \cap Processes : \A c \in Configurations[a] :
        /\ IsSequence(c.calls) /\ c.instance \in Nat
        /\ \A r \in DOMAIN c.calls :
              LET kind == c.calls[r].kind
                  arg == c.calls[r].arg
              IN /\ kind = "write" => IsSequence(arg)
                 /\ kind = "vt-open" => arg \in 0..255
                 /\ kind = "enrollments" => arg \in Filters
                 /\ kind = "who-is" => arg.low \in Nat /\ arg.high \in Nat
                 /\ kind = "simulated" => arg.list \in {"writes", "mgmt", "unconf", "acks", "registrations"}

Message(to, kind, about, body) == [to |-> to, kind |-> kind, about |-> about, body |-> body]
Line(about, what) == [about |-> about, what |-> what]

Send(message) == sent' = Append(sent, message)
Answer(r, kind, body) == Send(Message(Call(r).client, kind, r, body))
Progress(r, how) == at' = [at EXCEPT ![r] = how]

\* An operation line; lines has those from the ready event on.
Reports(about, what) ==
    /\ told' = Append(told, Line(about, what))
    /\ IF lines = <<>> THEN UNCHANGED lines ELSE EmitOperation

ProcessInit ==
    /\ phase = "loading"
    /\ at = [r \in Requests |-> "unsent"] /\ place = [r \in Requests |-> 0]
    /\ log = <<>> /\ sent = <<>> /\ told = <<>> /\ event = FALSE

-----------------------------------------------------------------------------
(* The start *)

\* The fixture is read, or the program ends.
LoadsIf(loadable) ==
    /\ phase = "loading"
    /\ IF loadable THEN phase' = "building" /\ UNCHANGED exit
                   ELSE phase' = "failed" /\ Exit(1)
    /\ UNCHANGED <<adapter, config, lines, served, handlers>>

\* The socket is bound and the objects are there.  An exception of the stack, as
\* for an address the machine does not have, ends the program.
Binds(objects) ==
    /\ phase = "building"
    /\ \/ phase' = "bound" /\ served' = objects /\ UNCHANGED exit
       \/ phase' = "failed" /\ Exit(1) /\ UNCHANGED served
    /\ UNCHANGED <<adapter, config, lines, handlers>>

Announces(from, to) ==
    /\ phase = from /\ phase' = to /\ EmitReady
    /\ UNCHANGED <<adapter, config, exit, served, handlers>>

Advances(from, to) ==
    /\ phase = from /\ phase' = to
    /\ UNCHANGED <<shared, handlers>>

Arrives(r) ==
    /\ at[r] = "unsent" /\ Progress(r, "received")
    /\ UNCHANGED <<shared, phase, place, log, sent, told, event>>

-----------------------------------------------------------------------------
(* WritePropertyMultiple: the writes one by one, up to the first that fails *)

Writes(r) == Call(r).kind = "write" /\ at[r] = "received"
HasNextWrite(r) == place[r] < Len(Call(r).arg)
NextWrite(r) == Call(r).arg[place[r] + 1]

CarryOut(r) ==
    /\ log' = Append(log, [by |-> r, write |-> place[r] + 1])
    /\ place' = [place EXCEPT ![r] = @ + 1]
    /\ UNCHANGED <<shared, phase, at, sent, told, event>>

PassOver(r, named) ==
    /\ place' = [place EXCEPT ![r] = @ + 1]
    /\ UNCHANGED <<shared, phase, at, log, sent, told, event>>

\* The earlier writes stay.  A plain Error has a class and a code; a
\* WritePropertyMultiple-Error also names the write.
Refuse(r, named) ==
    /\ Answer(r, "error", named) /\ Progress(r, "done")
    /\ UNCHANGED <<shared, phase, place, log, told, event>>

Acknowledge(r) ==
    /\ Answer(r, "ack", {}) /\ Progress(r, "done")
    /\ UNCHANGED <<shared, phase, place, log, told, event>>
=============================================================================
