------------------------------ MODULE Supervisor ------------------------------
(***************************************************************************)
(* Device mode of the bacnet-stack image (run_server.py over device_server.c) *)
(* and of the bacnet-stack-router image (run_router.py over bacnet-router,     *)
(* which is not part of the repository): a Python process starts the server,   *)
(* waits until its sockets show in /proc/net/udp, writes the ready event,       *)
(* passes the child's operation lines on and ends when the child does.          *)
(***************************************************************************)
EXTENDS RouterNetworks

CONSTANTS
    Others,    (* sockets of other processes with the port: local, remote      *)
    Polls,     (* looks before the start is given up: 100, or 15 s of them     *)
    PipeSize,  (* lines that fit into the child's standard output              *)
    MaxLines   (* lines a child writes (bound)                                 *)

ASSUME PollsAssumption == Polls \in Nat \ {0}

VARIABLES
    stage,      (* where the supervisor is in its program                       *)
    polls,      (* looks so far                                                 *)
    child, code, (* the child: absent, starting, serving or dead, and its code  *)
    sockets,    (* the sockets it has bound                                     *)
    term,       (* it has been sent SIGTERM                                     *)
    pipe,       (* the lines it wrote that have not been read                   *)
    performed,  (* the operations it performed                                  *)
    written,    (* the lines it wrote                                           *)
    broken,     (* the bridge gave up on an unreadable line                     *)
    asked       (* the container was asked to stop, and heard it                *)

process == <<child, code, sockets, term>>
output == <<pipe, performed, written>>
supervision == <<stage, polls, process, output, broken, asked>>
supervisorVars == <<network, supervision>>

IsRouter == adapter = "bacnet-stack-router"
Supervised == adapter \in {"bacnet-stack", "bacnet-stack-router"}
Needed == IF IsRouter THEN 2 ELSE 1
ChildAlive == child \in {"starting", "serving"}

\* A line beyond what fits waits in a write that does not return.
Blocked == Len(pipe) > PipeSize

-----------------------------------------------------------------------------
(* The arguments of the child, and what it makes of them *)

Listed == {"analog-value", "binary-value", "life-safety-point", "life-safety-zone", "file"}

\* A stream file without its data ends the start; so it never has an argument.
Materializes(fixture) == \A k \in Instances(fixture, "file") : fixture.objects[k].data # "missing"

ServerArgsWithoutNone(fixture) ==
    [objects |-> {o \in {fixture.objects[k] : k \in DOMAIN fixture.objects} : o.type \in Listed}, none |-> {}]

ServerArgs(fixture) ==
    [objects |-> {o \in {fixture.objects[k] : k \in DOMAIN fixture.objects} : o.type \in Listed},
     none    |-> {t \in {"analog-value", "binary-value"} : Instances(fixture, t) = {}}]

\* The types that the stack initialises with objects, and to which the server
\* adds none: MAX_NOTIFICATION_CLASSES is 2, MAX_TREND_LOGS 1.
StackObjects ==
    NetworkPort \cup {<<"notification-class", 0>>, <<"notification-class", 1>>} \cup {<<"trend-log", 0>>}

\* device_server.c puts an object 1 of its own where it is told of none.
Built(args) ==
    StackObjects \cup {<<o.type, o.instance>> : o \in args.objects} \cup
    {<<t, 1>> : t \in {t \in {"analog-value", "binary-value"} \ args.none :
                         \A o \in args.objects : o.type # t}}

-----------------------------------------------------------------------------
(* The supervisor *)

SupervisorInit ==
    /\ stage = IF IsRouter THEN "resolving" ELSE "preparing"
    /\ polls = 0
    /\ child = "absent" /\ code = 0 /\ sockets = 0 /\ term = FALSE
    /\ pipe = <<>> /\ performed = 0 /\ written = 0
    /\ broken = FALSE /\ asked = FALSE

Ends(c) == Exit(c) /\ stage' = "ended"

StartChild == stage' = "started" /\ child' = "starting"

\* run_server.py: the fixture and its files.
Prepare ==
    /\ stage = "preparing"
    /\ IF Loads(config) /\ Materializes(config)
       THEN StartChild /\ UNCHANGED exit
       ELSE Ends(1) /\ UNCHANGED child
    /\ UNCHANGED <<adapter, config, lines, served, polls, network, code, sockets, term, output, broken, asked>>

ValidNetworks == Len(config.networks) = 2 /\ config.networks[1] # config.networks[2]

ResolvedByName == ByInterface

\* By address, or by name and so in the order of connection.
Resolved ==
    IF config.addressed
    THEN IF {1, 2} \subseteq Connected THEN <<1, 2>> ELSE <<>>
    ELSE ByInterface

\* run_router.py: two networks, and an interface on each within 30 s.
Resolve ==
    /\ stage = "resolving"
    /\ CASE ~ValidNetworks              -> Ends(2) /\ UNCHANGED <<child, ports>>
         [] ValidNetworks /\ Resolved # <<>> -> ports' = Resolved /\ StartChild /\ UNCHANGED exit
         [] OTHER                       -> Ends(1) /\ UNCHANGED <<child, ports>>
    /\ UNCHANGED <<adapter, config, lines, served, polls, connected, code, sockets, term, output, broken, asked>>

\* Until here the container, whose first process this is, does not hear SIGTERM.
InstallHandlers ==
    /\ stage = "started"
    /\ stage' = IF IsRouter THEN "looking" ELSE "polling"
    /\ UNCHANGED <<shared, polls, network, process, output, broken, asked>>

FailedStartAsIs(c) == c

\* proc.returncode or 1, after a start that led to nothing.
FailedStart(c) == IF c = 0 THEN 1 ELSE c

ServingToldToStop == term \/ child = "serving"

\* _stop: SIGTERM for a child that poll does not find dead.
ToldToStop == term \/ ChildAlive

GiveUp == stage' = "unbound" /\ term' = ToldToStop

\* Is the child still there?  The router also looks at its deadline here.
Poll ==
    /\ stage = "polling"
    /\ CASE child = "dead" -> Ends(FailedStart(code)) /\ UNCHANGED term
         [] child # "dead" /\ IsRouter /\ polls >= Polls -> GiveUp /\ UNCHANGED exit
         [] OTHER -> stage' = "looking" /\ UNCHANGED <<term, exit>>
    /\ UNCHANGED <<adapter, config, lines, served, polls, network, child, code, sockets, output, broken, asked>>

Visible == IF ChildAlive THEN sockets ELSE 0

SeenOne == Visible > 0

\* run_server.py takes any line with the port, run_router.py counts local ports.
Seen ==
    IF IsRouter THEN Visible + (IF "local" \in Others THEN 1 ELSE 0) >= Len(ports)
                ELSE Visible > 0 \/ Others # {}

SameLook == polls

NextLook == polls + 1

Look ==
    /\ stage = "looking"
    /\ IF Seen
       THEN /\ EmitReady /\ stage' = IF IsRouter THEN "waiting" ELSE "bridging"
            /\ UNCHANGED <<polls, term>>
       ELSE /\ polls' = NextLook
            /\ IF ~IsRouter /\ polls' >= Polls THEN GiveUp ELSE stage' = "polling" /\ UNCHANGED term
            /\ UNCHANGED lines
    /\ UNCHANGED <<adapter, config, exit, served, network, child, code, sockets, output, broken, asked>>

\* Five seconds more; a child that stays longer is an exception.
Abandon ==
    /\ stage = "unbound"
    /\ Ends(1)
    /\ UNCHANGED <<adapter, config, lines, served, polls, network, process, output, broken, asked>>

\* The bridge forwards operation lines and shows the others on standard error.
Bridge ==
    /\ stage = "bridging" /\ pipe # <<>>
    /\ pipe' = Tail(pipe)
    /\ CASE Head(pipe).kind = "operation"  -> lines' = Append(lines, Head(pipe).number) /\ UNCHANGED <<stage, broken>>
         [] Head(pipe).kind = "chatter"    -> UNCHANGED <<lines, stage, broken>>
         [] Head(pipe).kind = "unreadable" -> stage' = "waiting" /\ broken' = TRUE /\ UNCHANGED lines
    /\ UNCHANGED <<adapter, config, exit, served, polls, network, process, performed, written, asked>>

EndOfChild == child = "dead"

EndOfFile == pipe = <<>> /\ child = "dead"

BridgeEnds ==
    /\ stage = "bridging" /\ EndOfFile
    /\ stage' = "waiting"
    /\ UNCHANGED <<shared, polls, network, process, output, broken, asked>>

Reap ==
    /\ stage = "waiting" /\ child = "dead"
    /\ Ends(code)
    /\ UNCHANGED <<adapter, config, lines, served, polls, network, process, output, broken, asked>>

\* _stop, between two steps of the program.
Terminate ==
    /\ stage \in {"polling", "looking", "unbound", "bridging", "waiting"} /\ ~asked
    /\ asked' = TRUE
    /\ term' = ToldToStop
    /\ UNCHANGED <<shared, stage, polls, network, child, code, sockets, output, broken>>

SupervisorStep ==
    Prepare \/ Resolve \/ InstallHandlers \/ Poll \/ Look \/ Abandon \/ Bridge \/ BridgeEnds \/ Reap

-----------------------------------------------------------------------------
(* The child, and the container's networks *)

Connect(n) ==
    /\ stage = "resolving" /\ Connects(n)
    /\ UNCHANGED <<shared, stage, polls, ports, process, output, broken, asked>>

Dies(codes) == child' = "dead" /\ code' \in codes

\* Arguments it refuses, an object it cannot create, a socket it cannot bind.
ChildFails ==
    /\ child = "starting" /\ Dies({1, 2})
    /\ UNCHANGED <<shared, stage, polls, network, sockets, term, output, broken, asked>>

ChildBinds ==
    /\ child = "starting"
    /\ sockets' = sockets + 1
    /\ child' = IF sockets' = Needed THEN "serving" ELSE "starting"
    /\ served' = IF IsRouter THEN {} ELSE Built(ServerArgs(config))
    /\ UNCHANGED <<adapter, config, lines, exit, stage, polls, network, code, term, output, broken, asked>>

ChildWrites(kind) ==
    /\ child = "serving" /\ ~IsRouter /\ ~Blocked /\ written < MaxLines
    /\ written' = written + 1
    /\ performed' = performed + IF kind = "operation" THEN 1 ELSE 0
    /\ pipe' = Append(pipe, [kind |-> kind, number |-> performed'])
    /\ UNCHANGED <<shared, stage, polls, network, process, broken, asked>>

\* SIGTERM kills a child that has not installed its handlers and ends the loop
\* of one that serves, once it comes back from a write.
ChildStops ==
    /\ term /\ ChildAlive /\ ~Blocked
    /\ Dies(IF child = "starting" THEN {-15} ELSE {0})
    /\ UNCHANGED <<shared, stage, polls, network, sockets, term, output, broken, asked>>

ChildCrashes ==
    /\ child = "serving" /\ ~Blocked /\ Dies({-11})
    /\ UNCHANGED <<shared, stage, polls, network, sockets, term, output, broken, asked>>

Surroundings ==
    \/ Terminate
    \/ \E n \in {1, 2} : Connect(n)
    \/ ChildFails \/ ChildBinds \/ ChildStops \/ ChildCrashes
    \/ \E kind \in {"operation", "chatter", "unreadable"} : ChildWrites(kind)

Runs == Supervised /\ exit = Running

SupervisorNext == Runs /\ (SupervisorStep \/ Surroundings)

SupervisorFairness ==
    /\ WF_<<shared, supervisorVars>>(Runs /\ SupervisorStep)
    /\ WF_<<shared, supervisorVars>>(Runs /\ ChildStops)
=============================================================================
