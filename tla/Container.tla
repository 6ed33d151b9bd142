------------------------------ MODULE Container ------------------------------
(***************************************************************************)
(* One container in device mode, as its consumer meets it: whichever image is *)
(* started with whichever configuration, it keeps the contract of DeviceMode.  *)
(* The two supervised images are in Supervisor; the ones that are a single       *)
(* process have a module each.                                                     *)
(***************************************************************************)
EXTENDS Supervisor, RouterProgram, Bacpypes3Device, Bacnet4jDevice, WorldietyDevice, CbsigmaDevice, SysioProgram

\* What only one image has.
ownVars == <<supervision, routerVars, audit, threads, simulator, server>>
vars == <<shared, network, processVars, ownVars>>

Init ==
    /\ AdapterInit /\ NetworkInit /\ ProcessInit /\ SupervisorInit /\ RouterInit
    /\ BacpypesInit /\ Bacnet4jInit /\ CbsigmaInit /\ SysioInit

Next ==
    \/ SupervisorNext /\ UNCHANGED <<processVars, routerVars, audit, threads, simulator, server>>
    \/ RouterNext /\ UNCHANGED <<supervision, audit, threads, simulator, server>>
    \/ BacpypesNext /\ UNCHANGED <<network, supervision, routerVars, threads, simulator, server>>
    \/ Bacnet4jNext /\ UNCHANGED <<network, supervision, routerVars, audit, simulator, server>>
    \/ WorldietyNext /\ UNCHANGED <<network, ownVars>>
    \/ CbsigmaNext /\ UNCHANGED <<network, supervision, routerVars, audit, threads, server>>
    \/ SysioNext /\ UNCHANGED <<network, supervision, routerVars, audit, threads, simulator>>

Fairness ==
    /\ SupervisorFairness /\ RouterFairness /\ BacpypesFairness /\ Bacnet4jFairness
    /\ WorldietyFairness /\ CbsigmaFairness /\ SysioFairness

Spec == Init /\ [][Next]_vars /\ Fairness

-----------------------------------------------------------------------------
(* What the contract speaks of, in each image *)

\* The images that serve requests before their ready event.
ServesEarly == IsBacnet4j \/ IsCbsigma \/ IsSysio

\* Of those the operations whose lines follow that event.
Operations ==
    IF Supervised THEN performed
    ELSE IF ServesEarly THEN IF lines = <<>> THEN 0 ELSE Len(lines) - 1
    ELSE Len(told)

Bound ==
    IF Supervised THEN sockets = Needed
    ELSE phase \notin {"loading", "building", "binding", "half", "failed"}

StopHeard == IF Supervised THEN asked ELSE phase = "stopping" \/ ~running

Contract == INSTANCE DeviceMode WITH bound <- Bound, performed <- Operations, lines <- lines, exit <- exit

\* docs/CONTAINER_CONTRACT.md: the ready event comes after the sockets are bound,
\* and the operation lines that follow are those of the operations the device
\* performed, each once and in order, however the child's lines, its death and the
\* supervisor's looks interleave.  A consumer of an image that ServesEarly has to
\* skip to the ready event: lines of operations can come before it.
ContractIsKept == Contract!Spec

TypeOK ==
    /\ adapter \in Adapters /\ config \in Configurations[adapter]
    /\ exit \in 0..255 \cup {Running}
    /\ stage \in {"preparing", "resolving", "started", "polling", "looking", "unbound", "bridging", "waiting", "ended"}
    /\ polls \in 0..Polls /\ sockets \in 0..2 /\ code \in {0, 1, 2, -11, -15}
    /\ child \in {"absent", "starting", "serving", "dead"}
    /\ phase \in {"loading", "building", "binding", "half", "bound", "ready", "created", "hearing", "listening",
                  "announcing", "running", "serving", "stopping", "closed", "stopped", "failed"}
    /\ open \subseteq {1, 2} /\ gate \in Requests \cup {0}
    /\ \A r \in Requests : at[r] \in {"unsent", "received", "heard", "told", "read", "emitting", "done", "cancelled"}
    /\ thread \in Requests \cup {0}

-----------------------------------------------------------------------------
(* The start and the end of a container *)

\* A container that ends without a ready event ends with a failure code: its
\* consumer never takes a failed start for a clean stop, though the child's exit
\* code is what main returns.
FailedStartsAreReported == lines = <<>> /\ exit # Running => exit # 0

ObjectsIn(types) ==
    {<<config.objects[k].type, config.objects[k].instance>> :
        k \in {k \in DOMAIN config.objects : config.objects[k].type \in types}}

\* When a device says it is ready it serves, besides its device object, the objects
\* of its fixture that its stack has, although bacnet4j builds some of them only
\* after it serves requests.  Of the types of its fixture it serves no others,
\* although device_server.c puts defaults where it is given nothing.  What the
\* fixture does not decide are the network port of bacpypes3 and bacnet-stack and
\* the notification classes and the trend log of bacnet-stack: they are always there.
ServesItsFixture ==
    lines # <<>> /\ ~IsRouter /\ ~IsBipRouter =>
        LET enrollments == {o[2] : o \in ObjectsIn({"event-enrollment"})}
        IN served = CASE adapter = "bacnet-stack" -> StackObjects \cup ObjectsIn(Listed)
                      [] IsBacpypes  -> NetworkPort \cup ObjectsIn(Supported)
                      [] IsBacnet4j  -> ObjectsIn(Required \cup Optional \cup Deferred)
                      [] IsWorldiety -> ObjectsIn(Parsed \ {"device", "event-enrollment"})
                                            \cup {<<"notification-class", n>> : n \in enrollments}
                      [] IsCbsigma   -> ObjectsIn({config.objects[k].type : k \in DOMAIN config.objects} \ {"device"})
                      [] IsSysio     -> ObjectsIn(SysioTypes)

\* With its addresses given, a router's ports are on the networks they are
\* configured for, in whichever order the container was connected to them.
RoutesTheRightNetworks ==
    (IsRouter \/ IsBipRouter) /\ lines # <<>> /\ config.addressed => ports = <<1, 2>>

\* Every start comes to an end: a ready event or an exit code.
StartsEnd == <>(lines # <<>> \/ exit # Running)

\* A container that heard SIGTERM ends, unless its bridge broke and left the child
\* in a write nobody reads.
StopsEnd == StopHeard ~> (exit # Running \/ broken)

\* Again and again everything the device has reported is passed on, also what it
\* reported just before it ended.
OperationsAreForwarded ==
    []<>(adapter = "bacnet-stack" /\ lines # <<>> => Len(lines) = performed + 1 \/ broken)

-----------------------------------------------------------------------------
(* The services of the devices *)

Sent(k, kind) == sent[k].kind = kind

\* BACNET_EMIT_EVENT and BACNET_EMIT_AUDIT report once, whoever reads at the same
\* time, and to a client whose own ReadProperty has been answered before; bacnet4j
\* does not mind what the answer was.
NotificationsFollowOneRead ==
    \A k \in DOMAIN sent :
        sent[k].kind \in {"event", "audit", "confirmed-audit"} =>
            /\ \A j \in DOMAIN sent : Sent(j, sent[k].kind) => j = k
            /\ \E j \in 1..(k - 1) :
                  /\ Sent(j, "ack") \/ (IsBacnet4j /\ Sent(j, "error"))
                  /\ Call(sent[j].about).kind = "read" /\ sent[j].to = sent[k].to

WritesBy(r) == {k \in DOMAIN log : log[k].by = r}
LinesOf(r, what) == {n \in DOMAIN told : told[n] = Line(r, what)}
ToldByWrite(r) == IsCbsigma /\ Call(r).kind = "write"

Acked(r) == \E k \in DOMAIN sent : sent[k].about = r /\ Sent(k, "ack")

\* The operations whose line is written before their answer is sent, and those
\* answered first.  Of what bacnet4j receives before its ready event, early, it
\* may say nothing.
ToldFirst(r) ==
    /\ r \notin early
    /\ \/ IsBacpypes /\ Call(r).kind \in Told
       \/ IsBacnet4j /\ Call(r).kind = "confirmed"

AnsweredFirst(r) == IsSysio /\ Call(r).kind \in {"reinitialize", "acknowledge"}

\* What a test that has its answer can expect on standard output.  bacpypes3 and
\* bacnet4j tell of an operation before they answer it.  sysiobacnet does not: its
\* ReinitializeDevice and AcknowledgeAlarm are answered first, and their lines come
\* after an acknowledgement and never without one.  An operation has one line, and
\* in cbsigma's device a request has one for each write it carries out.
LinesAndAnswersAreInOrder ==
    /\ \A k \in DOMAIN sent :
          Sent(k, "ack") /\ ToldFirst(sent[k].about) => HasLine(sent[k].about, "operation")
    /\ \A r \in Requests : AnsweredFirst(r) =>
          /\ HasLine(r, "operation") => Acked(r)
          /\ Acked(r) /\ at[r] = "done" => HasLine(r, "operation")
    /\ \A m, n \in DOMAIN told :
          told[m] = told[n] => m = n \/ (told[m].about # 0 /\ ToldByWrite(told[m].about))
    /\ \A r \in Requests :
          ToldByWrite(r) => Cardinality(LinesOf(r, "operation")) = Cardinality(WritesBy(r))

CovMultiple(r, kind) == {k \in DOMAIN sent : sent[k].about = r /\ sent[k].kind = kind}
AllBefore(S, T) == \A s \in S, t \in T : s < t

\* bacnet4j with BACNET_EMIT_COV_MULTIPLE sends one pair per request, the
\* unconfirmed notification first, and reports each part after the request and in
\* order, the acknowledgement only of a notification that has been sent.
CovNotificationsComeInPairs ==
    \A r \in Requests : Call(r).kind = "cov-multiple" =>
        /\ Cardinality(CovMultiple(r, "cov-multiple")) <= 1
        /\ Cardinality(CovMultiple(r, "confirmed-cov-multiple")) <= Cardinality(CovMultiple(r, "cov-multiple"))
        /\ AllBefore(CovMultiple(r, "cov-multiple"), CovMultiple(r, "confirmed-cov-multiple"))
        /\ LinesOf(r, "acknowledged") # {} => CovMultiple(r, "confirmed-cov-multiple") # {}
        /\ LinesOf(r, "confirmed-sent") # {} => LinesOf(r, "unconfirmed-sent") # {}
        /\ AllBefore(LinesOf(r, "operation"), LinesOf(r, "unconfirmed-sent"))
        /\ AllBefore(LinesOf(r, "unconfirmed-sent"), LinesOf(r, "confirmed-sent") \cup LinesOf(r, "acknowledged"))

Waits(r) == \E n \in DOMAIN batch : batch[n] = r

\* cbsigma's simulator serves while reportSim reads its lists: of each list the
\* requests up to the last look that have a name, and only those, wait to be
\* reported or have been, none left out, none twice and in their order.
SimulatorIsReported ==
    IsCbsigma /\ config.role = "sim" =>
        \A list \in Lists : \A i \in DOMAIN recorded[list] :
            LET r == recorded[list][i] IN
            /\ Waits(r) => i <= counted[list] /\ LinesOf(r, "operation") = {}
            /\ LinesOf(r, "operation") # {} => i <= counted[list] /\ Call(r).arg.named
            /\ i <= counted[list] /\ Call(r).arg.named /\ ~Waits(r)
                  => Cardinality(LinesOf(r, "operation")) = 1
            /\ \A j \in 1..(i - 1) :
                  AllBefore(LinesOf(recorded[list][j], "operation"), LinesOf(r, "operation"))

\* What a device accepts of what it is asked to write.
Accepted(write) ==
    CASE IsBacpypes  -> Writable(write)
      [] IsWorldiety -> Accepts(write)
      [] IsCbsigma   -> StackAccepts(write)
      [] IsSysio     -> SysioAccepts(write)
      [] OTHER       -> FALSE

\* "every peer applies the writes before the failing one and none after it; none
\* rolls back": the n-th write a request carries out is its n-th, whatever other
\* requests write in between; when it is acknowledged these are all of them, when
\* it is refused the next one is one the device does not accept.  An error names
\* that write or none, and for several writes worldiety's names it.  Only while
\* sysiobacnet closes its queue may a write fail that has been carried out.
MultipleWritesAreAnsweredTruly ==
    /\ \A k \in DOMAIN log :
          /\ log[k].write = Cardinality({l \in 1..k : log[l].by = log[k].by})
          /\ Accepted(Call(log[k].by).arg[log[k].write])
    /\ \A k \in DOMAIN sent :
          sent[k].about # 0 /\ Call(sent[k].about).kind = "write" =>
              LET writes == Call(sent[k].about).arg
                  carried == Cardinality(WritesBy(sent[k].about))
              IN CASE Sent(k, "ack")   -> carried = Len(writes)
                   [] Sent(k, "error") ->
                        /\ carried < Len(writes) /\ ~Accepted(writes[carried + 1])
                        /\ sent[k].body = {} \/ sent[k].body = {carried + 1}
                        /\ IsWorldiety /\ Len(writes) > 1 => sent[k].body # {}
                   [] Sent(k, "device-error") -> carried > 0 /\ phase \in {"closed", "stopped"}
                   [] OTHER -> sent[k].kind = "notification"

\* The bounds of two priority filters that leave no gap and do not overlap.
Adjacent(f, g) == f.high + 1 = g.low /\ [f EXCEPT !.low = g.low, !.high = g.high] = g

Whole(f) == f.acknowledgment = "all" /\ f.state \in {"absent", "all"} /\ f.event = "absent"

\* Two clients that ask for the enrollments below and above a priority learn of
\* each served analog and binary value, and of none twice.
EnrollmentAnswersPartition ==
    \A j, k \in DOMAIN sent :
        LET f == Call(sent[j].about).arg
            g == Call(sent[k].about).arg
            names == {<<o.type, o.instance>> : o \in sent[j].body \cup sent[k].body}
        IN /\ Sent(j, "ack") /\ Sent(k, "ack")
           /\ Call(sent[j].about).kind = "enrollments" /\ Call(sent[k].about).kind = "enrollments"
           /\ Adjacent(f, g) /\ Whole(f) /\ f.low = 0 /\ g.high = 255
           => /\ sent[j].body \cap sent[k].body = {}
              /\ names = {o \in served : o[1] \in Enrolled.type}

\* "so that a test can tell the ACK belongs to its request": two VT-Open answers
\* name the same session only if their requests did, and an audit-log query that
\* names a record is answered from that record on.
AnswersTellTheirRequests ==
    /\ \A j, k \in DOMAIN sent :
          /\ Sent(j, "ack") /\ Sent(k, "ack")
          /\ Call(sent[j].about).kind = "vt-open" /\ Call(sent[k].about).kind = "vt-open"
          /\ sent[j].body = sent[k].body
          => Call(sent[j].about).arg = Call(sent[k].about).arg
    /\ \A k \in DOMAIN sent :
          /\ Sent(k, "ack") /\ Call(sent[k].about).kind = "audit-query" /\ Call(sent[k].about).arg >= 0
          => Call(sent[k].about).arg \in sent[k].body

\* Clients that look for a device with ranges that cover its instance once, one
\* below and one from a bound on, find it once.
DeviceIsFoundOnce ==
    \A p, q \in Requests :
        /\ Call(p).kind = "who-is" /\ Call(q).kind = "who-is"
        /\ at[p] = "done" /\ at[q] = "done"
        /\ Call(p).arg.high + 1 = Call(q).arg.low
        /\ Call(p).arg.low <= config.instance /\ config.instance <= Call(q).arg.high
        => Cardinality({k \in DOMAIN sent : Sent(k, "i-am") /\ sent[k].about \in {p, q}}) = 1

Replies == {"ack", "error", "device-error", "reject"}

Settled(r) ==
    \/ r \in Requests /\ Call(r).kind # "simulated" /\ \E k \in DOMAIN sent : sent[k].about = r /\ sent[k].kind \in Replies
    \/ r \in Requests /\ Call(r).kind = "unconfirmed" /\ (HasLine(r, "operation") \/ r \in early)
    \/ r \in Requests /\ Call(r).kind = "who-is" /\ at[r] = "done"
    \/ r \in Requests /\ Call(r).kind = "simulated" /\ (HasLine(r, "operation") \/ ~Call(r).arg.named)

\* Again and again every request the device has received is answered or, when its
\* service has no answer, reported, unless the device has stopped.
RequestsAreAnswered ==
    []<>(exit # Running \/ \A r \in Requests : at[r] = "unsent" \/ Settled(r))
=============================================================================
