----------------------------- MODULE BipNetwork -----------------------------
(***************************************************************************)
(* The topology the router is deployed in: clients and devices on two      *)
(* networks, exchanging requests and replies through it over UDP, which     *)
(* loses, reorders and may duplicate datagrams.  The stations are not part  *)
(* of the router's sources: they behave as its documentation and the peer   *)
(* notes say of the clients and devices it serves.                          *)
(***************************************************************************)
EXTENDS BipRouter

CONSTANTS
    Requests,   (* identities of the requests (invoke identifiers)            *)
    ClientOf,   (* the client that makes each request                         *)
    TargetOf,   (* the device it asks; a broadcast asks all of them            *)
    Ways,       (* the ways each request may be sent: unicast, or (a Who-Is) as
                   remote, global or local broadcast                         *)
    Devices,    (* the stations that answer                                    *)
    StyleOf,    (* how a device answers a request that carries SNET and SADR:
                   "reverse" routes the reply back with DNET and DADR, "direct"
                   answers the router, "broadcast" broadcasts an I-Am          *)
    Lossy,      (* whether datagrams get lost                                  *)
    MaxWire     (* bound: stations send only while fewer datagrams are in flight *)

ASSUME NetworkAssumption ==
    /\ Devices \subseteq Stations
    /\ ClientOf \in [Requests -> Stations \ Devices] /\ TargetOf \in [Requests -> Devices]
    /\ Ways \in [Requests -> SUBSET {"unicast", "remote", "global", "local"}]
    /\ \A r \in Requests : Ways[r] \cap {"unicast", "remote"} # {} => HomeOf[TargetOf[r]] # HomeOf[ClientOf[r]]
    /\ StyleOf \in [Devices -> {"reverse", "direct", "broadcast"}]
    /\ Lossy \in BOOLEAN /\ MaxWire \in Nat
    /\ Bodies = [kind : {"request"}, id : Requests] \cup [kind : {"reply"}, id : Requests, by : Devices]

Clients == Stations \ Devices

VARIABLES
    route,   (* the clients that know the router                              *)
    got      (* the replies clients received, with the source they name       *)

vars == <<routerVars, route, got>>

WhoIsAnyRouter == [kind |-> "whoIsRouter", want |-> None]
Request(r) == [kind |-> "request", id |-> r]
ReplyTo(r, d) == [kind |-> "reply", id |-> r, by |-> d]
Answered(r) == \E g \in got : g.client = ClientOf[r] /\ g.id = r

-----------------------------------------------------------------------------
MaySend == announced = 2 /\ Cardinality(wire) < MaxWire

AskForRouter(c, want) ==
    /\ MaySend /\ c \notin route
    /\ wire' = wire \cup Broadcast(HomeOf[c], c, Local, [kind |-> "whoIsRouter", want |-> want])
    /\ UNCHANGED <<paths, announced, route, got>>

\* A request, sent again as long as it has no answer; `hop` is MaxHop, or less
\* when a router on the client's side has forwarded it before.
Send(r, way, hop) ==
    LET c == ClientOf[r] net == HomeOf[c] far == HomeOf[TargetOf[r]] IN
    /\ MaySend /\ ~Answered(r)
    /\ way # "local" => c \in route
    /\ wire' = wire \cup
         CASE way = "unicast" -> Unicast(net, c, Router, Toward(far, TargetOf[r], hop), Request(r))
           [] way = "remote"  -> Unicast(net, c, Router, Toward(far, None, hop), Request(r))
           [] way = "global"  -> Broadcast(net, c, Toward(Global, None, hop), Request(r))
           [] way = "local"   -> Broadcast(net, c, Local, Request(r))
    /\ UNCHANGED <<paths, announced, route, got>>

\* A device answers what it is asked; the reply to a broadcast is an I-Am.
Replies(d, f) ==
    LET body == ReplyTo(f.body.id, d) IN
    CASE f.fn = "broadcast" /\ StyleOf[d] = "broadcast" -> Broadcast(f.net, d, Local, body)
      [] f.snet # None /\ StyleOf[d] = "reverse" -> Unicast(f.net, d, f.from, Toward(f.snet, f.sadr, MaxHop), body)
      [] OTHER -> Unicast(f.net, d, f.from, Local, body)

DeviceReceives(f) ==
    /\ f.to \in Devices /\ f.body.kind = "request"
    /\ \E rest \in Rest(f) : wire' = rest \cup Replies(f.to, f)
    /\ UNCHANGED <<paths, announced, route, got>>

ClientReceives(f) ==
    /\ f.to \in Clients /\ f.body.kind = "reply"
    /\ got' = got \cup {[client |-> f.to, id |-> f.body.id, by |-> f.body.by,
                         net |-> f.snet, station |-> f.sadr]}
    /\ wire' \in Rest(f)
    /\ UNCHANGED <<paths, announced, route>>

ClientLearns(f) ==
    /\ f.to \in Clients /\ f.body \in IAmRouter
    /\ route' = route \cup {f.to}
    /\ wire' \in Rest(f)
    /\ UNCHANGED <<paths, announced, got>>

\* A station ignores what is not for it.
StationIgnores(f) ==
    /\ f.to \in Stations
    /\ f.body.kind \notin (IF f.to \in Devices THEN {"request"} ELSE {"reply", "iAmRouter"})
    /\ wire' \in Rest(f)
    /\ UNCHANGED <<paths, announced, route, got>>

Lose(f) ==
    /\ Lossy
    /\ wire' = wire \ {f}
    /\ UNCHANGED <<paths, announced, route, got>>

Init == RouterInit /\ route = {} /\ got = {}

RouterStep == RouterNext /\ UNCHANGED <<route, got>>

Next ==
    \/ RouterStep
    \/ \E c \in Clients, want \in Networks \cup {None} : AskForRouter(c, want)
    \/ \E r \in Requests, hop \in 1..MaxHop : \E way \in Ways[r] : Send(r, way, hop)
    \/ \E f \in wire : DeviceReceives(f) \/ ClientReceives(f) \/ ClientLearns(f) \/ StationIgnores(f) \/ Lose(f)

PathOpen(d) == d \in DOMAIN paths /\ paths[d].left >= 0

\* The router starts and the clients retry.  Of a datagram sent again and again
\* some copy arrives, a request while its return path is open and a reply too:
\* the path lasts 30 seconds, a device takes far less to answer.
Fairness ==
    /\ WF_vars(Announce /\ UNCHANGED <<route, got>>)
    /\ \A c \in Clients :
         /\ WF_vars(AskForRouter(c, None))
         /\ SF_vars(\E f \in wire : f.from = c /\ f.body = WhoIsAnyRouter /\ HandleNetworkMessage(f) /\ UNCHANGED <<route, got>>)
         /\ SF_vars(\E f \in wire : f.to = c /\ ClientLearns(f))
    /\ \A r \in Requests :
         /\ WF_vars(\E way \in Ways[r] : Send(r, way, MaxHop))
         /\ SF_vars(\E f \in wire : f.body = Request(r) /\ ForwardUnicast(f) /\ UNCHANGED <<route, got>>)
         /\ SF_vars(\E f \in wire : f.body = Request(r) /\ PathOpen(f.to) /\ DeviceReceives(f))
         /\ SF_vars(\E f \in wire : f.body \in {ReplyTo(r, d) : d \in Devices}
                                    /\ ForwardReturnPath(f) /\ UNCHANGED <<route, got>>)
         /\ SF_vars(\E f \in wire : f.body \in {ReplyTo(r, d) : d \in Devices} /\ ClientReceives(f))

Spec == Init /\ [][Next]_vars
FairSpec == Spec /\ Fairness

-----------------------------------------------------------------------------
(* Properties *)

\* Type correctness of the router and of the network.
TypeOK ==
    /\ wire \subseteq Datagram
    /\ DOMAIN paths \subseteq Stations
    /\ \A d \in DOMAIN paths : paths[d] \in [egress : Networks, dest : Stations, left : -1..TTL]
    /\ announced \in 0..2
    /\ route \subseteq Clients
    /\ got \subseteq [client : Clients, id : Requests, by : Devices,
                      net : Networks \cup {None}, station : Stations \cup {None}]

\* The router never puts a datagram on a network where its receiver is not: what
\* a return path remembers stays true of the stations, whichever side asked.
Deliverable ==
    /\ \A f \in wire : \A e \in {f.from, f.to} \ {Router} : HomeOf[e] = f.net
    /\ \A d \in DOMAIN paths : paths[d].egress # HomeOf[d] /\ HomeOf[paths[d].dest] = paths[d].egress

\* README.md 17-19: a device behind the router answers the router, and the
\* "return-path then forwards the reply to the originating client", over loss,
\* reordering, duplicates, retries and expired paths.  It holds as long as no two
\* clients talk to one device: there is one path for a device.
RepliesReachTheirClient ==
    \A g \in got : Ways[g.id] = {"unicast"} => g.client = ClientOf[g.id]

\* A reply that names a source names the device that wrote it: two devices
\* answering one client through one router are never taken for each other.
SourceIsTheDevice ==
    \A g \in got : g.station # None => g.station = g.by /\ g.net = HomeOf[g.by]

\* A unicast request to a device that cannot route is answered in the end,
\* though datagrams get lost and return paths run out.
RequestsAreAnswered == \A r \in Requests : Ways[r] = {"unicast"} => <>Answered(r)

-----------------------------------------------------------------------------
(* What the documentation says and the program does not do *)

\* README.md 16: "Return-path assist for peers that reply without reverse
\* DNET/DADR": only a path that ran out loses the reply of such a peer.
DirectRepliesAreAssisted ==
    [][\A f \in wire : DropReply(f) => f.from \in DOMAIN paths]_vars
=============================================================================
