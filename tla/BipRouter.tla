----------------------------- MODULE BipRouter -----------------------------
(***************************************************************************)
(* The BACnet/IP-to-BACnet/IP topology router (adapters/bip-router/         *)
(* bip_router.py): one thread that takes one datagram at a time from either *)
(* of its two ports, and the table of return paths by which the replies of  *)
(* devices that cannot route find their way back.                           *)
(*                                                                         *)
(* `wire` holds the datagrams in flight on both networks, one for every     *)
(* receiver of a broadcast.  It is a set: datagrams overtake one another.   *)
(***************************************************************************)
EXTENDS Integers, FiniteSets

CONSTANTS
    Networks,     (* the two network numbers                                  *)
    Stations,     (* BACnet/IP endpoints other than the router's               *)
    HomeOf,       (* the network each station is on                            *)
    Bodies,       (* application PDUs                                          *)
    MaxHop,       (* the hop count a station sends                             *)
    TTL,          (* RETURN_PATH_TTL_SEC, in clock ticks                       *)
    Duplicating,  (* whether the network may deliver a datagram twice          *)
    Router,       (* the router's endpoint, on either network                  *)
    Global,       (* DNET 65535                                                *)
    None          (* an absent header field                                    *)

ASSUME RouterAssumption ==
    /\ \A n \in Networks : \E m \in Networks : m # n /\ Networks = {n, m}
    /\ HomeOf \in [Stations -> Networks]
    /\ MaxHop \in 1..255 /\ TTL \in Nat /\ Duplicating \in BOOLEAN
    /\ Router \notin Stations /\ Global \notin Networks
    /\ None \notin Stations \cup Networks \cup {Router, Global}
    /\ \A b \in Bodies : b.kind \notin {"whoIsRouter", "iAmRouter"}

VARIABLES
    wire,         (* datagrams in flight                                      *)
    paths,        (* return_paths: device endpoint -> egress, dest, time left *)
    announced     (* I-Am-Router rounds sent since the start; serving after 2 *)

routerVars == <<wire, paths, announced>>

-----------------------------------------------------------------------------
(* Datagrams *)

Endpoints == Stations \cup {Router}
WhoIsRouter == [kind : {"whoIsRouter"}, want : Networks \cup {None}]
IAmRouter   == [kind : {"iAmRouter"}, network : Networks]
NetworkMessages == WhoIsRouter \cup IAmRouter

Datagram ==
    [net : Networks, from : Endpoints, to : Endpoints, fn : {"unicast", "broadcast"},
     dnet : Networks \cup {Global, None}, dadr : Stations \cup {None},
     snet : Networks \cup {None}, sadr : Stations \cup {None},
     hop : 0..255, body : Bodies \cup NetworkMessages]

\* The network of the other port.
Other(n) == CHOOSE m \in Networks : m # n

Unicast(net, from, to, h, body) ==
    {[net |-> net, from |-> from, to |-> to, fn |-> "unicast", dnet |-> h.dnet, dadr |-> h.dadr,
      snet |-> h.snet, sadr |-> h.sadr, hop |-> h.hop, body |-> body]}

\* A broadcast reaches every other endpoint of its network.
Broadcast(net, from, h, body) ==
    {[net |-> net, from |-> from, to |-> e, fn |-> "broadcast", dnet |-> h.dnet, dadr |-> h.dadr,
      snet |-> h.snet, sadr |-> h.sadr, hop |-> h.hop, body |-> body] :
        e \in ({s \in Stations : HomeOf[s] = net} \cup {Router}) \ {from}}

\* NPCI headers: destination specifier, source specifier, hop count.
Local               == [dnet |-> None, dadr |-> None, snet |-> None, sadr |-> None, hop |-> 0]
From(net, s)        == [dnet |-> None, dadr |-> None, snet |-> net, sadr |-> s, hop |-> 0]
Toward(net, d, hop) == [dnet |-> net, dadr |-> d, snet |-> None, sadr |-> None, hop |-> hop]

GlobalFrom(net, s, hop) == [dnet |-> Global, dadr |-> None, snet |-> net, sadr |-> s, hop |-> hop]

\* What is in flight once f has been received.
Rest(f) == {wire \ {f}} \cup (IF Duplicating THEN {wire} ELSE {})

-----------------------------------------------------------------------------
(* The handlers, for a datagram f received by the router *)

Received(f) == f \in wire /\ f.to = Router /\ announced = 2
IsApplication(f) == f.body \in Bodies

\* Hop counts 0 and 1 end here.
MayCross(f) == Received(f) /\ IsApplication(f) /\ f.dnet # None /\ f.hop > 1

ForwardGlobal(f) ==
    /\ MayCross(f) /\ f.dnet = Global
    /\ \E rest \in Rest(f) :
         wire' = rest \cup Broadcast(Other(f.net), Router,
                    GlobalFrom(f.net, f.from, f.hop - 1), f.body)
    /\ UNCHANGED <<paths, announced>>

\* DNET of the other side without a DADR: a local broadcast there.
ForwardRemoteBroadcast(f) ==
    /\ MayCross(f) /\ f.dnet \in Networks \ {f.net} /\ f.dadr = None
    /\ \E rest \in Rest(f) :
         wire' = rest \cup Broadcast(f.dnet, Router, From(f.net, f.from), f.body)
    /\ UNCHANGED <<paths, announced>>

\* Defects: the path is not remembered, the path leads to the device itself.
NotRemembered(device, egress, dest) == paths
RememberedBackwards(device, egress, dest) ==
    [d \in DOMAIN paths \cup {device} |->
        IF d = device THEN [egress |-> egress, dest |-> device, left |-> TTL] ELSE paths[d]]

\* Defect: one path for all devices of a network.
RememberedForNetwork(device, egress, dest) ==
    [d \in {s \in Stations : HomeOf[s] = HomeOf[device]} |-> [egress |-> egress, dest |-> dest, left |-> TTL]]

\* remember: a later request to the same device replaces the path.
Remembered(device, egress, dest) ==
    [d \in DOMAIN paths \cup {device} |->
        IF d = device THEN [egress |-> egress, dest |-> dest, left |-> TTL] ELSE paths[d]]

\* Final delivery omits SNET and SADR: the device answers the router.
ForwardUnicast(f) ==
    /\ MayCross(f) /\ f.dnet \in Networks \ {f.net} /\ f.dadr # None
    /\ paths' = Remembered(f.dadr, f.net, f.from)
    /\ \E rest \in Rest(f) : wire' = rest \cup Unicast(f.dnet, Router, f.dadr, Local, f.body)
    /\ UNCHANGED announced

\* Out of hops, or for the network it came from.  (So is one for a network that
\* is neither: no station of the model addresses one.)
DropDnet(f) ==
    /\ Received(f) /\ IsApplication(f) /\ f.dnet # None
    /\ f.hop <= 1 \/ f.dnet = f.net
    /\ wire' \in Rest(f)
    /\ UNCHANGED <<paths, announced>>

ForwardLocalBroadcast(f) ==
    /\ Received(f) /\ IsApplication(f) /\ f.dnet = None /\ f.fn = "broadcast"
    /\ \E rest \in Rest(f) :
         wire' = rest \cup Broadcast(Other(f.net), Router, From(f.net, f.from), f.body)
    /\ UNCHANGED <<paths, announced>>

IsReply(f) == Received(f) /\ IsApplication(f) /\ f.dnet = None /\ f.fn = "unicast"

\* Defects: the source specifier names the client, or the router.
SourceOfDest(f, path) == From(path.egress, path.dest)

SourceIsRouter(f, path) == From(f.net, Router)

ReturnHeader(f, path) == From(f.net, f.from)

ForwardReturnPath(f) ==
    /\ IsReply(f) /\ f.from \in DOMAIN paths
    /\ LET path == paths[f.from] IN
         /\ path.left >= 0
         /\ \E rest \in Rest(f) :
              wire' = rest \cup Unicast(path.egress, Router, path.dest, ReturnHeader(f, path), f.body)
    /\ UNCHANGED <<paths, announced>>

\* No path, or one that ran out and is then forgotten: the reply is dropped.
DropReply(f) ==
    /\ IsReply(f)
    /\ f.from \in DOMAIN paths => paths[f.from].left < 0
    /\ paths' = [d \in DOMAIN paths \ {f.from} |-> paths[d]]
    /\ wire' \in Rest(f)
    /\ UNCHANGED announced

\* Who-Is-Router: the answer goes to the station that asked and, again, to
\* everybody; asking for the network one is on, or an unknown one, is not
\* answered.  Every other network message is ignored.
HandleNetworkMessage(f) ==
    /\ Received(f) /\ f.body \in NetworkMessages
    /\ \E rest \in Rest(f) :
         LET answer == [kind |-> "iAmRouter", network |-> Other(f.net)] IN
         wire' = IF f.body.kind = "whoIsRouter" /\ f.body.want \in {None, Other(f.net)}
                 THEN rest \cup Unicast(f.net, Router, f.from, Local, answer)
                           \cup Broadcast(f.net, Router, Local, answer)
                 ELSE rest
    /\ UNCHANGED <<paths, announced>>

\* Start-up broadcasts I-Am-Router on both ports, twice, before serving.
Announce ==
    /\ announced < 2
    /\ announced' = announced + 1
    /\ wire' = wire \cup
         UNION {Broadcast(n, Router, Local, [kind |-> "iAmRouter", network |-> Other(n)]) : n \in Networks}
    /\ UNCHANGED paths

\* A second passes: every path comes nearer to its end.
Elapse ==
    /\ \E d \in DOMAIN paths : paths[d].left >= 0
    /\ paths' = [d \in DOMAIN paths |->
                   [paths[d] EXCEPT !.left = IF @ >= 0 THEN @ - 1 ELSE @]]
    /\ UNCHANGED <<wire, announced>>

RouterInit == wire = {} /\ paths = <<>> /\ announced = 0

Handle(f) ==
    \/ ForwardGlobal(f) \/ ForwardRemoteBroadcast(f) \/ ForwardUnicast(f) \/ DropDnet(f)
    \/ ForwardLocalBroadcast(f) \/ ForwardReturnPath(f) \/ DropReply(f)
    \/ HandleNetworkMessage(f)

RouterNext == Announce \/ Elapse \/ \E f \in wire : Handle(f)
=============================================================================
