-------------------------- MODULE BipNetworkProofs --------------------------
(***************************************************************************)
(* Theorems about BipNetwork for every value of its constants: any number  *)
(* of clients, devices and requests on the router's two networks.          *)
(***************************************************************************)
EXTENDS BipNetwork, TLAPS

-----------------------------------------------------------------------------
(* The inductive invariant *)

Header == [dnet : Networks \cup {Global, None}, dadr : Stations \cup {None},
           snet : Networks \cup {None}, sadr : Stations \cup {None}, hop : 0..255]

\* Specifiers name a station and the network it is on, and the source of a reply
\* is the device that wrote it.
GoodHeader(h, body) ==
    /\ h.dadr # None => h.dnet = HomeOf[h.dadr]
    /\ h.snet = None <=> h.sadr = None
    /\ h.sadr # None => h.snet = HomeOf[h.sadr]
    /\ body.kind = "reply" /\ h.sadr # None => h.sadr = body.by

\* Sender and receiver are two endpoints of the datagram's network; a reply that
\* the router has not forwarded comes from the device that wrote it.
GoodEnds(net, from, to, body) ==
    /\ from # to
    /\ from # Router => HomeOf[from] = net
    /\ to # Router => HomeOf[to] = net
    /\ body.kind = "reply" /\ from # Router => from = body.by

Good(f) == f \in Datagram /\ GoodHeader(f, f.body) /\ GoodEnds(f.net, f.from, f.to, f.body)

GoodPath(d) ==
    /\ paths[d] \in [egress : Networks, dest : Stations, left : -1..TTL]
    /\ paths[d].egress # HomeOf[d] /\ HomeOf[paths[d].dest] = paths[d].egress

Answers == [client : Clients, id : Requests, by : Devices,
            net : Networks \cup {None}, station : Stations \cup {None}]

RouterInv ==
    /\ \A f \in wire : Good(f)
    /\ DOMAIN paths \subseteq Stations
    /\ \A d \in DOMAIN paths : GoodPath(d)

Inv ==
    /\ RouterInv
    /\ announced \in 0..2
    /\ route \subseteq Clients
    /\ got \subseteq Answers
    /\ SourceIsTheDevice

LEMMA InvImplies == Inv => TypeOK /\ Deliverable /\ SourceIsTheDevice
  BY DEF Inv, RouterInv, Good, GoodEnds, GoodPath, TypeOK, Deliverable, Answers

-----------------------------------------------------------------------------
(* Datagrams *)

\* The other port is the other one.
LEMMA OtherNetwork == ASSUME NEW n \in Networks PROVE Other(n) \in Networks /\ Other(n) # n
  <1>1. \E m \in Networks : m # n
    BY RouterAssumption
  <1>2. QED
    BY <1>1 DEF Other

LEMMA GoodUnicast ==
    ASSUME NEW net \in Networks, NEW from \in Endpoints, NEW to \in Endpoints,
           NEW h \in Header, NEW body \in Bodies \cup NetworkMessages,
           GoodEnds(net, from, to, body), GoodHeader(h, body)
    PROVE  \A f \in Unicast(net, from, to, h, body) : Good(f)
  BY DEF Unicast, Good, Datagram, Header, GoodHeader

LEMMA GoodBroadcast ==
    ASSUME NEW net \in Networks, NEW from \in Endpoints,
           NEW h \in Header, NEW body \in Bodies \cup NetworkMessages,
           from # Router => HomeOf[from] = net,
           body.kind = "reply" /\ from # Router => from = body.by,
           GoodHeader(h, body)
    PROVE  \A f \in Broadcast(net, from, h, body) : Good(f)
  <1> DEFINE Ends == ({s \in Stations : HomeOf[s] = net} \cup {Router}) \ {from}
             D(e) == [net |-> net, from |-> from, to |-> e, fn |-> "broadcast", dnet |-> h.dnet,
                      dadr |-> h.dadr, snet |-> h.snet, sadr |-> h.sadr, hop |-> h.hop, body |-> body]
  <1>1. ASSUME NEW e \in Ends PROVE Good(D(e))
    <2>1. e \in Endpoints /\ GoodEnds(net, from, e, body)
      BY RouterAssumption DEF Endpoints, GoodEnds
    <2>2. QED
      BY <2>1 DEF Good, Datagram, Header, GoodHeader
  <1>2. Broadcast(net, from, h, body) = {D(e) : e \in Ends}
    BY DEF Broadcast
  <1> HIDE DEF D, Ends
  <1>3. QED
    BY <1>1, <1>2

LEMMA GoodLocal == ASSUME NEW body PROVE Local \in Header /\ GoodHeader(Local, body)
  BY DEF Local, Header, GoodHeader

LEMMA GoodFrom ==
    ASSUME NEW s \in Stations, NEW body, body.kind = "reply" => s = body.by
    PROVE  From(HomeOf[s], s) \in Header /\ GoodHeader(From(HomeOf[s], s), body)
  <1>1. HomeOf[s] \in Networks /\ HomeOf[s] # None /\ s # None
    BY RouterAssumption
  <1> DEFINE h == From(HomeOf[s], s)
  <1>2. h = [dnet |-> None, dadr |-> None, snet |-> HomeOf[s], sadr |-> s, hop |-> 0]
    BY DEF From, Local
  <1> HIDE DEF h
  <1>3. h \in Header
    BY <1>1, <1>2 DEF Header
  <1>4. GoodHeader(h, body)
    BY <1>1, <1>2 DEF GoodHeader
  <1>5. QED
    BY <1>3, <1>4 DEF h

LEMMA GoodToward ==
    ASSUME NEW d \in Stations, NEW body, NEW hop \in 1..MaxHop
    PROVE  /\ Toward(HomeOf[d], d, hop) \in Header /\ GoodHeader(Toward(HomeOf[d], d, hop), body)
           /\ Toward(HomeOf[d], None, hop) \in Header /\ GoodHeader(Toward(HomeOf[d], None, hop), body)
           /\ Toward(Global, None, hop) \in Header /\ GoodHeader(Toward(Global, None, hop), body)
  <1>1. HomeOf[d] \in Networks /\ hop \in 0..255
    BY RouterAssumption
  <1>2. QED
    BY <1>1 DEF Toward, Local, Header, GoodHeader

\* Receiving a datagram leaves nothing new in flight.
LEMMA RestSubset == ASSUME NEW f, NEW rest \in Rest(f) PROVE rest \subseteq wire
  BY DEF Rest

\* What the router may assume of a datagram it receives.
LEMMA ReceivedDatagram ==
    ASSUME Inv, NEW f \in wire, Received(f)
    PROVE  /\ f.from \in Stations /\ HomeOf[f.from] = f.net /\ f.net \in Networks
           /\ f.dadr \in Stations \cup {None} /\ f.hop \in 0..255 /\ f.body \in Bodies \cup NetworkMessages
           /\ f.dadr # None => f.dnet = HomeOf[f.dadr]
           /\ f.body.kind = "reply" => f.from = f.body.by
  BY DEF Inv, RouterInv, Good, GoodHeader, GoodEnds, Datagram, Received, Endpoints

LEMMA GoodGlobalFrom ==
    ASSUME NEW s \in Stations, NEW body, NEW hop \in 0..255, body.kind = "reply" => s = body.by
    PROVE  GlobalFrom(HomeOf[s], s, hop) \in Header /\ GoodHeader(GlobalFrom(HomeOf[s], s, hop), body)
  <1>1. HomeOf[s] \in Networks /\ HomeOf[s] # None /\ s # None
    BY RouterAssumption
  <1>2. QED
    BY <1>1 DEF GlobalFrom, Header, GoodHeader

\* Messages of the network layer are no replies.
LEMMA NetworkMessageKinds ==
    /\ \A b \in NetworkMessages : b.kind # "reply"
    /\ \A n \in Networks : [kind |-> "iAmRouter", network |-> n] \in NetworkMessages
    /\ \A n \in Networks \cup {None} : [kind |-> "whoIsRouter", want |-> n] \in NetworkMessages
  BY DEF NetworkMessages, WhoIsRouter, IAmRouter

-----------------------------------------------------------------------------
(* The router's steps *)

LEMMA UnchangedPaths == ASSUME Inv, UNCHANGED paths
                        PROVE  DOMAIN paths' \subseteq Stations /\ \A d \in DOMAIN paths' : GoodPath(d)'
  BY DEF Inv, RouterInv, GoodPath

LEMMA RouterFrom == Router \in Endpoints /\ Router \notin Stations
  BY RouterAssumption DEF Endpoints

LEMMA ForwardGlobalInv == ASSUME Inv, NEW f \in wire, ForwardGlobal(f) PROVE RouterInv'
  <1> DEFINE sent == Broadcast(Other(f.net), Router, GlobalFrom(f.net, f.from, f.hop - 1), f.body)
  <1>1. Received(f) /\ f.hop > 1
    BY DEF ForwardGlobal, MayCross
  <1>2. GlobalFrom(f.net, f.from, f.hop - 1) \in Header /\ GoodHeader(GlobalFrom(f.net, f.from, f.hop - 1), f.body)
    <2>1. f.from \in Stations /\ f.net = HomeOf[f.from] /\ (f.body.kind = "reply" => f.from = f.body.by)
      BY <1>1, ReceivedDatagram
    <2>2. f.hop - 1 \in 0..255
      BY <1>1, ReceivedDatagram
    <2>3. QED
      BY <2>1, <2>2, GoodGlobalFrom
  <1>3. \A g \in sent : Good(g)
    BY <1>1, <1>2, ReceivedDatagram, OtherNetwork, RouterFrom, GoodBroadcast
  <1>4. PICK rest \in Rest(f) : wire' = rest \cup sent
    BY DEF ForwardGlobal
  <1> HIDE DEF sent
  <1>5. \A g \in wire' : Good(g)
    BY <1>3, <1>4, RestSubset DEF Inv, RouterInv
  <1>6. QED
    BY <1>5, UnchangedPaths DEF ForwardGlobal, RouterInv, Good, GoodHeader, GoodEnds

LEMMA ForwardRemoteBroadcastInv == ASSUME Inv, NEW f \in wire, ForwardRemoteBroadcast(f) PROVE RouterInv'
  <1> DEFINE sent == Broadcast(f.dnet, Router, From(f.net, f.from), f.body)
  <1>1. Received(f) /\ f.dnet \in Networks
    BY DEF ForwardRemoteBroadcast, MayCross
  <1>2. From(f.net, f.from) \in Header /\ GoodHeader(From(f.net, f.from), f.body)
    BY <1>1, ReceivedDatagram, GoodFrom
  <1>3. \A g \in sent : Good(g)
    BY <1>1, <1>2, ReceivedDatagram, RouterFrom, GoodBroadcast
  <1>4. PICK rest \in Rest(f) : wire' = rest \cup sent
    BY DEF ForwardRemoteBroadcast
  <1> HIDE DEF sent
  <1>5. \A g \in wire' : Good(g)
    BY <1>3, <1>4, RestSubset DEF Inv, RouterInv
  <1>6. QED
    BY <1>5, UnchangedPaths DEF ForwardRemoteBroadcast, RouterInv, Good, GoodHeader, GoodEnds

LEMMA ForwardLocalBroadcastInv == ASSUME Inv, NEW f \in wire, ForwardLocalBroadcast(f) PROVE RouterInv'
  <1> DEFINE sent == Broadcast(Other(f.net), Router, From(f.net, f.from), f.body)
  <1>1. Received(f)
    BY DEF ForwardLocalBroadcast
  <1>2. From(f.net, f.from) \in Header /\ GoodHeader(From(f.net, f.from), f.body)
    BY <1>1, ReceivedDatagram, GoodFrom
  <1>3. \A g \in sent : Good(g)
    BY <1>1, <1>2, ReceivedDatagram, OtherNetwork, RouterFrom, GoodBroadcast
  <1>4. PICK rest \in Rest(f) : wire' = rest \cup sent
    BY DEF ForwardLocalBroadcast
  <1> HIDE DEF sent
  <1>5. \A g \in wire' : Good(g)
    BY <1>3, <1>4, RestSubset DEF Inv, RouterInv
  <1>6. QED
    BY <1>5, UnchangedPaths DEF ForwardLocalBroadcast, RouterInv, Good, GoodHeader, GoodEnds

\* A remembered path leads back over the network the request came from.
LEMMA ForwardUnicastInv == ASSUME Inv, NEW f \in wire, ForwardUnicast(f) PROVE RouterInv'
  <1> DEFINE sent == Unicast(f.dnet, Router, f.dadr, Local, f.body)
  <1>1. Received(f) /\ f.dnet \in Networks \ {f.net} /\ f.dadr # None
    BY DEF ForwardUnicast, MayCross
  <1>2. f.dadr \in Stations /\ HomeOf[f.dadr] = f.dnet /\ f.from \in Stations /\ HomeOf[f.from] = f.net
    BY <1>1, ReceivedDatagram
  <1>3. f.dadr \in Endpoints /\ GoodEnds(f.dnet, Router, f.dadr, f.body)
    BY <1>2, RouterFrom DEF Endpoints, GoodEnds
  <1>4. \A g \in sent : Good(g)
    BY <1>1, <1>3, ReceivedDatagram, RouterFrom, GoodLocal, GoodUnicast
  <1>5. PICK rest \in Rest(f) : wire' = rest \cup sent
    BY DEF ForwardUnicast
  <1> HIDE DEF sent
  <1>6. \A g \in wire' : Good(g)
    BY <1>4, <1>5, RestSubset DEF Inv, RouterInv
  <1>7. paths' = [d \in DOMAIN paths \cup {f.dadr} |->
                    IF d = f.dadr THEN [egress |-> f.net, dest |-> f.from, left |-> TTL] ELSE paths[d]]
    BY DEF ForwardUnicast, Remembered
  <1>8. DOMAIN paths' \subseteq Stations
    BY <1>2, <1>7 DEF Inv, RouterInv
  <1>9. ASSUME NEW d \in DOMAIN paths' PROVE GoodPath(d)'
    <2>1. CASE d = f.dadr
      <3>1. paths'[d] = [egress |-> f.net, dest |-> f.from, left |-> TTL]
        BY <1>7, <2>1
      <3>2. TTL \in -1..TTL /\ f.net \in Networks
        BY <1>1, RouterAssumption, ReceivedDatagram
      <3>3. QED
        BY <1>1, <1>2, <2>1, <3>1, <3>2 DEF GoodPath
    <2>2. CASE d # f.dadr
      <3>1. d \in DOMAIN paths /\ paths'[d] = paths[d]
        BY <1>7, <2>2
      <3>2. QED
        BY <3>1 DEF Inv, RouterInv, GoodPath
    <2>3. QED
      BY <2>1, <2>2
  <1>10. QED
    BY <1>6, <1>8, <1>9 DEF RouterInv, Good, GoodHeader, GoodEnds

\* A reply crosses to the network the return path names.
LEMMA ForwardReturnPathInv == ASSUME Inv, NEW f \in wire, ForwardReturnPath(f) PROVE RouterInv'
  <1> DEFINE path == paths[f.from]
             sent == Unicast(path.egress, Router, path.dest, From(f.net, f.from), f.body)
  <1>1. Received(f) /\ f.from \in DOMAIN paths
    BY DEF ForwardReturnPath, IsReply
  <1>2. path.egress \in Networks /\ path.dest \in Stations /\ HomeOf[path.dest] = path.egress
    BY <1>1 DEF Inv, RouterInv, GoodPath
  <1>3. From(f.net, f.from) \in Header /\ GoodHeader(From(f.net, f.from), f.body)
    BY <1>1, ReceivedDatagram, GoodFrom
  <1>4. path.dest \in Endpoints /\ GoodEnds(path.egress, Router, path.dest, f.body)
    BY <1>2, RouterFrom DEF Endpoints, GoodEnds
  <1>5. \A g \in sent : Good(g)
    BY <1>1, <1>2, <1>3, <1>4, ReceivedDatagram, RouterFrom, GoodUnicast
  <1>6. PICK rest \in Rest(f) : wire' = rest \cup sent
    BY DEF ForwardReturnPath, ReturnHeader
  <1> HIDE DEF path, sent
  <1>7. \A g \in wire' : Good(g)
    BY <1>5, <1>6, RestSubset DEF Inv, RouterInv
  <1>8. QED
    BY <1>7, UnchangedPaths DEF ForwardReturnPath, RouterInv, Good, GoodHeader, GoodEnds

LEMMA HandleNetworkMessageInv == ASSUME Inv, NEW f \in wire, HandleNetworkMessage(f) PROVE RouterInv'
  <1> DEFINE answer == [kind |-> "iAmRouter", network |-> Other(f.net)]
             sent == Unicast(f.net, Router, f.from, Local, answer) \cup Broadcast(f.net, Router, Local, answer)
  <1>1. Received(f)
    BY DEF HandleNetworkMessage
  <1>2. f.net \in Networks /\ f.from \in Stations /\ HomeOf[f.from] = f.net
    BY <1>1, ReceivedDatagram
  <1>3. answer \in Bodies \cup NetworkMessages /\ answer.kind # "reply"
    BY <1>2, OtherNetwork, NetworkMessageKinds
  <1>4. PICK rest \in Rest(f) : wire' \subseteq rest \cup sent
    BY DEF HandleNetworkMessage
  <1>5. f.from \in Endpoints /\ GoodEnds(f.net, Router, f.from, answer)
    BY <1>2, RouterFrom DEF Endpoints, GoodEnds
  <1> HIDE DEF answer
  <1>6. \A g \in sent : Good(g)
    BY <1>2, <1>3, <1>5, RouterFrom, GoodLocal, GoodUnicast, GoodBroadcast
  <1> HIDE DEF sent
  <1>7. \A g \in wire' : Good(g)
    BY <1>4, <1>6, RestSubset DEF Inv, RouterInv
  <1>8. QED
    BY <1>7, UnchangedPaths DEF HandleNetworkMessage, RouterInv, Good, GoodHeader, GoodEnds

LEMMA DropInv == ASSUME Inv, NEW f \in wire, DropDnet(f) \/ DropReply(f) PROVE RouterInv'
  <1>1. wire' \subseteq wire
    BY RestSubset DEF DropDnet, DropReply
  <1>2. DOMAIN paths' \subseteq DOMAIN paths /\ \A d \in DOMAIN paths' : paths'[d] = paths[d]
    BY DEF DropDnet, DropReply
  <1>3. QED
    BY <1>1, <1>2 DEF Inv, RouterInv, GoodPath, Good, GoodHeader, GoodEnds

LEMMA AnnounceInv == ASSUME Inv, Announce PROVE RouterInv' /\ announced' \in 0..2
  <1> DEFINE answer(n) == [kind |-> "iAmRouter", network |-> Other(n)]
  <1>1. ASSUME NEW n \in Networks PROVE \A g \in Broadcast(n, Router, Local, answer(n)) : Good(g)
    <2>1. answer(n) \in Bodies \cup NetworkMessages /\ answer(n).kind # "reply"
      BY OtherNetwork, NetworkMessageKinds
    <2> HIDE DEF answer
    <2>2. QED
      BY <2>1, RouterFrom, GoodLocal, GoodBroadcast
  <1>2. \A g \in wire' : g \in wire \/ \E n \in Networks : g \in Broadcast(n, Router, Local, answer(n))
    BY DEF Announce
  <1> HIDE DEF answer
  <1>3. \A g \in wire' : Good(g)
    BY <1>1, <1>2 DEF Inv, RouterInv
  <1>4. announced' \in 0..2
    BY DEF Announce, Inv
  <1>5. QED
    BY <1>3, <1>4, UnchangedPaths DEF Announce, RouterInv, Good, GoodHeader, GoodEnds

LEMMA ElapseInv == ASSUME Inv, Elapse PROVE RouterInv'
  <1>1. DOMAIN paths' = DOMAIN paths /\ wire' = wire
    BY DEF Elapse
  <1>2. ASSUME NEW d \in DOMAIN paths PROVE GoodPath(d)'
    <2>1. paths[d] \in [egress : Networks, dest : Stations, left : -1..TTL]
          /\ paths[d].egress # HomeOf[d] /\ HomeOf[paths[d].dest] = paths[d].egress
      BY DEF Inv, RouterInv, GoodPath
    <2>2. (IF paths[d].left >= 0 THEN paths[d].left - 1 ELSE paths[d].left) \in -1..TTL
      BY <2>1, RouterAssumption
    <2>3. paths'[d] = [paths[d] EXCEPT !.left = IF paths[d].left >= 0 THEN paths[d].left - 1 ELSE paths[d].left]
      BY DEF Elapse
    <2>4. QED
      BY <2>1, <2>2, <2>3 DEF GoodPath
  <1>3. QED
    BY <1>1, <1>2 DEF Inv, RouterInv, Good, GoodHeader, GoodEnds

-----------------------------------------------------------------------------
(* The stations' steps *)

LEMMA StationDatagram ==
    ASSUME Inv, NEW f \in wire, f.to \in Stations
    PROVE  /\ f.net \in Networks /\ HomeOf[f.to] = f.net
           /\ f.from \in Endpoints /\ f.from # f.to /\ (f.from # Router => HomeOf[f.from] = f.net)
           /\ f.snet \in Networks \cup {None} /\ f.sadr \in Stations \cup {None}
           /\ (f.snet = None <=> f.sadr = None) /\ (f.sadr # None => f.snet = HomeOf[f.sadr])
           /\ f.body \in Bodies \cup NetworkMessages
           /\ f.body.kind = "reply" /\ f.sadr # None => f.sadr = f.body.by
  BY RouterFrom DEF Inv, RouterInv, Good, GoodHeader, GoodEnds, Datagram

LEMMA RequestBodies ==
    ASSUME NEW r \in Requests
    PROVE  /\ Request(r) \in Bodies /\ Request(r).kind # "reply"
           /\ \A d \in Devices : ReplyTo(r, d) \in Bodies /\ ReplyTo(r, d).kind = "reply" /\ ReplyTo(r, d).by = d
  BY NetworkAssumption DEF Request, ReplyTo

LEMMA ClientStations == \A r \in Requests : ClientOf[r] \in Clients /\ TargetOf[r] \in Stations
  BY NetworkAssumption DEF Clients

LEMMA AskForRouterInv ==
    ASSUME Inv, NEW c \in Clients, NEW want \in Networks \cup {None}, AskForRouter(c, want)
    PROVE  RouterInv'
  <1> DEFINE body == [kind |-> "whoIsRouter", want |-> want]
             sent == Broadcast(HomeOf[c], c, Local, body)
  <1>1. body \in Bodies \cup NetworkMessages /\ body.kind # "reply"
    BY NetworkMessageKinds
  <1>2. c \in Stations /\ c \in Endpoints /\ HomeOf[c] \in Networks
    BY RouterAssumption DEF Clients, Endpoints
  <1> HIDE DEF body
  <1>3. \A g \in sent : Good(g)
    BY <1>1, <1>2, GoodLocal, GoodBroadcast
  <1>4. wire' = wire \cup sent
    BY DEF AskForRouter, body
  <1> HIDE DEF sent
  <1>5. \A g \in wire' : Good(g)
    BY <1>3, <1>4 DEF Inv, RouterInv
  <1>6. QED
    BY <1>5, UnchangedPaths DEF AskForRouter, RouterInv, Good, GoodHeader, GoodEnds

LEMMA SendInv ==
    ASSUME Inv, NEW r \in Requests, NEW way \in Ways[r], NEW hop \in 1..MaxHop, Send(r, way, hop)
    PROVE  RouterInv'
  <1> DEFINE c == ClientOf[r]  net == HomeOf[c]  far == HomeOf[TargetOf[r]]
  <1>1. c \in Stations /\ c \in Endpoints /\ net \in Networks /\ TargetOf[r] \in Stations /\ c # Router
    BY RouterAssumption, ClientStations DEF Clients, Endpoints
  <1>2. Request(r) \in Bodies \cup NetworkMessages /\ Request(r).kind # "reply"
    BY RequestBodies
  <1>3. GoodEnds(net, c, Router, Request(r))
    BY <1>1, <1>2 DEF GoodEnds
  <1>4. \A g \in Unicast(net, c, Router, Toward(far, TargetOf[r], hop), Request(r)) : Good(g)
    BY <1>1, <1>2, <1>3, RouterFrom, GoodToward, GoodUnicast
  <1>5. \A g \in Unicast(net, c, Router, Toward(far, None, hop), Request(r)) : Good(g)
    BY <1>1, <1>2, <1>3, RouterFrom, GoodToward, GoodUnicast
  <1>6. \A g \in Broadcast(net, c, Toward(Global, None, hop), Request(r)) : Good(g)
    BY <1>1, <1>2, GoodToward, GoodBroadcast
  <1>7. \A g \in Broadcast(net, c, Local, Request(r)) : Good(g)
    BY <1>1, <1>2, GoodLocal, GoodBroadcast
  <1>8. way \in {"unicast", "remote", "global", "local"}
    BY NetworkAssumption
  <1>9. \A g \in wire' : Good(g)
    <2>1. CASE way = "unicast"
      BY <1>4, <2>1 DEF Send, Inv, RouterInv
    <2>2. CASE way = "remote"
      BY <1>5, <2>2 DEF Send, Inv, RouterInv
    <2>3. CASE way = "global"
      BY <1>6, <2>3 DEF Send, Inv, RouterInv
    <2>4. CASE way = "local"
      BY <1>7, <2>4 DEF Send, Inv, RouterInv
    <2>5. QED
      BY <1>8, <2>1, <2>2, <2>3, <2>4
  <1>10. QED
    BY <1>9, UnchangedPaths DEF Send, RouterInv, Good, GoodHeader, GoodEnds

LEMMA DeviceReceivesInv == ASSUME Inv, NEW f \in wire, DeviceReceives(f) PROVE RouterInv'
  <1> DEFINE d == f.to  body == ReplyTo(f.body.id, d)
  <1>1. d \in Devices /\ d \in Stations /\ d \in Endpoints /\ d # Router
    BY RouterAssumption, NetworkAssumption DEF DeviceReceives, Endpoints
  <1>2. f.body.id \in Requests
    <2>1. f.body \in Bodies \cup NetworkMessages /\ f.body.kind = "request"
      BY <1>1, StationDatagram DEF DeviceReceives
    <2>2. QED
      BY <2>1, NetworkAssumption DEF NetworkMessages, WhoIsRouter, IAmRouter
  <1>3. body \in Bodies \cup NetworkMessages /\ body.kind = "reply" /\ body.by = d
    BY <1>1, <1>2, RequestBodies
  <1> HIDE DEF body
  <1>4. f.net \in Networks /\ HomeOf[d] = f.net /\ f.from \in Endpoints /\ GoodEnds(f.net, d, f.from, body)
    BY <1>1, <1>3, StationDatagram DEF GoodEnds
  <1>5. \A g \in Broadcast(f.net, d, Local, body) : Good(g)
    BY <1>1, <1>3, <1>4, GoodLocal, GoodBroadcast
  <1>6. \A g \in Unicast(f.net, d, f.from, Local, body) : Good(g)
    BY <1>1, <1>3, <1>4, GoodLocal, GoodUnicast
  <1>7. ASSUME f.snet # None PROVE \A g \in Unicast(f.net, d, f.from, Toward(f.snet, f.sadr, MaxHop), body) : Good(g)
    <2>1. f.sadr \in Stations /\ f.snet = HomeOf[f.sadr] /\ MaxHop \in 1..MaxHop
      BY <1>1, <1>7, StationDatagram, RouterAssumption
    <2>2. QED
      BY <1>1, <1>3, <1>4, <2>1, GoodToward, GoodUnicast
  <1>8. \A g \in Replies(d, f) : Good(g)
    BY <1>5, <1>6, <1>7 DEF Replies, body
  <1>9. PICK rest \in Rest(f) : wire' = rest \cup Replies(d, f)
    BY DEF DeviceReceives
  <1>10. \A g \in wire' : Good(g)
    BY <1>8, <1>9, RestSubset DEF Inv, RouterInv
  <1>11. QED
    BY <1>10, UnchangedPaths DEF DeviceReceives, RouterInv, Good, GoodHeader, GoodEnds

LEMMA ReceivesOnlyInv ==
    ASSUME Inv, NEW f \in wire, ClientReceives(f) \/ ClientLearns(f) \/ StationIgnores(f) \/ Lose(f)
    PROVE  RouterInv'
  <1>1. wire' \subseteq wire /\ UNCHANGED paths
    BY RestSubset DEF ClientReceives, ClientLearns, StationIgnores, Lose
  <1>2. QED
    BY <1>1, UnchangedPaths DEF Inv, RouterInv, Good, GoodHeader, GoodEnds

\* The reply a client accepts names the device that wrote it, or no source.
LEMMA AnswersInv ==
    ASSUME Inv, NEW f \in wire, ClientReceives(f)
    PROVE  got' \subseteq Answers /\ SourceIsTheDevice'
  <1> DEFINE g == [client |-> f.to, id |-> f.body.id, by |-> f.body.by, net |-> f.snet, station |-> f.sadr]
  <1>1. f.to \in Clients /\ f.to \in Stations /\ f.body.kind = "reply"
    BY DEF ClientReceives, Clients
  <1>2. f.body.id \in Requests /\ f.body.by \in Devices
    <2>1. f.body \in Bodies
      BY <1>1, StationDatagram, NetworkMessageKinds
    <2>2. QED
      BY <1>1, <2>1, NetworkAssumption
  <1>3. g \in Answers /\ (g.station # None => g.station = g.by /\ g.net = HomeOf[g.by])
    BY <1>1, <1>2, StationDatagram DEF Answers
  <1>4. got' = got \cup {g}
    BY DEF ClientReceives
  <1> HIDE DEF g
  <1>5. QED
    BY <1>3, <1>4 DEF Inv, SourceIsTheDevice

-----------------------------------------------------------------------------
LEMMA InitInv == Init => Inv
  BY DEF Init, RouterInit, Inv, RouterInv, SourceIsTheDevice

LEMMA NextInv == Inv /\ [Next]_vars => Inv'
  <1> SUFFICES ASSUME Inv, [Next]_vars PROVE Inv'
    OBVIOUS
  <1>1. CASE RouterStep
    <2>1. UNCHANGED <<route, got>>
      BY <1>1 DEF RouterStep
    <2>2. RouterInv' /\ announced' \in 0..2
      <3>1. CASE Announce
        BY <3>1, AnnounceInv
      <3>2. CASE Elapse
        BY <3>2, ElapseInv DEF Elapse, Inv
      <3>3. ASSUME NEW f \in wire, Handle(f) PROVE RouterInv' /\ UNCHANGED announced
        <4>1. UNCHANGED announced
          BY <3>3 DEF Handle, ForwardGlobal, ForwardRemoteBroadcast, ForwardUnicast, DropDnet,
                      ForwardLocalBroadcast, ForwardReturnPath, DropReply, HandleNetworkMessage
        <4>2. QED
          BY <3>3, <4>1, ForwardGlobalInv, ForwardRemoteBroadcastInv, ForwardUnicastInv, DropInv,
             ForwardLocalBroadcastInv, ForwardReturnPathInv, HandleNetworkMessageInv DEF Handle
      <3>4. QED
        BY <1>1, <3>1, <3>2, <3>3 DEF RouterStep, RouterNext, Inv
    <2>3. QED
      BY <2>1, <2>2 DEF Inv, SourceIsTheDevice
  <1>2. ASSUME NEW c \in Clients, NEW want \in Networks \cup {None}, AskForRouter(c, want) PROVE Inv'
    BY <1>2, AskForRouterInv DEF AskForRouter, Inv, SourceIsTheDevice
  <1>3. ASSUME NEW r \in Requests, NEW hop \in 1..MaxHop, NEW way \in Ways[r], Send(r, way, hop) PROVE Inv'
    BY <1>3, SendInv DEF Send, Inv, SourceIsTheDevice
  <1>4. ASSUME NEW f \in wire, DeviceReceives(f) PROVE Inv'
    BY <1>4, DeviceReceivesInv DEF DeviceReceives, Inv, SourceIsTheDevice
  <1>5. ASSUME NEW f \in wire, ClientReceives(f) PROVE Inv'
    BY <1>5, ReceivesOnlyInv, AnswersInv DEF ClientReceives, Inv
  <1>6. ASSUME NEW f \in wire, ClientLearns(f) PROVE Inv'
    BY <1>6, ReceivesOnlyInv DEF ClientLearns, Inv, SourceIsTheDevice
  <1>7. ASSUME NEW f \in wire, StationIgnores(f) \/ Lose(f) PROVE Inv'
    BY <1>7, ReceivesOnlyInv DEF StationIgnores, Lose, Inv, SourceIsTheDevice
  <1>8. CASE UNCHANGED vars
    BY <1>8, UnchangedPaths DEF vars, routerVars, Inv, RouterInv, SourceIsTheDevice, Good, GoodHeader, GoodEnds
  <1>9. QED
    BY <1>1, <1>2, <1>3, <1>4, <1>5, <1>6, <1>7, <1>8 DEF Next

LEMMA Invariance == Spec => []Inv
  BY InitInv, NextInv, PTL DEF Spec

\* The table, the wire and what clients hold are well-formed for any number of
\* stations and requests.
THEOREM TypeCorrect == Spec => []TypeOK
  BY InvImplies, Invariance, PTL

\* However many clients and devices share the router, and on whichever side they
\* are, every datagram is on the network its receiver is on and every return path
\* leads from a device to a station of the other network.
THEOREM AlwaysDeliverable == Spec => []Deliverable
  BY InvImplies, Invariance, PTL

\* A reply that names a source names its author: the router's source specifiers
\* never mix up two devices.
THEOREM SourcesAreTrue == Spec => []SourceIsTheDevice
  BY InvImplies, Invariance, PTL

-----------------------------------------------------------------------------
(* Replies reach the client that asked *)

\* The deployments the README speaks of: a device that answers through its return
\* path is asked by one client.
OneClientPerDevice ==
    \A q, r \in Requests :
        Ways[r] = {"unicast"} /\ "unicast" \in Ways[q] /\ TargetOf[q] = TargetOf[r]
            => ClientOf[q] = ClientOf[r]

IsRequest(f) == f.body.kind = "request"
IsAnswer(f) == f.body.kind = "reply"

\* A unicast request on its way to the router, and from it to the device.
Asking(f, r) ==
    /\ f.fn = "unicast" /\ f.snet = None
    /\ \/ f.from = ClientOf[r] /\ f.to = Router /\ f.dadr = TargetOf[r]
       \/ f.from = Router /\ f.to = TargetOf[r] /\ f.dnet = None

\* Its reply on its way to the router, and from it to the client.
Answering(f, r) ==
    /\ f.fn = "unicast"
    /\ \/ f.from = TargetOf[r] /\ f.to = Router /\ f.dnet = None
       \/ f.from = Router /\ f.to = ClientOf[r]

\* Only a unicast request is addressed to a device through the router, and no
\* device asks.
Straight(f) ==
    /\ IsRequest(f) /\ Ways[f.body.id] = {"unicast"} => Asking(f, f.body.id)
    /\ IsAnswer(f) /\ Ways[f.body.id] = {"unicast"} => Answering(f, f.body.id)
    /\ IsRequest(f) => f.sadr \notin Devices /\ f.from \notin Devices
    /\ f.dadr \in Devices =>
         IsRequest(f) /\ "unicast" \in Ways[f.body.id] /\ f.from = ClientOf[f.body.id] /\ f.dadr = TargetOf[f.body.id]

\* The path of a device leads to a client that asks it by unicast.
PathToClient(d) ==
    d \in Devices => \E q \in Requests : "unicast" \in Ways[q] /\ TargetOf[q] = d /\ paths[d].dest = ClientOf[q]

StraightInv ==
    /\ \A f \in wire : Straight(f)
    /\ \A d \in DOMAIN paths : PathToClient(d)
    /\ RepliesReachTheirClient

LEMMA UnicastFields ==
    ASSUME NEW net, NEW from, NEW to, NEW h, NEW body, NEW g \in Unicast(net, from, to, h, body)
    PROVE  /\ g.from = from /\ g.to = to /\ g.fn = "unicast" /\ g.body = body
           /\ g.dnet = h.dnet /\ g.dadr = h.dadr /\ g.snet = h.snet /\ g.sadr = h.sadr
  BY DEF Unicast

LEMMA BroadcastFields ==
    ASSUME NEW net, NEW from, NEW h, NEW body, NEW g \in Broadcast(net, from, h, body)
    PROVE  /\ g.from = from /\ g.fn = "broadcast" /\ g.body = body
           /\ g.dnet = h.dnet /\ g.dadr = h.dadr /\ g.snet = h.snet /\ g.sadr = h.sadr
  BY DEF Broadcast

\* The endpoints that are no devices.
LEMMA NoDevices == Router \notin Devices /\ None \notin Devices /\ \A c \in Clients : c \notin Devices
  BY RouterAssumption, NetworkAssumption DEF Clients

\* A request's identity is one of Requests; network messages are no requests.
LEMMA AskedBodies ==
    /\ \A b \in Bodies \cup NetworkMessages : b.kind \in {"request", "reply"} => b \in Bodies /\ b.id \in Requests
    /\ \A b \in NetworkMessages : b.kind \notin {"request", "reply"}
  <1>1. \A b \in NetworkMessages : b.kind \in {"whoIsRouter", "iAmRouter"}
    BY DEF NetworkMessages, WhoIsRouter, IAmRouter
  <1>2. \A b \in Bodies : b.id \in Requests
    BY NetworkAssumption
  <1>3. QED
    BY <1>1, <1>2

\* Network messages are straight: they ask nothing and cross no router.
LEMMA NetworkMessageStraight ==
    ASSUME NEW g, g.body \in NetworkMessages, g.dadr = None
    PROVE  Straight(g)
  BY AskedBodies, NoDevices DEF Straight, IsRequest, IsAnswer

\* What the router holds when a unicast request or its reply reaches it.
LEMMA RouterHolds ==
    ASSUME Inv, StraightInv, NEW f \in wire, Received(f), IsApplication(f), Ways[f.body.id] = {"unicast"}
    PROVE  /\ IsRequest(f) =>
                f.fn = "unicast" /\ f.from = ClientOf[f.body.id] /\ f.dadr = TargetOf[f.body.id]
                /\ f.dnet \in Networks /\ f.dadr # None
           /\ IsAnswer(f) => f.fn = "unicast" /\ f.from = TargetOf[f.body.id] /\ f.dnet = None
  <1>1. f.from \in Stations /\ f.from # Router /\ f.body.id \in Requests
    BY ReceivedDatagram, RouterFrom, NetworkAssumption DEF IsApplication
  <1>2. Straight(f)
    BY DEF StraightInv
  <1>3. TargetOf[f.body.id] \in Stations /\ TargetOf[f.body.id] # None /\ HomeOf[TargetOf[f.body.id]] \in Networks
    BY <1>1, ClientStations, RouterAssumption
  <1>4. ASSUME IsRequest(f)
        PROVE  f.fn = "unicast" /\ f.from = ClientOf[f.body.id] /\ f.dadr = TargetOf[f.body.id]
    BY <1>1, <1>2, <1>4 DEF Straight, Asking
  <1>5. ASSUME IsAnswer(f) PROVE f.fn = "unicast" /\ f.from = TargetOf[f.body.id] /\ f.dnet = None
    BY <1>1, <1>2, <1>5 DEF Straight, Answering
  <1>6. IsRequest(f) => f.dnet \in Networks /\ f.dadr # None
    BY <1>3, <1>4, ReceivedDatagram
  <1>7. QED
    BY <1>4, <1>5, <1>6

\* A station's datagram that the router sends on under the sender's name, without
\* a destination: the three broadcasts.
LEMMA BroadcastStraight ==
    ASSUME Inv, StraightInv, NEW f \in wire, Received(f), IsApplication(f),
           Ways[f.body.id] # {"unicast"} \/ ~(IsRequest(f) \/ IsAnswer(f)),
           NEW g, g.body = f.body, g.from = Router, g.sadr = f.from, g.dadr = None
    PROVE  Straight(g)
  <1>1. IsRequest(f) => f.from \notin Devices
    BY DEF StraightInv, Straight
  <1>2. QED
    BY <1>1, NoDevices DEF Straight, IsRequest, IsAnswer

LEMMA ForwardBroadcastStraight ==
    ASSUME Inv, StraightInv, NEW f \in wire,
           ForwardGlobal(f) \/ ForwardRemoteBroadcast(f) \/ ForwardLocalBroadcast(f)
    PROVE  \A g \in wire' : Straight(g)
  <1>1. Received(f) /\ IsApplication(f)
    BY DEF ForwardGlobal, ForwardRemoteBroadcast, ForwardLocalBroadcast, MayCross
  <1>2. Ways[f.body.id] # {"unicast"} \/ ~(IsRequest(f) \/ IsAnswer(f))
    <2>1. Global \notin Networks /\ None \notin Networks
      BY RouterAssumption
    <2>2. CASE ForwardGlobal(f)
      BY <1>1, <2>1, <2>2, RouterHolds DEF ForwardGlobal, MayCross
    <2>3. CASE ForwardRemoteBroadcast(f)
      BY <1>1, <2>1, <2>3, RouterHolds DEF ForwardRemoteBroadcast, MayCross
    <2>4. CASE ForwardLocalBroadcast(f)
      BY <1>1, <2>1, <2>4, RouterHolds DEF ForwardLocalBroadcast
    <2>5. QED
      BY <2>2, <2>3, <2>4
  <1>3. \A g \in wire' : g \in wire \/ (g.body = f.body /\ g.from = Router /\ g.sadr = f.from /\ g.dadr = None)
    <2>1. CASE ForwardGlobal(f)
      <3>1. PICK rest \in Rest(f) :
              wire' = rest \cup Broadcast(Other(f.net), Router, GlobalFrom(f.net, f.from, f.hop - 1), f.body)
        BY <2>1 DEF ForwardGlobal
      <3>2. QED
        BY <3>1, RestSubset, BroadcastFields DEF GlobalFrom
    <2>2. CASE ForwardRemoteBroadcast(f)
      <3>1. PICK rest \in Rest(f) : wire' = rest \cup Broadcast(f.dnet, Router, From(f.net, f.from), f.body)
        BY <2>2 DEF ForwardRemoteBroadcast
      <3>2. QED
        BY <3>1, RestSubset, BroadcastFields DEF From
    <2>3. CASE ForwardLocalBroadcast(f)
      <3>1. PICK rest \in Rest(f) : wire' = rest \cup Broadcast(Other(f.net), Router, From(f.net, f.from), f.body)
        BY <2>3 DEF ForwardLocalBroadcast
      <3>2. QED
        BY <3>1, RestSubset, BroadcastFields DEF From
    <2>4. QED
      BY <2>1, <2>2, <2>3
  <1>4. QED
    BY <1>1, <1>2, <1>3, BroadcastStraight DEF StraightInv

\* The request the router delivers; what it remembers is who asked the device.
LEMMA ForwardUnicastStraight ==
    ASSUME Inv, StraightInv, NEW f \in wire, ForwardUnicast(f)
    PROVE  (\A g \in wire' : Straight(g)) /\ (\A d \in DOMAIN paths' : PathToClient(d)')
  <1>1. Received(f) /\ IsApplication(f) /\ f.dnet # None /\ f.dadr # None
    BY DEF ForwardUnicast, MayCross
  <1>2. Straight(f)
    BY DEF StraightInv
  <1>3. PICK rest \in Rest(f) : wire' = rest \cup Unicast(f.dnet, Router, f.dadr, Local, f.body)
    BY DEF ForwardUnicast
  <1>4. ASSUME NEW g \in Unicast(f.dnet, Router, f.dadr, Local, f.body) PROVE Straight(g)
    <2>1. g.from = Router /\ g.to = f.dadr /\ g.fn = "unicast" /\ g.body = f.body
          /\ g.dnet = None /\ g.dadr = None /\ g.snet = None /\ g.sadr = None
      BY <1>4, UnicastFields DEF Local
    <2>2. IsAnswer(f) => Ways[f.body.id] # {"unicast"}
      BY <1>1, RouterHolds
    <2>3. IsRequest(f) /\ Ways[f.body.id] = {"unicast"} => f.dadr = TargetOf[f.body.id]
      BY <1>1, RouterHolds
    <2>4. QED
      BY <2>1, <2>2, <2>3, NoDevices DEF Straight, IsRequest, IsAnswer, Asking
  <1>5. \A g \in wire' : Straight(g)
    BY <1>3, <1>4, RestSubset DEF StraightInv
  <1>6. paths' = [d \in DOMAIN paths \cup {f.dadr} |->
                    IF d = f.dadr THEN [egress |-> f.net, dest |-> f.from, left |-> TTL] ELSE paths[d]]
    BY DEF ForwardUnicast, Remembered
  <1>7. ASSUME NEW d \in DOMAIN paths' PROVE PathToClient(d)'
    <2>1. CASE d = f.dadr
      <3>1. paths'[d].dest = f.from
        BY <1>6, <2>1
      <3>2. ASSUME d \in Devices
            PROVE  \E q \in Requests : "unicast" \in Ways[q] /\ TargetOf[q] = d /\ f.from = ClientOf[q]
        <4>1. f.body.id \in Requests
          BY <1>1, AskedBodies, NetworkAssumption DEF IsApplication
        <4>2. QED
          BY <1>2, <2>1, <3>2, <4>1 DEF Straight
      <3>3. QED
        BY <3>1, <3>2 DEF PathToClient
    <2>2. CASE d # f.dadr
      BY <1>6, <2>2 DEF StraightInv, PathToClient
    <2>3. QED
      BY <2>1, <2>2
  <1>8. QED
    BY <1>5, <1>7

\* A device's reply goes where its path leads: to the client that asked.
LEMMA ForwardReturnPathStraight ==
    ASSUME OneClientPerDevice, Inv, StraightInv, NEW f \in wire, ForwardReturnPath(f)
    PROVE  \A g \in wire' : Straight(g)
  <1>1. Received(f) /\ IsApplication(f) /\ f.dnet = None /\ f.from \in DOMAIN paths
    BY DEF ForwardReturnPath, IsReply
  <1>2. Straight(f)
    BY DEF StraightInv
  <1> DEFINE sent == Unicast(paths[f.from].egress, Router, paths[f.from].dest, From(f.net, f.from), f.body)
  <1>3. PICK rest \in Rest(f) : wire' = rest \cup sent
    BY DEF ForwardReturnPath, ReturnHeader
  <1>4. ASSUME NEW g \in sent PROVE Straight(g)
    <2>1. g.from = Router /\ g.to = paths[f.from].dest /\ g.fn = "unicast" /\ g.body = f.body
          /\ g.dadr = None /\ g.sadr = f.from
      BY <1>4, UnicastFields DEF From, Local
    <2>2. ~(IsRequest(f) /\ Ways[f.body.id] = {"unicast"})
      <3>1. None \notin Networks
        BY RouterAssumption
      <3>2. QED
        BY <1>1, <3>1, RouterHolds
    <2>3. ASSUME IsAnswer(f), Ways[f.body.id] = {"unicast"} PROVE paths[f.from].dest = ClientOf[f.body.id]
      <3>1. f.body.id \in Requests /\ f.from = TargetOf[f.body.id] /\ f.from \in Devices
        BY <1>1, <2>3, RouterHolds, NetworkAssumption DEF IsApplication
      <3>2. PICK q \in Requests : "unicast" \in Ways[q] /\ TargetOf[q] = f.from /\ paths[f.from].dest = ClientOf[q]
        BY <1>1, <3>1 DEF StraightInv, PathToClient
      <3>3. QED
        BY <2>3, <3>1, <3>2 DEF OneClientPerDevice
    <2>4. IsRequest(f) => f.from \notin Devices
      BY <1>2 DEF Straight
    <2>5. QED
      BY <2>1, <2>2, <2>3, <2>4, NoDevices DEF Straight, IsRequest, IsAnswer, Answering
  <1> HIDE DEF sent
  <1>5. QED
    BY <1>3, <1>4, RestSubset DEF StraightInv

LEMMA RouterMessageStraight ==
    ASSUME Inv, StraightInv, Announce \/ \E f \in wire : HandleNetworkMessage(f)
    PROVE  \A g \in wire' : Straight(g)
  <1>1. CASE Announce
    <2>1. ASSUME NEW n \in Networks,
                 NEW g \in Broadcast(n, Router, Local, [kind |-> "iAmRouter", network |-> Other(n)])
          PROVE  Straight(g)
      <3>1. g.body \in NetworkMessages /\ g.dadr = None
        BY <2>1, BroadcastFields, OtherNetwork, NetworkMessageKinds DEF Local
      <3>2. QED
        BY <3>1, NetworkMessageStraight
    <2>2. QED
      BY <1>1, <2>1 DEF Announce, StraightInv
  <1>2. ASSUME NEW f \in wire, HandleNetworkMessage(f) PROVE \A g \in wire' : Straight(g)
    <2> DEFINE answer == [kind |-> "iAmRouter", network |-> Other(f.net)]
               sent == Unicast(f.net, Router, f.from, Local, answer) \cup Broadcast(f.net, Router, Local, answer)
    <2>1. f.net \in Networks
      BY <1>2, ReceivedDatagram DEF HandleNetworkMessage
    <2>2. answer \in NetworkMessages
      BY <2>1, OtherNetwork, NetworkMessageKinds
    <2>3. PICK rest \in Rest(f) : wire' \subseteq rest \cup sent
      BY <1>2 DEF HandleNetworkMessage
    <2> HIDE DEF answer
    <2>4. ASSUME NEW g \in sent PROVE Straight(g)
      <3>1. g.body = answer /\ g.dadr = None
        BY <2>4, UnicastFields, BroadcastFields DEF Local
      <3>2. QED
        BY <2>2, <3>1, NetworkMessageStraight
    <2> HIDE DEF sent
    <2>5. QED
      BY <2>3, <2>4, RestSubset DEF StraightInv
  <1>3. QED
    BY <1>1, <1>2

LEMMA SendStraight ==
    ASSUME Inv, StraightInv, NEW r \in Requests, NEW way \in Ways[r], NEW hop \in 1..MaxHop, Send(r, way, hop)
    PROVE  \A g \in wire' : Straight(g)
  <1> DEFINE c == ClientOf[r]  net == HomeOf[c]  far == HomeOf[TargetOf[r]]
  <1>1. ClientOf[r] \notin Devices /\ way \in {"unicast", "remote", "global", "local"}
    BY ClientStations, NoDevices, NetworkAssumption
  <1>2. Request(r).kind = "request" /\ Request(r).id = r
    BY DEF Request
  <1>3. ASSUME NEW g, g.body = Request(r), g.from = ClientOf[r], g.sadr = None, way # "unicast", g.dadr = None
        PROVE  Straight(g)
    <2>1. Ways[r] # {"unicast"}
      BY <1>3
    <2>2. QED
      BY <1>1, <1>2, <1>3, <2>1, NoDevices DEF Straight, IsRequest, IsAnswer
  <1>4. ASSUME NEW g \in Unicast(net, c, Router, Toward(far, TargetOf[r], hop), Request(r)), way = "unicast"
        PROVE  Straight(g)
    <2>1. g.body = Request(r) /\ g.from = ClientOf[r] /\ g.to = Router /\ g.sadr = None /\ g.snet = None
          /\ g.fn = "unicast" /\ g.dadr = TargetOf[r]
      BY <1>4, UnicastFields DEF Toward
    <2>2. "unicast" \in Ways[r]
      BY <1>4
    <2>3. QED
      BY <1>1, <1>2, <2>1, <2>2, NoDevices DEF Straight, IsRequest, IsAnswer, Asking
  <1>5. ASSUME NEW g \in Unicast(net, c, Router, Toward(far, None, hop), Request(r))
        PROVE  g.body = Request(r) /\ g.from = ClientOf[r] /\ g.sadr = None /\ g.dadr = None
    BY <1>5, UnicastFields DEF Toward
  <1>6. ASSUME NEW g \in Broadcast(net, c, Toward(Global, None, hop), Request(r))
        PROVE  g.body = Request(r) /\ g.from = ClientOf[r] /\ g.sadr = None /\ g.dadr = None
    BY <1>6, BroadcastFields DEF Toward
  <1>7. ASSUME NEW g \in Broadcast(net, c, Local, Request(r))
        PROVE  g.body = Request(r) /\ g.from = ClientOf[r] /\ g.sadr = None /\ g.dadr = None
    BY <1>7, BroadcastFields DEF Local
  <1>8. CASE way = "unicast"
    BY <1>4, <1>8 DEF Send, StraightInv
  <1>9. CASE way = "remote"
    BY <1>3, <1>5, <1>9 DEF Send, StraightInv
  <1>10. CASE way = "global"
    BY <1>3, <1>6, <1>10 DEF Send, StraightInv
  <1>11. CASE way = "local"
    BY <1>3, <1>7, <1>11 DEF Send, StraightInv
  <1>12. QED
    BY <1>1, <1>8, <1>9, <1>10, <1>11

LEMMA AskForRouterStraight ==
    ASSUME StraightInv, NEW c \in Clients, NEW want \in Networks \cup {None}, AskForRouter(c, want)
    PROVE  \A g \in wire' : Straight(g)
  <1>1. ASSUME NEW g \in Broadcast(HomeOf[c], c, Local, [kind |-> "whoIsRouter", want |-> want])
        PROVE  Straight(g)
    <2>1. g.body \in NetworkMessages /\ g.dadr = None
      BY <1>1, BroadcastFields, NetworkMessageKinds DEF Local
    <2>2. QED
      BY <2>1, NetworkMessageStraight
  <1>2. QED
    BY <1>1 DEF AskForRouter, StraightInv

\* A device that got a unicast request answers the router; one that routes its
\* reply back addresses a client.
LEMMA DeviceReceivesStraight ==
    ASSUME Inv, StraightInv, NEW f \in wire, DeviceReceives(f)
    PROVE  \A g \in wire' : Straight(g)
  <1> DEFINE d == f.to  body == ReplyTo(f.body.id, d)  r == f.body.id
  <1>1. d \in Devices /\ d # Router /\ IsRequest(f)
    BY NoDevices DEF DeviceReceives, IsRequest
  <1>2. Straight(f)
    BY DEF StraightInv
  <1>3. body.kind = "reply" /\ body.id = r
    BY DEF ReplyTo
  <1>4. f.sadr \notin Devices
    BY <1>1, <1>2 DEF Straight
  <1>5. ASSUME Ways[r] = {"unicast"}
        PROVE  f.fn = "unicast" /\ f.snet = None /\ f.from = Router /\ d = TargetOf[r]
    BY <1>1, <1>2, <1>5 DEF Straight, Asking
  <1>6. ASSUME NEW g \in Replies(d, f) PROVE Straight(g)
    <2>1. g.from = d /\ g.body = body /\ g.dadr \notin Devices
      BY <1>4, <1>6, UnicastFields, BroadcastFields, NoDevices DEF Replies, Toward, Local
    <2>2. ASSUME Ways[r] = {"unicast"} PROVE Answering(g, r)
      <3>1. f.fn = "unicast" /\ f.snet = None /\ f.from = Router /\ d = TargetOf[r]
        BY <1>5, <2>2
      <3>2. g \in Unicast(f.net, d, f.from, Local, body)
        BY <1>6, <3>1 DEF Replies
      <3>3. QED
        BY <3>1, <3>2, UnicastFields DEF Answering, Local
    <2> HIDE DEF body, d, r
    <2>3. QED
      BY <1>3, <2>1, <2>2 DEF Straight, IsRequest, IsAnswer
  <1>7. PICK rest \in Rest(f) : wire' = rest \cup Replies(d, f)
    BY DEF DeviceReceives
  <1>8. QED
    BY <1>6, <1>7, RestSubset DEF StraightInv

\* Receiving, dropping and losing put nothing on the wire.
LEMMA NothingSentStraight ==
    ASSUME StraightInv, NEW f \in wire,
           DropDnet(f) \/ DropReply(f) \/ ClientReceives(f) \/ ClientLearns(f) \/ StationIgnores(f) \/ Lose(f)
    PROVE  \A g \in wire' : Straight(g)
  <1>1. wire' \subseteq wire
    BY RestSubset DEF DropDnet, DropReply, ClientReceives, ClientLearns, StationIgnores, Lose
  <1>2. QED
    BY <1>1 DEF StraightInv

\* What a client gets for a unicast request is its own.
LEMMA ClientReceivesStraight ==
    ASSUME Inv, StraightInv, NEW f \in wire, ClientReceives(f)
    PROVE  RepliesReachTheirClient'
  <1> DEFINE h == [client |-> f.to, id |-> f.body.id, by |-> f.body.by, net |-> f.snet, station |-> f.sadr]
  <1>1. f.to # Router /\ IsAnswer(f)
    BY RouterFrom DEF ClientReceives, Clients, IsAnswer
  <1>2. Ways[f.body.id] = {"unicast"} => f.to = ClientOf[f.body.id]
    BY <1>1 DEF StraightInv, Straight, Answering
  <1>3. got' = got \cup {h} /\ h.client = f.to /\ h.id = f.body.id
    BY DEF ClientReceives
  <1> HIDE DEF h
  <1>4. QED
    BY <1>2, <1>3 DEF StraightInv, RepliesReachTheirClient

LEMMA SamePaths == ASSUME StraightInv, UNCHANGED paths PROVE \A d \in DOMAIN paths' : PathToClient(d)'
  BY DEF StraightInv, PathToClient

LEMMA SameGot == ASSUME StraightInv, UNCHANGED got PROVE RepliesReachTheirClient'
  BY DEF StraightInv, RepliesReachTheirClient

LEMMA StraightInit == Init => StraightInv
  BY DEF Init, RouterInit, StraightInv, RepliesReachTheirClient

LEMMA StraightNext == ASSUME OneClientPerDevice, Inv, StraightInv, [Next]_vars PROVE StraightInv'
  <1>1. CASE RouterStep
    <2>1. RepliesReachTheirClient'
      BY <1>1, SameGot DEF RouterStep
    <2>2. CASE Announce
      BY <2>1, <2>2, RouterMessageStraight, SamePaths DEF Announce, StraightInv
    <2>3. CASE Elapse
      <3>1. wire' = wire /\ DOMAIN paths' = DOMAIN paths
        BY <2>3 DEF Elapse
      <3>2. ASSUME NEW d \in DOMAIN paths PROVE PathToClient(d)'
        <4>1. paths'[d] = [paths[d] EXCEPT !.left = IF @ >= 0 THEN @ - 1 ELSE @]
          BY <2>3 DEF Elapse
        <4>2. paths[d] \in [egress : Networks, dest : Stations, left : -1..TTL]
          BY DEF Inv, RouterInv, GoodPath
        <4>3. paths'[d].dest = paths[d].dest
          BY <4>1, <4>2
        <4>4. QED
          BY <4>3 DEF StraightInv, PathToClient
      <3>3. QED
        BY <2>1, <3>1, <3>2 DEF StraightInv
    <2>4. ASSUME NEW f \in wire, Handle(f) PROVE StraightInv'
      <3>1. CASE ForwardGlobal(f) \/ ForwardRemoteBroadcast(f) \/ ForwardLocalBroadcast(f)
        <4>1. UNCHANGED paths
          BY <3>1 DEF ForwardGlobal, ForwardRemoteBroadcast, ForwardLocalBroadcast
        <4>2. QED
          BY <2>1, <3>1, <4>1, ForwardBroadcastStraight, SamePaths DEF StraightInv
      <3>2. CASE ForwardUnicast(f)
        BY <2>1, <3>2, ForwardUnicastStraight DEF StraightInv
      <3>3. CASE ForwardReturnPath(f)
        <4>1. UNCHANGED paths
          BY <3>3 DEF ForwardReturnPath
        <4>2. QED
          BY <2>1, <3>3, <4>1, ForwardReturnPathStraight, SamePaths DEF StraightInv
      <3>4. CASE HandleNetworkMessage(f)
        <4>1. UNCHANGED paths
          BY <3>4 DEF HandleNetworkMessage
        <4>2. QED
          BY <2>1, <3>4, <4>1, RouterMessageStraight, SamePaths DEF StraightInv
      <3>5. CASE DropDnet(f)
        <4>1. UNCHANGED paths
          BY <3>5 DEF DropDnet
        <4>2. QED
          BY <2>1, <3>5, <4>1, NothingSentStraight, SamePaths DEF StraightInv
      <3>6. CASE DropReply(f)
        <4>1. DOMAIN paths' \subseteq DOMAIN paths /\ \A d \in DOMAIN paths' : paths'[d] = paths[d]
          BY <3>6 DEF DropReply
        <4>2. \A d \in DOMAIN paths' : PathToClient(d)'
          BY <4>1 DEF StraightInv, PathToClient
        <4>3. QED
          BY <2>1, <3>6, <4>2, NothingSentStraight DEF StraightInv
      <3>7. QED
        BY <2>4, <3>1, <3>2, <3>3, <3>4, <3>5, <3>6 DEF Handle
    <2>5. QED
      BY <1>1, <2>2, <2>3, <2>4 DEF RouterStep, RouterNext
  <1>2. ASSUME NEW c \in Clients, NEW want \in Networks \cup {None}, AskForRouter(c, want) PROVE StraightInv'
    BY <1>2, AskForRouterStraight, SamePaths, SameGot DEF AskForRouter, StraightInv
  <1>3. ASSUME NEW r \in Requests, NEW hop \in 1..MaxHop, NEW way \in Ways[r], Send(r, way, hop) PROVE StraightInv'
    <2>1. UNCHANGED <<paths, got>>
      BY <1>3 DEF Send
    <2>2. QED
      BY <1>3, <2>1, SendStraight, SamePaths, SameGot DEF StraightInv
  <1>4. ASSUME NEW f \in wire, DeviceReceives(f) PROVE StraightInv'
    <2>1. UNCHANGED <<paths, got>>
      BY <1>4 DEF DeviceReceives
    <2>2. QED
      BY <1>4, <2>1, DeviceReceivesStraight, SamePaths, SameGot DEF StraightInv
  <1>5. ASSUME NEW f \in wire, ClientReceives(f) PROVE StraightInv'
    BY <1>5, NothingSentStraight, ClientReceivesStraight, SamePaths DEF ClientReceives, StraightInv
  <1>6. ASSUME NEW f \in wire, ClientLearns(f) \/ StationIgnores(f) \/ Lose(f) PROVE StraightInv'
    <2>1. UNCHANGED <<paths, got>>
      BY <1>6 DEF ClientLearns, StationIgnores, Lose
    <2>2. QED
      BY <1>6, <2>1, NothingSentStraight, SamePaths, SameGot DEF StraightInv
  <1>7. CASE UNCHANGED vars
    BY <1>7, SamePaths, SameGot DEF vars, routerVars, StraightInv
  <1>8. QED
    BY <1>1, <1>2, <1>3, <1>4, <1>5, <1>6, <1>7 DEF Next

\* Over loss, reordering, duplicates, retries and paths that run out, a client gets
\* the reply to a unicast request only if it asked, as long as no two clients ask one
\* device by unicast.
THEOREM RepliesComeBack ==
    ASSUME OneClientPerDevice
    PROVE  Spec => []RepliesReachTheirClient
  <1>1. Init => Inv /\ StraightInv
    BY InitInv, StraightInit
  <1>2. Inv /\ StraightInv /\ [Next]_vars => (Inv /\ StraightInv)'
    BY NextInv, StraightNext
  <1>3. StraightInv => RepliesReachTheirClient
    BY DEF StraightInv
  <1>4. QED
    BY <1>1, <1>2, <1>3, PTL DEF Spec
=============================================================================
