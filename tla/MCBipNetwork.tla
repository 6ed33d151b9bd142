--------------------------- MODULE MCBipNetwork ---------------------------
(* Small topologies of BipNetwork for TLC. *)
EXTENDS BipNetwork

CONSTANTS c1, c2, d1, d2, r1, r2

(* Clients on network 1 and devices on network 2. *)
Sides == [s \in Stations |-> IF s \in {c1, c2} THEN 1 ELSE 2]

TwoClients == [r \in Requests |-> IF r = r1 THEN c1 ELSE c2]
OneClient  == [r \in Requests |-> c1]
OwnDevices == [r \in Requests |-> IF r = r1 THEN d1 ELSE d2]
OneDevice  == [r \in Requests |-> d1]

AllUnicast == [r \in Requests |-> {"unicast"}]
AllGlobal  == [r \in Requests |-> {"global"}]
AnyWay     == [r \in Requests |-> IF r = r1 THEN {"unicast"}
                                  ELSE {"unicast", "remote", "global", "local"}]

AllDirect  == [d \in Devices |-> "direct"]
Mixed      == [d \in Devices |-> IF d = d1 THEN "broadcast" ELSE "reverse"]

AllBodies == [kind : {"request"}, id : Requests] \cup [kind : {"reply"}, id : Requests, by : Devices]
=============================================================================
