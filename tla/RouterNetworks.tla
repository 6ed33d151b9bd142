---------------------------- MODULE RouterNetworks ----------------------------
(***************************************************************************)
(* What the two router images share: the container is connected to its        *)
(* networks while it starts, one after the other, and each port of the          *)
(* configuration has to find the interface it is meant for.                       *)
(***************************************************************************)
EXTENDS Adapter

VARIABLES
    connected,  (* the networks, in the order the container got them            *)
    ports       (* the network each port of the configuration is on             *)

network == <<connected, ports>>

NetworkInit == connected = <<>> /\ ports = <<>>

Connected == {connected[k] : k \in DOMAIN connected}

\* The interfaces are numbered in the order of connection.
ByInterface == IF Len(connected) = 2 THEN connected ELSE <<>>

Connects(n) == n \notin Connected /\ connected' = Append(connected, n)
=============================================================================
