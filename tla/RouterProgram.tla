---------------------------- MODULE RouterProgram ----------------------------
(***************************************************************************)
(* The bip-router image from its entry point to its end: entrypoint.sh finds   *)
(* the addresses of the two ports, bip_router.py binds them, announces itself    *)
(* and serves until a signal closes both sockets under it.  What it forwards is    *)
(* in BipRouter.                                                                     *)
(***************************************************************************)
EXTENDS DeviceProcess, RouterNetworks

VARIABLES
    open,     (* the ports whose socket is open                               *)
    running   (* Router.running                                               *)

routerVars == <<open, running>>

IsBipRouter == adapter = "bip-router"

RouterInit == open = {} /\ running = TRUE

-----------------------------------------------------------------------------
(* entrypoint.sh *)

\* With both addresses given it does not wait for the networks; with one, it
\* takes neither.
Addresses == IF config.addressed THEN <<1, 2>> ELSE ByInterface

FindAddresses ==
    /\ phase = "loading" /\ Addresses # <<>>
    /\ ports' = Addresses /\ phase' = "building"
    /\ UNCHANGED <<shared, connected, handlers, routerVars>>

\* No second network within 30 s.
FindNone ==
    /\ phase = "loading" /\ Addresses = <<>>
    /\ phase' = "failed" /\ Exit(1)
    /\ UNCHANGED <<adapter, config, lines, served, network, handlers, routerVars>>

ConnectRouter(n) ==
    /\ phase \in {"loading", "building", "binding", "half"} /\ Connects(n)
    /\ UNCHANGED <<shared, ports, processVars, routerVars>>

-----------------------------------------------------------------------------
(* main *)

InstallRouterHandlers == Advances("building", "binding") /\ UNCHANGED <<network, routerVars>>

\* Router.start: an address the container does not have (yet) is an exception.
BindsPort(p, from, to) ==
    /\ phase = from
    /\ \/ ports[p] \in Connected /\ open' = open \cup {p} /\ phase' = to /\ UNCHANGED exit
       \/ phase' = "failed" /\ Exit(1) /\ UNCHANGED open
    /\ UNCHANGED <<adapter, config, lines, served, network, handlers, running>>

BindPorts == BindsPort(1, "binding", "half") \/ BindsPort(2, "half", "bound")

EmitRouterReady == Announces("bound", "announcing") /\ UNCHANGED <<network, routerVars>>

Quits(code) ==
    /\ phase' = "stopped" /\ Exit(code)
    /\ UNCHANGED <<adapter, config, lines, served, network, handlers, routerVars>>

BothOpen == open = {1, 2}

\* announce_routers twice, and the first step of serve: a socket that has been
\* closed meanwhile, or cannot send, is an exception.
AnnounceRouters ==
    \/ BothOpen /\ Advances("announcing", "serving") /\ UNCHANGED <<network, routerVars>>
    \/ phase = "announcing" /\ Quits(1)

\* The loop ends between two looks, or select finds the sockets closed under it.
Leave == phase = "serving" /\ ~running /\ (Quits(0) \/ (~BothOpen /\ Quits(1)))

\* Router.stop, as a signal handler between any two steps: what start binds
\* later stays open, and the ready event is still written.
StopRouter ==
    /\ phase \in {"binding", "half", "bound", "announcing", "serving"}
    /\ running' = FALSE /\ open' = {}
    /\ UNCHANGED <<shared, network, processVars>>

RouterMain ==
    FindAddresses \/ FindNone \/ InstallRouterHandlers \/ BindPorts \/ EmitRouterReady \/ AnnounceRouters \/ Leave

RouterNext ==
    /\ IsBipRouter
    /\ RouterMain \/ StopRouter \/ \E n \in {1, 2} : ConnectRouter(n)

bipRouterVars == <<shared, processVars, network, routerVars>>

RouterFairness == WF_bipRouterVars(IsBipRouter /\ RouterMain)
=============================================================================
