--------------------------- MODULE MCClientDriver ---------------------------
(* Short scenario files for TLC. *)
EXTENDS ClientDriver

Ask1(service, expect) == [service |-> service, expect |-> expect, process |-> 0]
Subscribe(service, expect, p) == [service |-> service, expect |-> expect, process |-> p]

Files == {
    <<Ask1("write", "ack"), Ask1("remove", "error"), Ask1("read", "error")>>,
    <<Ask1("multiple", "ack"), Ask1("list", "ack"), Ask1("read", "ack")>>,
    <<Ask1("pages", "ack"), Ask1("stamped", "ack")>>,
    <<Ask1("events", "ack"), Ask1("object", "error")>>,
    <<Ask1("range", "ack"), Ask1("store", "ack")>>,
    <<Subscribe("subscribe", "notified", 7), Subscribe("subscribe", "notified", 7)>>,
    <<Subscribe("subscribe-multiple", "error", 8), Subscribe("subscribe", "subscribed", 8), Ask1("bvlc", "ack")>>,
    <<Ask1("discover", "found"), Ask1("discover", "none"), Ask1("sent", "sent")>>,
    <<Ask1("discover-any", "found"), Ask1("discover-any", "none")>>,
    <<Ask1("sent", "sent"), Ask1("bvlc", "error"), Ask1("remove", "ack")>>
}
=============================================================================
