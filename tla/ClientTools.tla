----------------------------- MODULE ClientTools -----------------------------
(***************************************************************************)
(* bacnet-stack/client_driver.py runs one command-line tool of the stack for   *)
(* each request and takes the device's answer from what the tool prints, its    *)
(* exit status and the file it leaves.  The tools are external: they print       *)
(* what the driver's patterns and PEER_SUPPORT.md say they do.                    *)
(***************************************************************************)
EXTENDS Naturals, Sequences

Shows(p, line) == \E k \in DOMAIN p.lines : p.lines[k] = line

-----------------------------------------------------------------------------
(* The tools *)

Discoveries == {"discover", "discover-any"}

Content == {"read", "multiple", "range", "pages", "events"}

\* What can come of a tool's request.  An empty list is an acknowledgement too.
\* Discovery without an address to compare, a Who-Has or a Who-Is of a run without
\* --target, is "discover-any": another station may be the only one to answer, and
\* have the target's device instance.
Exchanges(service) ==
    CASE service = "discover"  -> {"found", "none", "stranger"}
      [] service = "discover-any" -> {"found", "none", "stranger", "namesake"}
      [] service = "sent"      -> {"sent", "unbound"}
      [] service = "bvlc"      -> {"ack", "error", "silent"}
      [] service = "subscribe" -> {"unbound", "silent", "error", "subscribed", "notified"}
      [] OTHER -> {"unbound", "silent", "error", "ack"}
                      \cup (IF service \in Content THEN {"other"} ELSE {})
                      \cup (IF service = "events" THEN {"empty"} ELSE {})

Ended(statuses, texts) == [status : statuses, lines : texts, file : {FALSE}]

Text(exchange) == IF exchange = "ack" THEN "value" ELSE "another"

AckPrints(service, exchange) ==
    CASE service \in {"write", "list", "stamped"} -> Ended({"exited"}, {<<"acknowledged">>})
      [] service = "subscribe" ->
            Ended({"exited"}, IF exchange = "notified"
                              THEN {<<"acknowledged", "notification">>, <<"notification", "acknowledged">>}
                              ELSE {<<"acknowledged">>})
      [] service = "multiple"  -> Ended({"exited"}, {<<"object", Text(exchange)>>})
      [] service = "range"     -> Ended({"exited"}, {<<"log-buffer", Text(exchange)>>})
      [] service = "read"      -> Ended({"exited"}, {<<Text(exchange)>>})
      [] service = "pages"     -> [status : {"exited"}, lines : {<<Text(exchange)>>}, file : {TRUE}]
      [] service = "events"    -> Ended({"exited"}, {IF exchange = "empty" THEN <<"undecoded", "total">>
                                                    ELSE <<Text(exchange), "total">>})
      [] service = "object"    -> Ended({"exited"}, {<<"success">>})
      [] service \in {"store", "remove"} -> Ended({"exited"}, {<<>>})

\* bacrle is silent about an Error, bacco and bacdo put it into their block; each
\* shows a Reject or an Abort like the others.
ErrorPrints(service) ==
    Ended({"exited", "failed"},
          {<<"error">>} \cup CASE service = "remove" -> {<<>>}
                               [] service = "object" -> {<<"failure">>}
                               [] OTHER              -> {})

RequestPrints(service, exchange) ==
    CASE exchange = "sent"    -> Ended({"exited"}, {<<"sent">>})
      [] exchange = "unbound" -> Ended({"failed"}, {<<"apdu-timeout">>})
      [] exchange = "silent"  -> Ended({"exited", "failed"}, {<<"tsm-timeout">>})
      [] exchange = "error"   -> ErrorPrints(service)
      [] OTHER                -> AckPrints(service, exchange)

\* Whatever became of the request, the tool may crash or be stopped.
Prints(service, exchange) ==
    Ended({"killed"}, {<<>>}) \cup
    CASE service \in Discoveries ->
            Ended({"exited"}, CASE exchange \in {"found", "namesake"} -> {<<"target">>}
                                [] exchange = "none"                 -> {<<>>}
                                [] OTHER -> {<<"stranger">>, <<"target", "stranger">>})
      [] service = "bvlc" ->
            Ended({"exited", "failed"}, CASE exchange = "silent" -> {<<>>}
                                          [] exchange = "error"  -> {<<"nak">>}
                                          [] OTHER               -> {<<"table">>, <<"completion">>})
      [] OTHER -> RequestPrints(service, exchange)

-----------------------------------------------------------------------------
(* The driver *)

\* The services it asks for by numbers, of which it has tables, or for one device
\* recipient: anything else it refuses itself.
Numbered == {"write", "range", "list", "remove", "object"}

\* Env.run: killed, crashed, not bound.
Died(p) == p.status = "killed" \/ Shows(p, "apdu-timeout")

\* Defect: the line of an Error is not looked for.
TimeoutLines == {"tsm-timeout"}

AnswerLines == {"error", "tsm-timeout"}

\* Of an answer and what else is printed, the answer counts.
Answered(p) == \E a \in AnswerLines : Shows(p, a)

AnswerIn(p) == IF Shows(p, "error") THEN "error" ELSE "timeout"

ContentIn(p) == IF Shows(p, "value") /\ ~Shows(p, "another") THEN "ack" ELSE "other"

AckIn(p) == IF Shows(p, "acknowledged") THEN "ack" ELSE "infra"

ValueIn(p) == IF p.status = "exited" /\ p.lines # <<>> THEN ContentIn(p) ELSE "infra"

RecordsIn(p) == IF Shows(p, "log-buffer") THEN ContentIn(p) ELSE "infra"

FileIn(p) == IF p.status = "exited" /\ p.file THEN ContentIn(p) ELSE "infra"

\* bacawf prints nothing for the acknowledgement.
StoredIn(p) == IF p.status = "exited" THEN "ack" ELSE "infra"

SubscriptionIn(p) ==
    IF ~Shows(p, "acknowledged") THEN "infra"
    ELSE IF Shows(p, "notification") THEN "notified" ELSE "subscribed"

ObjectIn(p) == IF Shows(p, "success") THEN "ack" ELSE IF Shows(p, "failure") THEN "error" ELSE "infra"

EventsIn(p) ==
    IF Shows(p, "undecoded") THEN "undecoded" ELSE IF Shows(p, "total") THEN ContentIn(p) ELSE "infra"

SentIn(p) == IF p.status = "exited" /\ Shows(p, "sent") THEN "sent" ELSE "infra"

TableIn(p) ==
    IF Shows(p, "nak") THEN "error"
    ELSE IF Shows(p, "table") \/ Shows(p, "completion") THEN "ack" ELSE "infra"

\* Only a Who-Is of a run with --target looks at who sent the I-Am; the other
\* answers are taken from anyone.
DevicesIn(service, p) ==
    IF Shows(p, "stranger") THEN IF service = "discover" THEN "infra" ELSE "stranger"
    ELSE IF Shows(p, "target") THEN "found" ELSE "none"

StampIn(p) == ~Died(p) /\ ~Answered(p) /\ ValueIn(p) # "infra"

\* bacrpm's errors of single properties stand under their object, and are values.
ValuesIn(p) ==
    IF Shows(p, "object") THEN ContentIn(p) ELSE IF Answered(p) THEN AnswerIn(p) ELSE "infra"

\* bacrle registered its handlers for the other service.
ListIn(service, p) == IF service = "remove" THEN "different" ELSE AckIn(p)

\* What a tool that ran to its end says of the request.
ResultIn(service, p) ==
    CASE service \in Discoveries -> DevicesIn(service, p)
      [] service = "sent"      -> SentIn(p)
      [] service = "bvlc"      -> TableIn(p)
      [] service = "multiple"  -> ValuesIn(p)
      [] service = "read"      -> ValueIn(p)
      [] service = "range"     -> RecordsIn(p)
      [] service = "pages"     -> FileIn(p)
      [] service = "store"     -> StoredIn(p)
      [] service = "subscribe" -> SubscriptionIn(p)
      [] service = "object"    -> ObjectIn(p)
      [] service = "events"    -> EventsIn(p)
      [] service \in {"list", "remove"} -> ListIn(service, p)
      [] OTHER                 -> AckIn(p)

\* An Error, Reject, Abort or timeout of the request comes before its result.
Reading(service, p) ==
    IF Died(p) THEN "infra"
    ELSE IF service \notin Discoveries \cup {"sent", "bvlc", "multiple"} /\ Answered(p) THEN AnswerIn(p)
    ELSE ResultIn(service, p)
=============================================================================
