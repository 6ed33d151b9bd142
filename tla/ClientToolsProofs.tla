--------------------------- MODULE ClientToolsProofs ---------------------------
(***************************************************************************)
(* What the bacnet-stack driver reads from a tool's output is what became of *)
(* the tool's request, for every service and everything the tools can print. *)
(***************************************************************************)
EXTENDS ClientTools, TLAPS

ToolServices == {"read", "multiple", "write", "range", "pages", "store", "list", "remove",
                 "object", "events", "stamped", "subscribe", "sent", "bvlc"} \cup Discoveries

\* What may be read of a request: nothing only where the tool did not reach a
\* device, died, heard a stranger where it knows the target's address, or had no
\* answer of a BBMD; nothing comparable of an element removed; and else what came of
\* it, an unanswered request and a namesake's answer included.
Faithful(service, exchange, p, reading) ==
    CASE reading = "infra" ->
            \/ exchange = "unbound" \/ p.status = "killed"
            \/ service = "discover" /\ exchange = "stranger"
            \/ service = "bvlc" /\ exchange = "silent"
      [] reading = "different" -> service = "remove" /\ exchange \in {"ack", "error"}
      [] OTHER -> /\ exchange # "unbound"
                  /\ \/ reading = exchange /\ exchange # "namesake"
                     \/ reading = "timeout" /\ exchange = "silent"
                     \/ reading = "undecoded" /\ exchange = "empty"
                     \/ reading = "found" /\ exchange = "namesake"

-----------------------------------------------------------------------------
(* What a tool shows that prints no, one or two things *)

ShowsExactly(p, texts) == \A line : Shows(p, line) <=> line \in texts

LEMMA ShowsNothing ==
    ASSUME NEW p, p.lines = <<>>
    PROVE  ShowsExactly(p, {})
  BY DEF Shows, ShowsExactly

LEMMA ShowsOne ==
    ASSUME NEW p, NEW a, p.lines = <<a>>
    PROVE  ShowsExactly(p, {a})
  BY DEF Shows, ShowsExactly

LEMMA ShowsTwo ==
    ASSUME NEW p, NEW a, NEW b, p.lines = <<a, b>>
    PROVE  ShowsExactly(p, {a, b})
  <1>1. p.lines[1] = a /\ p.lines[2] = b /\ DOMAIN p.lines = {1, 2}
    OBVIOUS
  <1>2. QED
    BY <1>1 DEF Shows, ShowsExactly

-----------------------------------------------------------------------------
(* The reading, by what became of the request *)

\* bacwi, bacucov and the table tools need no answer to a confirmed request.
LEMMA DiscoveryTool ==
    ASSUME NEW service \in Discoveries, NEW exchange \in Exchanges(service),
           NEW p \in Prints(service, exchange), p.status # "killed"
    PROVE  Faithful(service, exchange, p, Reading(service, p))
  <1>1. /\ exchange \in {"found", "none", "stranger", "namesake"}
        /\ exchange = "namesake" => service = "discover-any"
        /\ exchange \in {"found", "namesake"} => p.lines = <<"target">>
        /\ exchange = "none" => p.lines = <<>>
        /\ exchange = "stranger" => p.lines = <<"stranger">> \/ p.lines = <<"target", "stranger">>
    BY DEF Exchanges, Prints, Ended, Discoveries
  <1>2. CASE exchange \in {"found", "namesake"}
    <2>1. ShowsExactly(p, {"target"})
      BY <1>1, <1>2, ShowsOne
    <2>2. Reading(service, p) = "found"
      BY <2>1 DEF ShowsExactly, Reading, ResultIn, DevicesIn, Died, Discoveries
    <2>3. QED
      BY <1>2, <2>2 DEF Faithful
  <1>3. CASE exchange = "none"
    <2>1. ShowsExactly(p, {})
      BY <1>1, <1>3, ShowsNothing
    <2>2. Reading(service, p) = "none"
      BY <2>1 DEF ShowsExactly, Reading, ResultIn, DevicesIn, Died, Discoveries
    <2>3. QED
      BY <1>3, <2>2 DEF Faithful
  <1>4. CASE exchange = "stranger"
    <2>1. ShowsExactly(p, {"stranger"}) \/ ShowsExactly(p, {"target", "stranger"})
      BY <1>1, <1>4, ShowsOne, ShowsTwo
    <2>2. Reading(service, p) = IF service = "discover" THEN "infra" ELSE "stranger"
      BY <2>1 DEF ShowsExactly, Reading, ResultIn, DevicesIn, Died, Discoveries
    <2>3. QED
      BY <1>4, <2>2 DEF Faithful
  <1>5. QED
    BY <1>1, <1>2, <1>3, <1>4

LEMMA TableTool ==
    ASSUME NEW exchange \in Exchanges("bvlc"), NEW p \in Prints("bvlc", exchange), p.status # "killed"
    PROVE  Faithful("bvlc", exchange, p, Reading("bvlc", p))
  <1>1. /\ exchange \in {"ack", "error", "silent"}
        /\ exchange = "silent" => p.lines = <<>>
        /\ exchange = "error" => p.lines = <<"nak">>
        /\ exchange = "ack" => \E a \in {"table", "completion"} : p.lines = <<a>>
    BY DEF Exchanges, Prints, Ended, Discoveries
  <1>2. PICK shown \in SUBSET {"table", "completion", "nak"} :
           /\ ShowsExactly(p, shown)
           /\ exchange = "silent" => shown = {}
           /\ exchange = "error" => shown = {"nak"}
           /\ exchange = "ack" => shown = {"table"} \/ shown = {"completion"}
    <2>1. CASE exchange = "silent"
      BY <1>1, <2>1, ShowsNothing
    <2>2. CASE exchange = "error"
      BY <1>1, <2>2, ShowsOne
    <2>3. CASE exchange = "ack"
      <3>1. PICK a \in {"table", "completion"} : p.lines = <<a>>
        BY <1>1, <2>3
      <3>2. QED
        BY <2>3, <3>1, ShowsOne
    <2>4. QED
      BY <1>1, <2>1, <2>2, <2>3
  <1>3. QED
    BY <1>1, <1>2 DEF ShowsExactly, Reading, ResultIn, TableIn, Died, Faithful

LEMMA UnconfirmedTool ==
    ASSUME NEW exchange \in Exchanges("sent"), NEW p \in Prints("sent", exchange), p.status # "killed"
    PROVE  Faithful("sent", exchange, p, Reading("sent", p))
  <1>1. /\ exchange \in {"sent", "unbound"}
        /\ exchange = "sent" => p.lines = <<"sent">> /\ p.status = "exited"
        /\ exchange = "unbound" => p.lines = <<"apdu-timeout">>
    BY DEF Exchanges, Prints, RequestPrints, Ended, Discoveries
  <1>2. CASE exchange = "sent"
    <2>1. ShowsExactly(p, {"sent"})
      BY <1>1, <1>2, ShowsOne
    <2>2. QED
      BY <1>1, <1>2, <2>1 DEF ShowsExactly, Reading, ResultIn, SentIn, Died, Faithful
  <1>3. CASE exchange = "unbound"
    <2>1. ShowsExactly(p, {"apdu-timeout"})
      BY <1>1, <1>3, ShowsOne
    <2>2. QED
      BY <1>3, <2>1 DEF ShowsExactly, Reading, Died, Faithful
  <1>4. QED
    BY <1>1, <1>2, <1>3

Confirmed == ToolServices \ (Discoveries \cup {"sent", "bvlc"})

\* A request that got no acknowledgement is reported before any result, by the
\* line the tool prints; the two tools that print nothing of an Error are told apart.
LEMMA Unacknowledged ==
    ASSUME NEW service \in Confirmed, NEW exchange \in {"unbound", "silent", "error"},
           NEW p \in Prints(service, exchange), p.status # "killed"
    PROVE  Faithful(service, exchange, p, Reading(service, p))
  <1>1. /\ exchange = "unbound" => p.lines = <<"apdu-timeout">>
        /\ exchange = "silent" => p.lines = <<"tsm-timeout">>
        /\ exchange = "error" => \/ p.lines = <<"error">>
                                 \/ service = "remove" /\ p.lines = <<>>
                                 \/ service = "object" /\ p.lines = <<"failure">>
    BY DEF Prints, RequestPrints, ErrorPrints, Ended, Confirmed, ToolServices
  <1>2. CASE exchange = "unbound"
    <2>1. ShowsExactly(p, {"apdu-timeout"})
      BY <1>1, <1>2, ShowsOne
    <2>2. QED
      BY <1>2, <2>1 DEF ShowsExactly, Reading, Died, Faithful
  <1>3. CASE exchange = "silent"
    <2>1. ShowsExactly(p, {"tsm-timeout"})
      BY <1>1, <1>3, ShowsOne
    <2>2. Reading(service, p) = "timeout"
      BY <2>1 DEF ShowsExactly, Reading, ResultIn, ValuesIn, Died, Answered, AnswerLines, AnswerIn,
                  Confirmed, ToolServices
    <2>3. QED
      BY <1>3, <2>2 DEF Faithful
  <1>4. CASE exchange = "error" /\ p.lines = <<"error">>
    <2>1. ShowsExactly(p, {"error"})
      BY <1>4, ShowsOne
    <2>2. Reading(service, p) = "error"
      BY <2>1 DEF ShowsExactly, Reading, ResultIn, ValuesIn, Died, Answered, AnswerLines, AnswerIn,
                  Confirmed, ToolServices
    <2>3. QED
      BY <1>4, <2>2 DEF Faithful
  <1>5. CASE exchange = "error" /\ service = "remove" /\ p.lines = <<>>
    <2>1. ShowsExactly(p, {})
      BY <1>5, ShowsNothing
    <2>2. QED
      BY <1>5, <2>1 DEF ShowsExactly, Reading, ResultIn, ListIn, Died, Answered, Faithful
  <1>6. CASE exchange = "error" /\ service = "object" /\ p.lines = <<"failure">>
    <2>1. ShowsExactly(p, {"failure"})
      BY <1>6, ShowsOne
    <2>2. QED
      BY <1>6, <2>1 DEF ShowsExactly, Reading, ResultIn, ObjectIn, Died, Answered, AnswerLines, Faithful
  <1>7. QED
    BY <1>1, <1>2, <1>3, <1>4, <1>5, <1>6

\* A list service whose tool prints a sign of the acknowledgement.
LEMMA AcknowledgedPlainly ==
    ASSUME NEW service \in Confirmed, NEW exchange, NEW p, NEW a, NEW b,
           p.status = "exited", ShowsExactly(p, {a, b}),
           \/ service \in {"write", "list", "stamped"} /\ a = "acknowledged" /\ b = "acknowledged" /\ exchange = "ack"
           \/ service = "subscribe" /\ a = "acknowledged" /\ b = "acknowledged" /\ exchange = "subscribed"
           \/ service = "subscribe" /\ a = "acknowledged" /\ b = "notification" /\ exchange = "notified"
           \/ service = "object" /\ a = "success" /\ b = "success" /\ exchange = "ack"
    PROVE  Faithful(service, exchange, p, Reading(service, p))
  <1>1. ~Died(p) /\ ~Answered(p)
    BY DEF ShowsExactly, Died, Answered, AnswerLines
  <1>2. Reading(service, p) = exchange
    BY <1>1 DEF ShowsExactly, Reading, ResultIn, ListIn, AckIn, SubscriptionIn, ObjectIn, Discoveries, Confirmed
  <1>3. QED
    BY <1>2 DEF Faithful

\* A service that returns content: the value expected, or another one.
LEMMA AcknowledgedWithContent ==
    ASSUME NEW service \in {"read", "multiple", "range", "pages", "events"}, NEW exchange \in {"ack", "other"},
           NEW p, NEW sign, p.status = "exited", service = "pages" => p.file, p.lines # <<>>,
           sign \in {"object", "log-buffer", "total", Text(exchange)},
           ShowsExactly(p, {sign, Text(exchange)}),
           /\ service = "multiple" => sign = "object"
           /\ service = "range" => sign = "log-buffer"
           /\ service = "events" => sign = "total"
    PROVE  Faithful(service, exchange, p, Reading(service, p))
  <1>1. ~Died(p) /\ ~Answered(p)
    BY DEF ShowsExactly, Died, Answered, AnswerLines, Text
  <1>2. ContentIn(p) = exchange
    BY DEF ShowsExactly, ContentIn, Text
  <1>3. Reading(service, p) = exchange
    BY <1>1, <1>2 DEF ShowsExactly, Reading, ResultIn, ValuesIn, ValueIn, RecordsIn, FileIn, EventsIn, Text
  <1>4. QED
    BY <1>3 DEF Faithful

LEMMA Acknowledged ==
    ASSUME NEW service \in Confirmed, NEW exchange \in Exchanges(service) \ {"unbound", "silent", "error"},
           NEW p \in AckPrints(service, exchange)
    PROVE  Faithful(service, exchange, p, Reading(service, p))
  <1>1. CASE service \in {"write", "list", "stamped"}
    <2>1. exchange = "ack" /\ p.status = "exited" /\ p.lines = <<"acknowledged">>
      BY <1>1 DEF Exchanges, AckPrints, Ended, Content
    <2>2. ShowsExactly(p, {"acknowledged", "acknowledged"})
      BY <2>1, ShowsOne DEF ShowsExactly
    <2>3. QED
      BY <1>1, <2>1, <2>2, AcknowledgedPlainly
  <1>2. CASE service = "subscribe"
    <2>1. /\ p.status = "exited"
          /\ \/ exchange = "subscribed" /\ p.lines = <<"acknowledged">>
             \/ exchange = "notified" /\ (p.lines = <<"acknowledged", "notification">>
                                          \/ p.lines = <<"notification", "acknowledged">>)
      BY <1>2 DEF Exchanges, AckPrints, Ended
    <2>2. CASE exchange = "subscribed"
      <3>1. ShowsExactly(p, {"acknowledged", "acknowledged"})
        BY <2>1, <2>2, ShowsOne DEF ShowsExactly
      <3>2. QED
        BY <1>2, <2>1, <2>2, <3>1, AcknowledgedPlainly
    <2>3. CASE exchange = "notified"
      <3>1. ShowsExactly(p, {"acknowledged", "notification"})
        BY <2>1, <2>3, ShowsTwo DEF ShowsExactly
      <3>2. QED
        BY <1>2, <2>1, <2>3, <3>1, AcknowledgedPlainly
    <2>4. QED
      BY <2>1, <2>2, <2>3
  <1>3. CASE service = "object"
    <2>1. exchange = "ack" /\ p.status = "exited" /\ p.lines = <<"success">>
      BY <1>3 DEF Exchanges, AckPrints, Ended, Content
    <2>2. ShowsExactly(p, {"success", "success"})
      BY <2>1, ShowsOne DEF ShowsExactly
    <2>3. QED
      BY <1>3, <2>1, <2>2, AcknowledgedPlainly
  <1>4. CASE service \in {"multiple", "range"}
    <2>1. PICK sign \in {"object", "log-buffer"} :
            /\ p.lines = <<sign, Text(exchange)>> /\ p.status = "exited" /\ exchange \in {"ack", "other"}
            /\ service = "multiple" => sign = "object"
            /\ service = "range" => sign = "log-buffer"
      BY <1>4 DEF Exchanges, AckPrints, Ended, Content
    <2>2. ShowsExactly(p, {sign, Text(exchange)}) /\ p.lines # <<>>
      BY <2>1, ShowsTwo
    <2>3. QED
      BY <1>4, <2>1, <2>2, AcknowledgedWithContent
  <1>5. CASE service \in {"read", "pages"}
    <2>1. /\ p.lines = <<Text(exchange)>> /\ p.status = "exited" /\ exchange \in {"ack", "other"}
          /\ service = "pages" => p.file
      BY <1>5 DEF Exchanges, AckPrints, Ended, Content
    <2>2. ShowsExactly(p, {Text(exchange), Text(exchange)}) /\ p.lines # <<>>
      BY <2>1, ShowsOne DEF ShowsExactly
    <2>3. QED
      BY <1>5, <2>1, <2>2, AcknowledgedWithContent
  <1>6. CASE service = "events" /\ exchange # "empty"
    <2>1. p.lines = <<Text(exchange), "total">> /\ p.status = "exited" /\ exchange \in {"ack", "other"}
      BY <1>6 DEF Exchanges, AckPrints, Ended, Content
    <2>2. ShowsExactly(p, {"total", Text(exchange)}) /\ p.lines # <<>>
      BY <2>1, ShowsTwo DEF ShowsExactly
    <2>3. QED
      BY <1>6, <2>1, <2>2, AcknowledgedWithContent
  <1>7. CASE service = "events" /\ exchange = "empty"
    <2>1. p.lines = <<"undecoded", "total">> /\ p.status = "exited"
      BY <1>7 DEF AckPrints, Ended
    <2>2. ShowsExactly(p, {"undecoded", "total"})
      BY <2>1, ShowsTwo
    <2>3. QED
      BY <1>7, <2>1, <2>2 DEF ShowsExactly, Reading, ResultIn, EventsIn, Died, Answered, AnswerLines, Faithful
  <1>8. CASE service \in {"store", "remove"}
    <2>1. exchange = "ack" /\ p.status = "exited" /\ p.lines = <<>>
      BY <1>8 DEF Exchanges, AckPrints, Ended, Content
    <2>2. ShowsExactly(p, {})
      BY <2>1, ShowsNothing
    <2>3. QED
      BY <1>8, <2>1, <2>2 DEF ShowsExactly, Reading, ResultIn, StoredIn, ListIn, Died, Answered, Faithful, Discoveries
  <1>9. QED
    BY <1>1, <1>2, <1>3, <1>4, <1>5, <1>6, <1>7, <1>8 DEF Confirmed, ToolServices

-----------------------------------------------------------------------------
(* Every tool *)

\* Whatever a tool prints of what became of its request, and however it ends, the
\* driver reads what became of it, or that nothing can be said
\* (bacnet-stack/client_driver.py 128-145, 180-216 and the services' functions).
\* Who answered it cannot know outside a Who-Is with --target: in "discover-any" the
\* answer of a station with the target's device instance reads like the target's
\* (line 330 and lines 336-344), and a stranger's makes the list another one.
THEOREM ReadingIsFaithful ==
    ASSUME NEW service \in ToolServices, NEW exchange \in Exchanges(service), NEW p \in Prints(service, exchange)
    PROVE  Faithful(service, exchange, p, Reading(service, p))
  <1>1. CASE p.status = "killed"
    BY <1>1 DEF Died, Reading, Faithful
  <1>2. CASE p.status # "killed" /\ service \in Discoveries \cup {"sent", "bvlc"}
    BY <1>2, DiscoveryTool, UnconfirmedTool, TableTool
  <1>3. CASE p.status # "killed" /\ service \in Confirmed /\ exchange \in {"unbound", "silent", "error"}
    BY <1>3, Unacknowledged
  <1>4. CASE p.status # "killed" /\ service \in Confirmed /\ exchange \notin {"unbound", "silent", "error"}
    <2>1. exchange # "sent"
      BY <1>4 DEF Exchanges, Confirmed, ToolServices, Content
    <2>2. p \in AckPrints(service, exchange)
      BY <1>4, <2>1 DEF Prints, RequestPrints, Ended, Confirmed
    <2>3. QED
      BY <1>4, <2>2, Acknowledged
  <1>5. QED
    BY <1>1, <1>2, <1>3, <1>4 DEF Confirmed
=============================================================================
