----------------------------- MODULE ClientDriver -----------------------------
(***************************************************************************)
(* The client drivers: one run of a scenario file against a device under    *)
(* test.  The BACpypes3 and BACnet4J drivers are modelled with the messages  *)
(* of their stacks, which get lost, delayed and retried; the bacnet-stack    *)
(* driver runs one command-line tool per request and reads what it prints:    *)
(* see ClientTools.  The stacks, the tools, the device and the other stations  *)
(* on the network are external.                                                *)
(***************************************************************************)
EXTENDS ClientTools, FiniteSets

CONSTANTS
    Drivers,    (* the drivers to consider                                    *)
    Plans,      (* the selected scenarios of the files, in file order          *)
    Ids,        (* invoke identifiers, reused in turn                          *)
    Tries,      (* a request and its retries                                   *)
    Pages,      (* the reads it takes to the end of a file                     *)
    Answerers,  (* who answers a Who-Is: the device, and perhaps another one   *)
    None

Outcomes == {"pass", "fail", "unsupported", "not-tested", "known-difference", "infra-error"}

Services == {"read", "multiple", "write", "range", "pages", "store", "list", "remove",
             "object", "events", "stamped", "subscribe", "subscribe-multiple",
             "discover", "discover-any", "sent", "bvlc"}
Subscriptions == {"subscribe", "subscribe-multiple"}
Expectations == {"ack", "error", "notified", "subscribed", "found", "none", "sent"}
Scenario == [service : Services, expect : Expectations, process : Nat]

ASSUME ClientAssumption ==
    /\ Drivers \subseteq {"bacnet-stack", "bacpypes3", "bacnet4j"}
    /\ Plans \subseteq Seq(Scenario)
    /\ Ids \in Nat \ {0} /\ Tries \in Nat \ {0} /\ Pages \in Nat \ {0}
    /\ Answerers \subseteq {"target", "other"}

\* None is no answer to a request.
ASSUME NoneAssumption ==
    None \notin [kind : {"answer"}, id : 1..Ids, scenario : Nat, step : Nat,
                 what : {"ack", "other", "error", "garbled", "nothing"}]

VARIABLES
    driver,
    plan, output, exit,   (* what the consumer sees: see ClientRun             *)
    summary,  (* the outcomes counted so far                                   *)
    failed,   (* the stack did not start or could not register                 *)
    stage,    (* what the driver does: idle, binding, bound, asking, listening *)
    bound,    (* the target has answered a Who-Is                              *)
    refused,  (* bacpypes3: binding failed once (bind_detail)                  *)
    request,  (* the confirmed request that is out, or None                    *)
    used,     (* the identifier of the last request                            *)
    basis,    (* the answers the last scenario took                            *)
    dropped,  (* bacpypes3: the answers it could not decode (undecodable)      *)
    heard,    (* the COV notifications received                                *)
    mark,     (* how many of them came before the scenario                     *)
    found,    (* who announced itself since the last Who-Is scenario           *)
    wire,     (* the messages under way                                        *)
    ran       (* bacnet-stack: the last tool, and what came of its request     *)

consumer == <<plan, output, exit>>
listening == <<heard, mark, found>>
asking == <<request, used, basis, dropped>>
session == <<driver, failed, bound, refused, ran>>
vars == <<session, consumer, summary, stage, asking, listening, wire>>

Contract == INSTANCE ClientRun
Running == Contract!Running

at == Len(output)     \* the scenario that runs, or comes next
scenario == plan[at]

Unsupported == CASE driver = "bacnet4j"     -> {"bvlc"}
                 [] driver = "bacpypes3"    -> {"subscribe-multiple"}
                 [] driver = "bacnet-stack" -> {"subscribe-multiple"}

\* What needs the device's address first; bacpypes3 addresses the unconfirmed
\* requests through the binding too.
Binds == scenario.service \notin
           Discoveries \cup {"bvlc"} \cup IF driver = "bacpypes3" THEN {} ELSE {"sent"}

Compare(observed) ==
    IF observed = scenario.expect \/ (observed = "notified" /\ scenario.expect = "subscribed")
    THEN "pass" ELSE "fail"

ReportUncounted(outcome) ==
    /\ output' = Append(output, Contract!Result(at, outcome))
    /\ summary' = IF outcome = "known-difference" THEN summary ELSE [summary EXCEPT ![outcome] = @ + 1]
    /\ stage' = "idle" /\ request' = None
    /\ UNCHANGED <<plan, exit>>

Report(outcome) ==
    /\ output' = Append(output, Contract!Result(at, outcome))
    /\ summary' = [summary EXCEPT ![outcome] = @ + 1]
    /\ stage' = "idle" /\ request' = None
    /\ UNCHANGED <<plan, exit>>

Init ==
    /\ driver \in Drivers /\ plan \in Plans
    /\ output = <<>> /\ exit = Running
    /\ summary = [o \in Outcomes |-> 0]
    /\ failed = FALSE /\ bound = FALSE /\ refused = FALSE
    /\ stage = "idle" /\ request = None /\ used = Ids
    /\ basis = <<>> /\ dropped = {}
    /\ heard = <<>> /\ mark = 0 /\ found = {} /\ wire = {}
    /\ ran = [scenario |-> 0, exchange |-> "unsent", status |-> "exited"]

-----------------------------------------------------------------------------
(* Starting and ending a run *)

\* Wrong arguments or scenarios; exit code 1 is a timeout that is no number
\* (bacpypes3 checks it) or, for bacnet4j, a stack that does not start.
Refuse ==
    /\ exit = Running /\ output = <<>>
    /\ exit' \in {2} \cup IF driver = "bacpypes3" THEN {} ELSE {1}
    /\ UNCHANGED <<session, plan, output, summary, stage, asking, listening, wire>>

Start ==
    /\ exit = Running /\ output = <<>>
    /\ output' = <<Contract!Ready>>
    /\ failed' \in IF driver = "bacnet-stack" THEN {FALSE} ELSE BOOLEAN
    /\ UNCHANGED <<driver, bound, refused, ran, plan, exit, summary, stage, asking, listening, wire>>

Finish ==
    /\ exit = Running /\ stage = "idle" /\ at = Len(plan) + 1
    /\ output' = Append(output, Contract!Done(summary))
    /\ exit' = 0
    /\ UNCHANGED <<session, plan, summary, stage, asking, listening, wire>>

-----------------------------------------------------------------------------
(* The beginning of a scenario *)

Begins == exit = Running /\ stage = "idle" /\ at \in 1..Len(plan)
Supported == ~failed /\ scenario.service \notin Unsupported

WhoIs == [kind |-> "whoIs"]

\* Nothing can be asked: the start failed, or bacpypes3 remembers that binding did.
GiveUp ==
    /\ Begins
    /\ failed \/ (Supported /\ driver = "bacpypes3" /\ Binds /\ ~bound /\ refused)
    /\ Report("infra-error")
    /\ UNCHANGED <<session, used, basis, dropped, listening, wire>>

NotSupported ==
    /\ Begins /\ ~failed /\ scenario.service \in Unsupported
    /\ Report("unsupported")
    /\ UNCHANGED <<session, used, basis, dropped, listening, wire>>

NotificationsKept == heard' = heard /\ mark' = 0

\* The notifications of earlier scenarios are left out: bacpypes3 remembers how
\* many there are, bacnet4j forgets them.
ForgetNotifications ==
    IF driver = "bacpypes3"
    THEN heard' = heard /\ mark' = Len(heard)
    ELSE /\ heard' = IF scenario.service \in Subscriptions THEN <<>> ELSE heard
         /\ mark' = 0

Begin ==
    /\ Begins /\ Supported /\ Binds /\ driver # "bacnet-stack"
    /\ bound \/ ~refused
    /\ stage' = IF bound THEN "bound" ELSE "binding"
    /\ wire' = IF bound THEN wire ELSE wire \cup {WhoIs}
    /\ basis' = <<>>
    /\ ForgetNotifications
    /\ UNCHANGED <<session, consumer, summary, request, used, dropped, found>>

Discover ==
    /\ Begins /\ Supported /\ driver # "bacnet-stack" /\ scenario.service = "discover"
    /\ stage' = "listening"
    /\ found' = {}
    /\ wire' = wire \cup {WhoIs}
    /\ UNCHANGED <<session, consumer, summary, asking, heard, mark>>

\* The table services of bacpypes3 use a link of their own.
AskBbmd ==
    /\ Begins /\ Supported /\ driver = "bacpypes3" /\ scenario.service = "bvlc"
    /\ \E outcome \in {Compare("ack"), Compare("error"), "infra-error"} : Report(outcome)
    /\ UNCHANGED <<session, used, basis, dropped, listening, wire>>

\* Without an address to compare, who announced itself or the object does not matter.
AskAnyone ==
    /\ Begins /\ Supported /\ driver # "bacnet-stack" /\ scenario.service = "discover-any"
    /\ \E seen \in {"found", "none", "stranger"} : Report(Compare(seen))
    /\ UNCHANGED <<session, used, basis, dropped, listening, wire>>

SendUnconfirmed ==
    /\ exit = Running /\ driver # "bacnet-stack"
    /\ \/ Begins /\ Supported /\ ~Binds
       \/ stage = "bound"
    /\ scenario.service = "sent"
    /\ Report(Compare("sent"))
    /\ UNCHANGED <<session, used, basis, dropped, listening, wire>>

Ran(exchange, status) == ran' = [scenario |-> at, exchange |-> exchange, status |-> status]

Verdict(reading) ==
    CASE reading = "infra"     -> "infra-error"
      [] reading = "different" -> "known-difference"
      [] OTHER                 -> Compare(reading)

RunTool ==
    /\ Begins /\ Supported /\ driver = "bacnet-stack"
    /\ \E exchange \in Exchanges(scenario.service) : \E p \in Prints(scenario.service, exchange) :
          Ran(exchange, p.status) /\ Report(Verdict(Reading(scenario.service, p)))
    /\ UNCHANGED <<driver, failed, bound, refused, used, basis, dropped, listening, wire>>

\* Acknowledging an alarm, the driver has a first tool read the time stamp.
StampRead(exchange) == \E p \in Prints("read", exchange) : StampIn(p)

\* The driver has no number for what the scenario names, or no time stamp.
NotAsked ==
    /\ Begins /\ Supported /\ driver = "bacnet-stack"
    /\ \/ scenario.service \in Numbered
       \/ scenario.service = "stamped" /\ \E exchange \in Exchanges("read") : ~StampRead(exchange)
    /\ Ran("unsent", "exited") /\ Report("infra-error")
    /\ UNCHANGED <<driver, failed, bound, refused, used, basis, dropped, listening, wire>>

-----------------------------------------------------------------------------
(* Binding and discovery *)

NotBound ==
    /\ Report("infra-error")
    /\ refused' = (driver = "bacpypes3")
    /\ UNCHANGED <<driver, failed, bound, ran>>

BindTimeout ==
    /\ stage = "binding"
    /\ NotBound
    /\ UNCHANGED <<used, basis, dropped, listening, wire>>

\* An I-Am decides the binding if it comes from the target and ends it if not;
\* a Who-Is scenario collects them.
HearIAm(m) ==
    /\ m.kind = "iAm"
    /\ wire' = wire \ {m}
    /\ CASE stage = "binding" /\ m.from = "target" ->
              /\ bound' = TRUE /\ stage' = "bound"
              /\ UNCHANGED <<driver, failed, refused, ran, consumer, summary, asking, listening>>
         [] stage = "binding" /\ m.from # "target" ->
              NotBound /\ UNCHANGED <<used, basis, dropped, listening>>
         [] OTHER ->
              /\ found' = found \cup {m.from}
              /\ UNCHANGED <<session, consumer, summary, stage, asking, heard, mark>>

\* bacpypes3 leaves out the devices the Who-Is did not ask for.
InRange == IF driver = "bacpypes3" /\ scenario.expect = "none" THEN {} ELSE found

Discovered ==
    /\ stage = "listening" /\ scenario.service = "discover"
    /\ Report(IF "other" \in InRange THEN "infra-error"
              ELSE Compare(IF InRange = {} THEN "none" ELSE "found"))
    /\ UNCHANGED <<session, used, basis, dropped, listening, wire>>

-----------------------------------------------------------------------------
(* Confirmed requests *)

Answer(r, what) == [kind |-> "answer", id |-> r.id, scenario |-> r.scenario, step |-> r.step, what |-> what]

NextIdOffByOne == (used + 1) % (Ids + 1)

NextId == (used % Ids) + 1

\* The driver takes away what it wrote down under the identifier it uses again;
\* ReadPropertyMultiple goes through a helper of the stack that knows nothing of it.
DroppedKept(id) == dropped

DroppedWithout(id) == IF scenario.service = "multiple" THEN dropped ELSE {m \in dropped : m.id # id}

\* Sends the next request of the scenario.  Identifiers come around only after
\* 256 requests: by then no message of their former use is under way.
Ask ==
    /\ stage = "bound" /\ scenario.service # "sent"
    /\ used' = NextId
    /\ LET r == [kind |-> "request", id |-> used', scenario |-> at, step |-> Len(basis) + 1] IN
        /\ request' = [sent |-> r, tries |-> 1, answer |-> None]
        /\ wire' = {m \in wire : m.kind \in {"request", "answer"} => m.id # used'} \cup {r}
    /\ dropped' = DroppedWithout(used')
    /\ stage' = "asking"
    /\ UNCHANGED <<session, consumer, summary, basis, listening>>

Unanswered == stage = "asking" /\ request.answer = None

Retry ==
    /\ Unanswered /\ request.tries < Tries
    /\ request' = [request EXCEPT !.tries = @ + 1]
    /\ wire' = wire \cup {request.sent}
    /\ UNCHANGED <<session, consumer, summary, stage, used, basis, dropped, listening>>

\* The stack gives up and answers the request itself.
AnswerTimeout ==
    /\ Unanswered /\ request.tries = Tries
    /\ request' = [request EXCEPT !.answer = Answer(request.sent, "nothing")]
    /\ UNCHANGED <<session, consumer, summary, stage, used, basis, dropped, listening, wire>>

\* The stack matches an answer to the request by its identifier.  What bacpypes3
\* cannot decode it drops, and the driver's wrapper writes it down.
HearAnswer(m) ==
    /\ m.kind = "answer"
    /\ wire' = wire \ {m}
    /\ IF driver = "bacpypes3" /\ m.what = "garbled"
       THEN /\ dropped' = {d \in dropped : d.id # m.id} \cup {m}
            /\ request' = request
       ELSE /\ request' = IF Unanswered /\ request.sent.id = m.id
                          THEN [request EXCEPT !.answer = m] ELSE request
            /\ dropped' = dropped
    /\ UNCHANGED <<session, consumer, summary, stage, used, basis, listening>>

\* Reading the time stamp of an event comes before acknowledging it; a file and
\* the events are read until their end.
MoreToAsk == CASE scenario.service = "stamped"            -> Len(basis) = 0
               [] scenario.service \in {"pages", "events"} -> Len(basis) + 1 < Pages
               [] OTHER                                   -> FALSE

\* BACnet4J loses the first failed subscription of an error.
ErrorOutcomes == IF driver = "bacnet4j" /\ scenario.service = "subscribe-multiple" /\ scenario.expect = "error"
                 THEN {"pass", "known-difference", "fail"} ELSE {Compare("error")}

\* What bacpypes3 is known not to decode is a known difference.
Undecodable == IF driver = "bacpypes3" /\ scenario.service = "remove" THEN "known-difference" ELSE "fail"

Takes(m) == basis' = Append(basis, [scenario |-> m.scenario, step |-> m.step, during |-> at])

\* Without the time stamp, or any answer, nothing can be said of the device.
NothingToSay(what) == what = "nothing" \/ (scenario.service = "stamped" /\ Len(basis) = 0 /\ what # "ack")

AnswerOutcomes(what) ==
    IF NothingToSay(what) THEN {"infra-error"}
    ELSE CASE what = "garbled" -> {Undecodable}
           [] what = "error"   -> ErrorOutcomes
           [] OTHER            -> {Compare(what)}

TakeAnswer ==
    /\ stage = "asking" /\ request.answer # None
    /\ Takes(request.answer)
    /\ LET what == request.answer.what IN
       CASE what = "ack" /\ MoreToAsk ->
              /\ stage' = "bound" /\ request' = None
              /\ UNCHANGED <<consumer, summary>>
         [] what = "ack" /\ scenario.service \in Subscriptions ->
              /\ stage' = "listening" /\ request' = None
              /\ UNCHANGED <<consumer, summary>>
         [] OTHER -> \E outcome \in AnswerOutcomes(what) : Report(outcome)
    /\ UNCHANGED <<session, used, dropped, listening, wire>>

\* While bacpypes3 waits it looks for an answer of that identifier it dropped,
\* but not to a ReadPropertyMultiple.
TakeDropped ==
    /\ Unanswered /\ scenario.service # "multiple"
    /\ \E m \in dropped :
         /\ m.id = used
         /\ Takes(m)
         /\ dropped' = dropped \ {m}
    /\ Report(Undecodable)
    /\ UNCHANGED <<session, used, listening, wire>>

-----------------------------------------------------------------------------
(* COV notifications *)

HearNotification(m) ==
    /\ m.kind = "notification"
    /\ heard' = Append(heard, [of |-> m.scenario, process |-> m.process, during |-> at])
    /\ wire' = wire \ {m}
    /\ UNCHANGED <<session, consumer, summary, stage, asking, mark, found>>

Counted == {k \in (mark + 1)..Len(heard) : heard[k].process = scenario.process}

\* The driver waits until it has one, or its time is over; bacnet4j's listener
\* runs in a thread of its own and can come between its last look and the end.
Subscribed ==
    /\ stage = "listening" /\ scenario.service \in Subscriptions
    /\ \/ Counted # {} /\ Report(Compare("notified"))
       \/ (Counted = {} \/ driver = "bacnet4j") /\ Report(Compare("subscribed"))
    /\ UNCHANGED <<session, used, basis, dropped, listening, wire>>

-----------------------------------------------------------------------------
(* The network and the stations on it *)

\* What is read may not be what is expected; of a file the last part is not.
MayDiffer(r) ==
    /\ plan[r.scenario].service \in Content
    /\ plan[r.scenario].service \in {"pages", "events"} => r.step = Pages

\* The device answers every copy of a request it gets, as it likes.
DeviceAnswers(m) ==
    /\ m.kind = "request"
    /\ \E what \in {"ack", "error", "garbled"} \cup (IF MayDiffer(m) THEN {"other"} ELSE {}) :
         wire' = (wire \ {m}) \cup {Answer(m, what)} \cup
                 IF what = "ack" /\ plan[m.scenario].service \in Subscriptions
                 THEN {[kind |-> "notification", scenario |-> m.scenario, process |-> plan[m.scenario].process]}
                 ELSE {}
    /\ UNCHANGED <<session, consumer, summary, stage, asking, listening>>

StationsAnnounce(m) ==
    /\ m.kind = "whoIs"
    /\ \E who \in SUBSET Answerers : wire' = (wire \ {m}) \cup [kind : {"iAm"}, from : who]
    /\ UNCHANGED <<session, consumer, summary, stage, asking, listening>>

Lose(m) ==
    /\ wire' = wire \ {m}
    /\ UNCHANGED <<session, consumer, summary, stage, asking, listening>>

-----------------------------------------------------------------------------
DriverStep ==
    \/ Refuse \/ Start \/ Finish
    \/ GiveUp \/ NotSupported \/ Begin \/ Discover \/ AskBbmd \/ AskAnyone \/ SendUnconfirmed \/ RunTool \/ NotAsked
    \/ BindTimeout \/ Discovered
    \/ Ask \/ Retry \/ AnswerTimeout \/ TakeAnswer \/ TakeDropped \/ Subscribed

Network ==
    \/ \E m \in wire : HearIAm(m) \/ HearAnswer(m) \/ HearNotification(m)
    \/ \E m \in wire : DeviceAnswers(m) \/ StationsAnnounce(m) \/ Lose(m)

Next == exit = Running /\ (DriverStep \/ Network)

Spec == Init /\ [][Next]_vars

\* Every wait of a driver has a deadline; nothing is assumed of the network.
FairSpec == Spec /\ WF_vars(exit = Running /\ DriverStep)

-----------------------------------------------------------------------------
(* Properties *)

\* Type correctness of what the driver keeps.
TypeOK ==
    /\ driver \in Drivers /\ plan \in Plans /\ exit \in {Running, 0, 1, 2}
    /\ summary \in [Outcomes -> Nat]
    /\ stage \in {"idle", "binding", "bound", "asking", "listening"}
    /\ failed \in BOOLEAN /\ bound \in BOOLEAN /\ refused \in BOOLEAN
    /\ stage # "idle" => exit = Running /\ at \in 1..Len(plan)
    /\ used \in 1..Ids /\ mark \in Nat /\ found \subseteq Answerers

\* client_driver.py 547-566: what a scenario reports rests on the answers to its
\* own requests, each taken once and in order, although an answer may come after
\* its scenario has ended, may be one of several to a retried request, and may
\* have been dropped by the stack and written down by the driver.
AnswersAreOwn ==
    \A k \in DOMAIN basis : basis[k].step = k /\ basis[k].scenario = basis[k].during

\* client_driver.py 789 and ClientDriver.java 537: the notification a
\* subscription passes with came after that scenario had begun, never before,
\* although the same process identifier was subscribed earlier.
NotificationsAreFresh ==
    stage = "listening" /\ scenario.service \in Subscriptions
        => \A k \in Counted : heard[k].during = at

\* What a tool's request would have to come to for the scenario to pass.  A Who-Has
\* cannot tell the target from another station with its device instance.
Meets(exchange, expect) ==
    \/ exchange = expect
    \/ exchange = "notified" /\ expect = "subscribed"
    \/ exchange = "namesake" /\ expect = "found"

\* client_driver.py 128-145, 180-207 and 797-814, for the driver that sees nothing
\* but the tools' output: a scenario passes only if what it asked for came of the
\* request and fails only if it was sent and something else did (or the empty list
\* bacge cannot decode); an infra-error is a tool that died, a device that did not
\* bind, a stranger's I-Am in a run with --target, or a silent BBMD.  A confirmed
\* request nobody answers is a fail, which docs/CLIENT_DRIVER_CONTRACT.md 152 and
\* the other two drivers call an infra-error.
VerdictsAreTrue ==
    driver = "bacnet-stack" /\ ran.scenario > 0 =>
        LET outcome == output[ran.scenario + 1].outcome
            asked == plan[ran.scenario]
            met == Meets(ran.exchange, asked.expect)
        IN /\ outcome = "pass" => met
           /\ outcome = "fail" => ~met /\ ran.exchange \notin {"unsent", "unbound"}
           /\ outcome = "infra-error" =>
                 \/ ran.exchange \in {"unsent", "unbound"} \/ ran.status = "killed"
                 \/ asked.service = "discover" /\ ran.exchange = "stranger"
                 \/ asked.service = "bvlc" /\ ran.exchange = "silent"
           /\ outcome = "known-difference" => asked.service = "remove" /\ ran.exchange \in {"ack", "error"}

\* docs/CLIENT_DRIVER_CONTRACT.md 50-51 and 134-158: every driver writes the
\* ready line, the scenarios' lines in file order whatever fails, and the counts,
\* and every run ends.
ContractIsKept == Contract!FairSpec
=============================================================================
