----------------------------- MODULE MCContainer -----------------------------
(* The images, the fixtures and environments they are started with. *)
EXTENDS Container

MCAdapters ==
    {"bacnet-stack", "bacnet-stack-router", "bip-router", "bacpypes3", "bacnet4j", "worldiety", "cbsigma", "sysiobacnet"}

Object(type, instance) == [type |-> type, instance |-> instance, data |-> "stream"]

Baseline == <<Object("analog-value", 1), Object("binary-value", 1), Object("analog-value", 2), Object("file", 1)>>
LifeSafety == <<Object("life-safety-point", 1), Object("trend-log", 1), Object("binary-value", 2)>>
NoData == <<[type |-> "file", instance |-> 1, data |-> "missing"]>>

StackFixtures ==
    {[complete |-> TRUE, objects |-> o] : o \in {Baseline, LifeSafety, NoData}}
        \cup {[complete |-> FALSE, objects |-> Baseline]}

Environments == [networks : {<<1, 2>>, <<1, 1>>}, addressed : BOOLEAN]

Device(objects, events, audits, calls) ==
    [complete |-> TRUE, instance |-> 1234, objects |-> objects, emitEvent |-> events, emitAudit |-> audits,
     emitMultiple |-> FALSE, role |-> "device", calls |-> calls]

From(client, kind, arg) == [client |-> client, kind |-> kind, arg |-> arg]
Write(type, instance, fits) == [object |-> <<type, instance>>, property |-> "value", fits |-> fits]
Describe(type, instance) == [object |-> <<type, instance>>, property |-> "description", fits |-> TRUE]
Range(low, high) == [low |-> low, high |-> high]
Filter(low, high) == [acknowledgment |-> "all", state |-> "all", event |-> "absent", low |-> low, high |-> high]

AV == <<"analog-value", 1>>

Reads == <<From("c1", "read", AV), From("c2", "read", AV), From("c1", "read", <<"trend-log", 1>>)>>
WriteCalls == <<From("c1", "write", <<Write("analog-value", 1, TRUE), Write("binary-value", 1, TRUE), Write("file", 1, TRUE)>>),
            From("c2", "write", <<Write("binary-value", 1, TRUE), Write("analog-value", 1, FALSE), Write("analog-value", 2, TRUE)>>),
            From("c1", "write", <<Write("analog-value", 2, TRUE)>>)>>
Enrollments == <<From("c1", "enrollments", Filter(0, 100)), From("c2", "enrollments", Filter(101, 255)),
                 From("c1", "reinitialize", 0), From("c2", "unconfirmed", 0)>>
Sessions == <<From("c1", "vt-open", 200), From("c2", "vt-open", 210),
              From("c1", "audit-query", 0), From("c2", "audit-query", -1)>>
Mixed == <<From("c1", "confirmed", 0), From("c1", "read", AV), From("c2", "write", <<Write("analog-value", 1, TRUE)>>)>>

Devices ==
    {Device(Baseline, TRUE, TRUE, Reads), Device(Baseline, FALSE, FALSE, WriteCalls),
     Device(Baseline, FALSE, FALSE, Enrollments), Device(LifeSafety, FALSE, FALSE, Sessions),
     Device(Baseline, TRUE, FALSE, Mixed),
     [Device(Baseline, FALSE, FALSE, <<>>) EXCEPT !.complete = FALSE]}

Alarms == <<Object("analog-value", 1), Object("binary-value", 1), Object("analog-input", 1),
            Object("notification-class", 1), Object("event-enrollment", 1), Object("event-enrollment", 2)>>
Twice == <<Object("binary-value", 1), Object("analog-value", 1), Object("analog-value", 1)>>
WrongValue == <<[type |-> "analog-value", instance |-> 1, data |-> "wrong"]>>

ReadsAndTexts == <<From("c1", "read", <<"event-enrollment", 1>>), From("c2", "read", AV), From("c1", "confirmed", 0),
                   From("c2", "unconfirmed", 0)>>
Multiples == <<From("c1", "cov-multiple", 0), From("c2", "cov-multiple", 0)>>

JavaDevices ==
    {Device(Alarms, TRUE, FALSE, ReadsAndTexts),
     [Device(LifeSafety, FALSE, FALSE, Multiples) EXCEPT !.emitMultiple = TRUE, !.complete = FALSE],
     Device(Twice, FALSE, FALSE, <<>>)}

StoreWrites == <<From("c1", "write", <<Write("analog-value", 1, TRUE), Describe("notification-class", 2), Write("analog-input", 1, TRUE)>>),
                 From("c2", "write", <<Write("binary-value", 1, TRUE), Describe("analog-value", 1)>>),
                 From("c1", "read", AV)>>
Searches == <<From("c1", "who-is", Range(0, 1233)), From("c2", "who-is", Range(1234, 4194302)),
              From("c1", "write", <<Write("analog-value", 1, FALSE)>>)>>

GoDevices ==
    {Device(Alarms, FALSE, FALSE, StoreWrites), Device(Alarms, FALSE, FALSE, Searches),
     Device(Baseline, FALSE, FALSE, <<>>), Device(WrongValue, FALSE, FALSE, <<>>),
     [Device(Alarms, FALSE, FALSE, <<>>) EXCEPT !.complete = FALSE]}

PropertyWrites == <<From("c1", "write", <<Write("analog-value", 1, TRUE), Write("binary-value", 1, TRUE)>>),
                    From("c2", "write", <<Write("analog-value", 1, FALSE)>>),
                    From("c1", "write", <<Write("binary-value", 1, TRUE), Write("binary-value", 1, FALSE)>>)>>
In(list, named) == [list |-> list, named |-> named]
Simulations == <<From("c1", "simulated", In("unconf", TRUE)), From("c2", "simulated", In("writes", TRUE)),
                 From("c1", "simulated", In("unconf", TRUE)), From("c2", "simulated", In("mgmt", FALSE))>>

CbsigmaDevices ==
    {Device(Alarms, FALSE, FALSE, PropertyWrites),
     [Device(Baseline, FALSE, FALSE, Simulations) EXCEPT !.role = "sim"],
     [Device(Baseline, FALSE, FALSE, <<>>) EXCEPT !.role = "router"]}

Subscriptions == <<From("c1", "subscribe", AV), From("c2", "read", AV),
                   From("c2", "write", <<Write("binary-value", 1, TRUE), Write("analog-value", 1, TRUE)>>),
                   From("c1", "write", <<Write("analog-value", 1, TRUE), Describe("file", 1)>>)>>
Management == <<From("c1", "unconfirmed", 0), From("c2", "reinitialize", 0), From("c1", "subscribe", <<"file", 1>>),
                From("c2", "write", <<Describe("analog-value", 1), Write("analog-value", 1, FALSE)>>)>>

Acknowledgements == <<From("c1", "acknowledge", AV), From("c2", "write", <<Write("analog-value", 1, TRUE)>>),
                      From("c2", "acknowledge", <<"analog-value", 9>>)>>

SysioDevices ==
    {Device(Baseline, TRUE, FALSE, Subscriptions), Device(Baseline, FALSE, FALSE, Management),
     Device(Alarms, FALSE, FALSE, Acknowledgements),
     [Device(Baseline, FALSE, FALSE, <<>>) EXCEPT !.complete = FALSE]}

MCConfigurations ==
    [a \in MCAdapters |->
        CASE a = "bacnet-stack" -> StackFixtures
          [] a \in {"bacnet-stack-router", "bip-router"} -> Environments
          [] a = "bacpypes3"    -> Devices
          [] a = "bacnet4j"     -> JavaDevices
          [] a = "worldiety"    -> GoDevices
          [] a = "cbsigma"      -> CbsigmaDevices
          [] a = "sysiobacnet"  -> SysioDevices]

MCOthers == {}
=============================================================================
