# Formal models of bacnet-interop

TLA+ specifications of the programs in this repository, the configurations TLC
checks them with, and proofs TLAPS checks. Paths are relative to the
repository root; `adapters/...` is where the programs live.

## 1. Inventory

bacnet-interop packages BACnet/IP peers as containers: device servers, routers
and client drivers built on different upstream stacks, so that a stack under
test can be run against all of them. The programs talk to each other only
through BACnet/IP datagrams, and to the test harness only through JSON lines on
stdout, exit codes and signals. Each container holds one program.

| Component | State it keeps | Operations | How it interacts |
|---|---|---|---|
| sysiobacnet device server (`adapters/sysiobacnet/src/DeviceServer.cs`, `DeviceModel.cs`) | object storage, priority arrays, alarm states, COV subscriptions, FIFO of notifications, emit-once flag | read, write, write multiple, subscribe, cancel, acknowledge, event information, ReadRange, files | handlers on thread-pool threads exclude one another with `_gate`; one notifier thread sends the queue without it |
| bip-router (`adapters/bip-router/bip_router.py`, `entrypoint.sh`) | two ports, return paths with a 30 s lifetime | find addresses, start, stop; forward global, remote and local broadcasts, unicasts, replies; Who-Is-Router | one thread, UDP on two networks, signal handlers between its steps |
| worldiety device server (`adapters/worldiety`) | object store behind locks, seeded log | load, start, stop; read, write, write multiple, discovery, ReadRange | the upstream dispatcher calls its handlers, `main` waits for a signal or the end of the runtime |
| bacnet-stack device server (`adapters/bacnet-stack/device_server.c`, `run_server.py`) | C object tables; supervisor with child, pipe and port table | shims for audit and life-safety services; spawn, readiness, signals, line forwarding | supervisor and child share a pipe and signals |
| bacnet-stack router (`adapters/bacnet-stack-router/run_router.py`) | child process | spawn, readiness, signals | as above; the router is upstream code |
| bacpypes3 device server (`adapters/bacpypes3/device_server.py`) | upstream objects, emit-once flags | write multiple, enrollment summary, audit, triggers | one event loop, a coroutine per request, other coroutines at every await; a task for the audit notifications |
| BACnet4J device server (`adapters/bacnet4j/.../DeviceServer.java`) | upstream local device, emit-once flag | lifecycle, COV-multiple notifications, triggers | `main`, the stack's transport thread that calls the listeners, a sender thread per COV-multiple request |
| client drivers (`adapters/{bacnet-stack,bacpypes3}/client_driver.py`, `ClientDriver.java`) | scenario list, summary, binding, dropped answers, notifications heard | start, bind, discover, ask, subscribe, classify, report | messages with the device under test; lines and exit code for the consumer (`docs/CLIENT_DRIVER_CONTRACT.md`) |
| cbsigma (`adapters/cbsigma`) | five counters into the simulator's lists | start, stop; report writes (device) or what the lists gained (sim) | callbacks of one upstream library, lists shared with another under its lock |
| fixtures, schemas, scripts, workflows | data | validation, packaging, smoke tests | no run-time state |

What is hard, by component, and what makes it correct:

* **sysiobacnet.** Handlers run concurrently with the notifier; one write raises
  nested changes of value, each notified from its own snapshot; subscriptions
  expire by the clock but are removed lazily; WritePropertyMultiple fails in the
  middle. Correct means: one subscription per key, nobody notified who is not
  subscribed, nobody left with an old value, storage and alarm state agreeing,
  events in the order of the transitions, the gate always released.
* **bip-router.** Datagrams are lost, reordered, duplicated and retried while
  return paths are overwritten and run out. Correct means: nothing sent where
  its receiver is not, replies to the client that asked, sources that tell the
  truth, requests answered in the end.
* **ReadRange.** Interval arithmetic at the ends of the log and of the integer
  range, twice, in two languages, and a client that relies on several answers
  fitting together.
* **Supervisors.** Signals before the handlers exist, a child that dies or never
  binds, readiness read from a shared table, lines still in the pipe when the
  child is gone. Correct means: the ready event is true and first, every operation
  line is passed on once and in order, a failed start ends with a failure code, every
  stop ends both processes, and what is served is what was configured.
* **Single-process devices** (bacpypes3, BACnet4J, worldiety, cbsigma, and sysiobacnet from
  its start to its end). Handlers of several
  requests meet at awaits, between threads, or between two locked sections; requests are
  served while the program still starts. Correct means: every request has one answer,
  a truthful one; the operation's line is written once, before the answer by bacpypes3 and
  BACnet4J, and only after an acknowledgement where sysiobacnet answers first; what is to be
  emitted once is emitted once and not before the answer that triggers it;
  notifications of one request keep their order among those of others.
* **Client drivers.** The device under test answers late, twice, undecodably or
  not at all, invoke identifiers come around, notifications of one subscription
  arrive during the next. Correct means: one result for every scenario in file
  order whatever happens in it, a true summary, an end; and no scenario judged
  by what belongs to another.

## 2. Plan

1. `SysioDevice`, its runs and proofs — done.
2. `BipRouter`, composed with the network in `BipNetwork`, its runs and proofs — done.
3. `ReadRange` of two servers against one definition, its runs and proofs — done.
4. `DeviceMode`, the container contract in device mode; `Supervisor`:
   `run_server.py` and `run_router.py` with child, signals and port table;
   composed in `Container`, which implements `DeviceMode`; runs and proofs — done.
5. `ClientRun`, the abstract run protocol of the client contract, and `ClientDriver`,
   the three drivers as implementations of it (refinement), with `ClientTools`, what the
   bacnet-stack driver reads off its tools; runs and proofs — done.
6. `DeviceProcess`, `Bacpypes3Device` and `Bacnet4jDevice`: emit-once triggers,
   WritePropertyMultiple with awaits, the COV-multiple sender threads; proofs — done.
7. `WorldietyDevice`, `CbsigmaDevice`, `SysioProgram`, `RouterProgram`: loading, start and
   stop, the handlers that meet them; proofs — done. The main loop of `device_server.c` is left.
8. An abstract COV service (every subscriber eventually holds the latest value)
   implemented by `SysioDevice` — left.

Every safety property a passing run checks is a theorem (section 5). Of the plan are
left: the COV service of 8 and `SysioDevice`'s refinement of it, the audit and life-safety
handlers and the main loop of `device_server.c`.

## 3. The modules

### SysioDevice, MCSysioDevice, SysioDeviceProofs

| Model | Code |
|---|---|
| `store`, `commands` | `DeviceStorage`: property values, Priority_Array (the class is in the NuGet package; modelled from its use in `Write`) |
| `alarm` | `DeviceModel.Alarms` |
| `subs` | `_subscriptions` |
| `queue`, `notifier` | `_notifications` and the thread that drains it |
| `stage`, `caller` | who holds `_gate` and how far it is; `_requester` |
| `emitted` | `_emitted` |
| `told`, `written`, `fresh`, `initial` | what each subscriber was last sent, and where in its handler the holder of the gate stands |

A request is one action when nobody can observe its middle. It is split where
the notifier thread can run between two of its effects: each write of a
WritePropertyMultiple and the answer that follows (`BeginWrite`, `PerformWrite`,
`RefuseWrite`, `Reply`), a subscription's acknowledgement and its initial
notification (`Subscribe`, `QueueInitial`), an acknowledgement's storage write and its
answer. `PerformWrite` includes everything `DeviceStorage.ChangeOfValue` sets off:
the evaluation of the alarm, its three nested storage writes and the
notifications of all four, in the order the code queues them.

`Tick` lets time pass; lifetimes are counted down in ticks of `TicksPerSecond`
per second, which is what `TimeRemaining` truncates. The time stamps of
transitions are abstracted to one bit of a request: whether it carries the
right one.

### BipRouter, BipNetwork, MCBipNetwork, BipNetworkProofs

`BipRouter` has one action per outcome of `Router.handle`; `wire` holds the
datagrams in flight, one per receiver of a broadcast, as a set, so that they
overtake one another and, with `Duplicating`, arrive twice. A header is a record
of the four specifiers and the hop count; the APDU is an opaque body.
`BipNetwork` adds what surrounds the router: clients that look for it, ask and
ask again, devices that answer in one of three styles, and loss. The stations
are external to this repository's sources and modelled from the router's
documentation and `PEER_SUPPORT.md`.

A request may have several ways to travel (`Ways`): what the paths and the
replies of one mix with those of another. Two consequences of the final delivery without SNET/SADR show in the model and
are worth knowing: a device that routes its replies has nothing to route by, and
the reply of such a device to a broadcast carries the router as its source.

### ReadRange, MCReadRange, ReadRangeProofs

The two servers' range selections are operators written next to each other with
each one's own arithmetic: `Wrap` is an unchecked C# int, `long` and Go's int do
not overflow at the magnitudes that occur. `Selected` is the definition both are
compared with: the records on the requested side of the reference and, of those,
the |count| nearest. sysiobacnet puts a sequence number into every answer, worldiety only
into one by sequence number or time that has records; `NoSequence` stands for none. A client without a plan sends any one request; a client with
one reads the log page by page, each request made from the answer before it.

### ClientRun, ClientTools, ClientDriver, MCClientDriver and their proofs

`ClientRun` is what `docs/CLIENT_DRIVER_CONTRACT.md` promises the consumer:
nothing and a non-zero exit code, or a ready line, one result for each selected
scenario in file order and a last line that counts them, and an end.

`ClientDriver` is all three drivers, with `driver` naming the one that runs; what
the drivers share is one action, where they differ the action says so.

| Model | Code |
|---|---|
| `output`, `exit`, `summary` | the lines written, the exit code, the counts kept as they are written |
| `failed`, `bound`, `refused` | `start_error` / `registration`; `Env.bound` / `bound`; `Env.bind_detail` |
| `stage` | where the driver is: between scenarios, in `bind_target`, about to send, in `confirmed`, collecting I-Ams or notifications |
| `request`, `used` | the confirmed request in the stack's hands, its invoke identifier |
| `dropped` | `ClientApplication.undecodable` |
| `heard`, `mark`, `found` | `cov_notifications` / `covs` and the place a subscription looks from; `i_ams` / `iAms` |
| `ran` | not in the code: bacnet-stack's last tool and what came of its request, for `VerdictsAreTrue` |
| `basis` | not in the code: the answers the scenario took, for `AnswersAreOwn` |
| `wire` | the datagrams under way |

A scenario is a record of what control depends on: a service, what is expected,
and the COV process. Services the drivers treat alike are one: `write` is any
service with one acknowledgement, `list` AddListElement, `store` and `pages` the two
file services (the second is read until its end), `events` GetEventInformation,
`object` the creation and deletion of objects, `stamped` an AcknowledgeAlarm that
reads the event's time stamp first, `multiple` ReadPropertyMultiple, which
bacpypes3 sends through a helper of its own, `remove` RemoveListElement, which
stands for what the stacks are known to get wrong, `sent` any unconfirmed request,
`bvlc` the broadcast tables. The stacks are external: they match an answer to a
request by the identifier, retry, and give up after the last retry, and those are
the only things assumed of them. The identifiers of a stack come around after 256
requests; the model lets them come around after `Ids` and takes away what is still
under way from the last use of an identifier, which 256 requests outlast.

bacnet-stack has no stack of its own in the driver but a command-line tool per
request. `ClientTools` says what can come of a request (`Exchanges`), what each tool
prints of it and how it exits (`Prints`: external, from the patterns the driver
looks for and `PEER_SUPPORT.md`) and, operator by operator, what the driver makes of the text
(`Died`, `Answered`, `ValueIn`, ..., `Reading`). `RunTool` puts them together, so
that `VerdictsAreTrue` relates the line that is written to what the device did.
Discovery is two services: `discover` is a Who-Is of a run with `--target`, whose I-Ams are
checked against that address; `discover-any` is a Who-Has, or a Who-Is without `--target`, whose
answers are taken from anyone, another station with the target's device instance (`namesake`)
included. `AskAnyone` is the second with the other two drivers.

### DeviceMode, Container, MCContainer, ContainerProofs

`DeviceMode` is what `docs/CONTAINER_CONTRACT.md` promises whoever starts a container in
device mode: a ready event after the sockets are bound, then a line for each operation
performed, in order, and an exit code. `Container` is one container of any of
the eight images, named by `adapter`, started with any of its `Configurations`; the images'
modules are composed by disjunction, for a container runs one of them. `Adapter` has
what they share: fixture, standard output, exit code, served objects.

`Contract` is `DeviceMode` with `bound`, `performed` and `lines` read off each image's
state, and `ContractIsKept` its specification as a property.

### Supervisor

| Model | Code |
|---|---|
| `stage` | where `main` of `run_server.py` / `run_router.py` is |
| `polls`, `Look`, `Seen` | the readiness loop over `/proc/net/udp` (`port_bound`, `local_ports`) |
| `connected`, `ports`, `Resolve` | the interfaces as the container is connected to its networks, and what `run_router.py` resolves them to |
| `child`, `code`, `sockets`, `term` | the child process: `device_server.c`, or the upstream router |
| `pipe`, `Bridge`, `BridgeEnds`, `broken` | the child's standard output and the loop that passes operation lines on; `broken` when a line cannot be decoded |
| `performed`, `written`, `asked` | operations and lines of the child; whether the container heard SIGTERM |

`ServerArgs` is the argument list made of a fixture, `Built` what `device_server.c`
makes of it: the objects of the arguments, its defaults for missing ones, and `StackObjects`, which
`Interop_Object_Table` (`device_server.c:93-161`) has the stack initialise with every fixture: the
network port, notification classes 0 and 1 and trend log 0 (`bacnet-stack/README.md:184, 198-211`).
SIGTERM is an action possible
between any two steps once the handlers are installed; before that the first process
of a container does not hear it. The child may fail, bind, write, block in a full
pipe, stop or crash at any moment.

### RouterNetworks, RouterProgram

`RouterNetworks` has what both router images share: `connected`, the networks in the order
the container got them, and `ports`, the network each port of the configuration came
to be on. `RouterProgram` is bip-router's `entrypoint.sh` and `main`: `Addresses` are the ones
it is given (both, or neither counts) or those of eth0 and eth1, `open` the ports whose
socket is open, `running` the flag of `Router`. `StopRouter` is the signal handler, possible
between any two steps once it is installed; `BindsPort` fails for an address the
container does not have. What the router forwards is in `BipRouter`.

### DeviceProcess, Bacpypes3Device, Bacnet4jDevice, WorldietyDevice, CbsigmaDevice, SysioProgram

Their proofs are in `DeviceServiceProofs` (types, writes) and `DeviceMessageProofs` (answers,
notifications, lines).

`DeviceProcess` has the state of an image whose first process is the device: `phase`
of the program, `at` and `place` of each request's handler, `log` of the writes carried
out, `sent` (answers and notifications), `told` (operation lines), `event` (the emit-once
flag), and the steps the programs share. A configuration lists the requests that will
arrive (`calls`), in any order and overlapping.

| Image | An action is | Threads |
|---|---|---|
| bacpypes3 | what runs between two awaits | one event loop: `Program` is `main`, `Handle` a coroutine of a request, `EmitAudit` the audit task |
| BACnet4J | what another thread cannot see the middle of | `Main`, `Transport` (one request at a time: listeners, answer, queue), `Sender` of each COV-multiple request |
| worldiety | an access under a lock, or an answer | `Run` is `run` in `main.go`, the handlers may run at once |
| cbsigma | a callback, a look at the lists under their lock, or a line | `CbsigmaMain`, the stack's goroutines (`UpstreamRuns`), `ReportSim` |
| sysiobacnet | one write under `_gate`, another handler, or a notification | `SysioMain`, `SysioHandlers` (one at a time holds `gate`), `SysioNotifier` |

BACnet4J, cbsigma and sysiobacnet serve requests before the ready event (`ServesEarly`): `told`
has every line, `lines` those a consumer sees who skips to the ready event. BACnet4J does
so from `initialize` on, before its listeners are registered: `early` has those requests.

`CbsigmaDevice`: `recorded` is what each of the simulator's five lists holds, `counted` how
far `reportSim` has looked into each, `batch` what it has taken from them and not yet
reported. A look takes from every list what came since the last one.

`SysioProgram` is the program around `SysioDevice`, with as much of the server as its end
can disturb: `Dispose` closes the queue of notifications, and a handler that is in the
middle of a WritePropertyMultiple may meet it closed (`WriteThrows`). Alarms, expiry and the
values are in `SysioDevice`, which does not stop. `AcknowledgeAlarm` and `SysioTells` are here for
the order of answer and line: whether an acknowledgement is accepted, which the alarm decides there, is
free here.

`Refuse` answers with an error that names the failed write or, with `{}`, none: only worldiety's
handler of WritePropertyMultiple names it (`encodeWPMError`); sysiobacnet's and bacpypes3's errors
have class and code only (`DeviceServer.cs:370-374`, `PEER_SUPPORT.md:326-330`), and of the errors of
cbsigma's stack nothing is said. The WritePropertyMultiple of bacnet-stack and BACnet4J is their stacks'.

## 4. The runs

| Run | Configuration | Shows |
|---|---|---|
| sysio_tables | `SysioDevice_tables.cfg` | table, storage and alarm agree; nobody left with an old value; only live subscribers notified; every write evaluated |
| sysio_clients | `SysioDevice_clients.cfg` | two clients over objects with and without an alarm, refused and cancelled subscriptions: events in transition order, subscribers catch up with the storage, the gate is released |
| bip_pairs | `BipNetwork_pairs.cfg` | two clients and two devices, one client asking in every way, the other by unicast: deliverable datagrams, replies to the client that asked, true sources |
| bip_retry | `BipNetwork_retry.cfg` | a unicast request is answered in the end, over loss and duplicates |
| client_runs | `ClientDriver_runs.cfg` | three drivers, nine scenario files, loss, delay, retries, tools that fail, crash or print nothing: every run is a run of the contract and ends, every result rests on its own scenario's answers and notifications, and a verdict of bacnet-stack's is a pass only if what was asked for came of the request, and a fail only if it was sent and something else or nothing came of it |
| containers | `Container.cfg` | eight images, 33 configurations, 473,327 states, a child or handlers that fail, stop or crash anywhere: the container contract, ends of starts and stops, objects and networks as configured, once-only notifications, lines and answers in each image's order, truthful answers, every request answered |
| range_requests | `ReadRange_requests.cfg` | every request of every form, both servers, real log sizes; a paging client reads each record once and stops |

`ContractIsKept` is `ClientRun`'s whole specification as a property of `ClientDriver`:
each step of a driver is a step of the contract or none, and the run ends. Of `Container`
the property of that name is `DeviceMode`'s specification.

Runs that find a disagreement between a comment or document and the program:

| Run | Statement | What happens |
|---|---|---|
| sysio_reply_order | `DeviceServer.cs:935`: events go out after the reply | the notifier does not wait for the gate and can be first |
| sysio_ack | `DeviceServer.cs:996`: the state the transition led to | the current state is compared; an alarm that went back to normal cannot be acknowledged any more |
| bip_shared | `bip-router/README.md:17`: the reply goes to the originating client | one path per device: with two clients it goes to the later one |
| bip_assist | `bip-router/README.md:16`: assist for peers that reply without DNET/DADR | not for broadcasts, whose direct replies are dropped |
| range_overflow | `DeviceServer.cs:645`: the count records newer than the time | the 32-bit sum wraps for the largest counts |

More disagreements have no run:

* `sysiobacnet/README.md:97` says that a value above the limit is high-limit,
  otherwise normal; a write to High_Limit, which is writable, is not followed by an
  evaluation (`DeviceServer.cs:542`).
* `docs/CLIENT_DRIVER_CONTRACT.md:168-170` says the exit code is non-zero when the
  driver could not run; the bacpypes3 driver whose stack does not start writes the
  ready line, an infra-error for every scenario, and exits 0 (`client_driver.py:1289-1313`).
* `docs/CLIENT_DRIVER_CONTRACT.md:152` says a timeout before the first reply is an infra-error, and the
  bacpypes3 and BACnet4J drivers report an unanswered request so; bacnet-stack's takes the tool's
  "TSM Timeout" for an observation, compares it with what the scenario expects and reports a fail
  (`client_driver.py:205-206, 807`). `VerdictsAreTrue` allows exactly this.
* `docs/CLIENT_DRIVER_CONTRACT.md:69-72` says the driver checks that the device's I-Am came from
  `--target`; in the bacnet-stack driver only `who_is` does, and only if `--target` is given
  (`client_driver.py:330`): `who_has` (336-344) never looks at who sent an I-Have, and the tools of all
  other services bind to whichever station answers for the device instance. A Who-Has can pass
  with another station's answer, which `VerdictsAreTrue` allows by name (`Meets`).
* a test that looks for an operation's line when it has the answer may look too early: sysiobacnet
  answers ReinitializeDevice and AcknowledgeAlarm before it writes their lines
  (`DeviceServer.cs:1011-1012, 1035-1036`), and `device_server.c` its life-safety operations (340-341) and
  audit queries (547-549).
* `docs/CONTAINER_CONTRACT.md:11` says the ready event is the first line; BACnet4J
  (`DeviceServer.java:416-458`), sysiobacnet (`Program.cs:92`) and cbsigma (`main.go:62-73`)
  serve requests before they write it, and an operation line can come first.
* the same line says the ready event is written once the socket is bound; a bip-router told to
  stop while it starts closes its sockets and still writes it (`bip_router.py:443-454`).
* `bacnet4j/README.md:258` lists the lines of BACNET_EMIT_COV_MULTIPLE "in this order";
  the acknowledgement's is written by the transport thread and can come before the
  sender's "confirmed sent" (`DeviceServer.java:870-893`).
* worldiety stores an event-enrollment as a notification class (`load.go:111-114`)
  and `Store.Add` replaces an object with the same key (`model.go:75-82`): a fixture with
  both of one instance serves the later one only.

### Bounds

* `MaxWrites` writes in one WritePropertyMultiple (two suffice for a failure
  after a success) and `MaxQueue` notifications before a handler starts: a
  handler itself queues as many as the code does.
* Two or three values with one between them as limit: above and not above are
  all the alarm distinguishes. One or two clients, one process identifier or two,
  one to three objects: the table's key is compared by equality only.
* Lifetimes of 0 and of one or two ticks: indefinite, running and run out.
* Two networks (the program refuses any other number), two clients and two
  devices, requests sent again while fewer than `MaxWire` datagrams are in flight;
  hop counts from 1 to `MaxHop`; return paths that stay open for `TTL` ticks after
  the one they are made in. bip_pairs has no duplicates beyond the copies a
  retrying client sends itself; bip_retry has both.
* Logs of 4 and 36 records, as seeded. Seven bits stand for the 32 of a count:
  the properties depend on the width only through the two ends of the range, and
  36 positions are well inside it. range_requests uses every count, except by
  time and of sysiobacnet the three largest ones, where its sum overflows: those
  are range_overflow's. The reference time runs over every record's time stamp and the instants between.
* Files of two or three scenarios: what one scenario leaves behind for the next
  is the subject, and each file puts the kinds that could disturb one another
  in a row. Two identifiers, so that one is used again while an answer to its
  first use is still remembered; one retry; two reads to the end of a file; two stations
  that answer a Who-Is, the target and an impostor.
* Containers: three looks stand for the supervisors' 100 and for 15 s of the
  router's, two lines fill the pipe and four are written, so that a child is met
  before, at and after the last look, and blocked in a write. A device gets up to four requests,
  three of them of the kind that could disturb one another. `Others` is empty: no other
  process in the container has the port (with one, `Seen` is true of it). SIGINT, which
  the programs treat like SIGTERM, is left out.
* A reference time with an unspecified field is asked of worldiety only: how the
  C# stack decodes one is upstream code.

Deadlock is checked for `SysioDevice`. It is not for `BipNetwork`, which stops
when every request is answered and nothing is in flight, nor for `ReadRange`,
where the client stops after its answer or at the end flag, nor for
`ClientDriver` and `Container`, which end with an exit code.

### Fairness

`SysioDevice`: weak fairness of a handler that holds the gate (a C# `lock` block
runs to its end; every path catches or answers) and of the notifier thread (its
loop catches every exception and the stack bounds the wait for a confirmed
notification by its timeout and retries). No fairness for requests or the clock.

`BipNetwork`: clients retry (weak fairness); of the copies of a datagram sent
again and again some arrive (strong fairness of each hop), which includes that a
device answers while the return path is open — 30 s against the milliseconds a
device takes. Without the last the code promises nothing: a device slower
than the path would never be heard.

`ClientDriver`: weak fairness of the driver alone, none of the network or the
device. Every wait of a driver has a deadline (`request_s`, `timeoutMs`, the tools'
timeout), and a driver's step is enabled in each of its stages.

`Container`: weak fairness of what runs by itself — the supervisor's steps (its
waits are bounded by sleeps and a pipe that reaches its end), the reaction of a child
to SIGTERM (unless it is blocked in a write), bacpypes3's program and event loop,
BACnet4J's main, transport thread and senders, worldiety's `run` and its handlers, cbsigma's
`run`, `reportSim` and upstream goroutines, sysiobacnet's `Main`, handlers and notifier,
bip-router's `main`. None for signals, for a child that binds, fails or crashes, for the runtime's failure or for requests.

`ReadRange`: the paging client goes on while it has something to ask.

## 5. What is proved

The theorems hold for every value of the constants that satisfies the modules'
assumptions: any objects, requests, fixtures, clients, lengths and bounds. TLC evaluates
the assumptions on every run. Six theorems have a hypothesis of their own, stated with them and explained
below: `PortIsItsOwn`, `SumsStayInRange` or `OneClientPerDevice`. Each marks the limit of what
the code does, and the run that checks the property satisfies it.

Every proof has the same form: an invariant that implies the property, a lemma per action
(or per handler) that it is kept, and a last step by temporal logic. The parts are named
after what they say.

### SysioDeviceProofs

Assumed: `ConstantsAssumption`, and `NullAssumption`, that no snapshot is the value that
stands for none.

* `TypeCorrect`: `Spec => []TypeOK`, one lemma per action.
* `UniqueSubscriptions`: `Spec => []OneSubscriptionPerKey`. Inductive with the
  types: the table only shrinks to its live part, loses a key, or replaces
  all entries of one key with a single one.
* `StorageIsConsistent`: `Spec => []StorageShowsTheAlarm`. The three nested writes
  re-establish what the assignment to the alarm state breaks.
* `WritesAreEvaluated`: `Spec => PresentValueIsEvaluated`, an action property; it
  needs `StorageShowsTheAlarm`'s invariant to know that a step which is not a
  transition leaves an alarm that already agrees.
* `NotifiedAreSubscribed`: `Spec => OnlyLiveSubscribersNotified`, an action property: of each
  step, what it adds to the queue is of live subscriptions.
* `EventsInOrder`: `Spec => []EventsFollowTheAlarm`, from `EventsInv`: the queued events
  of an object follow one another from state to state, and the last led to the state the
  object is in. That an event is queued alone (`EventsAreAlone`) makes taking the head
  of the queue take one link of the chain.
* `NewsIsCurrent`: `Spec => []LatestNotificationIsCurrent`, from `NewsInv`: the newest
  notification about a live subscription, or what it was told when none is queued, has the
  values of the storage. A write keeps it because `ChangeOfValue` queues for everything the
  write changed, nested writes included; exempt is a subscription whose initial notification
  its handler has still to queue.
* `QueueDrains`: `Spec => NotifierComesNearerToTheEnd`, from `FiniteInv`: every entry of the
  queue is finite, because the table it is drawn from is. So there is always a notification
  to send while the queue is not empty, and each step of the notifier thread takes an entry off,
  makes the one in front smaller or ends a wait, while it touches neither storage nor table.
* `DrainedMeansCaughtUp`: where that ends, every live subscriber was last told what the storage
  holds. The two are what `SubscribersCatchUp` rests on besides fairness.

### BipNetworkProofs

Assumed: `RouterAssumption` and `NetworkAssumption`.

* `TypeCorrect`, `AlwaysDeliverable` and `SourcesAreTrue`. Neither of the last two is
  inductive alone. The invariant `Inv` adds, for every datagram in flight, that its source
  specifier names a station and the network it is on, that a reply is sent by its author or
  carries its author as source, and for every return path that it leads from a device's
  network to a station of the other one.
* `RepliesComeBack`: `Spec => []RepliesReachTheirClient` if `OneClientPerDevice`: all
  who ask one device by unicast are one client. (Requests that may also be broadcast are
  not claimed to be answered this way, and matter only where they share a device with one
  that may not.) Without it there is a counterexample (bip_shared). `StraightInv` says where a unicast
  request and its reply can be (client to router, router to device, and back), that nothing
  but a unicast request is addressed to a device through the router, and that the path of
  a device leads to a client that asks it. Neither loss nor duplicates, nor a path that ran
  out, disturb it; broadcasts cannot, because they leave no path.

### ReadRangeProofs

Assumed: `PeersAssumption`, `FormsAssumption`, `WidthAssumption`, and `PowersAssumption`, two
facts about powers of two, which the provers do not know.

* `AnswersAreExact`: `Spec => []AnswerIsExact` if `SumsStayInRange`: the one sum of
  sysiobacnet's that can leave 32 bits does not (range_overflow is what happens if it
  does). The records a server takes are an interval, and the definition asks for the
  nearest |count| of the eligible ones; lemmas per form say which interval that is, and how
  many are nearer than each of its members.
* `WalksReadOnce`: `Spec => []WalkReadsEachRecordOnce`, under the same hypothesis. `ReadInv` says of
  a client that walks that it holds one end of the log, and all of it exactly when the last
  answer had the flag of the end it walks to.
* `PagesMakeProgress`: `Spec => EachPageBringsMore`, under the same hypothesis: an answer taken on a
  walk adds at least one record, and never more than the log has. `WalksEnd` needs this besides
  fairness: a page without a record would be asked for for ever.

### ClientDriverProofs, ClientToolsProofs

Assumed: `ClientAssumption`: any scenario files, identifiers, retries and stations; and
`NoneAssumption`, that no answer is the value that stands for none.

* `ContractSafety`: `Spec => Contract!Spec`, the refinement of `ClientRun` without its
  fairness. The invariant it needs is that `summary` is the count of the result
  lines written so far (`CountsResult`, `CountsOther`), for the last line reports
  the one and the contract asks for the other.
* `OwnAnswers`: `Spec => []AnswersAreOwn`. The inductive part is `AskedInv`: whatever
  could be taken for an answer to the request that is out, under way, handed
  over or dropped, is one. It holds because an identifier is cleaned up before
  it is used again.
* `FreshNotifications`: `Spec => []NotificationsAreFresh`, from `FreshInv`: all
  notifications a subscription looks at came during it, since its beginning
  either forgot or skipped the earlier ones.
* `TrueVerdicts`: `Spec => []VerdictsAreTrue`, from `VerdictsInv`: the tool's scenario
  is one whose line is written, and the line of a scenario stays what it was. A pass means that what
  was asked for came of the request (of a Who-Has, or a Who-Is without `--target`, from any station), a
  fail that the request was sent and something else came of it or, of a confirmed one, no answer;
  an infra-error that the tool died, nothing bound, a stranger answered a Who-Is of a run with `--target`,
  or the BBMD was silent.
* `RunsAreFinite`: `Spec => RunsComeNearerToTheirEnd`. What a driver has left is measured by four
  numbers, the earlier ones weighing more: its lines, the part of the scenario it is in, the requests
  of that part and the tries of the request. Every step of a driver lowers the measure, and the
  network, whatever it loses or repeats, never raises it. `LimitsInv` keeps requests and
  tries within their limits, without which they would not be numbers. So no run is without end,
  whatever the devices answer; that the driver takes its steps is fairness.
* `TypeCorrect`.
* `ReadingIsFaithful`, of `ClientToolsProofs`: for every service, exchange and output a
  tool may produce, the driver's reading is what came of the request, or "nothing can be
  said" where that is so; a namesake of the target is read as the target, which is all that the text
  of a Who-Has tells. `TrueVerdicts` rests on it.

### ContainerProofs

Assumed: `PollsAssumption`, that a supervisor looks at least once.

* `LifecycleHolds`: `Spec => []LifecycleInv`, what the others rest on. `ProcessInv` ties the phase
  of an image that is one process to its lines, sockets and exit code; `SupervisorInv` the
  supervisor's stage to its child; `PipeInv` says the pipe holds exactly the operations between
  the last line passed on and the last one performed, which is why the bridge keeps the order.
* `ContractHolds`: `Spec => ContractIsKept`, the refinement of `DeviceMode`, step by step, if
  `PortIsItsOwn`: no other process in the container has the child's port. `run_server.py`
  reads a table that does not say whose a port is, so with one that does it can write the
  ready event before the child has bound.
* `FailuresAreReported`: `Spec => []FailedStartsAreReported`.
* `RoutesHold`: `Spec => []RoutesTheRightNetworks`, from `PortsInv`: where the addresses are
  configured, the ports are unresolved or the two networks in their order, and they are
  resolved when the ready event is written; for both router images.
* `FixturesAreServed`: `Spec => []ServesItsFixture` if `PortIsItsOwn`, from `ObjectsInv`: an
  image serves what its stack has of the fixture from the phase on in which it has built all of
  it, and `device_server.c` from its first socket on. Besides these there are only the objects of the
  stack itself: the network port of bacpypes3 and bacnet-stack, and bacnet-stack's notification classes and
  trend log (`StackObjects`). So what the property excludes is an object of the fixture's own types that the
  fixture does not have, as `device_server.c`'s defaults are. The hypothesis excludes a ready
  event before the objects are there.

### DeviceServiceProofs, DeviceMessageProofs

Assumed, besides the above: `CallsAssumption`, what a client can send: a sequence of writes,
session identifiers and priorities that are octets, natural numbers as the ends of a range.

* `TypeCorrect`: `Spec => []TypeOK` of `Container`, for all eight images.
* `WritesAreAnsweredTruly`: `Spec => []MultipleWritesAreAnsweredTruly`. `MultipleInv` says that the log
  holds of each request its writes up to where its handler is, in order (`SoFar`), whatever others
  are logged between, and each of them one the device accepts (`Accepted`); an answer is given at the
  end or at the first write that is not accepted, and an error that names a write names that
  one, which worldiety's does when there are several (`Blames`). That what is accepted stays so needs
  that what a device serves does not change while it answers (`ServesOn`); `QuietInv`, that nothing
  is answered twice. It rests on `AboutInv`, which says which request's kind is in which queue or handler.
* `AnswersBelongToRequests`: `Spec => []AnswersTellTheirRequests`, from `AnswersInv`: the body of such an
  answer is the one its request has, whatever was asked and answered between.
* `EnrollmentsArePartitioned`: `Spec => []EnrollmentAnswersPartition`, from the same fact about answers
  and that one side's bound is the other's.
* `FoundOnce`: `Spec => []DeviceIsFoundOnce`, from `FoundInv`: an I-Am answers a Who-Is whose range has
  the instance, each such Who-Is that is done has one, and none has two.
* `NotifiedOnce`: `Spec => []NotificationsFollowOneRead`. `NotifyInv` follows the one event from where the
  flag is set through the queues (`EventInv`), bacpypes3's two audit notifications through its
  task (`AuditInv`), and BACnet4J's from the second listener behind the answer
  it waits for (`AfterInv`).
* `PairsAreInOrder`: `Spec => []CovNotificationsComeInPairs`. `PairInv` places a sender against what it
  has sent, `PairLinesInv` against the lines it and the transport thread have written.
* `SimulatorReports`: `Spec => []SimulatorIsReported`. `SimulatorInv`: each request is in one list and once
  (`ListsInv`), what has been taken from the lists waits in their order (`BatchInv`), and what has
  been reported was taken earlier, in that order too, with nothing left out between them
  (`ReportedInv`).
* `LinesInOrder`: `Spec => []LinesAndAnswersAreInOrder`. It says which order each image keeps.
  bacpypes3's and BACnet4J's operations have their line before their answer (`ToldFirst`; not what
  BACnet4J receives before its ready event, and bacpypes3's ReinitializeDevice has no line);
  sysiobacnet's ReinitializeDevice and AcknowledgeAlarm are answered first (`AnsweredFirst`): their line
  comes after an acknowledgement, never without one, and when the handler has returned it is there.
  `TellInv` says for every place a handler can be at whether its line is written (`HeardInv`,
  `AuditLinesInv`, `WrittenInv`) and, of the second kind, whether it is acknowledged (`AnsweredInv`), that
  no line is written twice but cbsigma's, one for each write of a request (`OnceInv`), and that no answer of the
  first kind was sent at a place where its line is not (`AcksInv`). bacnet-stack's lines are only counted
  (`Supervisor`), so nothing is said of it here.

`tlapm <module>.tla` checks each proof from the definitions and the library's
theorems.

### Only model-checked

* Liveness: `SubscribersCatchUp` and `GateIsReleased` of `SysioDevice`, `RequestsAreAnswered`
  of `BipNetwork` and of `Container`, `WalksEnd`, `StartsEnd`, `StopsEnd` and `OperationsAreForwarded`, and
  the ends that `ContractIsKept` of `ClientDriver` promises. The provers have no method
  for fairness, which is stated with ENABLED. Of three of them the part that is not
  temporal is proved, as an action property: that the steps which are to happen come nearer to
  the end (`QueueDrains`, `PagesMakeProgress`, `RunsAreFinite`).
* The five statements of section 4 that the programs do not meet: a counterexample is
  all there is to show.

## 6. What is not modelled

* sysiobacnet: the File services, Who-Is/Who-Has and ReadPropertyMultiple (no state the
  properties see), what the stack does with an exception that leaves a handler (the
  initial notification of a subscription, or the emitted event, while the queue closes),
  the clock being set back, time stamps within one hundredth of a second of each other.
* bip-router: malformed frames and station addresses of another length (dropped
  by the code), Forwarded-NPDU, a network number the router does not know. Broadcasts that a socket bound to one address does not hear are
  covered by loss.
* Client drivers: what a request or an answer contains beyond what decides
  control, how a bacnet-stack tool binds (to whichever station answers for the device instance: the
  model has one device behind each confirmed request), malformed scenarios
  (their exceptions end the bacnet-stack driver), exceptions of a stack's start other
  than the ones caught, BACnet4J's limit of 4096 reads of a file and the absence of
  one in bacpypes3, BACnet4J without `--target` (it then binds by broadcast), the
  registration with a BBMD.
* `device_server.c`: its audit and life-safety handlers and its main loop; it is a
  child that binds, performs operations and stops.
* bacpypes3: the contents of most answers, decoding, the stack's own services. Its network port
  comes from `Application.from_args` and is external, as is what bacnet-stack's init functions create. The socket is
  taken to be bound when `Application.from_args` returns, as the adapter does.
* BACnet4J: the object lifecycle (creation and deletion by requests), file contents, values of
  notifications. Assumed of the stack and the virtual machine: one transport thread that calls the
  listeners synchronously (the comment at `DeviceServer.java:861`), exit code 1 after an
  exception of `initialize`, 143 after SIGTERM.
* worldiety: property values, Object_List, Who-Has, ReadPropertyMultiple; the Description,
  which is written without the object's lock (`property.go:157`). Assumed of the Go
  runtime: exit code 2 for a SIGTERM before `NotifyContext` in process 1.
* cbsigma: present values, the canned alarm answers and the switches that make the simulator
  misbehave; a write to the device is a single one. Assumed: the simulator appends to its
  lists under the lock `reportSim` takes, the device calls `OnWrite` for accepted writes
  before it answers, and Go's exit code 2 as for worldiety.
* Assumed of .NET: exit code 143 for a SIGTERM before `PosixSignalRegistration.Create`; of a
  shell or Python as first process: it does not hear SIGTERM before it installs a handler.
* Everything the inventory lists with no module: see the plan.
