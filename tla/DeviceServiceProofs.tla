-------------------------- MODULE DeviceServiceProofs --------------------------
(***************************************************************************)
(* Theorems about what the devices of Container answer and report, for every *)
(* fixture and every sequence of requests that CallsAssumption allows.          *)
(***************************************************************************)
EXTENDS ContainerProofs, FiniteSetTheorems

-----------------------------------------------------------------------------
(* Sequences of anything *)

LEMMA Indices ==
    ASSUME NEW s, IsSequence(s)
    PROVE  Len(s) \in Nat /\ DOMAIN s = 1..Len(s) /\ (s = <<>> <=> Len(s) = 0)
  BY DEF IsSequence

LEMMA SequenceOfAnything ==
    ASSUME NEW S, NEW t \in Seq(S)
    PROVE  IsSequence(t)
  <1> DEFINE T == {t[k] : k \in DOMAIN t}
  <1>1. t \in [1..Len(t) -> S] /\ Len(t) \in Nat
    BY LenProperties
  <1>2. t \in [1..Len(t) -> T]
    BY <1>1
  <1>3. t \in Seq(T)
    BY <1>1, <1>2, SeqDef
  <1>4. QED
    BY <1>3 DEF IsSequence

LEMMA FunctionIsSequence ==
    ASSUME NEW n \in Nat, NEW S, NEW f \in [1..n -> S]
    PROVE  f \in Seq(S)
  BY SeqDef

LEMMA AppendSequence ==
    ASSUME NEW s, IsSequence(s), NEW x
    PROVE  /\ IsSequence(Append(s, x)) /\ Len(Append(s, x)) = Len(s) + 1
           /\ DOMAIN Append(s, x) = DOMAIN s \cup {Len(s) + 1} /\ Len(s) + 1 \notin DOMAIN s
           /\ \A k \in DOMAIN s : Append(s, x)[k] = s[k]
           /\ Append(s, x)[Len(s) + 1] = x
  <1> DEFINE All == {s[k] : k \in DOMAIN s} \cup {x}
             t == Append(s, x)
  <1>1. s \in Seq(All) /\ x \in All
    BY DEF IsSequence
  <1>2. /\ Len(t) = Len(s) + 1 /\ t \in Seq(All) /\ Len(s) \in Nat
        /\ \A k \in 1..Len(s) : t[k] = s[k]
        /\ t[Len(s) + 1] = x
    BY <1>1, AppendProperties
  <1>3. DOMAIN t = 1..(Len(s) + 1) /\ DOMAIN s = 1..Len(s)
    BY <1>1, <1>2
  <1>4. IsSequence(t)
    BY <1>2, SequenceOfAnything
  <1>5. QED
    BY <1>2, <1>3, <1>4

LEMMA TailSequence ==
    ASSUME NEW s, IsSequence(s), s # <<>>
    PROVE  /\ IsSequence(Tail(s)) /\ 1 \in DOMAIN s /\ Head(s) = s[1]
           /\ DOMAIN Tail(s) = {k \in Nat \ {0} : k + 1 \in DOMAIN s}
           /\ \A k \in DOMAIN Tail(s) : k + 1 \in DOMAIN s /\ Tail(s)[k] = s[k + 1]
  <1> DEFINE All == {s[k] : k \in DOMAIN s}
             t == Tail(s)
  <1>1. s \in Seq(All) /\ DOMAIN s = 1..Len(s) /\ Len(s) \in Nat \ {0}
    BY DEF IsSequence
  <1>2. t \in Seq(All) /\ Len(t) = Len(s) - 1 /\ Head(s) = s[1]
        /\ \A k \in 1..Len(t) : t[k] = s[k + 1]
    BY <1>1, HeadTailProperties
  <1>3. DOMAIN t = 1..(Len(s) - 1)
    BY <1>1, <1>2
  <1>4. IsSequence(t)
    BY <1>2, SequenceOfAnything
  <1>5. QED
    BY <1>1, <1>2, <1>3, <1>4

LEMMA ConcatSequence ==
    ASSUME NEW s, IsSequence(s), NEW t, IsSequence(t)
    PROVE  /\ IsSequence(s \o t) /\ Len(s \o t) = Len(s) + Len(t)
           /\ DOMAIN (s \o t) = 1..(Len(s) + Len(t))
           /\ \A k \in DOMAIN s : (s \o t)[k] = s[k]
           /\ \A k \in DOMAIN t : (s \o t)[Len(s) + k] = t[k]
           /\ \A k \in DOMAIN (s \o t) :
                 \/ k \in DOMAIN s /\ (s \o t)[k] = s[k]
                 \/ k > Len(s) /\ k - Len(s) \in DOMAIN t /\ (s \o t)[k] = t[k - Len(s)]
  <1> DEFINE All == {s[k] : k \in DOMAIN s} \cup {t[k] : k \in DOMAIN t}
             u == s \o t
  <1>1. s \in Seq(All) /\ t \in Seq(All) /\ DOMAIN s = 1..Len(s) /\ DOMAIN t = 1..Len(t)
    BY DEF IsSequence
  <1>2. u \in Seq(All) /\ Len(u) = Len(s) + Len(t) /\ Len(s) \in Nat /\ Len(t) \in Nat
        /\ \A k \in 1..(Len(s) + Len(t)) : u[k] = IF k <= Len(s) THEN s[k] ELSE t[k - Len(s)]
    BY <1>1, ConcatProperties
  <1>3. DOMAIN u = 1..(Len(s) + Len(t))
    BY <1>1, <1>2
  <1>4. IsSequence(u)
    BY <1>2, SequenceOfAnything
  <1>5. QED
    BY <1>1, <1>2, <1>3, <1>4

LEMMA EmptySequence == IsSequence(<<>>) /\ DOMAIN <<>> = {} /\ Len(<<>>) = 0
  BY DEF IsSequence

-----------------------------------------------------------------------------
(* What the handlers keep *)

Progresses == {"unsent", "received", "heard", "told", "read", "emitting", "done", "cancelled"}

\* A step of a handler at a request moves that request on, carries out a write of
\* it, sends or reports at most once.
Cancels == at' = [r \in Requests |-> IF at[r] \in {"unsent", "done"} THEN at[r] ELSE "cancelled"]

Grows ==
    /\ UNCHANGED at \/ Cancels \/ \E r \in Requests, how \in Progresses : Progress(r, how)
    /\ UNCHANGED place \/ \E r \in Requests : place' = [place EXCEPT ![r] = @ + 1]
    /\ UNCHANGED log \/ \E r \in Requests : log' = Append(log, [by |-> r, write |-> place[r] + 1])
    /\ UNCHANGED sent \/ \E message : sent' = Append(sent, message)
    /\ UNCHANGED told \/ \E line : told' = Append(told, line)

LEMMA BacpypesGrows == BacpypesNext => Grows
  <1> SUFFICES ASSUME BacpypesNext PROVE Grows
    OBVIOUS
  <1> USE DEF Grows, Progresses, Cancels
  <1>1. CASE Program \/ HearSignal
    BY <1>1 DEF Program, HearSignal, Load, LoadsIf, Build, Binds, Announce, Announces, Listen, Advances, Close, handlers
  <1>2. CASE EventLoop /\ EmitAudit
    BY <1>2 DEF EmitAudit, SendUnconfirmedAudit, SendConfirmedAudit, AuditAnswered, Send
  <1>3. ASSUME NEW r \in Requests, Handle(r) PROVE Grows
    <2>1. CASE Tell(r) \/ Respond(r) \/ Read(r)
      BY <1>3, <2>1 DEF Tell, Respond, Read, Answer, Send
    <2>2. CASE AfterRead(r) \/ EmitEvent(r)
      BY <1>3, <2>2 DEF AfterRead, EmitEvent, Answer, Send
    <2>3. CASE WriteMultiple(r)
      BY <1>3, <2>3 DEF WriteMultiple, CarryOut, Refuse, Acknowledge, Answer, Send
    <2>4. QED
      BY <1>3, <2>1, <2>2, <2>3 DEF Handle
  <1>4. CASE \E r \in Requests : Arrive(r)
    BY <1>4 DEF Arrive, Arrives
  <1>5. QED
    BY <1>1, <1>2, <1>3, <1>4 DEF BacpypesNext, EventLoop

LEMMA Bacnet4jGrows == LifecycleInv /\ Bacnet4jNext /\ (thread = 0 \/ thread \in Requests) => Grows
  <1> SUFFICES ASSUME Bacnet4jNext, thread = 0 \/ thread \in Requests PROVE Grows
    OBVIOUS
  <1> USE DEF Grows, Progresses
  <1>1. CASE Main \/ Signalled
    BY <1>1 DEF Main, Signalled, ReadFixture, LoadsIf, Initialize, Binds, CreateDeferred, HearServices, HearReads, Advances,
                EmitReadyEvent, Announces, HookEnds, handlers
  <1>2. CASE CallFirstListener \/ CallSecondListener
    BY <1>2 DEF CallFirstListener, CallSecondListener, Reports
  <1>3. CASE Conclude \/ Depart
    BY <1>3 DEF Conclude, Depart, Answer, Send
  <1>4. CASE \E r \in Requests : HearConfirmation(r) \/ Receive(r)
    BY <1>4 DEF HearConfirmation, Receive, Arrives, Reports
  <1>5. CASE Senders
    BY <1>5 DEF Senders, Sender, Sends, Tells, Reports, processVars, handlers
  <1>6. QED
    BY <1>1, <1>2, <1>3, <1>4, <1>5 DEF Bacnet4jNext, Transport

LEMMA WorldietyGrows == WorldietyNext => Grows
  <1> SUFFICES ASSUME WorldietyNext PROVE Grows
    OBVIOUS
  <1> USE DEF Grows, Progresses
  <1>1. CASE Run \/ RunFails \/ Interrupted
    BY <1>1 DEF Run, RunFails, Interrupted, LoadFile, LoadsIf, NewClientRuntime, Binds, RegisterAndRun, EmitReadyLine,
                Announces, Advances, Select, Returns, handlers
  <1>2. CASE RunsHandlers
    BY <1>2 DEF RunsHandlers, HandleWrites, HandleWhoIs, HandleRead, CarryOut, Refuse, Acknowledge, Answer, Send
  <1>3. CASE Dispatches
    BY <1>3 DEF Dispatches, Arrives
  <1>4. QED
    BY <1>1, <1>2, <1>3 DEF WorldietyNext

LEMMA CbsigmaGrows == CbsigmaNext => Grows
  <1> SUFFICES ASSUME CbsigmaNext PROVE Grows
    OBVIOUS
  <1> USE DEF Grows, Progresses
  <1>1. CASE CbsigmaMain \/ CbsigmaSignalled
    BY <1>1 DEF CbsigmaMain, CbsigmaSignalled, LoadCbsigma, LoadsIf, Serve, Binds, EmitCbsigmaReady, Announces, Notify,
                Advances, StopCbsigma, handlers
  <1>2. CASE ReportSim
    BY <1>2 DEF ReportSim, LookAtLists, ReportNext, Reports, processVars, handlers
  <1>3. CASE UpstreamRuns
    BY <1>3 DEF UpstreamRuns, WriteProperty, Simulate, Refuse, Acknowledge, Reports, Answer, Send
  <1>4. CASE CbsigmaReceives
    BY <1>4 DEF CbsigmaReceives, Arrives
  <1>5. QED
    BY <1>1, <1>2, <1>3, <1>4 DEF CbsigmaNext

LEMMA SysioGrows == SysioNext => Grows
  <1> SUFFICES ASSUME SysioNext PROVE Grows
    OBVIOUS
  <1> USE DEF Grows, Progresses
  <1>1. CASE SysioMain \/ SysioSignalled
    BY <1>1 DEF SysioMain, SysioSignalled, ReadSettings, LoadsIf, StartServer, Binds, EmitSysioReady, Announces,
                RegisterSignals, Advances, DisposeServer, ReturnFromMain, handlers
  <1>2. ASSUME NEW r \in Requests, TakeGate(r) \/ HandleWrite(r) PROVE Grows
    BY <1>2 DEF TakeGate, HandleWrite, WriteStored, WriteThrows, AnswerWrites, CarryOut, Refuse, Acknowledge, Answer, Send,
                processVars, handlers
  <1>3. ASSUME NEW r \in Requests, SubscribeCov(r) \/ ReadAndEmit(r) \/ SysioTells(r) PROVE Grows
    BY <1>3 DEF SubscribeCov, ReadAndEmit, SysioTells, Reports, Answer, Send
  <1>4. ASSUME NEW r \in Requests, AcknowledgeAlarm(r) PROVE Grows
    BY <1>4 DEF AcknowledgeAlarm, Reports, Answer, Send
  <1>5. CASE SysioNotifier \/ SysioReceives
    BY <1>5 DEF SysioNotifier, NotifyNext, SysioReceives, Arrives, Send
  <1>6. QED
    BY <1>1, <1>2, <1>3, <1>4, <1>5 DEF SysioNext, SysioHandlers, Handles

-----------------------------------------------------------------------------
(* Types *)

PollsInv ==
    /\ polls \in 0..Polls
    /\ stage \in BeforeChild \cup {"started", "looking"} => polls < Polls
    /\ stage = "polling" /\ ~IsRouter => polls < Polls

HandlersInv ==
    /\ config \in Configurations[adapter]
    /\ at \in [Requests -> Progresses] /\ place \in [Requests -> Nat]
    /\ IsSequence(log) /\ IsSequence(sent) /\ IsSequence(told)
    /\ thread \in Requests \cup {0} /\ gate \in Requests \cup {0}
    /\ open \subseteq {1, 2}

\* An image has the state of its own programs only.
OthersRest ==
    /\ ~Supervised => stage \in BeforeChild /\ child = "absent" /\ code = 0 /\ sockets = 0
    /\ Supervised => phase = "loading"
    /\ ~IsProcess => sent = <<>> /\ log = <<>> /\ told = <<>>

TypesInv == PollsInv /\ HandlersInv /\ OthersRest

\* What CallsAssumption says of the requests of this container.
CallsFit ==
    /\ IsSequence(config.calls) /\ config.instance \in Nat /\ 0 \notin Requests
    /\ Requests = DOMAIN config.calls
    /\ \A r \in Requests :
          /\ Call(r).kind = "write" => IsSequence(Call(r).arg)
          /\ Call(r).kind = "vt-open" => Call(r).arg \in 0..255
          /\ Call(r).kind = "enrollments" => Call(r).arg \in Filters
          /\ Call(r).kind = "who-is" => Call(r).arg.low \in Nat /\ Call(r).arg.high \in Nat
          /\ Call(r).kind = "simulated" => Call(r).arg.list \in Lists

LEMMA CallsAsAssumed ==
    ASSUME LifecycleInv, HandlersInv, IsProcess
    PROVE  CallsFit
  <1>1. adapter \in Adapters \cap Processes /\ config \in Configurations[adapter]
    BY DEF LifecycleInv, HandlersInv, IsProcess
  <1>2. IsSequence(config.calls) /\ config.instance \in Nat
    BY <1>1, CallsAssumption
  <1>3. Requests = DOMAIN config.calls /\ 0 \notin Requests
    BY <1>2, Indices DEF Requests
  <1>4. ASSUME NEW r \in Requests
        PROVE  /\ Call(r).kind = "write" => IsSequence(Call(r).arg)
               /\ Call(r).kind = "vt-open" => Call(r).arg \in 0..255
               /\ Call(r).kind = "enrollments" => Call(r).arg \in Filters
               /\ Call(r).kind = "who-is" => Call(r).arg.low \in Nat /\ Call(r).arg.high \in Nat
               /\ Call(r).kind = "simulated" => Call(r).arg.list \in Lists
    BY <1>1, <1>3, CallsAssumption DEF Call, Lists
  <1>5. QED
    BY <1>2, <1>3, <1>4 DEF CallsFit

LEMMA InitTypes == Init => TypesInv
  <1> SUFFICES ASSUME Init PROVE TypesInv
    OBVIOUS
  <1> USE DEF Init, AdapterInit, ProcessInit, SupervisorInit, RouterInit, Bacnet4jInit, SysioInit
  <1>1. PollsInv
    BY PollsAssumption DEF PollsInv
  <1>2. HandlersInv
    BY EmptySequence DEF HandlersInv, Progresses
  <1>3. OthersRest
    BY DEF OthersRest, BeforeChild, IsRouter, Supervised
  <1>4. QED
    BY <1>1, <1>2, <1>3 DEF TypesInv

\* The requests and everything derived from the configuration stay.
LEMMA RequestsStay ==
    ASSUME UNCHANGED <<adapter, config>>
    PROVE  /\ Requests' = Requests /\ IsProcess' = IsProcess /\ Supervised' = Supervised /\ IsRouter' = IsRouter
           /\ \A r : Call(r)' = Call(r)
  BY DEF Requests, IsProcess, Call, Supervised, IsRouter

LEMMA GrowsTyped ==
    ASSUME HandlersInv, Grows, UNCHANGED <<adapter, config>>, thread' \in Requests \cup {0},
           gate' \in Requests \cup {0}, open' \subseteq {1, 2}
    PROVE  HandlersInv'
  <1>1. Requests' = Requests
    BY RequestsStay
  <1>2. at' \in [Requests -> Progresses]
    BY DEF HandlersInv, Grows, Progress, Cancels, Progresses
  <1>3. place' \in [Requests -> Nat]
    BY DEF HandlersInv, Grows
  <1>4. IsSequence(log') /\ IsSequence(sent') /\ IsSequence(told')
    <2>1. \A x : IsSequence(Append(log, x)) /\ IsSequence(Append(sent, x)) /\ IsSequence(Append(told, x))
      BY AppendSequence DEF HandlersInv
    <2>2. QED
      BY <2>1 DEF HandlersInv, Grows
  <1>5. (IsSequence(log) /\ IsSequence(sent) /\ IsSequence(told))'
    BY <1>4 DEF IsSequence
  <1>6. QED
    BY <1>1, <1>2, <1>3, <1>5 DEF HandlersInv

LEMMA PollsSteps ==
    ASSUME LifecycleInv, TypesInv, SupervisorNext
    PROVE  PollsInv'
  <1> USE DEF SupervisorNext, Runs, TypesInv, PollsInv, shared, network, process, BeforeChild
  <1>1. UNCHANGED IsRouter
    BY SupervisorSteps DEF IsRouter
  <1>2. CASE Prepare \/ Resolve
    BY <1>1, <1>2 DEF Prepare, Resolve, Ends, StartChild
  <1>3. CASE InstallHandlers \/ Abandon \/ BridgeEnds \/ Reap
    BY <1>1, <1>3 DEF InstallHandlers, Abandon, BridgeEnds, Reap, Ends
  <1>8. CASE Bridge
    <2>1. Head(pipe) \in Entries
      BY <1>8, HeadTailProperties DEF Bridge, LifecycleInv, PipeInv
    <2>2. stage' \in {"bridging", "waiting"} /\ UNCHANGED polls
      BY <1>8, <2>1 DEF Bridge, Entries
    <2>3. QED
      BY <2>2
  <1>4. CASE Poll
    BY <1>1, <1>4, PollsAssumption DEF Poll, Ends, GiveUp
  <1>5. CASE Look
    BY <1>1, <1>5, PollsAssumption DEF Look, GiveUp, NextLook
  <1>6. CASE Surroundings
    BY <1>1, <1>6 DEF Surroundings, Terminate, Connect, ChildFails, ChildBinds, ChildStops, ChildCrashes, ChildWrites
  <1>7. QED
    BY <1>2, <1>3, <1>4, <1>5, <1>6, <1>8 DEF SupervisorStep

LEMMA RouterRests ==
    ASSUME RouterNext
    PROVE  UNCHANGED handlers /\ (open \subseteq {1, 2} => open' \subseteq {1, 2}) /\ ~IsProcess /\ ~Supervised
  <1>1. ~IsProcess /\ ~Supervised
    BY DEF RouterNext, IsBipRouter, IsProcess, Processes, Supervised
  <1>2. UNCHANGED handlers /\ (open \subseteq {1, 2} => open' \subseteq {1, 2})
    BY DEF RouterNext, RouterMain, FindAddresses, FindNone, InstallRouterHandlers, BindPorts, BindsPort, EmitRouterReady,
           AnnounceRouters, Leave, Quits, StopRouter, ConnectRouter, Advances, Announces, routerVars, processVars
  <1>3. QED
    BY <1>1, <1>2

\* The program that is a device: which one it is, that it lives, and that its
\* handlers' variables only grow.
ProcessNext == BacpypesNext \/ Bacnet4jNext \/ WorldietyNext \/ CbsigmaNext \/ SysioNext

LEMMA ProcessGrows ==
    ASSUME LifecycleInv, HandlersInv, ProcessNext
    PROVE  Lives /\ Grows /\ IsProcess /\ ~Supervised
  <1>1. IsProcess /\ ~Supervised
    BY DEF ProcessNext, BacpypesNext, Bacnet4jNext, WorldietyNext, CbsigmaNext, SysioNext, IsBacpypes, IsBacnet4j,
           IsWorldiety, IsCbsigma, IsSysio, IsProcess, Processes, Supervised
  <1>2. Lives
    BY BacpypesLives, Bacnet4jLives, WorldietyLives, CbsigmaLives, SysioLives DEF ProcessNext
  <1>3. Grows
    BY BacpypesGrows, Bacnet4jGrows, WorldietyGrows, CbsigmaGrows, SysioGrows DEF ProcessNext, HandlersInv
  <1>4. QED
    BY <1>1, <1>2, <1>3

LEMMA ThreadSteps ==
    ASSUME HandlersInv, Bacnet4jNext
    PROVE  thread' \in Requests \cup {0}
  <1>1. CASE Main \/ (Signalled /\ UNCHANGED threads)
    BY <1>1 DEF Main, threads, HandlersInv
  <1>2. CASE Transport
    BY <1>2 DEF Transport, CallFirstListener, CallSecondListener, Conclude, Depart, HearConfirmation, threads, HandlersInv
  <1>3. CASE Senders
    BY <1>3 DEF Senders, Sender, Sends, Tells, HandlersInv
  <1>4. ASSUME NEW r \in Requests, Receive(r) PROVE thread' \in Requests \cup {0}
    BY <1>4 DEF Receive
  <1>5. QED
    BY <1>1, <1>2, <1>3, <1>4 DEF Bacnet4jNext

LEMMA GateSteps ==
    ASSUME HandlersInv, SysioNext
    PROVE  gate' \in Requests \cup {0}
  <1>1. CASE SysioMain \/ SysioSignalled
    BY <1>1 DEF SysioMain, SysioSignalled, ReadSettings, StartServer, EmitSysioReady, RegisterSignals, DisposeServer,
                ReturnFromMain, server, HandlersInv
  <1>2. ASSUME NEW r \in Requests, Handles(r)
        PROVE  gate' \in Requests \cup {0}
    BY <1>2 DEF Handles, TakeGate, HandleWrite, WriteStored, WriteThrows, AnswerWrites, SubscribeCov, ReadAndEmit,
                SysioTells, AcknowledgeAlarm, server, HandlersInv
  <1>3. CASE SysioNotifier \/ SysioReceives
    BY <1>3 DEF SysioNotifier, NotifyNext, SysioReceives, server, HandlersInv
  <1>4. QED
    BY <1>1, <1>2, <1>3 DEF SysioNext, SysioHandlers

LEMMA TypesSteps ==
    ASSUME LifecycleInv, TypesInv, [Next]_vars
    PROVE  TypesInv'
  <1>1. CASE UNCHANGED vars
    <2>1. UNCHANGED <<Requests, IsProcess, Supervised, IsRouter>>
      BY <1>1, RequestsStay DEF vars, shared
    <2>2. UNCHANGED <<config, adapter, at, place, log, sent, told, thread, gate, open, polls, stage, child, code, sockets, phase>>
      BY <1>1 DEF vars, shared, processVars, handlers, ownVars, supervision, process, routerVars, threads, server
    <2>3. QED
      BY <2>1, <2>2 DEF TypesInv, PollsInv, HandlersInv, OthersRest, IsSequence
  <1>2. CASE SupervisorNext /\ UNCHANGED <<processVars, routerVars, audit, threads, simulator, server>>
    <2>1. UNCHANGED <<adapter, config>> /\ Supervised
      BY <1>2, SupervisorSteps DEF SupervisorNext, Runs
    <2>2. UNCHANGED <<Requests, IsProcess, Supervised>>
      BY <2>1, RequestsStay
    <2>3. UNCHANGED <<config, adapter, at, place, log, sent, told, thread, gate, open, phase>>
      BY <1>2, <2>1 DEF processVars, handlers, routerVars, threads, server
    <2>4. QED
      BY <1>2, <2>1, <2>2, <2>3, PollsSteps DEF TypesInv, HandlersInv, OthersRest, IsSequence
  <1>3. CASE RouterNext /\ UNCHANGED <<supervision, audit, threads, simulator, server>>
    <2>1. UNCHANGED <<adapter, config>>
      BY <1>3, RouterLives DEF Lives, Keeps
    <2>2. UNCHANGED <<Requests, IsProcess, Supervised, IsRouter>>
      BY <2>1, RequestsStay
    <2>3. UNCHANGED <<config, adapter, at, place, log, sent, told, thread, gate, polls, stage, child, code, sockets>>
      BY <1>3, <2>1, RouterRests DEF handlers, supervision, process, threads, server
    <2>4. QED
      BY <1>3, <2>2, <2>3, RouterRests DEF TypesInv, PollsInv, HandlersInv, OthersRest, IsSequence
  <1>4. CASE ProcessNext /\ UNCHANGED <<supervision, routerVars>> /\ thread' \in Requests \cup {0}
                         /\ gate' \in Requests \cup {0}
    <2>1. UNCHANGED <<adapter, config>> /\ IsProcess /\ ~Supervised /\ Grows
      BY <1>4, ProcessGrows DEF Lives, Keeps, TypesInv
    <2>2. UNCHANGED <<IsProcess, Supervised, IsRouter, polls, stage, child, code, sockets, open>>
      BY <1>4, <2>1, RequestsStay DEF supervision, process, routerVars
    <2>3. HandlersInv'
      BY <1>4, <2>1, <2>2, GrowsTyped DEF TypesInv, HandlersInv
    <2>4. QED
      BY <2>1, <2>2, <2>3 DEF TypesInv, PollsInv, OthersRest
  <1>5. QED
    <2>1. thread \in Requests \cup {0} /\ gate \in Requests \cup {0}
      BY DEF TypesInv, HandlersInv
    <2>2. QED
      BY <1>1, <1>2, <1>3, <1>4, <2>1, ThreadSteps, GateSteps
         DEF Next, ProcessNext, threads, server, ownVars, TypesInv

\* Every variable has the values the module lists for it.
THEOREM TypeCorrect == Spec => []TypeOK
  <1>1. LifecycleInv /\ TypesInv => TypeOK
    <2> SUFFICES ASSUME LifecycleInv, TypesInv PROVE TypeOK
      OBVIOUS
    <2>1. /\ stage \in {"preparing", "resolving", "started", "polling", "looking", "unbound", "bridging", "waiting", "ended"}
          /\ sockets \in 0..2 /\ code \in {0, 1, 2, -11, -15} /\ child \in {"absent", "starting", "serving", "dead"}
      BY DEF LifecycleInv, SupervisorInv, BeforeChild, Looking, Passing, TypesInv, OthersRest, Needed
    <2>2. phase \in {"loading", "building", "binding", "half", "bound", "ready", "created", "hearing", "listening",
                     "announcing", "running", "serving", "stopping", "closed", "stopped", "failed"}
      BY DEF LifecycleInv, ProcessInv, Silent, Unbound, Announced, Over, TypesInv, OthersRest
    <2>3. QED
      BY <2>1, <2>2 DEF TypeOK, LifecycleInv, ExitCodes, TypesInv, HandlersInv, PollsInv, Progresses
  <1>2. LifecycleInv /\ TypesInv /\ [Next]_vars => TypesInv'
    BY TypesSteps
  <1>3. QED
    BY InitTypes, LifecycleHolds, <1>1, <1>2, PTL DEF Spec

-----------------------------------------------------------------------------
(* Which requests the notifications are about, and who holds what *)

ReadsInv == \A r \in Requests : at[r] \in {"read", "emitting"} => Call(r).kind = "read"

\* What sysiobacnet has queued.
QueueInv ==
    /\ IsSequence(queue) /\ IsSequence(subscribers)
    /\ \A k \in DOMAIN queue :
          /\ queue[k].about \in Requests
          /\ queue[k].kind = "notification" \/ (queue[k].kind = "event" /\ Call(queue[k].about).kind = "read")

\* _gate is held by a WritePropertyMultiple that is not answered or by an
\* AcknowledgeAlarm that is not reported.
GateInv == gate # 0 => IsSysio /\ (Writes(gate) \/ Acknowledged(gate))

\* What the senders and the second listener of bacnet4j have queued.
OutgoingInv ==
    /\ sender \in [Requests -> {"none", "sleeping", "unconfirmed", "between", "confirmed", "ended"}]
    /\ \A r \in Requests : sender[r] # "none" => Call(r).kind = "cov-multiple"
    /\ IsSequence(outgoing)
    /\ \A k \in DOMAIN outgoing :
          /\ outgoing[k].about \in Requests
          /\ \/ outgoing[k].kind = "event" /\ Call(outgoing[k].about).kind = "read"
             \/ /\ outgoing[k].kind \in {"cov-multiple", "confirmed-cov-multiple"}
                /\ Call(outgoing[k].about).kind = "cov-multiple"

AboutInv == ReadsInv /\ QueueInv /\ GateInv /\ OutgoingInv

LEMMA InitAbout == Init => AboutInv
  <1> SUFFICES ASSUME Init PROVE AboutInv
    OBVIOUS
  <1> USE EmptySequence DEF Init, ProcessInit, Bacnet4jInit, SysioInit
  <1>1. ReadsInv
    BY DEF ReadsInv
  <1>2. QueueInv /\ GateInv
    BY DEF QueueInv, GateInv
  <1>3. OutgoingInv
    BY DEF OutgoingInv
  <1>4. QED
    BY <1>1, <1>2, <1>3 DEF AboutInv

\* Only bacpypes3 waits between a read and its end.
LEMMA ReadsSteps ==
    ASSUME HandlersInv, ReadsInv, ProcessNext, UNCHANGED <<adapter, config>>
    PROVE  ReadsInv'
  <1>1. Requests' = Requests /\ \A r : Call(r)' = Call(r)
    BY RequestsStay
  <1>2. \/ UNCHANGED at \/ Cancels
        \/ \E r \in Requests, how \in Progresses \ {"read", "emitting"} : Progress(r, how)
        \/ \E r \in Requests, how \in {"read", "emitting"} : Progress(r, how) /\ Call(r).kind = "read"
    <2> DEFINE Goal == \/ UNCHANGED at \/ Cancels
                       \/ \E r \in Requests, how \in Progresses \ {"read", "emitting"} : Progress(r, how)
                       \/ \E r \in Requests, how \in {"read", "emitting"} : Progress(r, how) /\ Call(r).kind = "read"
    <2>1. ASSUME NEW r \in Requests, Handle(r) PROVE Goal
      <3>1. CASE Tell(r) \/ Respond(r) \/ WriteMultiple(r)
        BY <3>1 DEF Tell, Respond, WriteMultiple, CarryOut, Refuse, Acknowledge, Progresses
      <3>2. CASE Read(r) \/ EmitEvent(r)
        BY <3>2 DEF Read, EmitEvent, Progresses
      <3>3. CASE AfterRead(r)
        BY <3>3 DEF AfterRead, ReadsInv, Progresses
      <3>4. QED
        BY <2>1, <3>1, <3>2, <3>3 DEF Handle
    <2>2. CASE BacpypesNext
      BY <2>1, <2>2
         DEF BacpypesNext, Program, HearSignal, Load, LoadsIf, Build, Binds, Announce, Announces, Listen, Advances, Close,
             Cancels, EventLoop, EmitAudit, SendUnconfirmedAudit, SendConfirmedAudit, AuditAnswered, Arrive, Arrives,
             Progresses, handlers
    <2>3. CASE Bacnet4jNext
      <3>1. CASE Main \/ Signalled
        BY <3>1 DEF Main, Signalled, ReadFixture, LoadsIf, Initialize, Binds, CreateDeferred, HearServices, HearReads,
                    Advances, EmitReadyEvent, Announces, HookEnds, handlers
      <3>2. CASE Transport
        BY <3>2 DEF Transport, CallFirstListener, CallSecondListener, Conclude, Depart, HearConfirmation, HandlersInv,
                    Progresses
      <3>3. CASE Senders \/ \E r \in Requests : Receive(r)
        BY <3>3 DEF Senders, Sender, Sends, Tells, Receive, Arrives, Progresses, processVars, handlers
      <3>4. QED
        BY <2>3, <3>1, <3>2, <3>3 DEF Bacnet4jNext
    <2>4. CASE WorldietyNext
      BY <2>4 DEF WorldietyNext, Run, RunFails, Interrupted, LoadFile, LoadsIf, NewClientRuntime, Binds, RegisterAndRun,
                  EmitReadyLine, Announces, Advances, Select, Returns, handlers, RunsHandlers, HandleWrites, HandleWhoIs,
                  HandleRead, CarryOut, Refuse, Acknowledge, Dispatches, Arrives, Progresses
    <2>5. CASE CbsigmaNext
      BY <2>5 DEF CbsigmaNext, CbsigmaMain, CbsigmaSignalled, LoadCbsigma, LoadsIf, Serve, Binds, EmitCbsigmaReady,
                  Announces, Notify, Advances, StopCbsigma, handlers, processVars, ReportSim, LookAtLists, ReportNext,
                  UpstreamRuns, WriteProperty, Simulate, Refuse, Acknowledge, CbsigmaReceives, Arrives, Progresses
    <2>6. CASE SysioNext
      <3>1. CASE SysioMain \/ SysioSignalled
        BY <3>1 DEF SysioMain, SysioSignalled, ReadSettings, LoadsIf, StartServer, Binds, EmitSysioReady, Announces,
                    RegisterSignals, Advances, DisposeServer, ReturnFromMain, handlers
      <3>2. CASE SysioHandlers
        <4>1. PICK r \in Requests : Handles(r)
          BY <3>2 DEF SysioHandlers
        <4>2. CASE TakeGate(r) \/ HandleWrite(r)
          BY <4>2 DEF TakeGate, HandleWrite, WriteStored, WriteThrows, AnswerWrites, CarryOut, Refuse, Acknowledge,
                      Progresses, processVars, handlers
        <4>3. CASE SubscribeCov(r) \/ ReadAndEmit(r) \/ SysioTells(r) \/ AcknowledgeAlarm(r)
          BY <4>3 DEF SubscribeCov, ReadAndEmit, SysioTells, AcknowledgeAlarm, Progresses
        <4>4. QED
          BY <4>1, <4>2, <4>3 DEF Handles
      <3>3. CASE SysioNotifier \/ SysioReceives
        BY <3>3 DEF SysioNotifier, NotifyNext, SysioReceives, Arrives, Progresses
      <3>4. QED
        BY <2>6, <3>1, <3>2, <3>3 DEF SysioNext
    <2>7. QED
      BY <2>2, <2>3, <2>4, <2>5, <2>6 DEF ProcessNext
  <1>3. QED
    BY <1>1, <1>2 DEF ReadsInv, HandlersInv, Progress, Cancels

\* A queue whose messages are as they should be, after one step of it.
LEMMA QueueAppends ==
    ASSUME QueueInv, NEW m, m.about \in Requests,
           m.kind = "notification" \/ (m.kind = "event" /\ Call(m.about).kind = "read"),
           queue' = Append(queue, m), IsSequence(subscribers'), UNCHANGED <<adapter, config>>
    PROVE  QueueInv'
  <1>1. Requests' = Requests /\ \A r : Call(r)' = Call(r)
    BY RequestsStay
  <1>2. IsSequence(queue') /\ IsSequence(subscribers')
    BY AppendSequence DEF QueueInv
  <1>3. \A k \in DOMAIN queue' : queue'[k] = m \/ (k \in DOMAIN queue /\ queue'[k] = queue[k])
    BY AppendSequence DEF QueueInv
  <1>4. QED
    BY <1>1, <1>2, <1>3 DEF QueueInv, IsSequence

LEMMA QueueSame ==
    ASSUME QueueInv, UNCHANGED <<adapter, config, queue>>, IsSequence(subscribers')
    PROVE  QueueInv'
  BY RequestsStay DEF QueueInv, IsSequence

\* NotificationsOf is a sequence of notifications about the request.
LEMMA NotificationsTyped ==
    ASSUME QueueInv, NEW r, NEW write
    PROVE  /\ IsSequence(NotificationsOf(r, write))
           /\ \A k \in DOMAIN NotificationsOf(r, write) :
                 NotificationsOf(r, write)[k].about = r /\ NotificationsOf(r, write)[k].kind = "notification"
  <1> DEFINE places == Notified(write)
             nth(n) == CHOOSE k \in places : Cardinality({j \in places : j <= k}) = n
             all == [n \in 1..Cardinality(places) |-> Message(subscribers[nth(n)].client, "notification", r, {})]
  <1>1. Cardinality(places) \in Nat
    <2>1. IsFiniteSet(1..Len(subscribers))
      BY Indices, FS_Interval DEF QueueInv
    <2>2. places \subseteq 1..Len(subscribers)
      BY Indices DEF QueueInv, Notified
    <2>3. QED
      BY <2>1, <2>2, FS_Subset, FS_CardinalityType
  <1>2. all \in [1..Cardinality(places) -> {all[k] : k \in DOMAIN all}]
    OBVIOUS
  <1>3. all \in Seq({all[k] : k \in DOMAIN all})
    BY <1>1, <1>2, FunctionIsSequence
  <1>4. IsSequence(all)
    BY <1>3 DEF IsSequence
  <1>5. \A k \in DOMAIN all : all[k].about = r /\ all[k].kind = "notification"
    BY DEF Message
  <1>6. QED
    BY <1>4, <1>5 DEF NotificationsOf

LEMMA QueueSteps ==
    ASSUME HandlersInv, QueueInv, SysioNext, UNCHANGED <<adapter, config>>
    PROVE  QueueInv'
  <1>1. IsSequence(queue) /\ IsSequence(subscribers)
    BY DEF QueueInv
  <1>2. CASE UNCHANGED <<queue, subscribers>>
    BY <1>1, <1>2, QueueSame
  <1>3. CASE SysioMain \/ SysioSignalled \/ SysioReceives
    BY <1>2, <1>3
       DEF SysioMain, SysioSignalled, ReadSettings, StartServer, EmitSysioReady, RegisterSignals, DisposeServer,
           ReturnFromMain, SysioReceives, server
  <1>4. ASSUME NEW r \in Requests, TakeGate(r) \/ SysioTells(r) \/ AcknowledgeAlarm(r) PROVE QueueInv'
    BY <1>2, <1>4 DEF TakeGate, SysioTells, AcknowledgeAlarm, server
  <1>5. ASSUME NEW r \in Requests, HandleWrite(r) PROVE QueueInv'
    <2>1. CASE WriteThrows(r) \/ AnswerWrites(r)
      BY <1>2, <2>1 DEF WriteThrows, AnswerWrites
    <2>2. CASE WriteStored(r)
      <3> DEFINE more == NotificationsOf(r, NextWrite(r))
      <3>1. queue' = queue \o more /\ UNCHANGED subscribers
        BY <2>2 DEF WriteStored
      <3>2. IsSequence(more) /\ \A k \in DOMAIN more : more[k].about = r /\ more[k].kind = "notification"
        BY NotificationsTyped
      <3>3. /\ IsSequence(queue')
            /\ \A k \in DOMAIN queue' :
                  \/ k \in DOMAIN queue /\ queue'[k] = queue[k]
                  \/ k - Len(queue) \in DOMAIN more /\ queue'[k] = more[k - Len(queue)]
        <4> HIDE DEF more
        <4> QED
          BY <1>1, <3>1, <3>2, ConcatSequence
      <3>4. Requests' = Requests /\ \A q : Call(q)' = Call(q)
        BY RequestsStay
      <3>5. \A k \in DOMAIN queue' :
               /\ queue'[k].about \in Requests
               /\ \/ queue'[k].kind = "notification"
                  \/ queue'[k].kind = "event" /\ Call(queue'[k].about).kind = "read"
        <4> HIDE DEF more
        <4> QED
          BY <3>2, <3>3 DEF QueueInv
      <3>6. QED
        BY <1>1, <3>1, <3>3, <3>4, <3>5 DEF QueueInv, IsSequence
    <2>3. QED
      BY <1>5, <2>1, <2>2 DEF HandleWrite
  <1>6. ASSUME NEW r \in Requests, SubscribeCov(r) PROVE QueueInv'
    <2> DEFINE m == Message(Call(r).client, "notification", r, {})
    <2>1. IsSequence(subscribers')
      <3>1. IsSequence(Append(subscribers, Subscription(Call(r))))
        BY <1>1, AppendSequence
      <3>2. QED
        BY <1>1, <1>6, <3>1 DEF SubscribeCov, Subscribed, IsSequence
    <2>2. m.about = r /\ m.kind = "notification"
      BY DEF Message
    <2>3. queue' = queue \/ queue' = Append(queue, m)
      BY <1>6 DEF SubscribeCov
    <2>4. QED
      BY <2>1, <2>2, <2>3, QueueSame, QueueAppends
  <1>7. ASSUME NEW r \in Requests, ReadAndEmit(r) PROVE QueueInv'
    <2> DEFINE m == Message(Call(r).client, "event", r, {})
    <2>1. m.about = r /\ m.kind = "event" /\ Call(r).kind = "read" /\ UNCHANGED subscribers
      BY <1>7 DEF Message, ReadAndEmit
    <2>2. queue' = queue \/ queue' = Append(queue, m)
      BY <1>7 DEF ReadAndEmit
    <2>3. IsSequence(subscribers')
      BY <1>1, <2>1 DEF IsSequence
    <2>4. QED
      BY <2>1, <2>2, <2>3, QueueSame, QueueAppends
  <1>8. CASE SysioNotifier
    <2>1. queue # <<>> /\ queue' = Tail(queue) /\ UNCHANGED subscribers
      BY <1>8 DEF SysioNotifier, NotifyNext
    <2>2. IsSequence(queue') /\ \A k \in DOMAIN queue' : k + 1 \in DOMAIN queue /\ queue'[k] = queue[k + 1]
      BY <1>1, <2>1, TailSequence
    <2>3. Requests' = Requests /\ \A r : Call(r)' = Call(r)
      BY RequestsStay
    <2>4. QED
      BY <1>1, <2>1, <2>2, <2>3 DEF QueueInv, IsSequence
  <1>9. QED
    BY <1>3, <1>4, <1>5, <1>6, <1>7, <1>8 DEF SysioNext, SysioHandlers, Handles

LEMMA GateHeld ==
    ASSUME HandlersInv, GateInv, CallsFit, SysioNext, UNCHANGED <<adapter, config>>
    PROVE  GateInv'
  <1>1. \A r : Call(r)' = Call(r)
    BY RequestsStay
  <1>2. CASE UNCHANGED <<gate, at>>
    BY <1>1, <1>2 DEF GateInv, Writes, Acknowledged, IsSysio
  <1>3. CASE SysioMain \/ SysioSignalled \/ SysioNotifier
    BY <1>2, <1>3
       DEF SysioMain, SysioSignalled, ReadSettings, LoadsIf, StartServer, Binds, EmitSysioReady, Announces, RegisterSignals,
           Advances, DisposeServer, ReturnFromMain, SysioNotifier, NotifyNext, server, handlers
  <1>4. ASSUME NEW r \in Requests, TakeGate(r) PROVE GateInv'
    BY <1>1, <1>4 DEF TakeGate, GateInv, Writes, IsSysio, SysioNext, shared, processVars, handlers
  <1>5. ASSUME NEW r \in Requests, HandleWrite(r) PROVE GateInv'
    BY <1>2, <1>5 DEF HandleWrite, WriteStored, WriteThrows, AnswerWrites, CarryOut, GateInv
  <1>6. ASSUME NEW r \in Requests, AcknowledgeAlarm(r) PROVE GateInv'
    BY <1>1, <1>6 DEF AcknowledgeAlarm, Acknowledged, GateInv, IsSysio, SysioNext, Writes, Progress, HandlersInv
  <1>7. ASSUME NEW r \in Requests, SubscribeCov(r) \/ ReadAndEmit(r) PROVE GateInv'
    BY <1>7 DEF SubscribeCov, ReadAndEmit, GateInv
  <1>8. ASSUME NEW r \in Requests, SysioTells(r) PROVE GateInv'
    BY <1>1, <1>8 DEF SysioTells, GateInv, Writes, Acknowledged, IsSysio, server, Progress, HandlersInv, CallsFit
  <1>9. CASE SysioReceives
    BY <1>1, <1>9 DEF SysioReceives, Arrives, GateInv, Writes, Acknowledged, IsSysio, server, Progress, HandlersInv
  <1>10. QED
    BY <1>3, <1>4, <1>5, <1>7, <1>8, <1>9, <1>6 DEF SysioNext, SysioHandlers, Handles

LEMMA OutgoingAppends ==
    ASSUME OutgoingInv, NEW m, m.about \in Requests,
           \/ m.kind = "event" /\ Call(m.about).kind = "read"
           \/ m.kind \in {"cov-multiple", "confirmed-cov-multiple"} /\ Call(m.about).kind = "cov-multiple",
           outgoing' = Append(outgoing, m),
           sender' = sender \/ \E r \in Requests : /\ Call(r).kind = "cov-multiple"
                                                   /\ \E to \in {"unconfirmed", "confirmed"} : sender' = [sender EXCEPT ![r] = to],
           UNCHANGED <<adapter, config>>
    PROVE  OutgoingInv'
  <1>1. Requests' = Requests /\ \A r : Call(r)' = Call(r)
    BY RequestsStay
  <1>2. IsSequence(outgoing')
    BY AppendSequence DEF OutgoingInv
  <1>3. \A k \in DOMAIN outgoing' : outgoing'[k] = m \/ (k \in DOMAIN outgoing /\ outgoing'[k] = outgoing[k])
    BY AppendSequence DEF OutgoingInv
  <1>4. /\ sender' \in [Requests -> {"none", "sleeping", "unconfirmed", "between", "confirmed", "ended"}]
        /\ \A r \in Requests : sender'[r] # "none" => Call(r).kind = "cov-multiple"
    BY DEF OutgoingInv
  <1>5. \A k \in DOMAIN outgoing' :
          /\ outgoing'[k].about \in Requests
          /\ \/ outgoing'[k].kind = "event" /\ Call(outgoing'[k].about).kind = "read"
             \/ /\ outgoing'[k].kind \in {"cov-multiple", "confirmed-cov-multiple"}
                /\ Call(outgoing'[k].about).kind = "cov-multiple"
    BY <1>3 DEF OutgoingInv
  <1>6. QED
    BY <1>1, <1>2, <1>4, <1>5 DEF OutgoingInv, IsSequence

LEMMA OutgoingSame ==
    ASSUME OutgoingInv,
           sender' = sender \/ \E r \in Requests : /\ Call(r).kind = "cov-multiple"
                                                   /\ \E to \in {"sleeping", "between", "ended"} : sender' = [sender EXCEPT ![r] = to],
           UNCHANGED <<adapter, config, outgoing>>
    PROVE  OutgoingInv'
  BY RequestsStay DEF OutgoingInv, IsSequence

LEMMA OutgoingSteps ==
    ASSUME HandlersInv, OutgoingInv, Bacnet4jNext, UNCHANGED <<adapter, config>>
    PROVE  OutgoingInv'
  <1>1. CASE Main \/ (Signalled /\ UNCHANGED threads) \/ \E r \in Requests : Receive(r) \/ HearConfirmation(r)
    BY <1>1, OutgoingSame DEF Main, threads, Receive, HearConfirmation
  <1>2. CASE CallFirstListener
    <2>1. thread \in Requests
      BY <1>2 DEF CallFirstListener, HandlersInv
    <2>2. QED
      BY <1>2, <2>1, OutgoingSame DEF CallFirstListener
  <1>3. CASE CallSecondListener
    <2> DEFINE m == Message(Call(thread).client, "event", thread, {})
    <2>1. thread \in Requests /\ m.about = thread /\ m.kind = "event" /\ UNCHANGED sender
      BY <1>3 DEF CallSecondListener, HandlersInv, Message
    <2>2. UNCHANGED outgoing \/ (outgoing' = Append(outgoing, m) /\ Call(thread).kind = "read")
      BY <1>3 DEF CallSecondListener, Queue
    <2>3. QED
      BY <2>1, <2>2, OutgoingSame, OutgoingAppends
  <1>4. CASE Conclude
    BY <1>4, OutgoingSame DEF Conclude
  <1>5. CASE Depart
    <2>1. outgoing # <<>> /\ outgoing' = Tail(outgoing) /\ UNCHANGED sender
      BY <1>5 DEF Depart
    <2>2. IsSequence(outgoing')
          /\ \A k \in DOMAIN outgoing' : k + 1 \in DOMAIN outgoing /\ outgoing'[k] = outgoing[k + 1]
      BY <2>1, TailSequence DEF OutgoingInv
    <2>3. Requests' = Requests /\ \A r : Call(r)' = Call(r)
      BY RequestsStay
    <2>4. QED
      BY <2>1, <2>2, <2>3 DEF OutgoingInv, IsSequence
  <1>6. ASSUME NEW r \in Requests, Sender(r) PROVE OutgoingInv'
    <2>1. Call(r).kind = "cov-multiple"
      BY <1>6 DEF Sender, Sends, Tells, OutgoingInv
    <2>2. ASSUME NEW from, NEW to \in {"unconfirmed", "confirmed"},
                 NEW kind \in {"cov-multiple", "confirmed-cov-multiple"}, Sends(r, from, to, kind)
          PROVE  OutgoingInv'
      <3> DEFINE m == Message(Call(r).client, kind, r, {})
      <3>1. m.about = r /\ m.kind = kind
        BY DEF Message
      <3>2. \/ UNCHANGED outgoing /\ sender' = [sender EXCEPT ![r] = "ended"]
            \/ outgoing' = Append(outgoing, m) /\ sender' = [sender EXCEPT ![r] = to]
        BY <2>2 DEF Sends, Queue
      <3>3. QED
        BY <2>1, <3>1, <3>2, OutgoingSame, OutgoingAppends
    <2>3. ASSUME NEW from, NEW to \in {"between", "ended"}, NEW what, Tells(r, from, to, what) PROVE OutgoingInv'
      BY <2>1, <2>3, OutgoingSame DEF Tells
    <2>4. QED
      BY <1>6, <2>2, <2>3 DEF Sender
  <1>7. QED
    BY <1>1, <1>2, <1>3, <1>4, <1>5, <1>6 DEF Bacnet4jNext, Transport, Senders

LEMMA AboutSteps ==
    ASSUME LifecycleInv, TypesInv, AboutInv, [Next]_vars
    PROVE  AboutInv'
  <1>1. CASE UNCHANGED <<adapter, config, at, queue, subscribers, gate, sender, outgoing>>
    BY <1>1, RequestsStay
       DEF AboutInv, ReadsInv, QueueInv, GateInv, IsSysio, Writes, Acknowledged, OutgoingInv, IsSequence
  <1>2. CASE UNCHANGED vars
    BY <1>1, <1>2 DEF vars, shared, processVars, handlers, ownVars, threads, server
  <1>3. CASE SupervisorNext /\ UNCHANGED <<processVars, threads, server>>
    BY <1>1, <1>3, SupervisorSteps DEF processVars, handlers, threads, server
  <1>4. CASE RouterNext /\ UNCHANGED <<threads, server>>
    BY <1>1, <1>4, RouterRests, RouterLives DEF Lives, Keeps, handlers, threads, server
  <1>5. CASE ProcessNext /\ (UNCHANGED threads \/ Bacnet4jNext) /\ (UNCHANGED server \/ SysioNext)
    <2>1. UNCHANGED <<adapter, config>> /\ IsProcess
      BY <1>5, ProcessGrows DEF Lives, Keeps, TypesInv
    <2>2. ReadsInv'
      BY <1>5, <2>1, ReadsSteps DEF TypesInv, AboutInv
    <2>3. CallsFit
      BY <2>1, CallsAsAssumed DEF TypesInv
    <2>4. OutgoingInv'
      BY <1>5, <2>1, OutgoingSteps, OutgoingSame DEF threads, TypesInv, AboutInv
    <2>5. QueueInv'
      BY <1>5, <2>1, QueueSteps, QueueSame DEF server, TypesInv, AboutInv, QueueInv, IsSequence
    <2>6. GateInv'
      <3>1. CASE SysioNext
        BY <2>1, <2>3, <3>1, GateHeld DEF TypesInv, AboutInv
      <3>2. CASE ~SysioNext
        <4>1. UNCHANGED gate /\ gate = 0
          BY <1>5, <3>2 DEF server, AboutInv, GateInv, IsSysio, ProcessNext, BacpypesNext, IsBacpypes, Bacnet4jNext,
                            IsBacnet4j, WorldietyNext, IsWorldiety, CbsigmaNext, IsCbsigma
        <4>2. QED
          BY <4>1 DEF GateInv
      <3>3. QED
        BY <3>1, <3>2
    <2>7. QED
      BY <2>2, <2>4, <2>5, <2>6 DEF AboutInv
  <1>6. QED
    BY <1>2, <1>3, <1>4, <1>5 DEF Next, ProcessNext, ownVars

-----------------------------------------------------------------------------
(* WritePropertyMultiple, move by move *)

IsWrite(r) == r # 0 /\ Call(r).kind = "write"

Starting == {"loading", "building"}

\* While a program starts nothing is written or sent, and from then on it serves
\* what it serves; bacnet4j, which may build more, accepts no writes.
ServesOn ==
    \/ phase \in Starting /\ UNCHANGED <<log, sent>>
    \/ phase \notin Starting /\ phase' \notin Starting /\ (UNCHANGED served \/ IsBacnet4j)

LEMMA BacpypesServes == BacpypesNext => ServesOn
  <1> SUFFICES ASSUME BacpypesNext PROVE ServesOn
    OBVIOUS
  <1> USE DEF ServesOn, Starting
  <1>1. CASE Program \/ HearSignal
    BY <1>1 DEF Program, HearSignal, Load, LoadsIf, Build, Binds, Announce, Announces, Listen, Advances, Close, shared,
                handlers
  <1>2. CASE EventLoop
    <2>1. phase \notin Starting
      BY <1>2 DEF EventLoop, LoopRuns
    <2>2. UNCHANGED <<phase, served>>
      BY <1>2 DEF EventLoop, EmitAudit, SendUnconfirmedAudit, SendConfirmedAudit, AuditAnswered, Handle, Tell, Respond,
                  WriteMultiple, CarryOut, Refuse, Acknowledge, Read, AfterRead, EmitEvent, shared
    <2>3. QED
      BY <2>1, <2>2
  <1>3. CASE \E r \in Requests : Arrive(r)
    BY <1>3 DEF Arrive, Arrives, shared
  <1>4. QED
    BY <1>1, <1>2, <1>3 DEF BacpypesNext

LEMMA Bacnet4jServes == Bacnet4jNext => ServesOn
  <1> SUFFICES ASSUME Bacnet4jNext PROVE ServesOn
    OBVIOUS
  <1> USE DEF ServesOn, Starting
  <1>1. CASE Main \/ Signalled
    <2>1. UNCHANGED <<log, sent>> /\ (phase \notin Starting => phase' \notin Starting)
      BY <1>1 DEF Main, Signalled, ReadFixture, LoadsIf, Initialize, Binds, CreateDeferred, HearServices, HearReads,
                  Advances, EmitReadyEvent, Announces, HookEnds, handlers
    <2>2. QED
      BY <2>1 DEF Bacnet4jNext
  <1>2. CASE Transport \/ Senders \/ \E r \in Requests : Receive(r)
    <2>1. phase \notin Starting
      BY <1>2 DEF Transport, Senders, Receive, Online
    <2>2. UNCHANGED phase
      BY <1>2 DEF Transport, CallFirstListener, CallSecondListener, Conclude, Depart, HearConfirmation, Senders, Sender,
                  Sends, Tells, Receive, Arrives, processVars
    <2>3. QED
      BY <2>1, <2>2 DEF Bacnet4jNext
  <1>3. QED
    BY <1>1, <1>2 DEF Bacnet4jNext

LEMMA WorldietyServes == WorldietyNext => ServesOn
  <1> SUFFICES ASSUME WorldietyNext PROVE ServesOn
    OBVIOUS
  <1> USE DEF ServesOn, Starting
  <1>1. CASE Run \/ RunFails \/ Interrupted
    BY <1>1 DEF Run, RunFails, Interrupted, LoadFile, LoadsIf, NewClientRuntime, Binds, RegisterAndRun, EmitReadyLine,
                Announces, Advances, Select, Returns, shared, handlers
  <1>2. CASE RunsHandlers \/ Dispatches
    <2>1. phase \notin Starting
      BY <1>2 DEF RunsHandlers, RuntimeRuns, Dispatches
    <2>2. UNCHANGED <<phase, served>>
      BY <1>2 DEF RunsHandlers, HandleWrites, CarryOut, Refuse, Acknowledge, HandleWhoIs, HandleRead, Dispatches, Arrives,
                  shared
    <2>3. QED
      BY <2>1, <2>2
  <1>3. QED
    BY <1>1, <1>2 DEF WorldietyNext

LEMMA CbsigmaServed == CbsigmaNext => ServesOn
  <1> SUFFICES ASSUME CbsigmaNext PROVE ServesOn
    OBVIOUS
  <1> USE DEF ServesOn, Starting
  <1>1. CASE CbsigmaMain \/ CbsigmaSignalled
    BY <1>1 DEF CbsigmaMain, CbsigmaSignalled, LoadCbsigma, LoadsIf, Serve, Binds, EmitCbsigmaReady, Announces, Notify,
                Advances, StopCbsigma, shared, handlers
  <1>2. CASE ReportSim \/ UpstreamRuns \/ CbsigmaReceives
    <2>1. phase \notin Starting
      BY <1>2 DEF ReportSim, ReporterRuns, UpstreamRuns, CbsigmaReceives, CbsigmaServes
    <2>2. UNCHANGED <<phase, served>>
      BY <1>2 DEF ReportSim, LookAtLists, ReportNext, UpstreamRuns, WriteProperty, Refuse, Acknowledge, Simulate,
                  CbsigmaReceives, Arrives, shared, processVars
    <2>3. QED
      BY <2>1, <2>2
  <1>3. QED
    BY <1>1, <1>2 DEF CbsigmaNext

LEMMA SysioServed == SysioNext => ServesOn
  <1> SUFFICES ASSUME SysioNext PROVE ServesOn
    OBVIOUS
  <1> USE DEF ServesOn, Starting
  <1>1. CASE SysioMain \/ SysioSignalled
    BY <1>1 DEF SysioMain, SysioSignalled, ReadSettings, LoadsIf, StartServer, Binds, EmitSysioReady, Announces,
                RegisterSignals, Advances, DisposeServer, ReturnFromMain, shared, handlers
  <1>2. CASE SysioHandlers \/ SysioNotifier \/ SysioReceives
    <2>1. phase \notin Starting
      BY <1>2 DEF SysioHandlers, SysioNotifier, SysioReceives, SysioServes
    <2>2. ASSUME NEW r \in Requests, Handles(r) PROVE UNCHANGED <<phase, served>>
      BY <2>2 DEF Handles, TakeGate, HandleWrite, WriteStored, WriteThrows, AnswerWrites, CarryOut, Refuse, Acknowledge,
                  SubscribeCov, ReadAndEmit, SysioTells, AcknowledgeAlarm, shared, processVars
    <2>3. UNCHANGED <<phase, served>>
      BY <1>2, <2>2 DEF SysioHandlers, SysioNotifier, NotifyNext, SysioReceives, Arrives, shared
    <2>4. QED
      BY <2>1, <2>3
  <1>3. QED
    BY <1>1, <1>2 DEF SysioNext

LEMMA DevicesServeOn == ProcessNext => ServesOn
  BY BacpypesServes, Bacnet4jServes, WorldietyServes, CbsigmaServed, SysioServed DEF ProcessNext

\* What each device accepts.
LEMMA AcceptedByEach ==
    ASSUME NEW write
    PROVE  /\ IsBacpypes => (Accepted(write) <=> Writable(write))
           /\ IsWorldiety => (Accepted(write) <=> Accepts(write))
           /\ IsCbsigma => (Accepted(write) <=> StackAccepts(write))
           /\ IsSysio => (Accepted(write) <=> SysioAccepts(write))
           /\ IsBacnet4j => ~Accepted(write)
  BY DEF Accepted, IsBacpypes, IsBacnet4j, IsWorldiety, IsCbsigma, IsSysio

LEMMA AcceptedStays ==
    ASSUME UNCHANGED adapter, UNCHANGED served \/ IsBacnet4j
    PROVE  \A write : Accepted(write)' <=> Accepted(write)
  <1>1. CASE IsBacnet4j
    <2>1. IsBacnet4j' /\ ~IsBacpypes' /\ ~IsWorldiety' /\ ~IsCbsigma' /\ ~IsSysio'
      BY <1>1 DEF IsBacpypes, IsBacnet4j, IsWorldiety, IsCbsigma, IsSysio
    <2>2. QED
      BY <1>1, <2>1, AcceptedByEach DEF Accepted
  <1>2. CASE UNCHANGED served
    BY <1>2 DEF Accepted, IsBacpypes, IsWorldiety, IsCbsigma, IsSysio, Writable, Accepts, StackAccepts, SysioAccepts
  <1>3. QED
    BY <1>1, <1>2

\* A step that no write of a client takes: what is sent of one is a notification.
WritesRest ==
    /\ UNCHANGED <<place, log>>
    /\ \A r \in Requests : IsWrite(r) => (at'[r] = "done" <=> at[r] = "done")
    /\ \/ UNCHANGED sent
       \/ \E m : /\ sent' = Append(sent, m) /\ m.about \in Requests \cup {0}
                 /\ IsWrite(m.about) => m.kind = "notification"
    /\ phase \in {"closed", "stopped"} => phase' \in {"closed", "stopped"}

CarriesOne(r) ==
    /\ Writes(r) /\ HasNextWrite(r) /\ Accepted(NextWrite(r))
    /\ log' = Append(log, [by |-> r, write |-> place[r] + 1])
    /\ place' = [place EXCEPT ![r] = @ + 1]
    /\ UNCHANGED <<at, sent, phase>>

\* An error of r names the next write, or none where that is its service's Error.
Names(r, named) ==
    /\ named = {} \/ named = {place[r] + 1}
    /\ IsWorldiety /\ Len(Call(r).arg) > 1 => named # {}

AnswersAll(r) ==
    /\ Writes(r)
    /\ \/ /\ HasNextWrite(r) /\ ~Accepted(NextWrite(r))
          /\ \E named : Names(r, named) /\ Answer(r, "error", named)
       \/ ~HasNextWrite(r) /\ Answer(r, "ack", {})
    /\ Progress(r, "done") /\ UNCHANGED <<place, log, phase>>

FailsAtTheQueue(r) ==
    /\ Writes(r) /\ HasNextWrite(r) /\ Accepted(NextWrite(r)) /\ phase = "closed"
    /\ log' = Append(log, [by |-> r, write |-> place[r] + 1])
    /\ Answer(r, "device-error", {})
    /\ Progress(r, "done") /\ UNCHANGED <<place, phase>>

WriteMove == WritesRest \/ \E r \in Requests : CarriesOne(r) \/ AnswersAll(r) \/ FailsAtTheQueue(r)

\* The progress of another request, or of a write that is not answered by it.
LEMMA ProgressRests ==
    ASSUME at \in [Requests -> Progresses], NEW r \in Requests, NEW how, Progress(r, how),
           IsWrite(r) => how # "done" /\ at[r] # "done"
    PROVE  \A q \in Requests : IsWrite(q) => (at'[q] = "done" <=> at[q] = "done")
  BY DEF Progress

LEMMA WriteSteps ==
    ASSUME NEW r \in Requests, Writes(r), NEW named,
           \/ CarryOut(r) /\ HasNextWrite(r) /\ Accepted(NextWrite(r))
           \/ Refuse(r, named) /\ Names(r, named) /\ HasNextWrite(r) /\ ~Accepted(NextWrite(r))
           \/ Acknowledge(r) /\ ~HasNextWrite(r)
    PROVE  WriteMove
  BY DEF WriteMove, CarriesOne, AnswersAll, CarryOut, Refuse, Acknowledge

LEMMA BacpypesWrites ==
    ASSUME LifecycleInv, HandlersInv, ReadsInv, CallsFit, BacpypesNext
    PROVE  WriteMove
  <1> DEFINE Rest == \A r \in Requests : IsWrite(r) => (at'[r] = "done" <=> at[r] = "done")
  <1>1. CASE Load \/ Build \/ Announce \/ Listen \/ HearSignal
    BY <1>1 DEF Load, LoadsIf, Build, Binds, Announce, Announces, Listen, HearSignal, Advances, handlers, WriteMove,
                WritesRest
  <1>2. CASE Close
    BY <1>2 DEF Close, HandlersInv, WriteMove, WritesRest
  <1>3. CASE EventLoop /\ EmitAudit
    <2>1. \/ UNCHANGED sent
          \/ \E m : sent' = Append(sent, m) /\ m.about = 0
      BY <1>3 DEF EmitAudit, SendUnconfirmedAudit, SendConfirmedAudit, AuditAnswered, Send, Message
    <2>2. UNCHANGED <<place, log, at, phase>>
      BY <1>3 DEF EmitAudit, SendUnconfirmedAudit, SendConfirmedAudit, AuditAnswered, shared
    <2>3. QED
      BY <2>1, <2>2 DEF WriteMove, WritesRest, IsWrite
  <1>4. ASSUME NEW r \in Requests, Handle(r) PROVE WriteMove
    <2>1. CASE Tell(r)
      <3>1. ~IsWrite(r) /\ \E how : Progress(r, how)
        BY <2>1 DEF Tell, Told, IsWrite
      <3>2. Rest
        BY <3>1, ProgressRests DEF HandlersInv
      <3>3. QED
        BY <2>1, <3>2 DEF Tell, WriteMove, WritesRest
    <2>2. CASE Respond(r) \/ Read(r) \/ EmitEvent(r) \/ AfterRead(r)
      <3>1. ~IsWrite(r) /\ \E how : Progress(r, how)
        BY <2>2 DEF Respond, MayRespond, Answered, Read, EmitEvent, AfterRead, ReadsInv, IsWrite
      <3>2. Rest
        BY <3>1, ProgressRests DEF HandlersInv
      <3>3. UNCHANGED sent \/ \E m : sent' = Append(sent, m) /\ m.about = r
        BY <2>2 DEF Respond, Read, EmitEvent, AfterRead, Answer, Send, Message
      <3>4. UNCHANGED <<place, log, phase>>
        BY <2>2 DEF Respond, Read, EmitEvent, AfterRead
      <3>5. QED
        BY <3>1, <3>2, <3>3, <3>4 DEF WriteMove, WritesRest
    <2>3. CASE WriteMultiple(r)
      <3>1. Accepted(NextWrite(r)) <=> Writable(NextWrite(r))
        BY AcceptedByEach DEF BacpypesNext
      <3>2. Names(r, {})
        BY DEF Names, BacpypesNext, IsBacpypes, IsWorldiety
      <3>3. QED
        BY <2>3, <3>1, <3>2, WriteSteps DEF WriteMultiple
    <2>4. QED
      BY <1>4, <2>1, <2>2, <2>3 DEF Handle
  <1>5. ASSUME NEW r \in Requests, Arrive(r) PROVE WriteMove
    <2>1. Rest
      BY <1>5, ProgressRests DEF Arrive, Arrives, HandlersInv
    <2>2. QED
      BY <1>5, <2>1 DEF Arrive, Arrives, WriteMove, WritesRest
  <1>6. QED
    BY <1>1, <1>2, <1>3, <1>4, <1>5 DEF BacpypesNext, Program, EventLoop

LEMMA Bacnet4jWrites ==
    ASSUME LifecycleInv, HandlersInv, OutgoingInv, CallsFit, Bacnet4jNext
    PROVE  WriteMove
  <1> DEFINE Rest == \A r \in Requests : IsWrite(r) => (at'[r] = "done" <=> at[r] = "done")
  <1>1. CASE Main \/ Signalled
    <2>1. phase # "closed" => UNCHANGED handlers /\ (phase = "stopped" => phase' = "stopped")
      BY <1>1 DEF Main, Signalled, ReadFixture, LoadsIf, Initialize, Binds, CreateDeferred, HearServices, HearReads,
                  Advances, EmitReadyEvent, Announces, HookEnds
    <2>2. CASE phase # "closed"
      BY <2>1, <2>2 DEF handlers, WriteMove, WritesRest
    <2>3. CASE phase = "closed"
      BY <1>1, <2>3 DEF Main, Signalled, ReadFixture, LoadsIf, Initialize, Binds, CreateDeferred, HearServices, HearReads,
                        Advances, EmitReadyEvent, Announces, HookEnds, handlers, WriteMove, WritesRest
    <2>4. QED
      BY <2>2, <2>3
  <1>2. CASE CallFirstListener \/ CallSecondListener
    <2>1. thread \in Requests /\ \E how \in {"heard", "told"} : Progress(thread, how) /\ at[thread] # "done"
      BY <1>2 DEF CallFirstListener, CallSecondListener, HandlersInv
    <2>2. Rest
      BY <2>1, ProgressRests DEF HandlersInv
    <2>3. QED
      BY <1>2, <2>2 DEF CallFirstListener, CallSecondListener, WriteMove, WritesRest, shared
  <1>3. CASE Conclude
    <2>1. thread \in Requests /\ ~IsWrite(thread) /\ Progress(thread, "done")
      BY <1>3 DEF Conclude, IsWrite, HandlersInv
    <2>2. Rest
      BY <2>1, ProgressRests DEF HandlersInv
    <2>3. UNCHANGED sent \/ \E m : sent' = Append(sent, m) /\ m.about = thread
      BY <1>3 DEF Conclude, Answer, Send, Message
    <2>4. UNCHANGED <<place, log, phase>>
      BY <1>3 DEF Conclude
    <2>5. QED
      BY <2>1, <2>2, <2>3, <2>4 DEF WriteMove, WritesRest
  <1>4. CASE Depart
    <2>1. sent' = Append(sent, Head(outgoing)) /\ Head(outgoing) = outgoing[1] /\ 1 \in DOMAIN outgoing
      BY <1>4, TailSequence DEF Depart, Send, OutgoingInv
    <2>2. outgoing[1].about \in Requests /\ ~IsWrite(outgoing[1].about)
      BY <2>1 DEF OutgoingInv, IsWrite
    <2>3. QED
      BY <1>4, <2>1, <2>2 DEF Depart, WriteMove, WritesRest
  <1>5. ASSUME NEW r \in Requests, HearConfirmation(r) \/ Sender(r) PROVE WriteMove
    BY <1>5 DEF HearConfirmation, Sender, Sends, Tells, processVars, handlers, WriteMove, WritesRest
  <1>6. ASSUME NEW r \in Requests, Receive(r) PROVE WriteMove
    <2>1. Rest
      BY <1>6, ProgressRests DEF Receive, Arrives, HandlersInv
    <2>2. QED
      BY <1>6, <2>1 DEF Receive, Arrives, WriteMove, WritesRest
  <1>7. QED
    BY <1>1, <1>2, <1>3, <1>4, <1>5, <1>6 DEF Bacnet4jNext, Transport, Senders

LEMMA WorldietyWrites ==
    ASSUME LifecycleInv, HandlersInv, CallsFit, WorldietyNext
    PROVE  WriteMove
  <1> DEFINE Rest == \A r \in Requests : IsWrite(r) => (at'[r] = "done" <=> at[r] = "done")
  <1>1. CASE Run \/ RunFails \/ Interrupted
    BY <1>1 DEF Run, RunFails, Interrupted, LoadFile, LoadsIf, NewClientRuntime, Binds, RegisterAndRun, EmitReadyLine,
                Announces, Advances, Select, Returns, handlers, WriteMove, WritesRest
  <1>2. ASSUME NEW r \in Requests, HandleWrites(r) PROVE WriteMove
    <2>1. Accepted(NextWrite(r)) <=> Accepts(NextWrite(r))
      BY AcceptedByEach DEF WorldietyNext
    <2>2. \A named \in Errors(r) : Names(r, named)
      <3>1. Errors(r) \subseteq {{}, {place[r] + 1}} /\ (Len(Call(r).arg) # 1 => {} \notin Errors(r))
        BY DEF Errors
      <3>2. ~(1 > 1)
        OBVIOUS
      <3>3. QED
        BY <3>1, <3>2 DEF Names
    <2>3. CASE CarryOut(r) /\ HasNextWrite(r) /\ Accepts(NextWrite(r))
      BY <1>2, <2>1, <2>3, WriteSteps DEF HandleWrites
    <2>4. CASE Acknowledge(r) /\ ~HasNextWrite(r)
      BY <1>2, <2>4, WriteSteps DEF HandleWrites
    <2>5. ASSUME HasNextWrite(r), ~Accepts(NextWrite(r)), NEW named \in Errors(r), Refuse(r, named) PROVE WriteMove
      BY <1>2, <2>1, <2>2, <2>5, WriteSteps DEF HandleWrites
    <2>6. QED
      BY <1>2, <2>3, <2>4, <2>5 DEF HandleWrites
  <1>3. ASSUME NEW r \in Requests, HandleWhoIs(r) \/ HandleRead(r) PROVE WriteMove
    <2>1. Rest
      BY <1>3, ProgressRests DEF HandleWhoIs, HandleRead, HandlersInv, IsWrite
    <2>2. /\ UNCHANGED sent \/ \E m : sent' = Append(sent, m) /\ m.about = r
          /\ UNCHANGED <<place, log, phase>> /\ ~IsWrite(r)
      BY <1>3 DEF HandleWhoIs, HandleRead, Answer, Send, Message, IsWrite
    <2>3. QED
      BY <2>1, <2>2 DEF WriteMove, WritesRest
  <1>4. ASSUME NEW r \in Requests, Arrives(r) PROVE WriteMove
    <2>1. Rest
      BY <1>4, ProgressRests DEF Arrives, HandlersInv
    <2>2. QED
      BY <1>4, <2>1 DEF Arrives, WriteMove, WritesRest
  <1>5. QED
    BY <1>1, <1>2, <1>3, <1>4 DEF WorldietyNext, RunsHandlers, Dispatches

LEMMA CbsigmaWrites ==
    ASSUME LifecycleInv, HandlersInv, CallsFit, CbsigmaNext
    PROVE  WriteMove
  <1> DEFINE Rest == \A r \in Requests : IsWrite(r) => (at'[r] = "done" <=> at[r] = "done")
  <1>1. CASE CbsigmaMain \/ CbsigmaSignalled
    BY <1>1 DEF CbsigmaMain, CbsigmaSignalled, LoadCbsigma, LoadsIf, Serve, Binds, EmitCbsigmaReady, Announces, Notify,
                Advances, StopCbsigma, handlers, WriteMove, WritesRest
  <1>2. CASE ReportSim
    BY <1>2 DEF ReportSim, LookAtLists, ReportNext, processVars, handlers, WriteMove, WritesRest
  <1>3. ASSUME NEW r \in Requests, WriteProperty(r) PROVE WriteMove
    <2>1. Accepted(NextWrite(r)) <=> StackAccepts(NextWrite(r))
      BY AcceptedByEach DEF CbsigmaNext
    <2>2. Names(r, {})
      BY DEF Names, CbsigmaNext, IsCbsigma, IsWorldiety
    <2>3. QED
      BY <1>3, <2>1, <2>2, WriteSteps DEF WriteProperty, WriteMove, CarriesOne
  <1>4. ASSUME NEW r \in Requests, Simulate(r) PROVE WriteMove
    <2>1. Rest
      BY <1>4, ProgressRests DEF Simulate, HandlersInv, IsWrite
    <2>2. /\ UNCHANGED sent \/ \E m : sent' = Append(sent, m) /\ m.about = r
          /\ UNCHANGED <<place, log, phase>> /\ ~IsWrite(r)
      BY <1>4 DEF Simulate, Answer, Send, Message, IsWrite
    <2>3. QED
      BY <2>1, <2>2 DEF WriteMove, WritesRest
  <1>5. ASSUME NEW r \in Requests, Arrives(r) PROVE WriteMove
    <2>1. Rest
      BY <1>5, ProgressRests DEF Arrives, HandlersInv
    <2>2. QED
      BY <1>5, <2>1 DEF Arrives, WriteMove, WritesRest
  <1>6. QED
    BY <1>1, <1>2, <1>3, <1>4, <1>5 DEF CbsigmaNext, UpstreamRuns, CbsigmaReceives

LEMMA SysioWrites ==
    ASSUME LifecycleInv, HandlersInv, QueueInv, GateInv, CallsFit, SysioNext
    PROVE  WriteMove
  <1> DEFINE Rest == \A r \in Requests : IsWrite(r) => (at'[r] = "done" <=> at[r] = "done")
  <1>1. CASE SysioMain \/ SysioSignalled
    BY <1>1 DEF SysioMain, SysioSignalled, ReadSettings, LoadsIf, StartServer, Binds, EmitSysioReady, Announces,
                RegisterSignals, Advances, DisposeServer, ReturnFromMain, handlers, WriteMove, WritesRest
  <1>2. ASSUME NEW r \in Requests, TakeGate(r) PROVE WriteMove
    BY <1>2 DEF TakeGate, processVars, handlers, WriteMove, WritesRest
  <1>3. ASSUME NEW r \in Requests, HandleWrite(r) PROVE WriteMove
    <2>1. Writes(r)
      BY <1>3 DEF HandleWrite
    <2>2. Accepted(NextWrite(r)) <=> SysioAccepts(NextWrite(r))
      BY AcceptedByEach DEF SysioNext
    <2>3. Names(r, {})
      BY DEF Names, SysioNext, IsSysio, IsWorldiety
    <2>4. CASE WriteStored(r) \/ AnswerWrites(r)
      BY <2>1, <2>2, <2>3, <2>4, WriteSteps DEF WriteStored, AnswerWrites
    <2>5. CASE WriteThrows(r)
      BY <2>1, <2>2, <2>5 DEF WriteThrows, Closed, WriteMove, FailsAtTheQueue
    <2>6. QED
      BY <1>3, <2>4, <2>5 DEF HandleWrite
  <1>4. ASSUME NEW r \in Requests, SubscribeCov(r) \/ ReadAndEmit(r) \/ SysioTells(r) \/ AcknowledgeAlarm(r)
        PROVE  WriteMove
    <2>1. ~IsWrite(r) /\ \E how : Progress(r, how)
      BY <1>4 DEF SubscribeCov, ReadAndEmit, SysioTells, AcknowledgeAlarm, IsWrite
    <2>2. Rest
      BY <2>1, ProgressRests DEF HandlersInv
    <2>3. UNCHANGED sent \/ \E m : sent' = Append(sent, m) /\ m.about = r
      BY <1>4 DEF SubscribeCov, ReadAndEmit, SysioTells, AcknowledgeAlarm, Answer, Send, Message
    <2>4. UNCHANGED <<place, log, phase>>
      BY <1>4 DEF SubscribeCov, ReadAndEmit, SysioTells, AcknowledgeAlarm
    <2>5. QED
      BY <2>1, <2>2, <2>3, <2>4 DEF WriteMove, WritesRest
  <1>5. CASE SysioNotifier
    <2>1. UNCHANGED sent \/ sent' = Append(sent, queue[1])
      BY <1>5, TailSequence DEF SysioNotifier, NotifyNext, Send, QueueInv
    <2>2. 1 \in DOMAIN queue
      BY <1>5, TailSequence DEF SysioNotifier, NotifyNext, QueueInv
    <2>3. queue[1].about \in Requests /\ (IsWrite(queue[1].about) => queue[1].kind = "notification")
      BY <2>2 DEF QueueInv, IsWrite
    <2>4. QED
      BY <1>5, <2>1, <2>3 DEF SysioNotifier, NotifyNext, WriteMove, WritesRest
  <1>6. ASSUME NEW r \in Requests, Arrives(r) PROVE WriteMove
    <2>1. Rest
      BY <1>6, ProgressRests DEF Arrives, HandlersInv
    <2>2. QED
      BY <1>6, <2>1 DEF Arrives, WriteMove, WritesRest
  <1>7. QED
    BY <1>1, <1>2, <1>3, <1>4, <1>5, <1>6 DEF SysioNext, SysioHandlers, Handles, SysioReceives

\* Whatever the device, a step is one of these.
LEMMA WriteMoves ==
    ASSUME LifecycleInv, HandlersInv, AboutInv, CallsFit, ProcessNext
    PROVE  WriteMove
  BY BacpypesWrites, Bacnet4jWrites, WorldietyWrites, CbsigmaWrites, SysioWrites DEF ProcessNext, AboutInv

-----------------------------------------------------------------------------
(* What is carried out, and what is answered *)

CarriedOut(r) == Cardinality(WritesBy(r))

\* How many of them there are up to the k-th.
SoFar(k) == Cardinality({l \in 1..k : log[l].by = log[k].by})

LogInv ==
    \A k \in DOMAIN log :
        /\ log[k].by \in Requests /\ IsWrite(log[k].by)
        /\ log[k].write = SoFar(k) /\ Accepted(Call(log[k].by).arg[log[k].write])

\* A write that is not answered has carried out as many writes as its place says.
PlacesInv ==
    \A r \in Requests : IsWrite(r) /\ at[r] # "done" =>
        place[r] \in 0..Len(Call(r).arg) /\ CarriedOut(r) = place[r]

\* What an error can say of a request that has carried out its writes up to one.
Blames(r, named) ==
    /\ CarriedOut(r) < Len(Call(r).arg) /\ ~Accepted(Call(r).arg[CarriedOut(r) + 1])
    /\ named = {} \/ named = {CarriedOut(r) + 1}
    /\ IsWorldiety /\ Len(Call(r).arg) > 1 => named # {}

\* Where a write is answered, it is with what has been carried out.
WritesInv ==
    \A k \in DOMAIN sent :
        /\ sent[k].about \in Requests \cup {0}
        /\ IsWrite(sent[k].about) /\ sent[k].kind # "notification" =>
              LET r == sent[k].about IN
              /\ at[r] = "done"
              /\ \/ sent[k].kind = "ack" /\ CarriedOut(r) = Len(Call(r).arg)
                 \/ sent[k].kind = "error" /\ Blames(r, sent[k].body)
                 \/ /\ sent[k].kind = "device-error" /\ CarriedOut(r) > 0
                    /\ phase \in {"closed", "stopped"}

QuietInv == IsProcess /\ phase \in Starting => log = <<>> /\ sent = <<>>

MultipleInv == LogInv /\ PlacesInv /\ WritesInv /\ QuietInv

\* One more write in the log is one more carried out for the request it is of.
LEMMA LogGrows ==
    ASSUME IsSequence(log), NEW r, NEW w, log' = Append(log, [by |-> r, write |-> w])
    PROVE  /\ \A q : CarriedOut(q) \in Nat
           /\ \A q : CarriedOut(q)' = IF q = r THEN CarriedOut(q) + 1 ELSE CarriedOut(q)
           /\ \A k \in DOMAIN log' : \/ k \in DOMAIN log /\ log'[k] = log[k]
                                     \/ k = Len(log) + 1 /\ log'[k] = [by |-> r, write |-> w]
           /\ \A k \in DOMAIN log : SoFar(k)' = SoFar(k)
           /\ \A k : k = Len(log) + 1 => SoFar(k)' = CarriedOut(r) + 1
  <1>1. /\ DOMAIN log' = DOMAIN log \cup {Len(log) + 1} /\ Len(log) + 1 \notin DOMAIN log
        /\ \A k \in DOMAIN log : log'[k] = log[k]
        /\ log'[Len(log) + 1] = [by |-> r, write |-> w]
    BY AppendSequence
  <1>2. DOMAIN log = 1..Len(log) /\ Len(log) \in Nat
    BY Indices
  <1>3. ASSUME NEW q
        PROVE  /\ CarriedOut(q) \in Nat
               /\ CarriedOut(q)' = IF q = r THEN CarriedOut(q) + 1 ELSE CarriedOut(q)
    <2>1. IsFiniteSet(WritesBy(q))
      <3>1. IsFiniteSet(1..Len(log)) /\ WritesBy(q) \subseteq 1..Len(log)
        BY <1>2, FS_Interval DEF WritesBy
      <3>2. QED
        BY <3>1, FS_Subset
    <2>2. CarriedOut(q) \in Nat
      BY <2>1, FS_CardinalityType DEF CarriedOut
    <2>3. CASE q = r
      <3>1. WritesBy(q)' = WritesBy(q) \cup {Len(log) + 1} /\ Len(log) + 1 \notin WritesBy(q)
        BY <1>1, <2>3 DEF WritesBy
      <3>2. Cardinality(WritesBy(q) \cup {Len(log) + 1}) = Cardinality(WritesBy(q)) + 1
        BY <2>1, <3>1, FS_AddElement
      <3>3. QED
        BY <2>2, <2>3, <3>1, <3>2 DEF CarriedOut
    <2>4. CASE q # r
      <3>1. WritesBy(q)' = WritesBy(q)
        BY <1>1, <2>4 DEF WritesBy
      <3>2. QED
        BY <2>2, <2>4, <3>1 DEF CarriedOut
    <2>5. QED
      BY <2>3, <2>4, <2>2
  <1>4. ASSUME NEW k \in DOMAIN log PROVE SoFar(k)' = SoFar(k)
    <2>1. \A l \in 1..k : l \in DOMAIN log /\ log'[l] = log[l]
      BY <1>1, <1>2
    <2>2. {l \in 1..k : log'[l].by = log'[k].by} = {l \in 1..k : log[l].by = log[k].by}
      BY <1>1, <2>1
    <2>3. QED
      BY <2>2 DEF SoFar
  <1>5. ASSUME NEW k, k = Len(log) + 1 PROVE SoFar(k)' = CarriedOut(r) + 1
    <2>1. DOMAIN log' = 1..k /\ log'[k].by = r
      BY <1>1, <1>2, <1>5
    <2>2. {l \in 1..k : log'[l].by = log'[k].by} = WritesBy(r)'
      BY <2>1 DEF WritesBy
    <2>3. SoFar(k)' = CarriedOut(r)'
      BY <2>2 DEF SoFar, CarriedOut
    <2>4. QED
      BY <1>3, <2>3
  <1>6. QED
    BY <1>1, <1>2, <1>3, <1>4, <1>5

\* What has been sent stays sent.
LEMMA SentGrows ==
    ASSUME IsSequence(sent), NEW m, sent' = Append(sent, m)
    PROVE  /\ \A k \in DOMAIN sent' : \/ k \in DOMAIN sent /\ sent'[k] = sent[k]
                                      \/ k = Len(sent) + 1 /\ sent'[k] = m
           /\ \A k \in DOMAIN sent : k \in DOMAIN sent' /\ sent'[k] = sent[k] /\ k < Len(sent) + 1
           /\ Len(sent) + 1 \in DOMAIN sent' /\ sent'[Len(sent) + 1] = m
           /\ Len(sent) \in Nat /\ DOMAIN sent = 1..Len(sent)
  <1>1. /\ DOMAIN sent' = DOMAIN sent \cup {Len(sent) + 1}
        /\ \A k \in DOMAIN sent : sent'[k] = sent[k]
        /\ sent'[Len(sent) + 1] = m
    BY AppendSequence
  <1>2. DOMAIN sent = 1..Len(sent) /\ Len(sent) \in Nat
    BY Indices
  <1>3. QED
    BY <1>1, <1>2

LEMMA InitMultiple == Init => MultipleInv
  <1> SUFFICES ASSUME Init PROVE MultipleInv
    OBVIOUS
  <1> USE EmptySequence DEF Init, AdapterInit, ProcessInit
  <1>1. LogInv /\ WritesInv /\ QuietInv
    BY DEF LogInv, WritesInv, QuietInv
  <1>2. PlacesInv
    <2> SUFFICES ASSUME NEW r \in Requests, IsWrite(r), at[r] # "done"
                 PROVE  place[r] \in 0..Len(Call(r).arg) /\ CarriedOut(r) = place[r]
      BY DEF PlacesInv
    <2>1. IsProcess
      BY DEF Requests
    <2>2. adapter \in Adapters \cap Processes /\ config \in Configurations[adapter]
      BY <2>1 DEF IsProcess
    <2>3. IsSequence(Call(r).arg)
      BY <2>1, <2>2, CallsAssumption DEF Requests, Call, IsWrite
    <2>4. Len(Call(r).arg) \in Nat
      BY <2>3, Indices
    <2>5. WritesBy(r) = {}
      BY DEF WritesBy
    <2>6. CarriedOut(r) = 0
      BY <2>5, FS_EmptySet DEF CarriedOut
    <2>7. QED
      BY <2>4, <2>6
  <1>3. QED
    BY <1>1, <1>2 DEF MultipleInv

\* While nothing is carried out.
LEMMA LogStays ==
    ASSUME UNCHANGED log
    PROVE  /\ \A q : CarriedOut(q)' = CarriedOut(q)
           /\ \A k : SoFar(k)' = SoFar(k)
  BY DEF CarriedOut, WritesBy, SoFar

\* What an error says stays true while its request carries out nothing more.
LEMMA BlamesStays ==
    ASSUME NEW r, CarriedOut(r)' = CarriedOut(r), UNCHANGED <<adapter, config>>,
           \A write : Accepted(write)' <=> Accepted(write)
    PROVE  \A named : Blames(r, named)' <=> Blames(r, named)
  <1>1. Call(r)' = Call(r) /\ IsWorldiety' = IsWorldiety
    BY DEF Call, IsWorldiety
  <1>2. QED
    BY <1>1 DEF Blames

LEMMA RestKeeps ==
    ASSUME HandlersInv, CallsFit, MultipleInv, WritesRest, UNCHANGED <<adapter, config>>, ServesOn, IsProcess
    PROVE  LogInv' /\ PlacesInv' /\ WritesInv'
  <1>1. Requests' = Requests /\ (\A r : Call(r)' = Call(r)) /\ \A r : IsWrite(r)' = IsWrite(r)
    BY RequestsStay DEF IsWrite
  <1>2. (\A q : CarriedOut(q)' = CarriedOut(q)) /\ \A k : SoFar(k)' = SoFar(k)
    BY LogStays DEF WritesRest
  <1>3. PlacesInv'
    BY <1>1, <1>2 DEF MultipleInv, PlacesInv, WritesRest
  <1>4. CASE phase \in Starting
    <2>1. log = <<>> /\ sent = <<>> /\ UNCHANGED <<log, sent>>
      BY <1>4 DEF MultipleInv, QuietInv, ServesOn
    <2>2. QED
      BY <1>3, <2>1, EmptySequence DEF LogInv, WritesInv
  <1>5. CASE phase \notin Starting
    <2>1. \A write : Accepted(write)' <=> Accepted(write)
      BY <1>5, AcceptedStays DEF ServesOn
    <2>2. LogInv'
      BY <1>1, <1>2, <2>1 DEF MultipleInv, LogInv, WritesRest
    <2>3. \A r, named : Blames(r, named)' <=> Blames(r, named)
      BY <1>2, <2>1, BlamesStays
    <2>4. \A k \in DOMAIN sent' :
             \/ k \in DOMAIN sent /\ sent'[k] = sent[k]
             \/ /\ sent'[k].about \in Requests \cup {0}
                /\ IsWrite(sent'[k].about) => sent'[k].kind = "notification"
      BY SentGrows DEF WritesRest, HandlersInv
    <2>5. WritesInv'
      BY <1>1, <1>2, <2>3, <2>4 DEF MultipleInv, WritesInv, WritesRest, IsWrite
    <2>6. QED
      BY <1>3, <2>2, <2>5
  <1>6. QED
    BY <1>4, <1>5

\* One more write carried out, whether or not its request is answered with it.
LEMMA OneMoreKeeps ==
    ASSUME HandlersInv, CallsFit, MultipleInv, UNCHANGED <<adapter, config>>,
           \A write : Accepted(write)' <=> Accepted(write),
           NEW r \in Requests, Writes(r), HasNextWrite(r), Accepted(NextWrite(r)),
           log' = Append(log, [by |-> r, write |-> place[r] + 1])
    PROVE  /\ LogInv' /\ IsWrite(r) /\ at[r] = "received"
           /\ \A q : CarriedOut(q) \in Nat
           /\ \A q : CarriedOut(q)' = IF q = r THEN CarriedOut(q) + 1 ELSE CarriedOut(q)
           /\ place[r] \in Nat /\ place[r] + 1 \in 0..Len(Call(r).arg)
  <1>1. Requests' = Requests /\ (\A q : Call(q)' = Call(q)) /\ \A q : IsWrite(q)' = IsWrite(q)
    BY RequestsStay DEF IsWrite
  <1>2. /\ \A q : CarriedOut(q) \in Nat
        /\ \A q : CarriedOut(q)' = IF q = r THEN CarriedOut(q) + 1 ELSE CarriedOut(q)
        /\ \A k \in DOMAIN log' : \/ k \in DOMAIN log /\ log'[k] = log[k]
                                  \/ k = Len(log) + 1 /\ log'[k] = [by |-> r, write |-> place[r] + 1]
        /\ \A k \in DOMAIN log : SoFar(k)' = SoFar(k)
        /\ \A k : k = Len(log) + 1 => SoFar(k)' = CarriedOut(r) + 1
    BY LogGrows DEF HandlersInv
  <1>3. IsWrite(r) /\ at[r] = "received" /\ Accepted(Call(r).arg[place[r] + 1])
    BY DEF Writes, NextWrite, IsWrite, CallsFit
  <1>4. CarriedOut(r) = place[r] /\ place[r] \in Nat
    BY <1>2, <1>3 DEF MultipleInv, PlacesInv
  <1>5. place[r] + 1 \in 0..Len(Call(r).arg)
    <2>1. Len(Call(r).arg) \in Nat
      BY <1>3, Indices DEF CallsFit, IsWrite
    <2>2. QED
      BY <1>4, <2>1 DEF HasNextWrite
  <1>6. LogInv'
    <2> SUFFICES ASSUME NEW k \in DOMAIN log'
                 PROVE  /\ log'[k].by \in Requests /\ IsWrite(log'[k].by)
                        /\ log'[k].write = SoFar(k)' /\ Accepted(Call(log'[k].by).arg[log'[k].write])
      BY <1>1 DEF LogInv
    <2>1. CASE k \in DOMAIN log /\ log'[k] = log[k]
      BY <1>2, <2>1 DEF MultipleInv, LogInv
    <2>2. CASE k = Len(log) + 1 /\ log'[k] = [by |-> r, write |-> place[r] + 1]
      BY <1>2, <1>3, <1>4, <2>2
    <2>3. QED
      BY <1>2, <2>1, <2>2
  <1>7. QED
    BY <1>2, <1>3, <1>4, <1>5, <1>6

LEMMA MovesKeep ==
    ASSUME HandlersInv, CallsFit, MultipleInv, WriteMove, UNCHANGED <<adapter, config>>, ServesOn, IsProcess
    PROVE  MultipleInv'
  <1>1. Requests' = Requests /\ (\A r : Call(r)' = Call(r)) /\ (\A r : IsWrite(r)' = IsWrite(r)) /\ IsProcess'
    BY RequestsStay DEF IsWrite
  <1>2. \A r \in Requests : IsWrite(r) => Len(Call(r).arg) \in Nat
    BY Indices DEF CallsFit, IsWrite
  <1>3. QuietInv'
    BY <1>1 DEF MultipleInv, QuietInv, ServesOn
  <1>4. \A m : sent' = Append(sent, m) => sent' # sent
    <2>1. \A m : Len(Append(sent, m)) = Len(sent) + 1
      BY AppendSequence DEF HandlersInv
    <2>2. Len(sent) \in Nat
      BY Indices DEF HandlersInv
    <2>3. QED
      BY <2>1, <2>2
  <1>5. \A r : log' = Append(log, r) => log' # log
    <2>1. \A x : Len(Append(log, x)) = Len(log) + 1
      BY AppendSequence DEF HandlersInv
    <2>2. Len(log) \in Nat
      BY Indices DEF HandlersInv
    <2>3. QED
      BY <2>1, <2>2
  <1>6. ASSUME NEW r \in Requests, CarriesOne(r) \/ AnswersAll(r) \/ FailsAtTheQueue(r)
        PROVE  \A write : Accepted(write)' <=> Accepted(write)
    <2>1. phase \notin Starting
      BY <1>4, <1>5, <1>6 DEF CarriesOne, AnswersAll, FailsAtTheQueue, Answer, Send, ServesOn, Starting
    <2>2. QED
      BY <2>1, AcceptedStays DEF ServesOn
  <1>7. ASSUME NEW r \in Requests, CarriesOne(r) PROVE LogInv' /\ PlacesInv' /\ WritesInv'
    <2>1. /\ LogInv' /\ IsWrite(r) /\ at[r] = "received"
          /\ \A q : CarriedOut(q)' = IF q = r THEN CarriedOut(q) + 1 ELSE CarriedOut(q)
          /\ place[r] \in Nat /\ place[r] + 1 \in 0..Len(Call(r).arg)
      BY <1>6, <1>7, OneMoreKeeps DEF CarriesOne
    <2>2. PlacesInv'
      <3> SUFFICES ASSUME NEW q \in Requests, IsWrite(q), at[q] # "done"
                   PROVE  place'[q] \in 0..Len(Call(q).arg) /\ CarriedOut(q)' = place'[q]
        BY <1>1, <1>7 DEF PlacesInv, CarriesOne
      <3>1. place'[q] = IF q = r THEN place[q] + 1 ELSE place[q]
        BY <1>7 DEF CarriesOne, HandlersInv
      <3>2. place[q] \in 0..Len(Call(q).arg) /\ CarriedOut(q) = place[q]
        BY DEF MultipleInv, PlacesInv
      <3>3. QED
        BY <2>1, <3>1, <3>2
    <2>3. \A q : q # r => \A named : Blames(q, named)' <=> Blames(q, named)
      BY <1>6, <1>7, <2>1, BlamesStays
    <2>4. WritesInv'
      BY <1>1, <1>7, <2>1, <2>3 DEF MultipleInv, WritesInv, CarriesOne
    <2>5. QED
      BY <2>1, <2>2, <2>4
  <1>8. ASSUME NEW r \in Requests, AnswersAll(r) PROVE LogInv' /\ PlacesInv' /\ WritesInv'
    <2>1. (\A q : CarriedOut(q)' = CarriedOut(q)) /\ \A k : SoFar(k)' = SoFar(k)
      BY <1>8, LogStays DEF AnswersAll
    <2>2. IsWrite(r) /\ at[r] = "received"
      BY <1>8 DEF AnswersAll, Writes, IsWrite, CallsFit
    <2>3. place[r] \in 0..Len(Call(r).arg) /\ CarriedOut(r) = place[r] /\ Len(Call(r).arg) \in Nat
      BY <1>2, <2>2 DEF MultipleInv, PlacesInv
    <2>4. LogInv'
      BY <1>1, <1>6, <1>8, <2>1 DEF MultipleInv, LogInv, AnswersAll
    <2>5. \A q \in Requests : at'[q] = IF q = r THEN "done" ELSE at[q]
      BY <1>8 DEF AnswersAll, Progress, HandlersInv
    <2>6. PlacesInv'
      BY <1>1, <1>8, <2>1, <2>5 DEF MultipleInv, PlacesInv, AnswersAll
    <2>7. \A q, named : Blames(q, named)' <=> Blames(q, named)
      BY <1>6, <1>8, <2>1, BlamesStays
    <2>8. PICK m : /\ sent' = Append(sent, m) /\ m.about = r
                   /\ \/ m.kind = "ack" /\ CarriedOut(r) = Len(Call(r).arg)
                      \/ m.kind = "error" /\ Blames(r, m.body)
      <3>1. ASSUME HasNextWrite(r), ~Accepted(NextWrite(r)), NEW named, Names(r, named), Answer(r, "error", named)
            PROVE  Blames(r, named)
        BY <2>3, <3>1 DEF HasNextWrite, NextWrite, Names, Blames
      <3>2. CASE ~HasNextWrite(r) /\ Answer(r, "ack", {})
        <4>1. CarriedOut(r) = Len(Call(r).arg)
          BY <2>3, <3>2 DEF HasNextWrite
        <4>2. QED
          BY <3>2, <4>1 DEF Answer, Send, Message
      <3>3. CASE /\ HasNextWrite(r) /\ ~Accepted(NextWrite(r))
                 /\ \E named : Names(r, named) /\ Answer(r, "error", named)
        BY <3>1, <3>3 DEF Answer, Send, Message
      <3>4. QED
        BY <1>8, <3>2, <3>3 DEF AnswersAll
    <2>9. \A k \in DOMAIN sent' : (k \in DOMAIN sent /\ sent'[k] = sent[k]) \/ sent'[k] = m
      BY <2>8, SentGrows DEF HandlersInv
    <2>10. WritesInv'
      BY <1>1, <1>8, <2>1, <2>5, <2>7, <2>8, <2>9 DEF MultipleInv, WritesInv, AnswersAll, IsWrite
    <2>11. QED
      BY <2>4, <2>6, <2>10
  <1>9. ASSUME NEW r \in Requests, FailsAtTheQueue(r) PROVE LogInv' /\ PlacesInv' /\ WritesInv'
    <2>1. /\ LogInv' /\ IsWrite(r) /\ at[r] = "received" /\ CarriedOut(r) \in Nat
          /\ \A q : CarriedOut(q)' = IF q = r THEN CarriedOut(q) + 1 ELSE CarriedOut(q)
      BY <1>6, <1>9, OneMoreKeeps DEF FailsAtTheQueue
    <2>2. \A q \in Requests : at'[q] = IF q = r THEN "done" ELSE at[q]
      BY <1>9 DEF FailsAtTheQueue, Progress, HandlersInv
    <2>3. PlacesInv'
      <3> SUFFICES ASSUME NEW q \in Requests, IsWrite(q), at'[q] # "done"
                   PROVE  place[q] \in 0..Len(Call(q).arg) /\ CarriedOut(q)' = place[q]
        BY <1>1, <1>9 DEF PlacesInv, FailsAtTheQueue
      <3>1. q # r /\ at[q] # "done"
        BY <2>2
      <3>2. QED
        BY <2>1, <3>1 DEF MultipleInv, PlacesInv
    <2>4. PICK m : sent' = Append(sent, m) /\ m.about = r /\ m.kind = "device-error"
      BY <1>9 DEF FailsAtTheQueue, Answer, Send, Message
    <2>5. \A k \in DOMAIN sent' : (k \in DOMAIN sent /\ sent'[k] = sent[k]) \/ sent'[k] = m
      BY <2>4, SentGrows DEF HandlersInv
    <2>6. phase = "closed" /\ phase' = "closed" /\ CarriedOut(r)' > 0
      BY <1>9, <2>1 DEF FailsAtTheQueue
    <2>7. \A q : q # r => \A named : Blames(q, named)' <=> Blames(q, named)
      BY <1>6, <1>9, <2>1, BlamesStays
    <2>8. WritesInv'
      BY <1>1, <2>1, <2>2, <2>4, <2>5, <2>6, <2>7 DEF MultipleInv, WritesInv, IsWrite
    <2>9. QED
      BY <2>1, <2>3, <2>8
  <1>10. CASE WritesRest
    BY <1>3, <1>10, RestKeeps DEF MultipleInv
  <1>11. QED
    BY <1>3, <1>7, <1>8, <1>9, <1>10 DEF WriteMove, MultipleInv

LEMMA MultipleSteps ==
    ASSUME LifecycleInv, TypesInv, AboutInv, MultipleInv, [Next]_vars
    PROVE  MultipleInv'
  <1>1. CASE UNCHANGED <<adapter, config, handlers>> /\ (~IsProcess \/ UNCHANGED <<phase, served>>)
    <2>1. Requests' = Requests /\ (\A r : Call(r)' = Call(r)) /\ (\A r : IsWrite(r)' = IsWrite(r)) /\ IsProcess' = IsProcess
      BY <1>1, RequestsStay DEF IsWrite
    <2>2. (\A q : CarriedOut(q)' = CarriedOut(q)) /\ \A k : SoFar(k)' = SoFar(k)
      BY <1>1, LogStays DEF handlers
    <2>3. PlacesInv' /\ QuietInv'
      BY <1>1, <2>1, <2>2 DEF MultipleInv, PlacesInv, QuietInv, handlers
    <2>4. CASE ~IsProcess
      <3>1. log' = <<>> /\ sent' = <<>>
        BY <1>1, <2>4 DEF handlers, TypesInv, OthersRest
      <3>2. QED
        BY <2>3, <3>1, EmptySequence DEF MultipleInv, LogInv, WritesInv
    <2>5. CASE UNCHANGED <<phase, served>>
      <3>1. \A write : Accepted(write)' <=> Accepted(write)
        BY <1>1, <2>5, AcceptedStays
      <3>2. \A r, named : Blames(r, named)' <=> Blames(r, named)
        BY <1>1, <2>2, <3>1, BlamesStays
      <3>3. LogInv'
        BY <1>1, <2>1, <2>2, <3>1 DEF MultipleInv, LogInv, handlers
      <3>4. WritesInv'
        BY <1>1, <2>1, <2>2, <2>5, <3>2 DEF MultipleInv, WritesInv, handlers
      <3>5. QED
        BY <2>3, <3>3, <3>4 DEF MultipleInv
    <2>6. QED
      BY <1>1, <2>4, <2>5
  <1>2. CASE UNCHANGED vars
    BY <1>1, <1>2 DEF vars, shared, processVars
  <1>3. CASE SupervisorNext /\ UNCHANGED processVars
    <2>1. ~IsProcess
      BY <1>3 DEF SupervisorNext, Runs, Supervised, IsProcess, Processes
    <2>2. QED
      BY <1>1, <1>3, <2>1, SupervisorSteps DEF processVars
  <1>4. CASE RouterNext
    BY <1>1, <1>4, RouterRests, RouterLives DEF Lives, Keeps
  <1>5. CASE ProcessNext
    <2>1. UNCHANGED <<adapter, config>> /\ IsProcess
      BY <1>5, ProcessGrows DEF Lives, Keeps, TypesInv
    <2>2. CallsFit
      BY <2>1, CallsAsAssumed DEF TypesInv
    <2>3. QED
      BY <1>5, <2>1, <2>2, WriteMoves, DevicesServeOn, MovesKeep DEF TypesInv
  <1>6. QED
    BY <1>2, <1>3, <1>4, <1>5 DEF Next, ProcessNext

\* A WritePropertyMultiple that is acknowledged carried out all of its writes, and
\* one that is refused exactly those before the first that its device does not
\* accept, which its error names if it names any, whatever the number of requests
\* and of writes and however the handlers interleave.
THEOREM WritesAreAnsweredTruly == Spec => []MultipleWritesAreAnsweredTruly
  <1>1. TypesInv /\ MultipleInv => MultipleWritesAreAnsweredTruly
    <2> SUFFICES ASSUME TypesInv, MultipleInv PROVE MultipleWritesAreAnsweredTruly
      OBVIOUS
    <2> DEFINE Truly(k) ==
          LET writes == Call(sent[k].about).arg
              carried == Cardinality(WritesBy(sent[k].about))
          IN CASE Sent(k, "ack")   -> carried = Len(writes)
               [] Sent(k, "error") ->
                    /\ carried < Len(writes) /\ ~Accepted(writes[carried + 1])
                    /\ sent[k].body = {} \/ sent[k].body = {carried + 1}
                    /\ IsWorldiety /\ Len(writes) > 1 => sent[k].body # {}
               [] Sent(k, "device-error") -> carried > 0 /\ phase \in {"closed", "stopped"}
               [] OTHER -> sent[k].kind = "notification"
    <2>1. ASSUME NEW k \in DOMAIN sent, sent[k].about # 0 /\ Call(sent[k].about).kind = "write"
          PROVE  Truly(k)
      <3>1. IsWrite(sent[k].about)
        BY <2>1 DEF IsWrite
      <3>2. CASE sent[k].kind = "notification"
        BY <3>2 DEF Sent
      <3>3. CASE sent[k].kind = "ack" /\ CarriedOut(sent[k].about) = Len(Call(sent[k].about).arg)
        BY <3>3 DEF Sent, CarriedOut
      <3>4. CASE sent[k].kind = "error" /\ Blames(sent[k].about, sent[k].body)
        BY <3>4 DEF Sent, Blames, CarriedOut
      <3>5. CASE /\ sent[k].kind = "device-error" /\ CarriedOut(sent[k].about) > 0
                 /\ phase \in {"closed", "stopped"}
        BY <3>5 DEF Sent, CarriedOut
      <3>6. QED
        BY <3>1, <3>2, <3>3, <3>4, <3>5 DEF MultipleInv, WritesInv
    <2>2. ASSUME NEW k \in DOMAIN log
          PROVE  /\ log[k].write = Cardinality({l \in 1..k : log[l].by = log[k].by})
                 /\ Accepted(Call(log[k].by).arg[log[k].write])
      BY DEF MultipleInv, LogInv, SoFar
    <2>3. QED
      BY <2>1, <2>2 DEF MultipleWritesAreAnsweredTruly
  <1>2. LifecycleInv /\ TypesInv /\ [Next]_vars => TypesInv'
    BY TypesSteps
  <1>3. LifecycleInv /\ TypesInv /\ AboutInv /\ [Next]_vars => AboutInv'
    BY AboutSteps
  <1>4. LifecycleInv /\ TypesInv /\ AboutInv /\ MultipleInv /\ [Next]_vars => MultipleInv'
    BY MultipleSteps
  <1>5. QED
    BY InitTypes, InitAbout, InitMultiple, LifecycleHolds, <1>1, <1>2, <1>3, <1>4, PTL DEF Spec
=============================================================================
