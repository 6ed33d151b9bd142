------------------------ MODULE DeviceMessageProofs ------------------------
(***************************************************************************)
(* What the devices send and tell, for every configuration that                *)
(* CallsAssumption allows: answers that belong to their requests, notifications  *)
(* that come once and after what they are about, operation lines.                  *)
(***************************************************************************)
EXTENDS DeviceServiceProofs

-----------------------------------------------------------------------------
(* Answers that depend on the request *)

Telling == {"vt-open", "audit-query", "enrollments"}

\* The three answers whose body depends on the request are bacpypes3's, and it
\* gives none before its ready event.
TellsItsRequest(m) ==
    m.kind = "ack" /\ Call(m.about).kind \in Telling
        => m.about \in Requests /\ IsBacpypes /\ lines # <<>> /\ m.body = Body(Call(m.about))

AnswersInv == \A k \in DOMAIN sent : TellsItsRequest(sent[k])

\* A message is sent for which TellsItsRequest holds, or none.
TellingMove == UNCHANGED sent \/ \E m : sent' = Append(sent, m) /\ TellsItsRequest(m)

LEMMA TellingStays ==
    ASSUME UNCHANGED <<adapter, config>>, lines # <<>> => lines' # <<>>
    PROVE  \A m : TellsItsRequest(m) => TellsItsRequest(m)'
  <1>1. \A r : Call(r)' = Call(r)
    BY DEF Call
  <1>2. \A f : Summaries(f)' = Summaries(f)
    BY DEF Summaries
  <1>3. \A c : Body(c)' = Body(c)
    BY <1>2 DEF Body
  <1>4. UNCHANGED <<Requests, IsBacpypes>>
    BY DEF Requests, IsProcess, IsBacpypes
  <1>5. QED
    BY <1>1, <1>3, <1>4 DEF TellsItsRequest

LEMMA BacpypesTells ==
    ASSUME LifecycleInv, HandlersInv, ReadsInv, BacpypesNext
    PROVE  TellingMove
  <1>1. CASE Program \/ HearSignal \/ \E r \in Requests : Arrive(r)
    BY <1>1
       DEF Program, HearSignal, Load, LoadsIf, Build, Binds, Announce, Announces, Listen, Advances, Close, Arrive,
           Arrives, handlers, TellingMove
  <1>2. CASE EventLoop /\ EmitAudit
    BY <1>2 DEF EmitAudit, SendUnconfirmedAudit, SendConfirmedAudit, AuditAnswered, Send, Message, TellingMove,
                TellsItsRequest
  <1>3. ASSUME NEW r \in Requests, Handle(r), LoopRuns PROVE TellingMove
    <2>1. CASE Tell(r) \/ AfterRead(r)
      BY <2>1 DEF Tell, AfterRead, TellingMove
    <2>2. CASE Respond(r)
      <3>1. lines # <<>> /\ IsBacpypes
        BY <1>3 DEF LoopRuns, BacpypesNext, IsBacpypes, Supervised, LifecycleInv, ProcessInv, Announced
      <3>2. QED
        BY <2>2, <3>1 DEF Respond, Answer, Send, Message, TellingMove, TellsItsRequest
    <2>3. CASE WriteMultiple(r) \/ Read(r) \/ EmitEvent(r)
      BY <2>3 DEF WriteMultiple, Writes, CarryOut, Refuse, Acknowledge, Read, EmitEvent, Answer, Send, Message,
                  TellingMove, TellsItsRequest, Telling
    <2>4. QED
      BY <1>3, <2>1, <2>2, <2>3 DEF Handle
  <1>4. QED
    BY <1>1, <1>2, <1>3 DEF BacpypesNext, EventLoop

LEMMA WorldietyHandlesWrites ==
    ASSUME NEW r, HandleWrites(r)
    PROVE  Writes(r) /\ (CarryOut(r) \/ Acknowledge(r) \/ \E named : Refuse(r, named))
  BY DEF HandleWrites

LEMMA OthersTell ==
    ASSUME HandlersInv, QueueInv, OutgoingInv, CallsFit,
           Bacnet4jNext \/ WorldietyNext \/ CbsigmaNext \/ SysioNext
    PROVE  TellingMove
  <1>1. CASE Bacnet4jNext
    <2>1. CASE Main \/ Signalled
      BY <2>1 DEF Main, Signalled, ReadFixture, LoadsIf, Initialize, Binds, CreateDeferred, HearServices, HearReads,
                  Advances, EmitReadyEvent, Announces, HookEnds, handlers, TellingMove
    <2>2. CASE Conclude
      BY <2>2 DEF Conclude, Answer, Send, Message, TellingMove, TellsItsRequest, Telling
    <2>3. CASE Depart
      <3>1. sent' = Append(sent, Head(outgoing)) /\ Head(outgoing) = outgoing[1] /\ 1 \in DOMAIN outgoing
        BY <2>3, TailSequence DEF Depart, Send, OutgoingInv
      <3>2. QED
        BY <3>1 DEF OutgoingInv, TellingMove, TellsItsRequest
    <2>4. CASE CallFirstListener \/ CallSecondListener \/ Senders
      BY <2>4
         DEF CallFirstListener, CallSecondListener, Senders, Sender, Sends, Tells, processVars, handlers, TellingMove
    <2>5. CASE \E r \in Requests : HearConfirmation(r) \/ Receive(r)
      BY <2>5 DEF HearConfirmation, Receive, Arrives, TellingMove
    <2>6. QED
      BY <1>1, <2>1, <2>2, <2>3, <2>4, <2>5 DEF Bacnet4jNext, Transport
  <1>2. CASE WorldietyNext
    <2>1. CASE Run \/ RunFails \/ Interrupted \/ Dispatches
      BY <2>1
         DEF Run, RunFails, Interrupted, LoadFile, LoadsIf, NewClientRuntime, Binds, RegisterAndRun, EmitReadyLine,
             Announces, Advances, Select, Returns, handlers, Dispatches, Arrives, TellingMove
    <2>2. ASSUME NEW r \in Requests, HandleWrites(r) PROVE TellingMove
      <3>1. Call(r).kind = "write"
        BY <2>2, WorldietyHandlesWrites DEF Writes
      <3>2. ASSUME NEW named, Refuse(r, named) PROVE TellingMove
        BY <3>1, <3>2 DEF Refuse, Answer, Send, Message, TellingMove, TellsItsRequest, Telling
      <3>3. CASE CarryOut(r) \/ Acknowledge(r)
        BY <3>1, <3>3 DEF CarryOut, Acknowledge, Answer, Send, Message, TellingMove, TellsItsRequest, Telling
      <3>4. QED
        BY <2>2, <3>2, <3>3, WorldietyHandlesWrites
    <2>3. ASSUME NEW r \in Requests, HandleWhoIs(r) \/ HandleRead(r) PROVE TellingMove
      BY <2>3 DEF HandleWhoIs, HandleRead, Answer, Send, Message, TellingMove, TellsItsRequest, Telling
    <2>4. QED
      BY <1>2, <2>1, <2>2, <2>3 DEF WorldietyNext, RunsHandlers
  <1>3. CASE CbsigmaNext
    <2>1. CASE CbsigmaMain \/ CbsigmaSignalled \/ ReportSim \/ CbsigmaReceives
      BY <2>1
         DEF CbsigmaMain, CbsigmaSignalled, LoadCbsigma, LoadsIf, Serve, Binds, EmitCbsigmaReady, Announces, Notify,
             Advances, StopCbsigma, ReportSim, LookAtLists, ReportNext, CbsigmaReceives, Arrives, processVars,
             handlers, TellingMove
    <2>2. CASE UpstreamRuns
      BY <2>2
         DEF UpstreamRuns, WriteProperty, Simulate, Writes, Refuse, Acknowledge, Answer, Send, Message, TellingMove,
             TellsItsRequest, Telling
    <2>3. QED
      BY <1>3, <2>1, <2>2 DEF CbsigmaNext
  <1>4. CASE SysioNext
    <2>1. CASE SysioMain \/ SysioSignalled \/ SysioReceives
      BY <2>1 DEF SysioMain, SysioSignalled, ReadSettings, LoadsIf, StartServer, Binds, EmitSysioReady, Announces,
                  RegisterSignals, Advances, DisposeServer, ReturnFromMain, SysioReceives, Arrives, handlers, TellingMove
    <2>2. ASSUME NEW r \in Requests, HandleWrite(r) PROVE TellingMove
      <3>1. Call(r).kind = "write"
        BY <2>2 DEF HandleWrite, Writes
      <3>2. QED
        BY <2>2, <3>1
           DEF HandleWrite, WriteStored, WriteThrows, AnswerWrites, CarryOut, Refuse, Acknowledge, Answer, Send,
               Message, TellingMove, TellsItsRequest, Telling
    <2>3. ASSUME NEW r \in Requests,
                 TakeGate(r) \/ SubscribeCov(r) \/ ReadAndEmit(r) \/ SysioTells(r) \/ AcknowledgeAlarm(r)
          PROVE  TellingMove
      BY <2>3 DEF TakeGate, SubscribeCov, ReadAndEmit, SysioTells, AcknowledgeAlarm, Answer, Send, Message, processVars,
                  handlers, TellingMove, TellsItsRequest, Telling
    <2>4. CASE SysioNotifier
      <3>1. (UNCHANGED sent \/ sent' = Append(sent, Head(queue))) /\ Head(queue) = queue[1] /\ 1 \in DOMAIN queue
        BY <2>4, TailSequence DEF SysioNotifier, NotifyNext, Send, QueueInv
      <3>2. QED
        BY <3>1 DEF QueueInv, TellingMove, TellsItsRequest
    <2>5. QED
      BY <1>4, <2>1, <2>2, <2>3, <2>4 DEF SysioNext, SysioHandlers, Handles
  <1>5. QED
    BY <1>1, <1>2, <1>3, <1>4

LEMMA AnswersSteps ==
    ASSUME LifecycleInv, TypesInv, AboutInv, AnswersInv, [Next]_vars
    PROVE  AnswersInv'
  <1>1. CASE UNCHANGED <<adapter, config, lines, sent>> \/ (UNCHANGED <<adapter, config, sent>> /\ sent = <<>>)
    <2>1. CASE sent = <<>>
      BY <1>1, <2>1, EmptySequence DEF AnswersInv
    <2>2. CASE UNCHANGED <<adapter, config, lines, sent>>
      BY <2>2, TellingStays DEF AnswersInv
    <2>3. QED
      BY <1>1, <2>1, <2>2
  <1>2. CASE UNCHANGED vars
    BY <1>1, <1>2 DEF vars, shared, processVars, handlers
  <1>3. CASE SupervisorNext /\ UNCHANGED processVars
    <2>1. Supervised /\ UNCHANGED <<adapter, config>>
      BY <1>3, SupervisorSteps DEF SupervisorNext, Runs
    <2>2. sent = <<>>
      BY <2>1 DEF TypesInv, OthersRest, Supervised, IsProcess, Processes
    <2>3. QED
      BY <1>1, <1>3, <2>1, <2>2 DEF processVars, handlers
  <1>4. CASE RouterNext
    <2>1. sent = <<>> /\ UNCHANGED <<adapter, config, sent>>
      BY <1>4, RouterRests, RouterLives DEF Lives, Keeps, TypesInv, OthersRest, handlers
    <2>2. QED
      BY <1>1, <2>1
  <1>5. CASE ProcessNext
    <2>1. UNCHANGED <<adapter, config>> /\ IsProcess /\ Keeps
      BY <1>5, ProcessGrows DEF Lives, Keeps, TypesInv
    <2>2. lines # <<>> => lines' # <<>>
      BY <2>1, EmitCounts DEF Keeps, LifecycleInv, EmitReady, EmitOperation
    <2>3. CallsFit
      BY <2>1, CallsAsAssumed DEF TypesInv
    <2>4. TellingMove
      BY <1>5, <2>3, BacpypesTells, OthersTell DEF ProcessNext, TypesInv, AboutInv
    <2>5. \A k \in DOMAIN sent' : TellsItsRequest(sent'[k])
      BY <2>4, SentGrows DEF TellingMove, AnswersInv, TypesInv, HandlersInv
    <2>6. \A m : TellsItsRequest(m) => TellsItsRequest(m)'
      BY <2>1, <2>2, TellingStays
    <2>7. QED
      BY <2>5, <2>6 DEF AnswersInv
  <1>6. QED
    BY <1>2, <1>3, <1>4, <1>5 DEF Next, ProcessNext

LEMMA InitAnswers == Init => AnswersInv
  BY EmptySequence DEF Init, ProcessInit, AnswersInv

LEMMA NeighboursMeet ==
    \A p, high, low \in Nat : high + 1 = low => (p <= high \/ low <= p) /\ ~(p <= high /\ low <= p)
  OBVIOUS

\* Two session identifiers have the same remote one only if they are the same.
LEMMA SessionsDiffer == \A a, b \in 0..255 : RemoteSession(a) = RemoteSession(b) => a = b
  <1>1. \A n \in 0..511 : n % 256 = IF n < 256 THEN n ELSE n - 256
    OBVIOUS
  <1> SUFFICES ASSUME NEW a \in 0..255, NEW b \in 0..255, RemoteSession(a) = RemoteSession(b) PROVE a = b
    OBVIOUS
  <1>2. a + 100 \in 0..511 /\ b + 100 \in 0..511
    OBVIOUS
  <1> DEFINE R == RemoteSession(a)
  <1>3. R = IF a + 100 < 256 THEN a + 100 ELSE a + 100 - 256
    BY <1>1, <1>2 DEF RemoteSession
  <1>4. R = IF b + 100 < 256 THEN b + 100 ELSE b + 100 - 256
    BY <1>1, <1>2 DEF RemoteSession
  <1> HIDE DEF R
  <1>5. CASE a + 100 < 256 /\ b + 100 < 256
    BY <1>3, <1>4, <1>5
  <1>6. CASE a + 100 < 256 /\ ~(b + 100 < 256)
    BY <1>3, <1>4, <1>6
  <1>7. CASE ~(a + 100 < 256) /\ b + 100 < 256
    BY <1>3, <1>4, <1>7
  <1>8. CASE ~(a + 100 < 256) /\ ~(b + 100 < 256)
    BY <1>3, <1>4, <1>8
  <1>9. QED
    BY <1>5, <1>6, <1>7, <1>8

LEMMA BodyByKind ==
    ASSUME NEW c
    PROVE  /\ c.kind = "vt-open" => Body(c) = {RemoteSession(c.arg)}
           /\ c.kind = "audit-query" => Body(c) = {FirstRecord(c.arg), FirstRecord(c.arg) + 1}
           /\ c.kind = "enrollments" => Body(c) = Summaries(c.arg)
  BY DEF Body

\* The objects with an enrollment, and their priorities.
Enrollable == {o \in {config.objects[n] : n \in DOMAIN config.objects} : o.type \in Enrolled.type}
PriorityOf(o) == Enrolled.priority[o.type]

LEMMA Priorities == \A o \in Enrollable : PriorityOf(o) \in Nat /\ 0 <= PriorityOf(o) /\ PriorityOf(o) <= 255
  BY DEF Enrollable, PriorityOf, Enrolled

\* A filter of priorities alone lets pass what is between its bounds.
LEMMA WholeSummaries ==
    ASSUME NEW f, Whole(f), NEW o
    PROVE  o \in Summaries(f) <=> o \in Enrollable /\ f.low <= PriorityOf(o) /\ PriorityOf(o) <= f.high
  <1>1. f.acknowledgment # "not-acked" /\ f.state \in {"absent", "normal", "all"} /\ f.event = "absent"
    BY DEF Whole
  <1>2. QED
    BY <1>1 DEF Summaries, PassesPriority, Enrollable, PriorityOf

\* Its neighbour asks for all but the priorities as it does.
LEMMA NeighbourIsWhole ==
    ASSUME NEW f \in Filters, NEW g \in Filters, Adjacent(f, g), Whole(f)
    PROVE  Whole(g) /\ f.high \in Nat /\ g.low \in Nat /\ f.high + 1 = g.low
  <1> DEFINE h == [f EXCEPT !.low = g.low, !.high = g.high]
  <1>1. h.acknowledgment = f.acknowledgment /\ h.state = f.state /\ h.event = f.event
    BY DEF Filters
  <1>2. h = g /\ f.high + 1 = g.low
    BY DEF Adjacent
  <1> HIDE DEF h
  <1>3. Whole(g)
    BY <1>1, <1>2 DEF Whole
  <1>4. f.high \in Nat /\ g.low \in Nat
    BY DEF Filters
  <1>5. QED
    BY <1>2, <1>3, <1>4

LEMMA SummariesPartition ==
    ASSUME NEW f \in Filters, NEW g \in Filters, Adjacent(f, g), Whole(f), f.low = 0, g.high = 255
    PROVE  Summaries(f) \cap Summaries(g) = {} /\ Summaries(f) \cup Summaries(g) = Enrollable
  <1>1. Whole(g) /\ f.high \in Nat /\ g.low \in Nat /\ f.high + 1 = g.low
    BY NeighbourIsWhole
  <1>2. \A o : o \in Summaries(f) <=> o \in Enrollable /\ PriorityOf(o) <= f.high
    BY WholeSummaries, Priorities
  <1>3. \A o : o \in Summaries(g) <=> o \in Enrollable /\ g.low <= PriorityOf(o)
    BY <1>1, WholeSummaries, Priorities
  <1>4. \A o \in Enrollable :
           /\ PriorityOf(o) <= f.high \/ g.low <= PriorityOf(o)
           /\ ~(PriorityOf(o) <= f.high /\ g.low <= PriorityOf(o))
    BY <1>1, Priorities, NeighboursMeet
  <1>5. QED
    BY <1>2, <1>3, <1>4

\* What is common to the theorems on answers.
LEMMA AnswersHold == Spec => [](LifecycleInv /\ TypesInv /\ AboutInv /\ AnswersInv)
  <1>1. LifecycleInv /\ TypesInv /\ [Next]_vars => TypesInv'
    BY TypesSteps
  <1>2. LifecycleInv /\ TypesInv /\ AboutInv /\ [Next]_vars => AboutInv'
    BY AboutSteps
  <1>3. LifecycleInv /\ TypesInv /\ AboutInv /\ AnswersInv /\ [Next]_vars => AnswersInv'
    BY AnswersSteps
  <1>4. QED
    BY InitTypes, InitAbout, InitAnswers, LifecycleHolds, <1>1, <1>2, <1>3, PTL DEF Spec

\* "so that a test can tell the ACK belongs to its request": the answers of
\* bacpypes3 to VT-Open and to an audit-log query are of their own requests, also
\* when they wait for one another.
THEOREM AnswersBelongToRequests == Spec => []AnswersTellTheirRequests
  <1>1. LifecycleInv /\ TypesInv /\ AnswersInv => AnswersTellTheirRequests
    <2> SUFFICES ASSUME LifecycleInv, TypesInv, AnswersInv PROVE AnswersTellTheirRequests
      OBVIOUS
    <2>1. ASSUME NEW k \in DOMAIN sent, Sent(k, "ack"), Call(sent[k].about).kind \in Telling
          PROVE  /\ sent[k].body = Body(Call(sent[k].about))
                 /\ Call(sent[k].about).kind = "vt-open" => Call(sent[k].about).arg \in 0..255
      <3>1. sent[k].about \in Requests /\ IsProcess /\ sent[k].body = Body(Call(sent[k].about))
        BY <2>1 DEF AnswersInv, TellsItsRequest, Sent, IsBacpypes, IsProcess, Processes
      <3>2. QED
        BY <3>1, CallsAsAssumed DEF TypesInv, CallsFit
    <2>2. ASSUME NEW j \in DOMAIN sent, NEW k \in DOMAIN sent, Sent(j, "ack"), Sent(k, "ack"),
                 Call(sent[j].about).kind = "vt-open", Call(sent[k].about).kind = "vt-open", sent[j].body = sent[k].body
          PROVE  Call(sent[j].about).arg = Call(sent[k].about).arg
      <3>1. /\ Call(sent[j].about).arg \in 0..255 /\ Call(sent[k].about).arg \in 0..255
            /\ sent[j].body = {RemoteSession(Call(sent[j].about).arg)}
            /\ sent[k].body = {RemoteSession(Call(sent[k].about).arg)}
        BY <2>1, <2>2, BodyByKind DEF Telling
      <3>2. RemoteSession(Call(sent[j].about).arg) = RemoteSession(Call(sent[k].about).arg)
        BY <2>2, <3>1, Zenon
      <3>3. QED
        BY <3>1, <3>2, SessionsDiffer
    <2>3. ASSUME NEW k \in DOMAIN sent, Sent(k, "ack"), Call(sent[k].about).kind = "audit-query",
                 Call(sent[k].about).arg >= 0
          PROVE  Call(sent[k].about).arg \in sent[k].body
      <3>1. sent[k].body = Body(Call(sent[k].about))
        BY <2>1, <2>3 DEF Telling
      <3>2. FirstRecord(Call(sent[k].about).arg) = Call(sent[k].about).arg
        <4>1. Call(sent[k].about).arg # -1
          BY <2>3
        <4>2. QED
          BY <4>1 DEF FirstRecord
      <3>3. QED
        BY <2>3, <3>1, <3>2, BodyByKind
    <2>4. QED
      BY <2>2, <2>3 DEF AnswersTellTheirRequests
  <1>2. QED
    BY AnswersHold, <1>1, PTL

\* Two clients that ask bacpypes3 for the enrollments below and above a priority
\* learn of each served analog and binary value, and of none twice, wherever the
\* bound between them is.
THEOREM EnrollmentsArePartitioned == Spec => []EnrollmentAnswersPartition
  <1>1. LifecycleInv /\ TypesInv /\ AnswersInv /\ ObjectsInv => EnrollmentAnswersPartition
    <2> SUFFICES ASSUME LifecycleInv, TypesInv, AnswersInv, ObjectsInv, NEW j \in DOMAIN sent, NEW k \in DOMAIN sent,
                        NEW f, f = Call(sent[j].about).arg, NEW g, g = Call(sent[k].about).arg,
                        Sent(j, "ack"), Sent(k, "ack"), Call(sent[j].about).kind = "enrollments",
                        Call(sent[k].about).kind = "enrollments", Adjacent(f, g), Whole(f), f.low = 0, g.high = 255
                 PROVE  /\ sent[j].body \cap sent[k].body = {}
                        /\ {<<o.type, o.instance>> : o \in sent[j].body \cup sent[k].body}
                              = {o \in served : o[1] \in Enrolled.type}
      BY DEF EnrollmentAnswersPartition
    <2>1. /\ sent[j].about \in Requests /\ sent[k].about \in Requests /\ IsBacpypes /\ lines # <<>>
          /\ sent[j].body = Body(Call(sent[j].about)) /\ sent[k].body = Body(Call(sent[k].about))
      BY DEF AnswersInv, TellsItsRequest, Sent, Telling
    <2>2. IsProcess /\ CallsFit
      BY <2>1, CallsAsAssumed DEF IsBacpypes, IsProcess, Processes, TypesInv
    <2>3. f \in Filters /\ g \in Filters
      BY <2>1, <2>2 DEF CallsFit
    <2>4. sent[j].body = Summaries(f) /\ sent[k].body = Summaries(g)
      BY <2>1, BodyByKind
    <2>5. sent[j].body \cap sent[k].body = {} /\ sent[j].body \cup sent[k].body = Enrollable
      BY <2>3, <2>4, SummariesPartition
    <2>6. served = NetworkPort \cup Objects(config)
      BY <2>1, <2>2 DEF ObjectsInv, Filled, Expected, IsBacpypes, IsBacnet4j, IsWorldiety, IsCbsigma, IsSysio
    <2>7. {<<o.type, o.instance>> : o \in Enrollable} = {o \in served : o[1] \in Enrolled.type}
      BY <2>6 DEF NetworkPort, Objects, Supported, Enrolled, Enrollable
    <2>8. QED
      BY <2>5, <2>7
  <1>2. LifecycleInv /\ ObjectsInv /\ [Next]_vars => ObjectsInv'
    BY ObjectsSteps
  <1>3. QED
    BY AnswersHold, InitObjects, <1>1, <1>2, PTL DEF Spec

-----------------------------------------------------------------------------
(* Who-Is *)

IsWhoIs(r) == Call(r).kind = "who-is"

FoundInv ==
    /\ \A k \in DOMAIN sent : sent[k].kind = "i-am" =>
          LET r == sent[k].about IN
          r \in Requests /\ at[r] = "done" /\ IsWhoIs(r) /\ InRange(Call(r).arg, config.instance)
    /\ \A j, k \in DOMAIN sent :
          sent[j].kind = "i-am" /\ sent[k].kind = "i-am" /\ sent[j].about = sent[k].about => j = k
    /\ \A r \in Requests : IsWhoIs(r) /\ at[r] = "done" /\ InRange(Call(r).arg, config.instance) =>
          \E k \in DOMAIN sent : sent[k].kind = "i-am" /\ sent[k].about = r

\* Only worldiety's own handler answers a Who-Is, and no other image has done one.
FoundMove ==
    \/ /\ \A r \in Requests : IsWhoIs(r) => (at'[r] = "done" <=> at[r] = "done")
       /\ UNCHANGED sent \/ \E m : sent' = Append(sent, m) /\ m.kind # "i-am"
    \/ \E r \in Requests : HandleWhoIs(r)

LEMMA FoundRests ==
    ASSUME HandlersInv, UNCHANGED sent \/ \E m : sent' = Append(sent, m) /\ m.kind # "i-am",
           \/ UNCHANGED at \/ Cancels
           \/ \E r \in Requests : \E how : Progress(r, how) /\ (IsWhoIs(r) => how # "done" /\ at[r] # "done")
    PROVE  FoundMove
  BY DEF FoundMove, HandlersInv, Progress, Cancels

LEMMA BacpypesFinds ==
    ASSUME HandlersInv, ReadsInv, BacpypesNext
    PROVE  FoundMove
  <1>1. CASE Program \/ HearSignal
    BY <1>1, FoundRests
       DEF Program, HearSignal, Load, LoadsIf, Build, Binds, Announce, Announces, Listen, Advances, Close, handlers, Cancels
  <1>2. CASE EventLoop /\ EmitAudit
    BY <1>2, FoundRests DEF EmitAudit, SendUnconfirmedAudit, SendConfirmedAudit, AuditAnswered, Send, Message
  <1>3. ASSUME NEW r \in Requests, Handle(r) PROVE FoundMove
    <2>1. CASE Tell(r) \/ Respond(r)
      BY <2>1, FoundRests DEF Tell, Told, Respond, MayRespond, Answered, Answer, Send, Message, IsWhoIs
    <2>2. CASE Read(r) \/ AfterRead(r) \/ EmitEvent(r)
      <3>1. ~IsWhoIs(r)
        BY <2>2 DEF Read, AfterRead, EmitEvent, ReadsInv, IsWhoIs
      <3>2. QED
        BY <2>2, <3>1, FoundRests DEF Read, AfterRead, EmitEvent, Answer, Send, Message
    <2>3. CASE WriteMultiple(r)
      BY <2>3, FoundRests
         DEF WriteMultiple, Writes, CarryOut, Refuse, Acknowledge, Answer, Send, Message, IsWhoIs
    <2>4. QED
      BY <1>3, <2>1, <2>2, <2>3 DEF Handle
  <1>4. CASE \E r \in Requests : Arrive(r)
    BY <1>4, FoundRests DEF Arrive, Arrives
  <1>5. QED
    BY <1>1, <1>2, <1>3, <1>4 DEF BacpypesNext, EventLoop

LEMMA Bacnet4jFinds ==
    ASSUME HandlersInv, OutgoingInv, Bacnet4jNext
    PROVE  FoundMove
  <1>1. CASE Main \/ Signalled
    BY <1>1, FoundRests
       DEF Main, Signalled, ReadFixture, LoadsIf, Initialize, Binds, CreateDeferred, HearServices, HearReads, Advances,
           EmitReadyEvent, Announces, HookEnds, handlers
  <1>2. CASE CallFirstListener \/ CallSecondListener
    BY <1>2, FoundRests DEF CallFirstListener, CallSecondListener, HandlersInv
  <1>3. CASE Conclude
    BY <1>3, FoundRests DEF Conclude, Answer, Send, Message, IsWhoIs, HandlersInv
  <1>4. CASE Depart
    <2>1. sent' = Append(sent, Head(outgoing)) /\ Head(outgoing) = outgoing[1] /\ 1 \in DOMAIN outgoing
      BY <1>4, TailSequence DEF Depart, Send, OutgoingInv
    <2>2. Head(outgoing).kind # "i-am" /\ UNCHANGED at
      BY <1>4, <2>1 DEF OutgoingInv, Depart
    <2>3. QED
      BY <2>1, <2>2, FoundRests
  <1>5. CASE \E r \in Requests : HearConfirmation(r) \/ Receive(r)
    BY <1>5, FoundRests DEF HearConfirmation, Receive, Arrives
  <1>6. CASE Senders
    BY <1>6, FoundRests DEF Senders, Sender, Sends, Tells, processVars, handlers
  <1>7. QED
    BY <1>1, <1>2, <1>3, <1>4, <1>5, <1>6 DEF Bacnet4jNext, Transport

LEMMA WorldietyFinds ==
    ASSUME HandlersInv, WorldietyNext
    PROVE  FoundMove
  <1>1. CASE Run \/ RunFails \/ Interrupted
    BY <1>1, FoundRests
       DEF Run, RunFails, Interrupted, LoadFile, LoadsIf, NewClientRuntime, Binds, RegisterAndRun, EmitReadyLine,
           Announces, Advances, Select, Returns, handlers
  <1>2. ASSUME NEW r \in Requests, HandleWrites(r) \/ HandleRead(r) PROVE FoundMove
    <2>1. ASSUME Writes(r), NEW named, Refuse(r, named) PROVE FoundMove
      BY <2>1, FoundRests DEF Writes, Refuse, Answer, Send, Message, IsWhoIs
    <2>2. CASE Writes(r) /\ (CarryOut(r) \/ Acknowledge(r))
      BY <2>2, FoundRests DEF Writes, CarryOut, Acknowledge, Answer, Send, Message, IsWhoIs
    <2>3. CASE HandleRead(r)
      BY <2>3, FoundRests DEF HandleRead, Answer, Send, Message, IsWhoIs
    <2>4. QED
      BY <1>2, <2>1, <2>2, <2>3, WorldietyHandlesWrites
  <1>3. CASE Dispatches
    BY <1>3, FoundRests DEF Dispatches, Arrives
  <1>4. QED
    BY <1>1, <1>2, <1>3 DEF WorldietyNext, RunsHandlers, FoundMove

LEMMA CbsigmaFinds ==
    ASSUME HandlersInv, CbsigmaNext
    PROVE  FoundMove
  <1>1. CASE CbsigmaMain \/ CbsigmaSignalled
    BY <1>1, FoundRests
       DEF CbsigmaMain, CbsigmaSignalled, LoadCbsigma, LoadsIf, Serve, Binds, EmitCbsigmaReady, Announces, Notify,
           Advances, StopCbsigma, handlers
  <1>2. CASE ReportSim
    BY <1>2, FoundRests DEF ReportSim, LookAtLists, ReportNext, processVars, handlers
  <1>3. ASSUME NEW r \in Requests, WriteProperty(r) \/ Simulate(r) PROVE FoundMove
    BY <1>3, FoundRests
       DEF WriteProperty, Simulate, Writes, Refuse, Acknowledge, Answer, Send, Message, IsWhoIs
  <1>4. CASE CbsigmaReceives
    BY <1>4, FoundRests DEF CbsigmaReceives, Arrives
  <1>5. QED
    BY <1>1, <1>2, <1>3, <1>4 DEF CbsigmaNext, UpstreamRuns

LEMMA SysioFinds ==
    ASSUME HandlersInv, QueueInv, SysioNext
    PROVE  FoundMove
  <1>1. CASE SysioMain \/ SysioSignalled
    BY <1>1, FoundRests
       DEF SysioMain, SysioSignalled, ReadSettings, LoadsIf, StartServer, Binds, EmitSysioReady, Announces,
           RegisterSignals, Advances, DisposeServer, ReturnFromMain, handlers
  <1>2. ASSUME NEW r \in Requests, HandleWrite(r) PROVE FoundMove
    <2>1. ~IsWhoIs(r)
      BY <1>2 DEF HandleWrite, Writes, IsWhoIs
    <2>2. QED
      BY <1>2, <2>1, FoundRests
         DEF HandleWrite, WriteStored, WriteThrows, AnswerWrites, CarryOut, Refuse, Acknowledge, Answer, Send, Message
  <1>3. ASSUME NEW r \in Requests,
               TakeGate(r) \/ SubscribeCov(r) \/ ReadAndEmit(r) \/ SysioTells(r) \/ AcknowledgeAlarm(r)
        PROVE  FoundMove
    BY <1>3, FoundRests
       DEF TakeGate, SubscribeCov, ReadAndEmit, SysioTells, AcknowledgeAlarm, Answer, Send, Message, processVars, handlers, IsWhoIs
  <1>4. CASE SysioNotifier
    <2>1. (UNCHANGED sent \/ sent' = Append(sent, Head(queue))) /\ Head(queue) = queue[1] /\ 1 \in DOMAIN queue
      BY <1>4, TailSequence DEF SysioNotifier, NotifyNext, Send, QueueInv
    <2>2. Head(queue).kind # "i-am" /\ UNCHANGED at
      BY <1>4, <2>1 DEF QueueInv, SysioNotifier, NotifyNext
    <2>3. QED
      BY <2>1, <2>2, FoundRests
  <1>5. CASE SysioReceives
    BY <1>5, FoundRests DEF SysioReceives, Arrives
  <1>6. QED
    BY <1>1, <1>2, <1>3, <1>4, <1>5 DEF SysioNext, SysioHandlers, Handles

LEMMA FoundMoves ==
    ASSUME HandlersInv, AboutInv, CallsFit, ProcessNext
    PROVE  FoundMove
  BY BacpypesFinds, Bacnet4jFinds, WorldietyFinds, CbsigmaFinds, SysioFinds DEF ProcessNext, AboutInv

LEMMA FoundKept ==
    ASSUME HandlersInv, FoundInv, FoundMove, UNCHANGED <<adapter, config>>
    PROVE  FoundInv'
  <1>1. Requests' = Requests /\ (\A r : Call(r)' = Call(r)) /\ \A r : IsWhoIs(r)' = IsWhoIs(r)
    BY RequestsStay DEF IsWhoIs
  <1>2. \A a, b : InRange(a, b)' = InRange(a, b)
    BY DEF InRange
  <1>3. CASE /\ \A r \in Requests : IsWhoIs(r) => (at'[r] = "done" <=> at[r] = "done")
             /\ UNCHANGED sent \/ \E m : sent' = Append(sent, m) /\ m.kind # "i-am"
    <2>1. /\ \A k \in DOMAIN sent' : sent'[k].kind = "i-am" => k \in DOMAIN sent /\ sent'[k] = sent[k]
          /\ \A k \in DOMAIN sent : k \in DOMAIN sent' /\ sent'[k] = sent[k]
      BY <1>3, SentGrows DEF HandlersInv
    <2>2. QED
      BY <1>1, <1>2, <1>3, <2>1 DEF FoundInv
  <1>4. ASSUME NEW r \in Requests, HandleWhoIs(r) PROVE FoundInv'
    <2>1. /\ IsWhoIs(r) /\ at[r] = "received"
          /\ \A q \in Requests : at'[q] = IF q = r THEN "done" ELSE at[q]
      BY <1>4 DEF HandleWhoIs, Progress, HandlersInv, IsWhoIs
    <2>2. \A k \in DOMAIN sent : sent[k].kind = "i-am" => sent[k].about # r
      BY <2>1 DEF FoundInv
    <2>3. CASE ~InRange(Call(r).arg, config.instance)
      <3>1. UNCHANGED sent
        BY <1>4, <2>3 DEF HandleWhoIs
      <3>2. QED
        BY <1>1, <1>2, <2>1, <2>2, <2>3, <3>1 DEF FoundInv
    <2>4. CASE InRange(Call(r).arg, config.instance)
      <3>1. PICK m : sent' = Append(sent, m) /\ m.kind = "i-am" /\ m.about = r
        BY <1>4, <2>4 DEF HandleWhoIs, Answer, Send, Message
      <3>2. /\ \A k \in DOMAIN sent' : \/ k \in DOMAIN sent /\ sent'[k] = sent[k]
                                       \/ k = Len(sent) + 1 /\ sent'[k] = m
            /\ \A k \in DOMAIN sent : k \in DOMAIN sent' /\ sent'[k] = sent[k]
            /\ Len(sent) + 1 \in DOMAIN sent' /\ sent'[Len(sent) + 1] = m
        BY <3>1, SentGrows DEF HandlersInv
      <3>3. \A k \in DOMAIN sent' : sent'[k].kind = "i-am" =>
               /\ sent'[k].about \in Requests /\ at'[sent'[k].about] = "done" /\ IsWhoIs(sent'[k].about)
               /\ InRange(Call(sent'[k].about).arg, config.instance)
        BY <2>1, <2>4, <3>1, <3>2 DEF FoundInv
      <3>4. \A j, k \in DOMAIN sent' :
               sent'[j].kind = "i-am" /\ sent'[k].kind = "i-am" /\ sent'[j].about = sent'[k].about => j = k
        BY <2>2, <3>1, <3>2 DEF FoundInv
      <3>5. \A q \in Requests : IsWhoIs(q) /\ at'[q] = "done" /\ InRange(Call(q).arg, config.instance) =>
               \E k \in DOMAIN sent' : sent'[k].kind = "i-am" /\ sent'[k].about = q
        BY <2>1, <3>1, <3>2 DEF FoundInv
      <3>6. QED
        BY <1>1, <1>2, <3>3, <3>4, <3>5 DEF FoundInv
    <2>5. QED
      BY <2>3, <2>4
  <1>5. QED
    BY <1>3, <1>4 DEF FoundMove

LEMMA FoundSteps ==
    ASSUME LifecycleInv, TypesInv, AboutInv, FoundInv, [Next]_vars
    PROVE  FoundInv'
  <1>1. CASE UNCHANGED <<adapter, config, handlers>>
    BY <1>1, RequestsStay DEF FoundInv, IsWhoIs, InRange, handlers
  <1>2. CASE UNCHANGED vars
    BY <1>1, <1>2 DEF vars, shared, processVars
  <1>3. CASE SupervisorNext /\ UNCHANGED processVars
    BY <1>1, <1>3, SupervisorSteps DEF processVars
  <1>4. CASE RouterNext
    BY <1>1, <1>4, RouterRests, RouterLives DEF Lives, Keeps
  <1>5. CASE ProcessNext
    <2>1. UNCHANGED <<adapter, config>> /\ IsProcess
      BY <1>5, ProcessGrows DEF Lives, Keeps, TypesInv
    <2>2. CallsFit
      BY <2>1, CallsAsAssumed DEF TypesInv
    <2>3. QED
      BY <1>5, <2>1, <2>2, FoundMoves, FoundKept DEF TypesInv
  <1>6. QED
    BY <1>2, <1>3, <1>4, <1>5 DEF Next, ProcessNext

LEMMA InitFound == Init => FoundInv
  BY EmptySequence DEF Init, ProcessInit, FoundInv

\* Ranges that meet find a device once: neither bound is left out and none is
\* taken twice, whatever the ranges and the instance.
THEOREM FoundOnce == Spec => []DeviceIsFoundOnce
  <1>1. LifecycleInv /\ TypesInv /\ FoundInv => DeviceIsFoundOnce
    <2> SUFFICES ASSUME LifecycleInv, TypesInv, FoundInv, NEW p \in Requests, NEW q \in Requests,
                        Call(p).kind = "who-is", Call(q).kind = "who-is", at[p] = "done", at[q] = "done",
                        Call(p).arg.high + 1 = Call(q).arg.low,
                        Call(p).arg.low <= config.instance, config.instance <= Call(q).arg.high
                 PROVE  Cardinality({k \in DOMAIN sent : Sent(k, "i-am") /\ sent[k].about \in {p, q}}) = 1
      BY DEF DeviceIsFoundOnce
    <2>1. IsProcess
      BY DEF Requests
    <2>2. CallsFit
      BY <2>1, CallsAsAssumed DEF TypesInv
    <2>3. config.instance \in Nat /\ Call(p).arg.high \in Nat /\ Call(q).arg.low \in Nat
      BY <2>2 DEF CallsFit
    <2>4. (config.instance <= Call(p).arg.high \/ Call(q).arg.low <= config.instance)
             /\ ~(config.instance <= Call(p).arg.high /\ Call(q).arg.low <= config.instance)
      BY <2>3, NeighboursMeet
    <2>5. InRange(Call(p).arg, config.instance) <=> ~InRange(Call(q).arg, config.instance)
      BY <2>4 DEF InRange
    <2>6. PICK r \in {p, q} : InRange(Call(r).arg, config.instance)
      BY <2>5
    <2>7. PICK k \in DOMAIN sent : sent[k].kind = "i-am" /\ sent[k].about = r
      BY <2>6 DEF FoundInv, IsWhoIs
    <2>8. {n \in DOMAIN sent : Sent(n, "i-am") /\ sent[n].about \in {p, q}} = {k}
      BY <2>5, <2>6, <2>7 DEF FoundInv, Sent
    <2>9. QED
      BY <2>8, FS_Singleton
  <1>2. LifecycleInv /\ TypesInv /\ [Next]_vars => TypesInv'
    BY TypesSteps
  <1>3. LifecycleInv /\ TypesInv /\ AboutInv /\ [Next]_vars => AboutInv'
    BY AboutSteps
  <1>4. LifecycleInv /\ TypesInv /\ AboutInv /\ FoundInv /\ [Next]_vars => FoundInv'
    BY FoundSteps
  <1>5. QED
    BY InitTypes, InitAbout, InitFound, LifecycleHolds, <1>1, <1>2, <1>3, <1>4, PTL DEF Spec

-----------------------------------------------------------------------------
(* Notifications come once *)

OfKind(s, kind) == {k \in DOMAIN s : s[k].kind = kind}
AtMostOne(S) == \A x, y \in S : x = y
Emitting == {r \in Requests : at[r] = "emitting"}
Notifying == {"event", "audit", "confirmed-audit"}

\* What only one image uses.
OwnInv ==
    /\ ~IsSysio => queue = <<>>
    /\ ~IsBacnet4j => outgoing = <<>> /\ thread = 0
    /\ ~IsBacpypes => audit.state = "none" /\ \A r \in Requests : at[r] \notin {"read", "emitting"}

\* There is one event: bacpypes3 is at emitting it, it is in one of the queues, or
\* it has been sent.
EventInv ==
    /\ AtMostOne(OfKind(sent, "event")) /\ AtMostOne(OfKind(queue, "event"))
    /\ AtMostOne(OfKind(outgoing, "event")) /\ AtMostOne(Emitting)
    /\ OfKind(sent, "event") # {} =>
          OfKind(queue, "event") = {} /\ OfKind(outgoing, "event") = {} /\ Emitting = {}
    /\ ~event =>
          /\ OfKind(sent, "event") = {} /\ OfKind(queue, "event") = {}
          /\ OfKind(outgoing, "event") = {} /\ Emitting = {}

AuditInv ==
    /\ \E to : audit \in [state : {"none", "created", "sent", "waiting", "ended"}, to : {to}]
    /\ AtMostOne(OfKind(sent, "audit")) /\ AtMostOne(OfKind(sent, "confirmed-audit"))
    /\ audit.state \in {"none", "created"} => OfKind(sent, "audit") = {}
    /\ audit.state \in {"none", "created", "sent"} => OfKind(sent, "confirmed-audit") = {}

\* bacnet4j does not mind what the answer was.
Answering(m) == m.kind = "ack" \/ (IsBacnet4j /\ m.kind = "error")

ReadAnswered(s, r) == \E j \in DOMAIN s : Answering(s[j]) /\ s[j].about = r /\ s[j].to = Call(r).client

\* Where a notification goes, a read has been answered before.
Follows(k, to) ==
    \E j \in 1..(k - 1) : Answering(sent[j]) /\ Call(sent[j].about).kind = "read" /\ sent[j].to = to

\* The event bacnet4j's second listener queues waits for the answer behind which
\* it goes out.
Awaited(r) == thread = r /\ at[r] = "told"

AfterInv ==
    /\ \A r \in Requests : at[r] \in {"read", "emitting"} => ReadAnswered(sent, r)
    /\ audit.state # "none" =>
          \E r \in Requests : Call(r).kind = "read" /\ audit.to = Call(r).client /\ ReadAnswered(sent, r)
    /\ \A k \in OfKind(queue, "event") :
          queue[k].to = Call(queue[k].about).client /\ ReadAnswered(sent, queue[k].about)
    /\ \A k \in OfKind(outgoing, "event") :
          /\ outgoing[k].to = Call(outgoing[k].about).client
          /\ ReadAnswered(sent, outgoing[k].about) \/ Awaited(outgoing[k].about)
    /\ \A k \in DOMAIN sent : sent[k].kind \in Notifying => Follows(k, sent[k].to)

NotifyInv == OwnInv /\ EventInv /\ AuditInv /\ AfterInv

LEMMA OfKindAppend ==
    ASSUME NEW s, IsSequence(s), NEW m, NEW kind
    PROVE  OfKind(Append(s, m), kind) =
              IF m.kind = kind THEN OfKind(s, kind) \cup {Len(s) + 1} ELSE OfKind(s, kind)
  BY AppendSequence DEF OfKind

LEMMA OfKindTail ==
    ASSUME NEW s, IsSequence(s), s # <<>>, NEW kind
    PROVE  /\ OfKind(Tail(s), kind) = {k \in Nat \ {0} : k + 1 \in OfKind(s, kind)}
           /\ AtMostOne(OfKind(s, kind)) => AtMostOne(OfKind(Tail(s), kind))
           /\ OfKind(s, kind) = {} => OfKind(Tail(s), kind) = {}
           /\ AtMostOne(OfKind(s, kind)) /\ Head(s).kind = kind => OfKind(Tail(s), kind) = {}
  <1>1. /\ 1 \in DOMAIN s /\ Head(s) = s[1]
        /\ DOMAIN Tail(s) = {k \in Nat \ {0} : k + 1 \in DOMAIN s}
        /\ \A k \in DOMAIN Tail(s) : k + 1 \in DOMAIN s /\ Tail(s)[k] = s[k + 1]
    BY TailSequence
  <1>2. OfKind(Tail(s), kind) = {k \in Nat \ {0} : k + 1 \in OfKind(s, kind)}
    BY <1>1 DEF OfKind
  <1>3. AtMostOne(OfKind(s, kind)) => AtMostOne(OfKind(Tail(s), kind))
    BY <1>2 DEF AtMostOne
  <1>4. ASSUME AtMostOne(OfKind(s, kind)), Head(s).kind = kind, NEW k \in OfKind(Tail(s), kind) PROVE FALSE
    <2>1. 1 \in OfKind(s, kind) /\ k + 1 \in OfKind(s, kind) /\ k \in Nat \ {0}
      BY <1>1, <1>2, <1>4 DEF OfKind
    <2>2. k + 1 = 1
      BY <1>4, <2>1 DEF AtMostOne
    <2>3. QED
      BY <2>1, <2>2
  <1>5. QED
    BY <1>2, <1>3, <1>4

\* The answer of a read stays one.
LEMMA AnsweredStays ==
    ASSUME HandlersInv, UNCHANGED sent \/ \E m : sent' = Append(sent, m), NEW r
    PROVE  ReadAnswered(sent, r) => ReadAnswered(sent', r)
  BY SentGrows DEF ReadAnswered, HandlersInv

\* What is sent quietly is no notification.
Quietly == UNCHANGED sent \/ \E m : sent' = Append(sent, m) /\ m.kind \notin Notifying

LEMMA QuietKinds ==
    ASSUME HandlersInv, Quietly, NEW kind \in Notifying
    PROVE  OfKind(sent', kind) = OfKind(sent, kind)
  <1>1. \A m : m.kind # kind => OfKind(Append(sent, m), kind) = OfKind(sent, kind)
    BY OfKindAppend DEF HandlersInv
  <1>2. CASE UNCHANGED sent
    BY <1>2
  <1>3. ASSUME NEW m, sent' = Append(sent, m), m.kind \notin Notifying PROVE OfKind(sent', kind) = OfKind(sent, kind)
    BY <1>1, <1>3
  <1>4. QED
    BY <1>2, <1>3 DEF Quietly

\* A step that sends no event and at most loses one.
LEMMA EventRests ==
    ASSUME HandlersInv, EventInv, OfKind(sent', "event") = OfKind(sent, "event"), event => event',
           AtMostOne(OfKind(queue, "event")) => AtMostOne(OfKind(queue', "event")),
           OfKind(queue, "event") = {} => OfKind(queue', "event") = {},
           AtMostOne(OfKind(outgoing, "event")) => AtMostOne(OfKind(outgoing', "event")),
           OfKind(outgoing, "event") = {} => OfKind(outgoing', "event") = {},
           Emitting' \subseteq Emitting
    PROVE  EventInv'
  <1>1. AtMostOne(Emitting')
    BY DEF EventInv, AtMostOne
  <1>2. /\ AtMostOne(OfKind(sent', "event")) /\ AtMostOne(OfKind(queue', "event"))
        /\ AtMostOne(OfKind(outgoing', "event"))
    BY DEF EventInv
  <1>3. OfKind(sent', "event") # {} =>
           OfKind(queue', "event") = {} /\ OfKind(outgoing', "event") = {} /\ Emitting' = {}
    BY DEF EventInv
  <1>4. ~event' =>
          /\ OfKind(sent', "event") = {} /\ OfKind(queue', "event") = {}
          /\ OfKind(outgoing', "event") = {} /\ Emitting' = {}
    BY DEF EventInv
  <1>5. QED
    BY <1>1, <1>2, <1>3, <1>4 DEF EventInv, AtMostOne, OfKind

\* The step that takes the event on itself.
LEMMA EventBegins ==
    ASSUME HandlersInv, EventInv, ~event, event' = TRUE, OfKind(sent', "event") = OfKind(sent, "event"),
           AtMostOne(OfKind(queue', "event")), AtMostOne(OfKind(outgoing', "event")), AtMostOne(Emitting')
    PROVE  EventInv'
  <1>1. OfKind(sent', "event") = {}
    BY DEF EventInv
  <1>2. AtMostOne(OfKind(sent', "event"))
    BY <1>1 DEF AtMostOne
  <1>3. QED
    BY <1>1, <1>2 DEF EventInv, AtMostOne, OfKind

\* The step that sends it.
LEMMA EventIsSent ==
    ASSUME HandlersInv, EventInv, UNCHANGED event, NEW m, sent' = Append(sent, m), m.kind = "event",
           OfKind(queue, "event") # {} \/ OfKind(outgoing, "event") # {} \/ Emitting # {},
           OfKind(queue', "event") = {}, OfKind(outgoing', "event") = {}, Emitting' = {}
    PROVE  EventInv'
  <1>1. OfKind(sent, "event") = {} /\ event
    BY DEF EventInv
  <1>2. OfKind(sent', "event") = {Len(sent) + 1}
    BY <1>1, OfKindAppend DEF HandlersInv
  <1>3. AtMostOne(OfKind(sent', "event")) /\ AtMostOne({})
    BY <1>2 DEF AtMostOne
  <1>4. QED
    BY <1>1, <1>3 DEF EventInv, AtMostOne, OfKind

LEMMA AuditRests ==
    ASSUME HandlersInv, AuditInv, UNCHANGED audit, OfKind(sent', "audit") = OfKind(sent, "audit"),
           OfKind(sent', "confirmed-audit") = OfKind(sent, "confirmed-audit")
    PROVE  AuditInv'
  <1>1. /\ AtMostOne(OfKind(sent', "audit")) /\ AtMostOne(OfKind(sent', "confirmed-audit"))
        /\ audit'.state \in {"none", "created"} => OfKind(sent', "audit") = {}
        /\ audit'.state \in {"none", "created", "sent"} => OfKind(sent', "confirmed-audit") = {}
        /\ \E to : audit' \in [state : {"none", "created", "sent", "waiting", "ended"}, to : {to}]
    BY DEF AuditInv
  <1>2. QED
    BY <1>1 DEF AuditInv, AtMostOne, OfKind

\* The conditions under which what is due stays behind its answer.
LEMMA AfterSteps ==
    ASSUME HandlersInv, OutgoingInv, AfterInv, UNCHANGED <<adapter, config>>,
           \/ UNCHANGED sent
           \/ \E m : /\ sent' = Append(sent, m)
                     /\ m.kind \in Notifying =>
                           \E r : Call(r).kind = "read" /\ m.to = Call(r).client /\ ReadAnswered(sent, r),
           \A r \in Requests : at'[r] \in {"read", "emitting"} => at[r] \in {"read", "emitting"} \/ ReadAnswered(sent', r),
           audit'.state # "none" =>
              \/ audit.state # "none" /\ audit'.to = audit.to
              \/ \E r \in Requests : Call(r).kind = "read" /\ audit'.to = Call(r).client /\ ReadAnswered(sent', r),
           \A k \in OfKind(queue', "event") :
              \/ \E l \in OfKind(queue, "event") : queue'[k] = queue[l]
              \/ queue'[k].to = Call(queue'[k].about).client /\ ReadAnswered(sent', queue'[k].about),
           \A k \in OfKind(outgoing', "event") :
              \/ \E l \in OfKind(outgoing, "event") : outgoing'[k] = outgoing[l]
              \/ outgoing'[k].to = Call(outgoing'[k].about).client
                 /\ thread' = outgoing'[k].about /\ at'[outgoing'[k].about] = "told",
           \A r \in Requests : Awaited(r) /\ Call(r).kind = "read" =>
              (thread' = r /\ at'[r] = "told") \/ ReadAnswered(sent', r) \/ outgoing' = <<>>
    PROVE  AfterInv'
  <1>1. Requests' = Requests /\ (\A r : Call(r)' = Call(r)) /\ IsBacnet4j' = IsBacnet4j
    BY RequestsStay DEF IsBacnet4j
  <1>2. \A r : ReadAnswered(sent, r) => ReadAnswered(sent', r)
    BY AnsweredStays
  <1>3. \A s, r : ReadAnswered(s, r)' = ReadAnswered(s, r)
    BY <1>1 DEF ReadAnswered, Answering
  <1>4. \A r \in Requests : at'[r] \in {"read", "emitting"} => ReadAnswered(sent', r)
    BY <1>2 DEF AfterInv
  <1>5. audit'.state # "none" =>
           \E r \in Requests : Call(r).kind = "read" /\ audit'.to = Call(r).client /\ ReadAnswered(sent', r)
    BY <1>2 DEF AfterInv
  <1>6. \A k \in OfKind(queue', "event") :
           queue'[k].to = Call(queue'[k].about).client /\ ReadAnswered(sent', queue'[k].about)
    BY <1>2 DEF AfterInv
  <1>7. \A k \in OfKind(outgoing', "event") :
          /\ outgoing'[k].to = Call(outgoing'[k].about).client
          /\ \/ ReadAnswered(sent', outgoing'[k].about)
             \/ thread' = outgoing'[k].about /\ at'[outgoing'[k].about] = "told"
    BY <1>2, EmptySequence DEF AfterInv, OfKind, OutgoingInv
  <1>8. ASSUME NEW k \in DOMAIN sent', sent'[k].kind \in Notifying
        PROVE  \E j \in 1..(k - 1) :
                  Answering(sent'[j]) /\ Call(sent'[j].about).kind = "read" /\ sent'[j].to = sent'[k].to
    <2>1. CASE k \in DOMAIN sent /\ sent'[k] = sent[k]
      <3>1. PICK j \in 1..(k - 1) : Answering(sent[j]) /\ Call(sent[j].about).kind = "read" /\ sent[j].to = sent[k].to
        BY <1>8, <2>1 DEF AfterInv, Follows
      <3>2. j \in DOMAIN sent
        BY <2>1, Indices DEF HandlersInv
      <3>3. sent'[j] = sent[j]
        BY <3>2, SentGrows DEF HandlersInv
      <3>4. QED
        BY <2>1, <3>1, <3>3
    <2>2. ASSUME NEW m, sent' = Append(sent, m), k = Len(sent) + 1, sent'[k] = m 
          PROVE  \E j \in 1..(k - 1) :
                    Answering(sent'[j]) /\ Call(sent'[j].about).kind = "read" /\ sent'[j].to = sent'[k].to
      <3>1. PICK r : Call(r).kind = "read" /\ m.to = Call(r).client /\ ReadAnswered(sent, r)
        BY <1>8, <2>2
      <3>2. PICK j \in DOMAIN sent : Answering(sent[j]) /\ sent[j].about = r /\ sent[j].to = Call(r).client
        BY <3>1 DEF ReadAnswered
      <3>3. sent'[j] = sent[j] /\ j \in 1..(k - 1)
        BY <2>2, <3>2, SentGrows DEF HandlersInv
      <3>4. QED
        BY <2>2, <3>1, <3>2, <3>3
    <2>3. QED
      BY <2>1, <2>2, SentGrows DEF HandlersInv
  <1>9. \A m : Answering(m)' = Answering(m)
    BY <1>1 DEF Answering
  <1>10. \A k, to : Follows(k, to)' <=>
            \E j \in 1..(k - 1) : Answering(sent'[j]) /\ Call(sent'[j].about).kind = "read" /\ sent'[j].to = to
    BY <1>1, <1>9 DEF Follows
  <1>11. QED
    BY <1>1, <1>3, <1>4, <1>5, <1>6, <1>7, <1>8, <1>10 DEF AfterInv, OfKind, Awaited

LEMMA QuietSteps ==
    ASSUME HandlersInv, OutgoingInv, NotifyInv, UNCHANGED <<adapter, config, audit, event>>, Quietly,
           \A r \in Requests : at'[r] \in {"read", "emitting"} => at[r] = at'[r],
           \A k \in OfKind(queue', "event") : k \in OfKind(queue, "event") /\ queue'[k] = queue[k],
           \A k \in OfKind(outgoing', "event") : k \in OfKind(outgoing, "event") /\ outgoing'[k] = outgoing[k],
           \A r \in Requests : Awaited(r) /\ Call(r).kind = "read" =>
              (thread' = r /\ at'[r] = "told") \/ outgoing' = <<>>,
           IsSysio \/ UNCHANGED queue, IsBacnet4j \/ UNCHANGED <<outgoing, thread>>
    PROVE  NotifyInv'
  <1>1. Requests' = Requests
    BY RequestsStay
  <1>2. OwnInv'
    BY <1>1 DEF NotifyInv, OwnInv, IsSysio, IsBacnet4j, IsBacpypes
  <1>3. \A kind \in Notifying : OfKind(sent', kind) = OfKind(sent, kind)
    BY QuietKinds
  <1>4. EventInv'
    <2>1. Emitting' \subseteq Emitting
      BY <1>1 DEF Emitting
    <2>2. OfKind(queue', "event") \subseteq OfKind(queue, "event")
          /\ OfKind(outgoing', "event") \subseteq OfKind(outgoing, "event")
      OBVIOUS
    <2>3. \A S, T : S \subseteq T => (AtMostOne(T) => AtMostOne(S)) /\ (T = {} => S = {})
      BY DEF AtMostOne
    <2>4. /\ AtMostOne(OfKind(queue, "event")) => AtMostOne(OfKind(queue', "event"))
          /\ OfKind(queue, "event") = {} => OfKind(queue', "event") = {}
          /\ AtMostOne(OfKind(outgoing, "event")) => AtMostOne(OfKind(outgoing', "event"))
          /\ OfKind(outgoing, "event") = {} => OfKind(outgoing', "event") = {}
      BY <2>2, <2>3
    <2>5. OfKind(sent', "event") = OfKind(sent, "event") /\ UNCHANGED event
      BY <1>3 DEF Notifying
    <2>6. QED
      BY <2>1, <2>4, <2>5, EventRests DEF NotifyInv
  <1>5. AuditInv'
    BY <1>3, AuditRests DEF NotifyInv, Notifying
  <1>6. AfterInv'
    <2>1. UNCHANGED sent \/ \E m : sent' = Append(sent, m) /\ m.kind \notin Notifying
      BY DEF Quietly
    <2>2. QED
      BY <2>1, AfterSteps DEF NotifyInv
  <1>7. QED
    BY <1>2, <1>4, <1>5, <1>6 DEF NotifyInv

\* No other image waits between a read and its end.
LEMMA OthersNeverRead ==
    ASSUME HandlersInv, Bacnet4jNext \/ WorldietyNext \/ CbsigmaNext \/ SysioNext
    PROVE  \A r \in Requests : at'[r] \in {"read", "emitting"} => at[r] = at'[r]
  <1>1. UNCHANGED at \/ \E r \in Requests, how \in Progresses \ {"read", "emitting"} : Progress(r, how)
    <2>1. CASE Bacnet4jNext
      <3>1. CASE Main \/ Signalled
        BY <3>1 DEF Main, Signalled, ReadFixture, LoadsIf, Initialize, Binds, CreateDeferred, HearServices, HearReads,
                    Advances, EmitReadyEvent, Announces, HookEnds, handlers
      <3>2. CASE Transport
        BY <3>2 DEF Transport, CallFirstListener, CallSecondListener, Conclude, Depart, HearConfirmation, HandlersInv,
                    Progresses
      <3>3. CASE Senders \/ \E r \in Requests : Receive(r)
        BY <3>3 DEF Senders, Sender, Sends, Tells, Receive, Arrives, Progresses, processVars, handlers
      <3>4. QED
        BY <2>1, <3>1, <3>2, <3>3 DEF Bacnet4jNext
    <2>2. CASE WorldietyNext
      BY <2>2
         DEF WorldietyNext, Run, RunFails, Interrupted, LoadFile, LoadsIf, NewClientRuntime, Binds, RegisterAndRun,
             EmitReadyLine, Announces, Advances, Select, Returns, handlers, RunsHandlers, HandleWrites, HandleWhoIs,
             HandleRead, CarryOut, Refuse, Acknowledge, Dispatches, Arrives, Progresses
    <2>3. CASE CbsigmaNext
      BY <2>3 DEF CbsigmaNext, CbsigmaMain, CbsigmaSignalled, LoadCbsigma, LoadsIf, Serve, Binds, EmitCbsigmaReady,
                  Announces, Notify, Advances, StopCbsigma, handlers, processVars, ReportSim, LookAtLists, ReportNext,
                  UpstreamRuns, WriteProperty, Simulate, Refuse, Acknowledge, CbsigmaReceives, Arrives, Progresses
    <2>4. CASE SysioNext
      <3>1. CASE SysioMain \/ SysioSignalled
        BY <3>1 DEF SysioMain, SysioSignalled, ReadSettings, LoadsIf, StartServer, Binds, EmitSysioReady, Announces,
                    RegisterSignals, Advances, DisposeServer, ReturnFromMain, handlers
      <3>2. CASE SysioHandlers
        <4>1. PICK r \in Requests : Handles(r)
          BY <3>2 DEF SysioHandlers
        <4>2. CASE TakeGate(r) \/ HandleWrite(r)
          BY <4>2 DEF TakeGate, HandleWrite, WriteStored, WriteThrows, AnswerWrites, CarryOut, Refuse, Acknowledge,
                      Progresses, processVars, handlers
        <4>3. CASE SubscribeCov(r) \/ ReadAndEmit(r) \/ SysioTells(r) \/ AcknowledgeAlarm(r)
          BY <4>3 DEF SubscribeCov, ReadAndEmit, SysioTells, AcknowledgeAlarm, Progresses
        <4>4. QED
          BY <4>1, <4>2, <4>3 DEF Handles
      <3>3. CASE SysioNotifier \/ SysioReceives
        BY <3>3 DEF SysioNotifier, NotifyNext, SysioReceives, Arrives, Progresses
      <3>4. QED
        BY <2>4, <3>1, <3>2, <3>3 DEF SysioNext
    <2>5. QED
      BY <2>1, <2>2, <2>3, <2>4
  <1>2. QED
    BY <1>1 DEF HandlersInv, Progress

LEMMA WorldietyNotifies ==
    ASSUME HandlersInv, OutgoingInv, NotifyInv, WorldietyNext, UNCHANGED <<adapter, config, audit, threads, server>>
    PROVE  NotifyInv'
  <1>1. UNCHANGED event /\ Quietly
    <2>1. CASE Run \/ RunFails \/ Interrupted \/ Dispatches
      BY <2>1
         DEF Run, RunFails, Interrupted, LoadFile, LoadsIf, NewClientRuntime, Binds, RegisterAndRun, EmitReadyLine,
             Announces, Advances, Select, Returns, handlers, Dispatches, Arrives, Quietly
    <2>2. ASSUME NEW r, HandleWrites(r) PROVE UNCHANGED event /\ Quietly
      <3>1. ASSUME NEW named, Refuse(r, named) PROVE UNCHANGED event /\ Quietly
        BY <3>1 DEF Refuse, Answer, Send, Message, Quietly, Notifying
      <3>2. CASE CarryOut(r) \/ Acknowledge(r)
        BY <3>2 DEF CarryOut, Acknowledge, Answer, Send, Message, Quietly, Notifying
      <3>3. QED
        BY <2>2, <3>1, <3>2, WorldietyHandlesWrites
    <2>3. ASSUME NEW r, HandleWhoIs(r) \/ HandleRead(r) PROVE UNCHANGED event /\ Quietly
      BY <2>3 DEF HandleWhoIs, HandleRead, Answer, Send, Message, Quietly, Notifying
    <2>4. QED
      BY <2>1, <2>2, <2>3 DEF WorldietyNext, RunsHandlers
  <1>2. outgoing' = <<>>
    BY DEF NotifyInv, OwnInv, WorldietyNext, IsWorldiety, IsBacnet4j, threads
  <1>3. QED
    BY <1>1, <1>2, OthersNeverRead, QuietSteps DEF threads, server

LEMMA CbsigmaNotifies ==
    ASSUME HandlersInv, OutgoingInv, NotifyInv, CbsigmaNext, UNCHANGED <<adapter, config, audit, threads, server>>
    PROVE  NotifyInv'
  <1>1. UNCHANGED event /\ Quietly
    <2>1. CASE CbsigmaMain \/ CbsigmaSignalled \/ ReportSim \/ CbsigmaReceives
      BY <2>1
         DEF CbsigmaMain, CbsigmaSignalled, LoadCbsigma, LoadsIf, Serve, Binds, EmitCbsigmaReady, Announces, Notify,
             Advances, StopCbsigma, handlers, processVars, ReportSim, LookAtLists, ReportNext, CbsigmaReceives,
             Arrives, Quietly
    <2>2. CASE UpstreamRuns
      BY <2>2
         DEF UpstreamRuns, WriteProperty, Simulate, Refuse, Acknowledge, Answer, Send, Message, Quietly, Notifying
    <2>3. QED
      BY <2>1, <2>2 DEF CbsigmaNext
  <1>2. outgoing' = <<>>
    BY DEF NotifyInv, OwnInv, CbsigmaNext, IsCbsigma, IsBacnet4j, threads
  <1>3. QED
    BY <1>1, <1>2, OthersNeverRead, QuietSteps DEF threads, server

\* bacpypes3: the wrappers of the stack's read, and emit_audit.
LEMMA BacpypesNotifies ==
    ASSUME HandlersInv, ReadsInv, OutgoingInv, NotifyInv, BacpypesNext, UNCHANGED <<adapter, config, threads, server>>
    PROVE  NotifyInv'
  <1>1. /\ queue = <<>> /\ outgoing = <<>> /\ thread = 0 /\ queue' = <<>> /\ outgoing' = <<>> /\ thread' = 0
        /\ OfKind(queue, "event") = {} /\ OfKind(outgoing, "event") = {}
        /\ OfKind(queue', "event") = {} /\ OfKind(outgoing', "event") = {} /\ AtMostOne({})
    BY EmptySequence
       DEF NotifyInv, OwnInv, BacpypesNext, IsBacpypes, IsBacnet4j, IsSysio, threads, server, OfKind, AtMostOne
  <1>2. Requests' = Requests
    BY RequestsStay
  <1>3. OwnInv'
    BY <1>1 DEF OwnInv, BacpypesNext, IsBacpypes, IsBacnet4j, IsSysio
  <1>4. CASE /\ UNCHANGED <<audit, event>> /\ Quietly
             /\ \A r \in Requests : at'[r] \in {"read", "emitting"} => at[r] = at'[r]
    BY <1>1, <1>4, QuietSteps
  <1>5. CASE Program \/ HearSignal
    <2>1. UNCHANGED <<audit, event, sent>> /\ (UNCHANGED at \/ Cancels)
      BY <1>5
         DEF Program, HearSignal, Load, LoadsIf, Build, Binds, Announce, Announces, Listen, Advances, Close, handlers,
             Cancels
    <2>2. QED
      BY <1>4, <2>1 DEF Quietly, Cancels
  <1>6. ASSUME NEW r \in Requests, Tell(r) \/ Respond(r) \/ WriteMultiple(r) \/ Arrive(r) PROVE NotifyInv'
    <2>1. UNCHANGED <<audit, event>> /\ Quietly
      BY <1>6 DEF Tell, Respond, WriteMultiple, CarryOut, Refuse, Acknowledge, Arrive, Arrives, Answer, Send, Message,
                  Quietly, Notifying
    <2>2. UNCHANGED at \/ \E how \in {"told", "done", "received"} : Progress(r, how)
      BY <1>6 DEF Tell, Respond, WriteMultiple, CarryOut, Refuse, Acknowledge, Arrive, Arrives
    <2>3. QED
      BY <1>4, <2>1, <2>2 DEF Progress, HandlersInv
  <1>7. ASSUME NEW r \in Requests, Read(r) PROVE NotifyInv'
    <2>1. UNCHANGED <<audit, event>> /\ Quietly
      BY <1>7 DEF Read, Answer, Send, Message, Quietly, Notifying
    <2>2. CASE Call(r).arg \notin served
      BY <1>4, <1>7, <2>1, <2>2 DEF Read, Progress, HandlersInv
    <2>3. CASE Call(r).arg \in served
      <3>1. Progress(r, "read") /\ \E m : /\ sent' = Append(sent, m) /\ m.kind = "ack" /\ m.about = r
                                          /\ m.to = Call(r).client
        BY <1>7, <2>3 DEF Read, Answer, Send, Message
      <3>2. \A q \in Requests : at'[q] = IF q = r THEN "read" ELSE at[q]
        BY <3>1 DEF Progress, HandlersInv
      <3>3. ReadAnswered(sent', r)
        BY <3>1, SentGrows DEF ReadAnswered, Answering, HandlersInv
      <3>4. AfterInv'
        BY <1>1, <2>1, <3>1, <3>2, <3>3, AfterSteps DEF NotifyInv, Notifying
      <3>5. EventInv'
        <4>1. Emitting' \subseteq Emitting
          BY <1>2, <3>2 DEF Emitting
        <4>2. OfKind(sent', "event") = OfKind(sent, "event")
          BY <2>1, QuietKinds DEF Notifying
        <4>3. QED
          BY <1>1, <2>1, <4>1, <4>2, EventRests DEF NotifyInv
      <3>6. AuditInv'
        BY <2>1, QuietKinds, AuditRests DEF Notifying, NotifyInv
      <3>7. QED
        BY <1>3, <3>4, <3>5, <3>6 DEF NotifyInv
    <2>4. QED
      BY <2>2, <2>3
  <1>8. ASSUME NEW r \in Requests, AfterRead(r) PROVE NotifyInv'
    <2>1. /\ at[r] = "read" /\ UNCHANGED sent /\ Call(r).kind = "read"
          /\ \A q \in Requests : at'[q] = IF q # r THEN at[q] ELSE IF EmitsEvent THEN "emitting" ELSE "done"
      BY <1>8 DEF AfterRead, Progress, HandlersInv, ReadsInv
    <2>2. ReadAnswered(sent', r)
      BY <2>1 DEF NotifyInv, AfterInv
    <2>3. audit' = audit \/ (audit.state = "none" /\ audit' = [state |-> "created", to |-> Call(r).client])
      BY <1>8 DEF AfterRead
    <2>4. AfterInv'
      <3>1. \A q \in Requests : at'[q] \in {"read", "emitting"} => at[q] \in {"read", "emitting"}
        BY <2>1
      <3>2. audit'.state # "none" =>
              \/ audit.state # "none" /\ audit'.to = audit.to
              \/ \E q \in Requests : Call(q).kind = "read" /\ audit'.to = Call(q).client /\ ReadAnswered(sent', q)
        BY <2>1, <2>2, <2>3
      <3>3. QED
        BY <1>1, <2>1, <3>1, <3>2, AfterSteps DEF NotifyInv
    <2>5. EventInv'
      <3>1. CASE EmitsEvent
        <4>1. ~event /\ event' = TRUE
          BY <1>8, <3>1 DEF AfterRead, EmitsEvent
        <4>2. Emitting' = {r}
          BY <1>2, <2>1, <3>1, <4>1 DEF Emitting, NotifyInv, EventInv
        <4>3. AtMostOne(Emitting')
          BY <4>2 DEF AtMostOne
        <4>4. QED
          BY <1>1, <2>1, <4>1, <4>3, EventBegins DEF NotifyInv
      <3>2. CASE ~EmitsEvent
        <4>1. Emitting' \subseteq Emitting
          BY <1>2, <2>1, <3>2 DEF Emitting
        <4>2. event => event'
          BY <1>8 DEF AfterRead
        <4>3. QED
          BY <1>1, <2>1, <4>1, <4>2, EventRests DEF NotifyInv
      <3>3. QED
        BY <3>1, <3>2
    <2>6. AuditInv'
      <3>1. \E to : audit' \in [state : {"none", "created", "sent", "waiting", "ended"}, to : {to}]
        BY <2>3 DEF NotifyInv, AuditInv
      <3>2. audit'.state \in {"none", "created", "sent"} => audit.state \in {"none", "created", "sent"}
        BY <2>3
      <3>3. audit'.state \in {"none", "created"} => audit.state \in {"none", "created"}
        BY <2>3
      <3>4. QED
        BY <2>1, <3>1, <3>2, <3>3 DEF NotifyInv, AuditInv, OfKind, AtMostOne
    <2>7. QED
      BY <1>3, <2>4, <2>5, <2>6 DEF NotifyInv
  <1>9. ASSUME NEW r \in Requests, EmitEvent(r) PROVE NotifyInv'
    <2>1. /\ at[r] = "emitting" /\ UNCHANGED <<audit, event>> /\ Call(r).kind = "read"
          /\ \A q \in Requests : at'[q] = IF q # r THEN at[q] ELSE "done"
      BY <1>9 DEF EmitEvent, Progress, HandlersInv, ReadsInv
    <2>2. CASE UNCHANGED sent
      BY <1>4, <2>1, <2>2 DEF Quietly
    <2>3. CASE Answer(r, "event", {})
      <3>1. PICK m : sent' = Append(sent, m) /\ m.kind = "event" /\ m.to = Call(r).client
        BY <2>3 DEF Answer, Send, Message
      <3>2. ReadAnswered(sent, r)
        BY <2>1 DEF NotifyInv, AfterInv
      <3>3. AfterInv'
        BY <1>1, <2>1, <3>1, <3>2, AfterSteps DEF NotifyInv
      <3>4. Emitting # {} /\ Emitting' = {}
        BY <1>2, <2>1 DEF Emitting, NotifyInv, EventInv, AtMostOne
      <3>5. EventInv'
        BY <1>1, <2>1, <3>1, <3>4, EventIsSent DEF NotifyInv
      <3>6. OfKind(sent', "audit") = OfKind(sent, "audit")
            /\ OfKind(sent', "confirmed-audit") = OfKind(sent, "confirmed-audit")
        BY <3>1, OfKindAppend DEF HandlersInv
      <3>7. AuditInv'
        BY <2>1, <3>6, AuditRests DEF NotifyInv
      <3>8. QED
        BY <1>3, <3>3, <3>5, <3>7 DEF NotifyInv
    <2>4. QED
      BY <1>9, <2>2, <2>3 DEF EmitEvent
  <1>10. CASE EmitAudit
    <2>1. /\ UNCHANGED <<at, event>> /\ audit.state # "none" /\ audit'.to = audit.to
          /\ \E state : audit' = [audit EXCEPT !.state = state]
      <3>1. \E to : audit \in [state : {"none", "created", "sent", "waiting", "ended"}, to : {to}]
        BY DEF NotifyInv, AuditInv
      <3>2. QED
        BY <1>10, <3>1
           DEF EmitAudit, SendUnconfirmedAudit, SendConfirmedAudit, AuditAnswered, AuditTo
    <2>2. /\ UNCHANGED sent \/ \E m : sent' = Append(sent, m) /\ m.kind \in {"audit", "confirmed-audit"} /\ m.to = audit.to
      BY <1>10 DEF EmitAudit, SendUnconfirmedAudit, SendConfirmedAudit, AuditAnswered, Send, Message
    <2>3. PICK r \in Requests : Call(r).kind = "read" /\ audit.to = Call(r).client /\ ReadAnswered(sent, r)
      BY <2>1 DEF NotifyInv, AfterInv
    <2>4. AfterInv'
      BY <1>1, <2>1, <2>2, <2>3, AfterSteps DEF NotifyInv
    <2>5. EventInv'
      <3>1. OfKind(sent', "event") = OfKind(sent, "event")
        <4>1. \A m : m.kind # "event" => OfKind(Append(sent, m), "event") = OfKind(sent, "event")
          BY OfKindAppend DEF HandlersInv
        <4>2. CASE UNCHANGED sent
          BY <4>2
        <4>3. ASSUME NEW m, sent' = Append(sent, m), m.kind \in {"audit", "confirmed-audit"}
              PROVE  OfKind(sent', "event") = OfKind(sent, "event")
          BY <4>1, <4>3
        <4>4. QED
          BY <2>2, <4>2, <4>3
      <3>2. Emitting' \subseteq Emitting
        BY <1>2, <2>1 DEF Emitting
      <3>3. QED
        BY <1>1, <2>1, <3>1, <3>2, EventRests DEF NotifyInv
    <2>6. AuditInv'
      <3> DEFINE Audits == OfKind(sent, "audit")
                 Confirmed == OfKind(sent, "confirmed-audit")
      <3>1. PICK to : audit \in [state : {"none", "created", "sent", "waiting", "ended"}, to : {to}]
        BY DEF NotifyInv, AuditInv
      <3>2. \/ /\ audit.state = "created" /\ audit'.state = "sent"
               /\ \E m : sent' = Append(sent, m) /\ m.kind = "audit"
            \/ /\ audit.state = "sent" /\ audit'.state = "waiting"
               /\ \E m : sent' = Append(sent, m) /\ m.kind = "confirmed-audit"
            \/ audit.state # "none" /\ audit'.state = "ended" /\ UNCHANGED sent
        BY <1>10, <3>1
           DEF EmitAudit, SendUnconfirmedAudit, SendConfirmedAudit, AuditAnswered, AuditTo, Send, Message
      <3>3. audit' \in [state : {"none", "created", "sent", "waiting", "ended"}, to : {to}]
        BY <2>1, <3>1, <3>2
      <3>4. CASE audit.state = "created" /\ audit'.state = "sent" /\ \E m : sent' = Append(sent, m) /\ m.kind = "audit"
        <4>1. Audits = {} /\ OfKind(sent', "audit") = Audits \cup {Len(sent) + 1} /\ OfKind(sent', "confirmed-audit") = Confirmed
          BY <3>4, OfKindAppend DEF HandlersInv, NotifyInv, AuditInv
        <4>2. AtMostOne(OfKind(sent', "audit")) /\ AtMostOne(OfKind(sent', "confirmed-audit"))
          BY <4>1 DEF AtMostOne, NotifyInv, AuditInv
        <4>3. Confirmed = {}
          BY <3>4 DEF NotifyInv, AuditInv
        <4>4. QED
          BY <3>3, <3>4, <4>1, <4>2, <4>3 DEF AuditInv, AtMostOne, OfKind
      <3>5. CASE audit.state = "sent" /\ audit'.state = "waiting"
                 /\ \E m : sent' = Append(sent, m) /\ m.kind = "confirmed-audit"
        <4>1. Confirmed = {} /\ OfKind(sent', "confirmed-audit") = Confirmed \cup {Len(sent) + 1} /\ OfKind(sent', "audit") = Audits
          BY <3>5, OfKindAppend DEF HandlersInv, NotifyInv, AuditInv
        <4>2. AtMostOne(OfKind(sent', "audit")) /\ AtMostOne(OfKind(sent', "confirmed-audit"))
          BY <4>1 DEF AtMostOne, NotifyInv, AuditInv
        <4>3. QED
          BY <3>3, <3>5, <4>1, <4>2 DEF AuditInv, AtMostOne, OfKind
      <3>6. CASE audit'.state = "ended" /\ UNCHANGED sent
        BY <3>3, <3>6 DEF NotifyInv, AuditInv, AtMostOne, OfKind
      <3>7. QED
        BY <3>2, <3>4, <3>5, <3>6
    <2>7. QED
      BY <1>3, <2>4, <2>5, <2>6 DEF NotifyInv
  <1>11. QED
    BY <1>5, <1>6, <1>7, <1>8, <1>9, <1>10 DEF BacpypesNext, EventLoop, Handle

\* bacnet4j: the second listener queues the event, and the transport sends what is
\* queued once it is done with the request.
LEMMA Bacnet4jNotifies ==
    ASSUME HandlersInv, OutgoingInv, CallsFit, NotifyInv, Bacnet4jNext, UNCHANGED <<adapter, config, audit, server>>
    PROVE  NotifyInv'
  <1>1. /\ queue = <<>> /\ queue' = <<>> /\ OfKind(queue, "event") = {} /\ OfKind(queue', "event") = {}
        /\ AtMostOne({}) /\ IsBacnet4j
    BY EmptySequence DEF NotifyInv, OwnInv, Bacnet4jNext, IsBacnet4j, IsSysio, server, OfKind, AtMostOne
  <1>2. Requests' = Requests
    BY RequestsStay
  <1>3. \A r \in Requests : at'[r] \in {"read", "emitting"} => at[r] = at'[r]
    BY OthersNeverRead
  <1>4. OwnInv' /\ Emitting' \subseteq Emitting
    BY <1>1, <1>2, <1>3 DEF NotifyInv, OwnInv, IsBacpypes, IsBacnet4j, IsSysio, Emitting
  <1>5. CASE /\ UNCHANGED event /\ Quietly
             /\ \A k \in OfKind(outgoing', "event") : k \in OfKind(outgoing, "event") /\ outgoing'[k] = outgoing[k]
             /\ \A r \in Requests : Awaited(r) => thread' = r /\ at'[r] = "told"
    BY <1>1, <1>3, <1>5, QuietSteps
  <1>6. CASE Main \/ (Signalled /\ UNCHANGED threads) \/ \E r \in Requests : HearConfirmation(r)
    <2>1. UNCHANGED <<event, sent, outgoing, thread, at>>
      BY <1>6 DEF Main, Signalled, ReadFixture, LoadsIf, Initialize, Binds, CreateDeferred, HearServices, HearReads,
                  Advances, EmitReadyEvent, Announces, HookEnds, HearConfirmation, handlers, threads
    <2>2. QED
      BY <1>5, <2>1 DEF Quietly, Awaited
  <1>7. CASE CallFirstListener
    <2>1. UNCHANGED <<event, sent, outgoing, thread>> /\ at[thread] = "received"
      BY <1>7 DEF CallFirstListener
    <2>2. QED
      BY <1>5, <2>1 DEF Quietly, Awaited
  <1>8. ASSUME NEW r \in Requests, Receive(r) PROVE NotifyInv'
    <2>1. UNCHANGED <<event, sent, outgoing>> /\ thread = 0
      BY <1>8 DEF Receive, Arrives
    <2>2. \A q \in Requests : ~Awaited(q)
      BY <2>1 DEF Awaited, CallsFit
    <2>3. QED
      BY <1>5, <2>1, <2>2 DEF Quietly
  <1>9. CASE CallSecondListener
    <2> DEFINE m == Message(Call(thread).client, "event", thread, {})
    <2>1. /\ thread \in Requests /\ at[thread] = "heard" /\ UNCHANGED <<sent, thread>> /\ at'[thread] = "told"
      BY <1>9 DEF CallSecondListener, Progress, HandlersInv
    <2>2. OfKind(sent', "event") = OfKind(sent, "event") /\ \A r \in Requests : ~Awaited(r)
      BY <2>1 DEF Awaited
    <2>3. CASE UNCHANGED <<event, outgoing>>
      BY <1>5, <2>1, <2>2, <2>3 DEF Quietly
    <2>4. CASE /\ ~event /\ event' = TRUE
               /\ outgoing' = Append(outgoing, m) \/ UNCHANGED outgoing
      <3>1. OfKind(outgoing, "event") = {}
        BY <2>4 DEF NotifyInv, EventInv
      <3>2. OfKind(Append(outgoing, m), "event") = {Len(outgoing) + 1} /\ Append(outgoing, m)[Len(outgoing) + 1] = m
        BY <3>1, OfKindAppend, AppendSequence DEF OutgoingInv, Message
      <3>3. m.to = Call(thread).client /\ m.about = thread
        BY DEF Message
      <3>4. \A k \in OfKind(outgoing', "event") : k = Len(outgoing) + 1 /\ outgoing'[k] = m
        <4>1. CASE UNCHANGED outgoing
          BY <3>1, <4>1
        <4>2. CASE outgoing' = Append(outgoing, m)
          <5> HIDE DEF m
          <5>1. QED
            BY <3>2, <4>2
        <4>3. QED
          BY <2>4, <4>1, <4>2
      <3>5. AtMostOne(OfKind(outgoing', "event"))
        BY <3>4 DEF AtMostOne
      <3>6. AtMostOne(Emitting')
        BY <1>4 DEF AtMostOne, NotifyInv, EventInv
      <3>7. EventInv'
        BY <1>1, <2>2, <2>4, <3>5, <3>6, EventBegins DEF NotifyInv
      <3>8. \A k \in OfKind(outgoing', "event") :
               /\ outgoing'[k].to = Call(outgoing'[k].about).client
               /\ thread' = outgoing'[k].about /\ at'[outgoing'[k].about] = "told"
        <4> HIDE DEF m
        <4>1. QED
          BY <2>1, <3>3, <3>4
      <3>9. AfterInv'
        BY <1>1, <1>3, <2>1, <2>2, <3>8, AfterSteps DEF NotifyInv
      <3>10. AuditInv'
        BY <2>1, AuditRests DEF NotifyInv
      <3>11. QED
        BY <1>4, <3>7, <3>9, <3>10 DEF NotifyInv
    <2>5. QED
      BY <1>9, <2>3, <2>4 DEF CallSecondListener, Queue
  <1>10. CASE Conclude
    <2>1. /\ thread \in Requests /\ UNCHANGED <<event, outgoing>> /\ Quietly
      BY <1>10 DEF Conclude, HandlersInv, Answer, Send, Message, Quietly, Notifying
    <2>2. Call(thread).kind = "read" => ReadAnswered(sent', thread)
      <3> SUFFICES ASSUME Call(thread).kind = "read" PROVE ReadAnswered(sent', thread)
        OBVIOUS
      <3>1. \E m : /\ sent' = Append(sent, m) /\ m.kind \in {"ack", "error"} /\ m.about = thread
                   /\ m.to = Call(thread).client
        BY <1>10 DEF Conclude, Answer, Send, Message
      <3>2. QED
        BY <1>1, <3>1, SentGrows DEF ReadAnswered, Answering, HandlersInv
    <2>3. \A r \in Requests : Awaited(r) /\ Call(r).kind = "read" => ReadAnswered(sent', r)
      BY <2>2 DEF Awaited
    <2>4. UNCHANGED sent \/ \E m : sent' = Append(sent, m) /\ m.kind \notin Notifying
      BY <2>1 DEF Quietly
    <2>5. AfterInv'
      BY <1>1, <1>3, <2>1, <2>3, <2>4, AfterSteps DEF NotifyInv
    <2>6. \A kind \in Notifying : OfKind(sent', kind) = OfKind(sent, kind)
      BY <2>1, QuietKinds
    <2>7. OfKind(sent', "event") = OfKind(sent, "event") /\ (event => event')
      BY <2>1, <2>6 DEF Notifying
    <2>8. EventInv'
      BY <1>1, <1>4, <2>1, <2>7, EventRests DEF NotifyInv
    <2>9. AuditInv'
      BY <2>6, AuditRests DEF NotifyInv, Notifying
    <2>10. QED
      BY <1>4, <2>5, <2>8, <2>9 DEF NotifyInv
  <1>11. CASE Depart
    <2> DEFINE m == outgoing[1]
    <2>1. /\ thread = 0 /\ outgoing # <<>> /\ outgoing' = Tail(outgoing) /\ UNCHANGED <<event, at, thread>>
      BY <1>11 DEF Depart
    <2>2. /\ sent' = Append(sent, m) /\ 1 \in DOMAIN outgoing
          /\ \A k \in DOMAIN outgoing' : k + 1 \in DOMAIN outgoing /\ outgoing'[k] = outgoing[k + 1]
      BY <1>11, <2>1, TailSequence DEF Depart, Send, OutgoingInv
    <2>3. m.about \in Requests /\ (m.kind = "event" => Call(m.about).kind = "read")
          /\ m.kind \in {"event", "cov-multiple", "confirmed-cov-multiple"}
      BY <2>2 DEF OutgoingInv
    <2>4. \A r \in Requests : ~Awaited(r)
      BY <2>1 DEF Awaited, CallsFit
    <2>5. m.kind = "event" => m.to = Call(m.about).client /\ ReadAnswered(sent, m.about)
      BY <2>2, <2>3, <2>4 DEF NotifyInv, AfterInv, OfKind
    <2>6. AfterInv'
      <3>1. \A k \in OfKind(outgoing', "event") : \E l \in OfKind(outgoing, "event") : outgoing'[k] = outgoing[l]
        BY <2>2 DEF OfKind
      <3>2. m.kind \in Notifying => \E r : Call(r).kind = "read" /\ m.to = Call(r).client /\ ReadAnswered(sent, r)
        BY <2>3, <2>5 DEF Notifying
      <3> HIDE DEF m
      <3>3. QED
        BY <1>1, <1>3, <2>2, <2>4, <3>1, <3>2, AfterSteps DEF NotifyInv
    <2>7. /\ AtMostOne(OfKind(outgoing', "event")) /\ (OfKind(outgoing, "event") = {} => OfKind(outgoing', "event") = {})
          /\ m.kind = "event" => OfKind(outgoing, "event") # {} /\ OfKind(outgoing', "event") = {}
      <3>1. AtMostOne(OfKind(outgoing, "event")) /\ Head(outgoing) = m
        BY <2>1, TailSequence DEF NotifyInv, EventInv, OutgoingInv
      <3>2. m.kind = "event" => 1 \in OfKind(outgoing, "event")
        BY <2>2 DEF OfKind
      <3> HIDE DEF m
      <3>3. QED
        BY <2>1, <3>1, <3>2, OfKindTail DEF OutgoingInv
    <2>8. \A kind : OfKind(Append(sent, m), kind) =
                       IF m.kind = kind THEN OfKind(sent, kind) \cup {Len(sent) + 1} ELSE OfKind(sent, kind)
      BY OfKindAppend DEF HandlersInv
    <2>9. AuditInv'
      BY <2>2, <2>3, <2>8, AuditRests DEF NotifyInv
    <2>10. EventInv'
      <3>1. CASE m.kind = "event"
        <4>1. OfKind(outgoing, "event") # {} /\ OfKind(outgoing', "event") = {} /\ Emitting' = {}
          BY <1>4, <2>7, <3>1 DEF NotifyInv, OwnInv, IsBacnet4j, IsBacpypes, Emitting, Bacnet4jNext
        <4> HIDE DEF m
        <4>2. QED
          BY <1>1, <2>1, <2>2, <3>1, <4>1, EventIsSent DEF NotifyInv
      <3>2. CASE m.kind # "event"
        <4>1. OfKind(sent', "event") = OfKind(sent, "event") /\ (event => event')
          BY <2>1, <2>2, <2>8, <3>2
        <4>2. QED
          BY <1>1, <1>4, <2>7, <4>1, EventRests DEF NotifyInv
      <3>3. QED
        BY <3>1, <3>2
    <2>11. QED
      BY <1>4, <2>6, <2>9, <2>10 DEF NotifyInv
  <1>12. ASSUME NEW r \in Requests, Sender(r) PROVE NotifyInv'
    <2>1. UNCHANGED <<event, sent, thread, at>>
      BY <1>12 DEF Sender, Sends, Tells, processVars, handlers
    <2>2. \/ UNCHANGED outgoing
          \/ \E m : outgoing' = Append(outgoing, m) /\ m.kind \in {"cov-multiple", "confirmed-cov-multiple"}
      BY <1>12 DEF Sender, Sends, Tells, Queue, Message
    <2>3. \A m : /\ m.kind # "event" => OfKind(Append(outgoing, m), "event") = OfKind(outgoing, "event")
                 /\ \A k \in DOMAIN outgoing : Append(outgoing, m)[k] = outgoing[k]
      BY OfKindAppend, AppendSequence DEF OutgoingInv
    <2>4. \A k \in OfKind(outgoing', "event") : k \in OfKind(outgoing, "event") /\ outgoing'[k] = outgoing[k]
      <3>1. CASE UNCHANGED outgoing
        BY <3>1
      <3>2. ASSUME NEW m, outgoing' = Append(outgoing, m), m.kind \in {"cov-multiple", "confirmed-cov-multiple"}
            PROVE  \A k \in OfKind(outgoing', "event") : k \in OfKind(outgoing, "event") /\ outgoing'[k] = outgoing[k]
        <4>1. OfKind(outgoing', "event") = OfKind(outgoing, "event")
          BY <2>3, <3>2
        <4>2. QED
          BY <2>3, <3>2, <4>1 DEF OfKind
      <3>3. QED
        BY <2>2, <3>1, <3>2
    <2>5. QED
      BY <1>5, <2>1, <2>4 DEF Quietly, Awaited
  <1>13. QED
    BY <1>6, <1>7, <1>8, <1>9, <1>10, <1>11, <1>12 DEF Bacnet4jNext, Transport, Senders

\* sysiobacnet: the event is queued under _gate and sent by the notifier.
LEMMA SysioNotifies ==
    ASSUME HandlersInv, QueueInv, OutgoingInv, CallsFit, NotifyInv, SysioNext,
           UNCHANGED <<adapter, config, audit, threads>>
    PROVE  NotifyInv'
  <1>1. /\ outgoing = <<>> /\ outgoing' = <<>> /\ thread = 0 /\ thread' = 0
        /\ OfKind(outgoing, "event") = {} /\ OfKind(outgoing', "event") = {} /\ AtMostOne({}) /\ IsSysio
    BY EmptySequence DEF NotifyInv, OwnInv, SysioNext, IsBacnet4j, IsSysio, threads, OfKind, AtMostOne
  <1>2. Requests' = Requests
    BY RequestsStay
  <1>3. \A r \in Requests : at'[r] \in {"read", "emitting"} => at[r] = at'[r]
    BY OthersNeverRead
  <1>4. OwnInv' /\ Emitting' \subseteq Emitting
    BY <1>1, <1>2, <1>3 DEF NotifyInv, OwnInv, IsBacpypes, IsBacnet4j, IsSysio, Emitting
  <1>5. CASE /\ UNCHANGED event /\ Quietly
             /\ \A k \in OfKind(queue', "event") : k \in OfKind(queue, "event") /\ queue'[k] = queue[k]
    BY <1>1, <1>3, <1>5, QuietSteps
  <1>6. CASE SysioMain \/ SysioSignalled \/ SysioReceives
    <2>1. UNCHANGED <<event, sent, queue>>
      BY <1>6 DEF SysioMain, SysioSignalled, ReadSettings, LoadsIf, StartServer, Binds, EmitSysioReady, Announces,
                  RegisterSignals, Advances, DisposeServer, ReturnFromMain, SysioReceives, Arrives, handlers, server
    <2>2. QED
      BY <1>5, <2>1 DEF Quietly
  <1>7. ASSUME NEW r \in Requests, TakeGate(r) \/ SysioTells(r) \/ AcknowledgeAlarm(r) PROVE NotifyInv'
    <2>1. UNCHANGED <<event, queue>> /\ Quietly
      BY <1>7 DEF TakeGate, SysioTells, AcknowledgeAlarm, Answer, Send, Message, processVars, handlers, server, Quietly, Notifying
    <2>2. QED
      BY <1>5, <2>1
  <1>8. ASSUME NEW r \in Requests, HandleWrite(r) PROVE NotifyInv'
    <2>1. UNCHANGED event /\ Quietly
      BY <1>8 DEF HandleWrite, WriteStored, WriteThrows, AnswerWrites, CarryOut, Refuse, Acknowledge, Answer, Send,
                  Message, Quietly, Notifying
    <2>2. CASE WriteThrows(r) \/ AnswerWrites(r)
      BY <1>5, <2>1, <2>2 DEF WriteThrows, AnswerWrites
    <2>3. CASE WriteStored(r)
      <3> DEFINE more == NotificationsOf(r, NextWrite(r))
      <3>1. queue' = queue \o more /\ IsSequence(more) /\ \A k \in DOMAIN more : more[k].kind = "notification"
        BY <2>3, NotificationsTyped DEF WriteStored
      <3>2. \A k \in DOMAIN queue' :
               \/ k \in DOMAIN queue /\ queue'[k] = queue[k]
               \/ k - Len(queue) \in DOMAIN more /\ queue'[k] = more[k - Len(queue)]
        <4> HIDE DEF more
        <4> QED
          BY <3>1, ConcatSequence DEF QueueInv
      <3>3. \A k \in OfKind(queue', "event") : k \in OfKind(queue, "event") /\ queue'[k] = queue[k]
        <4> HIDE DEF more
        <4> QED
          BY <3>1, <3>2 DEF OfKind
      <3>4. QED
        BY <1>5, <2>1, <3>3
    <2>4. QED
      BY <1>8, <2>2, <2>3 DEF HandleWrite
  <1>9. ASSUME NEW r \in Requests, SubscribeCov(r) PROVE NotifyInv'
    <2> DEFINE m == Message(Call(r).client, "notification", r, {})
    <2>1. UNCHANGED event /\ Quietly
      BY <1>9 DEF SubscribeCov, Answer, Send, Message, Quietly, Notifying
    <2>2. queue' = queue \/ queue' = Append(queue, m)
      BY <1>9 DEF SubscribeCov
    <2>3. /\ OfKind(Append(queue, m), "event") = OfKind(queue, "event")
          /\ \A k \in DOMAIN queue : Append(queue, m)[k] = queue[k]
      BY OfKindAppend, AppendSequence DEF QueueInv, Message
    <2>4. \A k \in OfKind(queue', "event") : k \in OfKind(queue, "event") /\ queue'[k] = queue[k]
      <3> HIDE DEF m
      <3>1. CASE queue' = queue
        BY <3>1
      <3>2. CASE queue' = Append(queue, m)
        BY <2>3, <3>2 DEF OfKind
      <3>3. QED
        BY <2>2, <3>1, <3>2
    <2>5. QED
      BY <1>5, <2>1, <2>4
  <1>10. ASSUME NEW r \in Requests, ReadAndEmit(r) PROVE NotifyInv'
    <2> DEFINE m == Message(Call(r).client, "event", r, {})
    <2>1. Quietly
      BY <1>10 DEF ReadAndEmit, Answer, Send, Message, Quietly, Notifying
    <2>2. \A kind \in Notifying : OfKind(sent', kind) = OfKind(sent, kind)
      BY <2>1, QuietKinds
    <2>3. AuditInv' /\ OfKind(sent', "event") = OfKind(sent, "event")
      BY <2>2, AuditRests DEF NotifyInv, Notifying
    <2>4. UNCHANGED sent \/ \E msg : sent' = Append(sent, msg) /\ msg.kind \notin Notifying
      BY <2>1 DEF Quietly
    <2>5. CASE queue' = queue
      <3>1. event => event'
        BY <1>10 DEF ReadAndEmit
      <3>2. EventInv'
        BY <1>1, <1>4, <2>3, <2>5, <3>1, EventRests DEF NotifyInv
      <3>3. AfterInv'
        BY <1>1, <1>3, <2>4, <2>5, AfterSteps DEF NotifyInv
      <3>4. QED
        BY <1>4, <2>3, <3>2, <3>3 DEF NotifyInv
    <2>6. CASE queue' # queue
      <3>1. queue' = Append(queue, m) /\ ~event /\ Call(r).arg \in served
        BY <1>10, <2>6 DEF ReadAndEmit
      <3>2. event' = TRUE
        BY <1>10, <2>6 DEF ReadAndEmit
      <3>3. ReadAnswered(sent', r)
        <4>1. \E msg : sent' = Append(sent, msg) /\ msg.kind = "ack" /\ msg.about = r /\ msg.to = Call(r).client
          BY <1>10, <3>1 DEF ReadAndEmit, Answer, Send, Message
        <4>2. QED
          BY <4>1, SentGrows DEF ReadAnswered, Answering, HandlersInv
      <3>4. m.to = Call(r).client /\ m.about = r /\ m.kind = "event"
        BY DEF Message
      <3>5. OfKind(queue, "event") = {}
        BY <3>1 DEF NotifyInv, EventInv
      <3>6. \A k \in OfKind(queue', "event") : k = Len(queue) + 1 /\ queue'[k] = m
        <4> HIDE DEF m
        <4>1. /\ OfKind(Append(queue, m), "event") = {Len(queue) + 1}
              /\ Append(queue, m)[Len(queue) + 1] = m
          BY <3>4, <3>5, OfKindAppend, AppendSequence DEF QueueInv
        <4>2. QED
          BY <3>1, <4>1
      <3>7. AtMostOne(OfKind(queue', "event"))
        BY <3>6 DEF AtMostOne
      <3>8. AtMostOne(Emitting')
        BY <1>4 DEF AtMostOne, NotifyInv, EventInv
      <3>9. EventInv'
        BY <1>1, <2>3, <3>1, <3>2, <3>7, <3>8, EventBegins DEF NotifyInv
      <3>10. \A k \in OfKind(queue', "event") :
                queue'[k].to = Call(queue'[k].about).client /\ ReadAnswered(sent', queue'[k].about)
        <4> HIDE DEF m
        <4>1. QED
          BY <3>3, <3>4, <3>6
      <3>11. AfterInv'
        BY <1>1, <1>3, <2>4, <3>10, AfterSteps DEF NotifyInv
      <3>12. QED
        BY <1>4, <2>3, <3>9, <3>11 DEF NotifyInv
    <2>7. QED
      BY <2>5, <2>6
  <1>11. CASE SysioNotifier
    <2> DEFINE m == queue[1]
    <2>1. queue # <<>> /\ queue' = Tail(queue) /\ UNCHANGED <<event, at>>
      BY <1>11 DEF SysioNotifier, NotifyNext
    <2>2. /\ sent' = sent \/ sent' = Append(sent, m)
          /\ 1 \in DOMAIN queue /\ Head(queue) = m
          /\ \A k \in DOMAIN queue' : k + 1 \in DOMAIN queue /\ queue'[k] = queue[k + 1]
      BY <1>11, <2>1, TailSequence DEF SysioNotifier, NotifyNext, Send, QueueInv
    <2>3. (m.kind = "event" => Call(m.about).kind = "read") /\ m.kind \in {"event", "notification"}
      BY <2>2 DEF QueueInv
    <2>4. m.kind = "event" => m.to = Call(m.about).client /\ ReadAnswered(sent, m.about)
      BY <2>2 DEF NotifyInv, AfterInv, OfKind
    <2>5. m.kind = "event" => OfKind(queue, "event") # {}
      BY <2>2 DEF OfKind
    <2> HIDE DEF m
    <2>6. AfterInv'
      <3>1. \A k \in OfKind(queue', "event") : \E l \in OfKind(queue, "event") : queue'[k] = queue[l]
        BY <2>2 DEF OfKind
      <3>2. m.kind \in Notifying => \E r : Call(r).kind = "read" /\ m.to = Call(r).client /\ ReadAnswered(sent, r)
        BY <2>3, <2>4 DEF Notifying
      <3>3. QED
        BY <1>1, <1>3, <2>2, <3>1, <3>2, AfterSteps DEF NotifyInv
    <2>7. /\ AtMostOne(OfKind(queue', "event")) /\ (OfKind(queue, "event") = {} => OfKind(queue', "event") = {})
          /\ m.kind = "event" => OfKind(queue', "event") = {}
      <3>1. AtMostOne(OfKind(queue, "event"))
        BY DEF NotifyInv, EventInv
      <3>2. QED
        BY <2>1, <2>2, <3>1, OfKindTail DEF QueueInv
    <2>8. \A kind : OfKind(Append(sent, m), kind) =
                       IF m.kind = kind THEN OfKind(sent, kind) \cup {Len(sent) + 1} ELSE OfKind(sent, kind)
      BY OfKindAppend DEF HandlersInv
    <2>9. OfKind(sent', "audit") = OfKind(sent, "audit") /\ OfKind(sent', "confirmed-audit") = OfKind(sent, "confirmed-audit")
      <3>1. CASE sent' = sent
        BY <3>1
      <3>2. CASE sent' = Append(sent, m)
        BY <2>3, <2>8, <3>2
      <3>3. QED
        BY <2>2, <3>1, <3>2
    <2>10. AuditInv'
      BY <2>9, AuditRests DEF NotifyInv
    <2>11. EventInv'
      <3>1. CASE m.kind = "event" /\ sent' = Append(sent, m)
        <4>1. Emitting' = {}
          BY <1>1, <1>4 DEF NotifyInv, OwnInv, IsSysio, IsBacpypes, Emitting
        <4>2. QED
          BY <1>1, <2>1, <2>5, <2>7, <3>1, <4>1, EventIsSent DEF NotifyInv
      <3>2. CASE m.kind # "event" \/ sent' = sent
        <4>1. OfKind(sent', "event") = OfKind(sent, "event") /\ (event => event')
          <5>1. CASE sent' = sent
            BY <2>1, <5>1
          <5>2. CASE sent' = Append(sent, m) /\ m.kind # "event"
            BY <2>1, <2>8, <5>2
          <5>3. QED
            BY <2>2, <3>2, <5>1, <5>2
        <4>2. QED
          BY <1>1, <1>4, <2>7, <4>1, EventRests DEF NotifyInv
      <3>3. QED
        BY <2>2, <3>1, <3>2
    <2>12. QED
      BY <1>4, <2>6, <2>10, <2>11 DEF NotifyInv
  <1>12. QED
    BY <1>6, <1>7, <1>8, <1>9, <1>10, <1>11 DEF SysioNext, SysioHandlers, Handles

LEMMA NotifySteps ==
    ASSUME LifecycleInv, TypesInv, AboutInv, NotifyInv, [Next]_vars
    PROVE  NotifyInv'
  <1>1. CASE UNCHANGED <<adapter, config, at, sent, event, audit, queue, outgoing, thread>>
    BY <1>1, RequestsStay
       DEF NotifyInv, OwnInv, EventInv, AuditInv, AfterInv, IsSysio, IsBacnet4j, IsBacpypes, Emitting, AtMostOne, OfKind,
           ReadAnswered, Answering, Follows, Awaited
  <1>2. CASE UNCHANGED vars
    BY <1>1, <1>2 DEF vars, shared, processVars, handlers, ownVars, threads, server
  <1>3. CASE SupervisorNext /\ UNCHANGED <<processVars, audit, threads, server>>
    BY <1>1, <1>3, SupervisorSteps DEF processVars, handlers, threads, server
  <1>4. CASE RouterNext /\ UNCHANGED <<audit, threads, server>>
    BY <1>1, <1>4, RouterRests, RouterLives DEF Lives, Keeps, handlers, threads, server
  <1>5. ASSUME ProcessNext PROVE UNCHANGED <<adapter, config>> /\ CallsFit
    BY <1>5, ProcessGrows, CallsAsAssumed DEF Lives, Keeps, TypesInv
  <1>6. CASE BacpypesNext /\ UNCHANGED <<threads, server>>
    BY <1>5, <1>6, BacpypesNotifies DEF ProcessNext, TypesInv, AboutInv
  <1>7. CASE Bacnet4jNext /\ UNCHANGED <<audit, server>>
    BY <1>5, <1>7, Bacnet4jNotifies DEF ProcessNext, TypesInv, AboutInv
  <1>8. CASE (WorldietyNext \/ CbsigmaNext) /\ UNCHANGED <<audit, threads, server>>
    BY <1>5, <1>8, WorldietyNotifies, CbsigmaNotifies DEF ProcessNext, TypesInv, AboutInv
  <1>9. CASE SysioNext /\ UNCHANGED <<audit, threads>>
    BY <1>5, <1>9, SysioNotifies DEF ProcessNext, TypesInv, AboutInv
  <1>10. QED
    BY <1>2, <1>3, <1>4, <1>6, <1>7, <1>8, <1>9 DEF Next, ownVars

LEMMA InitNotify == Init => NotifyInv
  <1> SUFFICES ASSUME Init PROVE NotifyInv
    OBVIOUS
  <1> USE EmptySequence DEF Init, ProcessInit, BacpypesInit, Bacnet4jInit, SysioInit
  <1>1. \A kind : OfKind(sent, kind) = {} /\ OfKind(queue, kind) = {} /\ OfKind(outgoing, kind) = {}
    BY DEF OfKind
  <1>2. Emitting = {} /\ AtMostOne({})
    BY DEF Emitting, AtMostOne
  <1>3. OwnInv
    BY DEF OwnInv
  <1>4. EventInv
    BY <1>1, <1>2 DEF EventInv
  <1>5. AuditInv
    BY <1>1, <1>2 DEF AuditInv
  <1>6. AfterInv
    BY <1>1 DEF AfterInv
  <1>7. QED
    BY <1>3, <1>4, <1>5, <1>6 DEF NotifyInv

\* Whoever reads at the same time, one event and one audit notification of each
\* kind is sent, to a client whose own ReadProperty has been answered before.
THEOREM NotifiedOnce == Spec => []NotificationsFollowOneRead
  <1>1. NotifyInv => NotificationsFollowOneRead
    <2> SUFFICES ASSUME NotifyInv, NEW k \in DOMAIN sent, sent[k].kind \in Notifying
                 PROVE  /\ \A j \in DOMAIN sent : Sent(j, sent[k].kind) => j = k
                        /\ \E j \in 1..(k - 1) :
                              /\ Sent(j, "ack") \/ (IsBacnet4j /\ Sent(j, "error"))
                              /\ Call(sent[j].about).kind = "read" /\ sent[j].to = sent[k].to
      BY DEF NotificationsFollowOneRead, Notifying
    <2>1. AtMostOne(OfKind(sent, sent[k].kind))
      BY DEF NotifyInv, EventInv, AuditInv, Notifying
    <2>2. \A j \in DOMAIN sent : Sent(j, sent[k].kind) => j = k
      BY <2>1 DEF AtMostOne, OfKind, Sent
    <2>3. Follows(k, sent[k].to)
      BY DEF NotifyInv, AfterInv
    <2>4. QED
      BY <2>2, <2>3 DEF Follows, Answering, Sent
  <1>2. LifecycleInv /\ TypesInv /\ [Next]_vars => TypesInv'
    BY TypesSteps
  <1>3. LifecycleInv /\ TypesInv /\ AboutInv /\ [Next]_vars => AboutInv'
    BY AboutSteps
  <1>4. LifecycleInv /\ TypesInv /\ AboutInv /\ NotifyInv /\ [Next]_vars => NotifyInv'
    BY NotifySteps
  <1>5. QED
    BY InitTypes, InitAbout, InitNotify, LifecycleHolds, <1>1, <1>2, <1>3, <1>4, PTL DEF Spec

-----------------------------------------------------------------------------
(* The pairs of bacnet4j's senders *)

About(s, r, kind) == {k \in DOMAIN s : s[k].about = r /\ s[k].kind = kind}
First(s, r) == About(s, r, "cov-multiple")
Second(s, r) == About(s, r, "confirmed-cov-multiple")
PairLines == {"unconfirmed-sent", "confirmed-sent", "acknowledged"}

\* What a sender has queued and what has gone out of it: each part once, the
\* first before the second, as far as the sender is.
PairInv(r) ==
    /\ AtMostOne(First(sent, r)) /\ AtMostOne(First(outgoing, r))
    /\ AtMostOne(Second(sent, r)) /\ AtMostOne(Second(outgoing, r))
    /\ First(sent, r) # {} => First(outgoing, r) = {}
    /\ Second(sent, r) # {} => Second(outgoing, r) = {} /\ First(sent, r) # {}
    /\ Second(outgoing, r) # {} => First(sent, r) # {} \/ First(outgoing, r) # {}
    /\ AllBefore(First(sent, r), Second(sent, r)) /\ AllBefore(First(outgoing, r), Second(outgoing, r))
    /\ sender[r] \in {"none", "sleeping"} => First(sent, r) = {} /\ First(outgoing, r) = {}
    /\ sender[r] \in {"none", "sleeping", "unconfirmed", "between"} => Second(sent, r) = {} /\ Second(outgoing, r) = {}
    /\ sender[r] \in {"unconfirmed", "between", "confirmed"} => First(sent, r) # {} \/ First(outgoing, r) # {}

\* The lines about a pair, as far as its sender is.
PairLinesInv(r) ==
    /\ at[r] \in {"unsent", "received"} => sender[r] = "none"
    /\ sender[r] \in {"none", "sleeping", "unconfirmed"} => LinesOf(r, "unconfirmed-sent") = {}
    /\ sender[r] \in {"between", "confirmed"} => LinesOf(r, "unconfirmed-sent") # {}
    /\ sender[r] # "ended" => LinesOf(r, "confirmed-sent") = {}
    /\ LinesOf(r, "confirmed-sent") # {} => LinesOf(r, "unconfirmed-sent") # {}
    /\ LinesOf(r, "acknowledged") # {} => Second(sent, r) # {}
    /\ AllBefore(LinesOf(r, "operation"), LinesOf(r, "unconfirmed-sent"))
    /\ AllBefore(LinesOf(r, "unconfirmed-sent"), LinesOf(r, "confirmed-sent"))
    /\ AllBefore(LinesOf(r, "unconfirmed-sent"), LinesOf(r, "acknowledged"))

PairsInv ==
    /\ ~IsBacnet4j => \A r \in Requests : sender[r] = "none"
    /\ \A r \in Requests : PairInv(r) /\ PairLinesInv(r)

LEMMA AboutAppend ==
    ASSUME NEW s, IsSequence(s), NEW m, NEW r, NEW kind
    PROVE  /\ About(Append(s, m), r, kind) =
                 IF m.about = r /\ m.kind = kind THEN About(s, r, kind) \cup {Len(s) + 1} ELSE About(s, r, kind)
           /\ \A k \in About(s, r, kind) : k \in Nat /\ k < Len(s) + 1
  <1>1. \A k \in DOMAIN s : k \in Nat /\ k < Len(s) + 1
    BY Indices
  <1>2. QED
    BY <1>1, AppendSequence DEF About

LEMMA AboutTail ==
    ASSUME NEW s, IsSequence(s), s # <<>>, NEW r, NEW kind
    PROVE  /\ About(Tail(s), r, kind) = {k \in Nat \ {0} : k + 1 \in About(s, r, kind)}
           /\ AtMostOne(About(s, r, kind)) => AtMostOne(About(Tail(s), r, kind))
           /\ 1 \in About(s, r, kind) <=> s[1].about = r /\ s[1].kind = kind
           /\ AtMostOne(About(s, r, kind)) /\ 1 \in About(s, r, kind) => About(Tail(s), r, kind) = {}
           /\ 1 \notin About(s, r, kind) => (About(Tail(s), r, kind) = {} <=> About(s, r, kind) = {})
  <1>1. /\ 1 \in DOMAIN s
        /\ DOMAIN Tail(s) = {k \in Nat \ {0} : k + 1 \in DOMAIN s}
        /\ \A k \in DOMAIN Tail(s) : k + 1 \in DOMAIN s /\ Tail(s)[k] = s[k + 1]
    BY TailSequence
  <1>2. About(Tail(s), r, kind) = {k \in Nat \ {0} : k + 1 \in About(s, r, kind)}
    BY <1>1 DEF About
  <1>3. \A k \in About(s, r, kind) : k \in Nat \ {0}
    BY Indices DEF About
  <1>4. AtMostOne(About(s, r, kind)) => AtMostOne(About(Tail(s), r, kind))
    BY <1>2 DEF AtMostOne
  <1>5. ASSUME AtMostOne(About(s, r, kind)), 1 \in About(s, r, kind), NEW k \in About(Tail(s), r, kind) PROVE FALSE
    <2>1. k \in Nat \ {0} /\ k + 1 = 1
      BY <1>2, <1>5 DEF AtMostOne
    <2>2. QED
      BY <2>1
  <1>6. ASSUME 1 \notin About(s, r, kind), NEW k \in About(s, r, kind) PROVE k - 1 \in About(Tail(s), r, kind)
    <2>1. k \in Nat \ {0} /\ k # 1
      BY <1>3, <1>6
    <2>2. k - 1 \in Nat \ {0} /\ (k - 1) + 1 = k
      BY <2>1
    <2>3. QED
      BY <1>2, <1>6, <2>2
  <1>7. 1 \in About(s, r, kind) <=> s[1].about = r /\ s[1].kind = kind
    BY <1>1 DEF About
  <1>8. QED
    BY <1>2, <1>4, <1>5, <1>6, <1>7

LEMMA LinesAppend ==
    ASSUME IsSequence(told), NEW l, told' = Append(told, l), NEW r, NEW what
    PROVE  /\ LinesOf(r, what)' = IF l = Line(r, what) THEN LinesOf(r, what) \cup {Len(told) + 1} ELSE LinesOf(r, what)
           /\ \A n \in LinesOf(r, what) : n \in Nat /\ n < Len(told) + 1
  <1>1. \A k \in DOMAIN told : k \in Nat /\ k < Len(told) + 1
    BY Indices
  <1>2. DOMAIN told' = DOMAIN told \cup {Len(told) + 1} /\ Len(told) + 1 \notin DOMAIN told
        /\ (\A k \in DOMAIN told : told'[k] = told[k]) /\ told'[Len(told) + 1] = l
    BY AppendSequence
  <1>3. LinesOf(r, what)' = {n \in DOMAIN told' : told'[n] = Line(r, what)}
    BY DEF LinesOf, Line
  <1>4. QED
    BY <1>1, <1>2, <1>3 DEF LinesOf

\* A step that leaves the messages of the pair where they are.
LEMMA PairStays ==
    ASSUME NEW r \in Requests, PairInv(r),
           First(sent', r) = First(sent, r), First(outgoing', r) = First(outgoing, r),
           Second(sent', r) = Second(sent, r), Second(outgoing', r) = Second(outgoing, r),
           \/ sender'[r] = sender[r] \/ sender'[r] = "ended"
           \/ sender[r] = "none" /\ sender'[r] = "sleeping"
           \/ sender[r] = "unconfirmed" /\ sender'[r] = "between"
    PROVE  PairInv(r)'
  <1>1. /\ AtMostOne(First(sent', r)) /\ AtMostOne(First(outgoing', r))
        /\ AtMostOne(Second(sent', r)) /\ AtMostOne(Second(outgoing', r))
        /\ AllBefore(First(sent', r), Second(sent', r)) /\ AllBefore(First(outgoing', r), Second(outgoing', r))
    BY DEF PairInv
  <1>2. /\ First(sent', r) # {} => First(outgoing', r) = {}
        /\ Second(sent', r) # {} => Second(outgoing', r) = {} /\ First(sent', r) # {}
        /\ Second(outgoing', r) # {} => First(sent', r) # {} \/ First(outgoing', r) # {}
    BY DEF PairInv
  <1>3. /\ sender'[r] \in {"none", "sleeping"} => First(sent', r) = {} /\ First(outgoing', r) = {}
        /\ sender'[r] \in {"none", "sleeping", "unconfirmed", "between"}
               => Second(sent', r) = {} /\ Second(outgoing', r) = {}
        /\ sender'[r] \in {"unconfirmed", "between", "confirmed"} => First(sent', r) # {} \/ First(outgoing', r) # {}
    BY DEF PairInv
  <1>4. QED
    BY <1>1, <1>2, <1>3 DEF PairInv, First, Second, About, AtMostOne, AllBefore

\* A sender queues the first part, or the second.
LEMMA PairQueued ==
    ASSUME NEW r \in Requests, OutgoingInv, PairInv(r), UNCHANGED sent, NEW m, m.about = r, outgoing' = Append(outgoing, m),
           \/ sender[r] = "sleeping" /\ sender'[r] = "unconfirmed" /\ m.kind = "cov-multiple"
           \/ sender[r] = "between" /\ sender'[r] = "confirmed" /\ m.kind = "confirmed-cov-multiple"
    PROVE  PairInv(r)'
  <1> DEFINE n == Len(outgoing) + 1
  <1>1. \A kind : About(outgoing', r, kind) =
                     IF m.kind = kind THEN About(outgoing, r, kind) \cup {n} ELSE About(outgoing, r, kind)
    BY AboutAppend DEF OutgoingInv
  <1>2. \A kind : \A k \in About(outgoing, r, kind) : k \in Nat /\ k < n
    BY AboutAppend DEF OutgoingInv
  <1>3. First(sent', r) = First(sent, r) /\ Second(sent', r) = Second(sent, r)
    OBVIOUS
  <1>4. CASE sender[r] = "sleeping" /\ sender'[r] = "unconfirmed" /\ m.kind = "cov-multiple"
    <2>1. /\ First(sent, r) = {} /\ First(outgoing, r) = {} /\ Second(sent, r) = {} /\ Second(outgoing, r) = {}
      BY <1>4 DEF PairInv
    <2>2. First(outgoing', r) = {n} /\ Second(outgoing', r) = {}
      BY <1>1, <1>4, <2>1 DEF First, Second
    <2>3. AtMostOne({n}) /\ AtMostOne({})
      BY DEF AtMostOne
    <2>4. AllBefore({}, {}) /\ AllBefore({n}, {})
      BY DEF AllBefore
    <2>5. PairInv(r)' <=>
          /\ AtMostOne(First(sent', r)) /\ AtMostOne(First(outgoing', r))
          /\ AtMostOne(Second(sent', r)) /\ AtMostOne(Second(outgoing', r))
          /\ First(sent', r) # {} => First(outgoing', r) = {}
          /\ Second(sent', r) # {} => Second(outgoing', r) = {} /\ First(sent', r) # {}
          /\ Second(outgoing', r) # {} => First(sent', r) # {} \/ First(outgoing', r) # {}
          /\ AllBefore(First(sent', r), Second(sent', r)) /\ AllBefore(First(outgoing', r), Second(outgoing', r))
          /\ sender'[r] \in {"none", "sleeping"} => First(sent', r) = {} /\ First(outgoing', r) = {}
          /\ sender'[r] \in {"none", "sleeping", "unconfirmed", "between"}
                 => Second(sent', r) = {} /\ Second(outgoing', r) = {}
          /\ sender'[r] \in {"unconfirmed", "between", "confirmed"} => First(sent', r) # {} \/ First(outgoing', r) # {}
      BY DEF PairInv, First, Second, About, AtMostOne, AllBefore
    <2> HIDE DEF n
    <2>6. QED
      BY <1>3, <1>4, <2>1, <2>2, <2>3, <2>4, <2>5
  <1>5. CASE sender[r] = "between" /\ sender'[r] = "confirmed" /\ m.kind = "confirmed-cov-multiple"
    <2>1. /\ Second(sent, r) = {} /\ Second(outgoing, r) = {}
          /\ First(sent, r) # {} \/ First(outgoing, r) # {}
          /\ AtMostOne(First(sent, r)) /\ AtMostOne(First(outgoing, r))
          /\ First(sent, r) # {} => First(outgoing, r) = {}
      BY <1>5 DEF PairInv
    <2>2. First(outgoing', r) = First(outgoing, r) /\ Second(outgoing', r) = {n}
      BY <1>1, <1>5, <2>1 DEF First, Second
    <2>3. AtMostOne({n}) /\ AtMostOne({})
      BY DEF AtMostOne
    <2>4. AllBefore(First(sent, r), {}) /\ AllBefore(First(outgoing, r), {n})
      BY <1>2 DEF AllBefore, First
    <2>5. PairInv(r)' <=>
          /\ AtMostOne(First(sent', r)) /\ AtMostOne(First(outgoing', r))
          /\ AtMostOne(Second(sent', r)) /\ AtMostOne(Second(outgoing', r))
          /\ First(sent', r) # {} => First(outgoing', r) = {}
          /\ Second(sent', r) # {} => Second(outgoing', r) = {} /\ First(sent', r) # {}
          /\ Second(outgoing', r) # {} => First(sent', r) # {} \/ First(outgoing', r) # {}
          /\ AllBefore(First(sent', r), Second(sent', r)) /\ AllBefore(First(outgoing', r), Second(outgoing', r))
          /\ sender'[r] \in {"none", "sleeping"} => First(sent', r) = {} /\ First(outgoing', r) = {}
          /\ sender'[r] \in {"none", "sleeping", "unconfirmed", "between"}
                 => Second(sent', r) = {} /\ Second(outgoing', r) = {}
          /\ sender'[r] \in {"unconfirmed", "between", "confirmed"} => First(sent', r) # {} \/ First(outgoing', r) # {}
      BY DEF PairInv, First, Second, About, AtMostOne, AllBefore
    <2> HIDE DEF n
    <2>6. QED
      BY <1>3, <1>5, <2>1, <2>2, <2>3, <2>4, <2>5
  <1>6. QED
    BY <1>4, <1>5

\* The first message of outgoing goes out.
LEMMA PairDeparts ==
    ASSUME NEW r \in Requests, HandlersInv, OutgoingInv, PairInv(r), outgoing # <<>>, UNCHANGED sender,
           sent' = Append(sent, outgoing[1]), outgoing' = Tail(outgoing)
    PROVE  PairInv(r)'
  <1> DEFINE m == outgoing[1]
             n == Len(sent) + 1
  <1>1. \A kind : About(sent', r, kind) =
                     IF m.about = r /\ m.kind = kind THEN About(sent, r, kind) \cup {n} ELSE About(sent, r, kind)
    <2>1. \A x, kind : About(Append(sent, x), r, kind) =
              IF x.about = r /\ x.kind = kind THEN About(sent, r, kind) \cup {n} ELSE About(sent, r, kind)
      BY AboutAppend DEF HandlersInv
    <2>2. sent' = Append(sent, m)
      OBVIOUS
    <2> HIDE DEF m, n
    <2>3. QED
      BY <2>1, <2>2
  <1>2. \A kind : \A k \in About(sent, r, kind) : k \in Nat /\ k < n
    BY AboutAppend DEF HandlersInv
  <1>3. \A kind : /\ About(outgoing', r, kind) = {k \in Nat \ {0} : k + 1 \in About(outgoing, r, kind)}
                  /\ AtMostOne(About(outgoing, r, kind)) => AtMostOne(About(outgoing', r, kind))
                  /\ 1 \in About(outgoing, r, kind) <=> m.about = r /\ m.kind = kind
                  /\ AtMostOne(About(outgoing, r, kind)) /\ 1 \in About(outgoing, r, kind) => About(outgoing', r, kind) = {}
                  /\ 1 \notin About(outgoing, r, kind) => (About(outgoing', r, kind) = {} <=> About(outgoing, r, kind) = {})
    BY AboutTail DEF OutgoingInv
  <1>4. AllBefore(First(outgoing', r), Second(outgoing', r))
    <2> SUFFICES ASSUME NEW i \in First(outgoing', r), NEW j \in Second(outgoing', r) PROVE i < j
      BY DEF AllBefore
    <2>1. i \in Nat /\ j \in Nat /\ i + 1 \in First(outgoing, r) /\ j + 1 \in Second(outgoing, r)
      BY <1>3 DEF First, Second
    <2>2. i + 1 < j + 1
      BY <2>1 DEF PairInv, AllBefore
    <2>3. QED
      BY <2>1, <2>2
  <1>5. AtMostOne(First(outgoing', r)) /\ AtMostOne(Second(outgoing', r)) /\ AtMostOne({n}) /\ AtMostOne({})
    BY <1>3 DEF PairInv, First, Second, AtMostOne
  <1>6. PairInv(r)' <=>
          /\ AtMostOne(First(sent', r)) /\ AtMostOne(First(outgoing', r))
          /\ AtMostOne(Second(sent', r)) /\ AtMostOne(Second(outgoing', r))
          /\ First(sent', r) # {} => First(outgoing', r) = {}
          /\ Second(sent', r) # {} => Second(outgoing', r) = {} /\ First(sent', r) # {}
          /\ Second(outgoing', r) # {} => First(sent', r) # {} \/ First(outgoing', r) # {}
          /\ AllBefore(First(sent', r), Second(sent', r)) /\ AllBefore(First(outgoing', r), Second(outgoing', r))
          /\ sender'[r] \in {"none", "sleeping"} => First(sent', r) = {} /\ First(outgoing', r) = {}
          /\ sender'[r] \in {"none", "sleeping", "unconfirmed", "between"}
                 => Second(sent', r) = {} /\ Second(outgoing', r) = {}
          /\ sender'[r] \in {"unconfirmed", "between", "confirmed"} => First(sent', r) # {} \/ First(outgoing', r) # {}
    BY DEF PairInv, First, Second, About, AtMostOne, AllBefore
  <1>7. CASE m.about = r /\ m.kind = "cov-multiple"
    <2>1. First(outgoing, r) # {} /\ First(outgoing', r) = {} /\ First(sent, r) = {}
      BY <1>3, <1>7 DEF PairInv, First
    <2>2. Second(sent, r) = {} /\ sender[r] \notin {"none", "sleeping"}
      BY <2>1 DEF PairInv
    <2>3. First(sent', r) = {n} /\ Second(sent', r) = {}
      BY <1>1, <1>7, <2>1, <2>2 DEF First, Second
    <2>4. Second(outgoing, r) = {} => Second(outgoing', r) = {}
      BY <1>3 DEF Second
    <2>5. AllBefore({n}, {})
      BY DEF AllBefore
    <2>6. sender[r] \in {"none", "sleeping", "unconfirmed", "between"} => Second(outgoing, r) = {}
      BY DEF PairInv
    <2> HIDE DEF m, n
    <2>7. QED
      BY <1>4, <1>5, <1>6, <2>1, <2>2, <2>3, <2>4, <2>5, <2>6
  <1>8. CASE m.about = r /\ m.kind = "confirmed-cov-multiple"
    <2>1. 1 \in Second(outgoing, r) /\ Second(outgoing', r) = {}
      BY <1>3, <1>8 DEF PairInv, Second
    <2>2. Second(sent, r) = {} /\ sender[r] \notin {"none", "sleeping", "unconfirmed", "between"}
      BY <2>1 DEF PairInv
    <2>3. First(outgoing, r) = {}
      <3> SUFFICES ASSUME NEW i \in First(outgoing, r) PROVE FALSE
        OBVIOUS
      <3>1. i \in Nat \ {0}
        BY Indices DEF First, About, OutgoingInv
      <3>2. i < 1
        BY <2>1 DEF PairInv, AllBefore
      <3>3. QED
        BY <3>1, <3>2
    <2>4. First(sent, r) # {} /\ First(outgoing', r) = {}
      BY <1>3, <2>1, <2>3 DEF PairInv, First
    <2>5. First(sent', r) = First(sent, r) /\ Second(sent', r) = {n}
      BY <1>1, <1>8, <2>2 DEF First, Second
    <2>6. AllBefore(First(sent, r), {n}) /\ AtMostOne(First(sent, r))
      BY <1>2 DEF AllBefore, First, PairInv
    <2> HIDE DEF m, n
    <2>7. QED
      BY <1>4, <1>5, <1>6, <2>1, <2>2, <2>4, <2>5, <2>6
  <1>9. CASE ~(m.about = r /\ m.kind \in {"cov-multiple", "confirmed-cov-multiple"})
    <2>1. First(sent', r) = First(sent, r) /\ Second(sent', r) = Second(sent, r)
      BY <1>1, <1>9 DEF First, Second
    <2>2. (First(outgoing', r) = {} <=> First(outgoing, r) = {}) /\ (Second(outgoing', r) = {} <=> Second(outgoing, r) = {})
      BY <1>3, <1>9 DEF First, Second
    <2>3. /\ AtMostOne(First(sent, r)) /\ AtMostOne(Second(sent, r))
          /\ First(sent, r) # {} => First(outgoing, r) = {}
          /\ Second(sent, r) # {} => Second(outgoing, r) = {} /\ First(sent, r) # {}
          /\ Second(outgoing, r) # {} => First(sent, r) # {} \/ First(outgoing, r) # {}
          /\ AllBefore(First(sent, r), Second(sent, r))
          /\ sender[r] \in {"none", "sleeping"} => First(sent, r) = {} /\ First(outgoing, r) = {}
          /\ sender[r] \in {"none", "sleeping", "unconfirmed", "between"} => Second(sent, r) = {} /\ Second(outgoing, r) = {}
          /\ sender[r] \in {"unconfirmed", "between", "confirmed"} => First(sent, r) # {} \/ First(outgoing, r) # {}
      BY DEF PairInv
    <2> HIDE DEF m, n
    <2>4. QED
      BY <1>4, <1>5, <1>6, <2>1, <2>2, <2>3
  <1>10. QED
    BY <1>7, <1>8, <1>9

\* A step that tells nothing of the pair.
LEMMA PairLinesStay ==
    ASSUME NEW r \in Requests, PairLinesInv(r),
           \A what \in PairLines : LinesOf(r, what)' = LinesOf(r, what),
           LinesOf(r, "operation")' = LinesOf(r, "operation") \/ LinesOf(r, "unconfirmed-sent") = {},
           at'[r] \in {"unsent", "received"} => sender'[r] = "none",
           Second(sent, r) # {} => Second(sent', r) # {},
           \/ sender'[r] = sender[r] \/ sender'[r] = "ended"
           \/ sender[r] = "none" /\ sender'[r] = "sleeping"
           \/ sender[r] = "sleeping" /\ sender'[r] = "unconfirmed"
           \/ sender[r] = "between" /\ sender'[r] = "confirmed"
    PROVE  PairLinesInv(r)'
  <1>1. /\ LinesOf(r, "unconfirmed-sent")' = LinesOf(r, "unconfirmed-sent")
        /\ LinesOf(r, "confirmed-sent")' = LinesOf(r, "confirmed-sent")
        /\ LinesOf(r, "acknowledged")' = LinesOf(r, "acknowledged")
    BY DEF PairLines
  <1>2. /\ AllBefore(LinesOf(r, "operation")', LinesOf(r, "unconfirmed-sent")')
        /\ AllBefore(LinesOf(r, "unconfirmed-sent")', LinesOf(r, "confirmed-sent")')
        /\ AllBefore(LinesOf(r, "unconfirmed-sent")', LinesOf(r, "acknowledged")')
    BY <1>1 DEF PairLinesInv, AllBefore
  <1>3. /\ sender'[r] \in {"none", "sleeping", "unconfirmed"} => LinesOf(r, "unconfirmed-sent")' = {}
        /\ sender'[r] \in {"between", "confirmed"} => LinesOf(r, "unconfirmed-sent")' # {}
        /\ sender'[r] # "ended" => LinesOf(r, "confirmed-sent")' = {}
        /\ LinesOf(r, "confirmed-sent")' # {} => LinesOf(r, "unconfirmed-sent")' # {}
        /\ LinesOf(r, "acknowledged")' # {} => Second(sent', r) # {}
    BY <1>1 DEF PairLinesInv
  <1>4. QED
    BY <1>2, <1>3 DEF PairLinesInv, AllBefore, Second, About

\* A step that tells of it.
LEMMA PairLinesTold ==
    ASSUME NEW r \in Requests, HandlersInv, PairInv(r), PairLinesInv(r), UNCHANGED <<at, sent>>,
           NEW what, told' = Append(told, Line(r, what)),
           \/ what = "unconfirmed-sent" /\ sender[r] = "unconfirmed" /\ sender'[r] = "between"
           \/ what = "confirmed-sent" /\ sender[r] = "confirmed" /\ sender'[r] = "ended"
           \/ what = "acknowledged" /\ sender'[r] = sender[r] /\ Second(sent, r) # {}
    PROVE  PairLinesInv(r)'
  <1> DEFINE n == Len(told) + 1
  <1>1. \A w : LinesOf(r, w)' = IF Line(r, what) = Line(r, w) THEN LinesOf(r, w) \cup {n} ELSE LinesOf(r, w)
    BY LinesAppend DEF HandlersInv
  <1>2. \A w : Line(r, what) = Line(r, w) <=> what = w
    BY DEF Line
  <1>3. \A w : \A k \in LinesOf(r, w) : k \in Nat /\ k < n
    BY LinesAppend DEF HandlersInv
  <1>4. \A w : LinesOf(r, w)' = IF what = w THEN LinesOf(r, w) \cup {n} ELSE LinesOf(r, w)
    BY <1>1, <1>2
  <1> HIDE DEF n
  <1>5. /\ what = "unconfirmed-sent" => LinesOf(r, "confirmed-sent") = {} /\ LinesOf(r, "acknowledged") = {}
                                        /\ LinesOf(r, "unconfirmed-sent") = {}
        /\ what = "confirmed-sent" => LinesOf(r, "unconfirmed-sent") # {}
    BY DEF PairLinesInv, PairInv
  <1>6. /\ LinesOf(r, "operation")' = LinesOf(r, "operation")
        /\ what # "unconfirmed-sent" => LinesOf(r, "unconfirmed-sent")' = LinesOf(r, "unconfirmed-sent")
        /\ what = "unconfirmed-sent" => LinesOf(r, "unconfirmed-sent")' = {n}
        /\ what # "confirmed-sent" => LinesOf(r, "confirmed-sent")' = LinesOf(r, "confirmed-sent")
        /\ what # "acknowledged" => LinesOf(r, "acknowledged")' = LinesOf(r, "acknowledged")
        /\ what = "confirmed-sent" => LinesOf(r, "confirmed-sent")' = LinesOf(r, "confirmed-sent") \cup {n}
        /\ what = "acknowledged" => LinesOf(r, "acknowledged")' = LinesOf(r, "acknowledged") \cup {n}
    BY <1>4, <1>5
  <1>7. /\ AllBefore(LinesOf(r, "operation"), LinesOf(r, "unconfirmed-sent"))
        /\ AllBefore(LinesOf(r, "unconfirmed-sent"), LinesOf(r, "confirmed-sent"))
        /\ AllBefore(LinesOf(r, "unconfirmed-sent"), LinesOf(r, "acknowledged"))
        /\ \A w : AllBefore(LinesOf(r, w), {n})
    BY <1>3 DEF PairLinesInv, AllBefore
  <1>8. /\ AllBefore(LinesOf(r, "operation")', LinesOf(r, "unconfirmed-sent")')
        /\ AllBefore(LinesOf(r, "unconfirmed-sent")', LinesOf(r, "confirmed-sent")')
        /\ AllBefore(LinesOf(r, "unconfirmed-sent")', LinesOf(r, "acknowledged")')
    BY <1>5, <1>6, <1>7 DEF AllBefore
  <1>9. /\ sender'[r] \in {"none", "sleeping", "unconfirmed"} => LinesOf(r, "unconfirmed-sent")' = {}
        /\ sender'[r] \in {"between", "confirmed"} => LinesOf(r, "unconfirmed-sent")' # {}
        /\ sender'[r] # "ended" => LinesOf(r, "confirmed-sent")' = {}
        /\ LinesOf(r, "confirmed-sent")' # {} => LinesOf(r, "unconfirmed-sent")' # {}
        /\ LinesOf(r, "acknowledged")' # {} => Second(sent', r) # {}
        /\ at'[r] \in {"unsent", "received"} => sender'[r] = "none"
    BY <1>5, <1>6 DEF PairLinesInv
  <1>10. QED
    BY <1>8, <1>9 DEF PairLinesInv, AllBefore, Second, About

\* A step that says nothing of any pair.
SendsNoPair ==
    \/ UNCHANGED sent
    \/ \E m : sent' = Append(sent, m) /\ m.kind \notin {"cov-multiple", "confirmed-cov-multiple"}

TellsNoPair ==
    \/ UNCHANGED told
    \/ \E l : told' = Append(told, l) /\ \A r \in Requests, what \in PairLines : l # Line(r, what)

LEMMA NoPairSent ==
    ASSUME HandlersInv, SendsNoPair, NEW r
    PROVE  First(sent', r) = First(sent, r) /\ Second(sent', r) = Second(sent, r)
  <1>1. \A m, kind : About(Append(sent, m), r, kind) =
              IF m.about = r /\ m.kind = kind THEN About(sent, r, kind) \cup {Len(sent) + 1} ELSE About(sent, r, kind)
    BY AboutAppend DEF HandlersInv
  <1>2. CASE UNCHANGED sent
    BY <1>2
  <1>3. ASSUME NEW m, sent' = Append(sent, m), m.kind \notin {"cov-multiple", "confirmed-cov-multiple"}
        PROVE  First(sent', r) = First(sent, r) /\ Second(sent', r) = Second(sent, r)
    BY <1>1, <1>3 DEF First, Second
  <1>4. QED
    BY <1>2, <1>3 DEF SendsNoPair

LEMMA NoPairTold ==
    ASSUME HandlersInv, TellsNoPair, NEW r \in Requests, NEW what \in PairLines
    PROVE  LinesOf(r, what)' = LinesOf(r, what)
  <1>1. CASE UNCHANGED told
    BY <1>1 DEF LinesOf, Line
  <1>2. ASSUME NEW l, told' = Append(told, l), l # Line(r, what) PROVE LinesOf(r, what)' = LinesOf(r, what)
    BY <1>2, LinesAppend DEF HandlersInv
  <1>3. QED
    BY <1>1, <1>2 DEF TellsNoPair

\* The other images.
LEMMA PairsRest ==
    ASSUME HandlersInv, PairsInv, ~IsBacnet4j, UNCHANGED <<adapter, config, sender, outgoing>>, SendsNoPair, TellsNoPair
    PROVE  PairsInv'
  <1>1. Requests' = Requests /\ IsBacnet4j' = IsBacnet4j
    BY RequestsStay DEF IsBacnet4j
  <1>2. ASSUME NEW r \in Requests PROVE PairInv(r)' /\ PairLinesInv(r)'
    <2>1. sender[r] = "none" /\ PairInv(r) /\ PairLinesInv(r) /\ UNCHANGED sender[r]
      BY DEF PairsInv
    <2>2. First(sent', r) = First(sent, r) /\ Second(sent', r) = Second(sent, r)
      BY NoPairSent
    <2>3. \A what \in PairLines : LinesOf(r, what)' = LinesOf(r, what)
      BY NoPairTold
    <2>4. LinesOf(r, "unconfirmed-sent") = {}
      BY <2>1 DEF PairLinesInv
    <2>5. PairInv(r)'
      BY <2>1, <2>2, PairStays
    <2>6. PairLinesInv(r)'
      BY <2>1, <2>2, <2>3, <2>4, PairLinesStay
    <2>7. QED
      BY <2>5, <2>6
  <1>3. QED
    BY <1>1, <1>2 DEF PairsInv

LEMMA OthersMakeNoPairs ==
    ASSUME HandlersInv, QueueInv, CallsFit, BacpypesNext \/ WorldietyNext \/ CbsigmaNext \/ SysioNext
    PROVE  SendsNoPair /\ TellsNoPair
  <1>0. UNCHANGED <<sent, told>> => SendsNoPair /\ TellsNoPair
    BY DEF SendsNoPair, TellsNoPair
  <1>1. CASE BacpypesNext
    <2>1. CASE Program \/ HearSignal \/ \E r \in Requests : Arrive(r)
      <3>1. UNCHANGED <<sent, told>>
        BY <2>1 DEF Program, HearSignal, Load, LoadsIf, Build, Binds, Announce, Announces, Listen, Advances, Close,
                    handlers, Arrive, Arrives
      <3>2. QED
        BY <1>0, <3>1
    <2>2. CASE EmitAudit
      <3>1. SendsNoPair
        BY <2>2
           DEF SendsNoPair, TellsNoPair, Message, Line, EmitAudit, SendUnconfirmedAudit, SendConfirmedAudit,
               AuditAnswered, Send
      <3>2. TellsNoPair
        BY <2>2
           DEF SendsNoPair, TellsNoPair, Message, Line, EmitAudit, SendUnconfirmedAudit, SendConfirmedAudit,
               AuditAnswered, AuditEmitted, AuditAcknowledged, CallsFit
      <3>3. QED
        BY <3>1, <3>2
    <2>3. ASSUME NEW r \in Requests, Handle(r) PROVE SendsNoPair /\ TellsNoPair
      <3>1. CASE Tell(r)
        BY <3>1 DEF SendsNoPair, TellsNoPair, Message, Line, Tell, PairLines
      <3>2. CASE Respond(r) \/ Read(r) \/ AfterRead(r) \/ EmitEvent(r)
        BY <3>2 DEF SendsNoPair, TellsNoPair, Message, Line, Respond, Read, AfterRead, EmitEvent, Answer, Send
      <3>3. CASE WriteMultiple(r)
        BY <3>3
           DEF SendsNoPair, TellsNoPair, Message, Line, WriteMultiple, CarryOut, Refuse, Acknowledge, Answer, Send
      <3>4. QED
        BY <2>3, <3>1, <3>2, <3>3 DEF Handle
    <2>5. QED
      BY <1>1, <2>1, <2>2, <2>3 DEF BacpypesNext, EventLoop
  <1>2. CASE WorldietyNext
    <2>1. CASE Run \/ RunFails \/ Interrupted \/ Dispatches
      <3>1. UNCHANGED <<sent, told>>
        BY <2>1
           DEF Run, RunFails, Interrupted, LoadFile, LoadsIf, NewClientRuntime, Binds, RegisterAndRun, EmitReadyLine,
               Announces, Advances, Select, Returns, handlers, Dispatches, Arrives
      <3>2. QED
        BY <1>0, <3>1
    <2>2. ASSUME NEW r \in Requests, HandleWrites(r) \/ HandleWhoIs(r) \/ HandleRead(r) PROVE SendsNoPair /\ TellsNoPair
      <3>1. SendsNoPair
        <4>1. ASSUME NEW named, Refuse(r, named) PROVE SendsNoPair
          BY <4>1 DEF SendsNoPair, Message, Refuse, Answer, Send
        <4>2. CASE CarryOut(r) \/ Acknowledge(r)
          BY <4>2 DEF SendsNoPair, Message, CarryOut, Acknowledge, Answer, Send
        <4>3. CASE HandleWhoIs(r) \/ HandleRead(r)
          BY <4>3 DEF SendsNoPair, Message, HandleWhoIs, HandleRead, Answer, Send
        <4>4. QED
          BY <2>2, <4>1, <4>2, <4>3, WorldietyHandlesWrites
      <3>2. UNCHANGED told
        BY <2>2 DEF HandleWrites, HandleWhoIs, HandleRead, CarryOut, Refuse, Acknowledge
      <3>3. QED
        BY <3>1, <3>2 DEF TellsNoPair
    <2>4. QED
      BY <1>2, <2>1, <2>2 DEF WorldietyNext, RunsHandlers
  <1>3. CASE CbsigmaNext
    <2>1. CASE CbsigmaMain \/ CbsigmaSignalled \/ CbsigmaReceives
      <3>1. UNCHANGED <<sent, told>>
        BY <2>1
           DEF CbsigmaMain, CbsigmaSignalled, LoadCbsigma, LoadsIf, Serve, Binds, EmitCbsigmaReady, Announces, Notify,
               Advances, StopCbsigma, handlers, CbsigmaReceives, Arrives
      <3>2. QED
        BY <1>0, <3>1
    <2>2. CASE ReportSim
      <3>1. UNCHANGED sent
        BY <2>2 DEF ReportSim, LookAtLists, ReportNext, processVars, handlers
      <3>2. TellsNoPair
        BY <2>2 DEF TellsNoPair, Line, ReportSim, LookAtLists, ReportNext, Reports, processVars, handlers, PairLines
      <3>3. QED
        BY <3>1, <3>2 DEF SendsNoPair
    <2>3. ASSUME NEW r \in Requests, WriteProperty(r) \/ Simulate(r) PROVE SendsNoPair /\ TellsNoPair
      BY <2>3
         DEF SendsNoPair, TellsNoPair, Message, Line, WriteProperty, Simulate, Refuse, Acknowledge, Reports, Answer,
             Send, PairLines
    <2>5. QED
      BY <1>3, <2>1, <2>2, <2>3 DEF CbsigmaNext, UpstreamRuns
  <1>4. CASE SysioNext
    <2>1. CASE SysioMain \/ SysioSignalled \/ SysioReceives
      <3>1. UNCHANGED <<sent, told>>
        BY <2>1 DEF SysioMain, SysioSignalled, ReadSettings, LoadsIf, StartServer, Binds, EmitSysioReady, Announces,
                    RegisterSignals, Advances, DisposeServer, ReturnFromMain, handlers, SysioReceives, Arrives
      <3>2. QED
        BY <1>0, <3>1
    <2>2. ASSUME NEW r \in Requests, TakeGate(r) \/ HandleWrite(r) PROVE SendsNoPair /\ TellsNoPair
      BY <2>2
         DEF SendsNoPair, TellsNoPair, Message, Line, TakeGate, HandleWrite, WriteStored, WriteThrows, AnswerWrites,
             CarryOut, Refuse, Acknowledge, Answer, Send, processVars, handlers
    <2>3. ASSUME NEW r \in Requests, SubscribeCov(r) \/ ReadAndEmit(r) PROVE SendsNoPair /\ TellsNoPair
      BY <2>3 DEF SendsNoPair, TellsNoPair, Message, Line, SubscribeCov, ReadAndEmit, Answer, Send
    <2>4. ASSUME NEW r \in Requests, SysioTells(r) \/ AcknowledgeAlarm(r) PROVE SendsNoPair /\ TellsNoPair
      BY <2>4
         DEF SendsNoPair, TellsNoPair, Message, Line, SysioTells, AcknowledgeAlarm, Reports, Answer, Send, PairLines
    <2>5. CASE SysioNotifier
      <3>1. UNCHANGED told /\ (UNCHANGED sent \/ (sent' = Append(sent, queue[1]) /\ 1 \in DOMAIN queue))
        BY <2>5, TailSequence DEF SysioNotifier, NotifyNext, Send, QueueInv
      <3>2. 1 \in DOMAIN queue => queue[1].kind \notin {"cov-multiple", "confirmed-cov-multiple"}
        BY DEF QueueInv
      <3>3. SendsNoPair /\ TellsNoPair
        BY <3>1, <3>2 DEF SendsNoPair, TellsNoPair
      <3>4. QED
        BY <3>3
    <2>7. QED
      BY <1>4, <2>1, <2>2, <2>3, <2>4, <2>5 DEF SysioNext, SysioHandlers, Handles
  <1>5. QED
    BY <1>1, <1>2, <1>3, <1>4

\* bacnet4j: main and the transport thread tell of no pair but at its request and
\* at its confirmation; the senders go through theirs step by step.
LEMMA Bacnet4jPairs ==
    ASSUME LifecycleInv, HandlersInv, OutgoingInv, CallsFit, PairsInv, Bacnet4jNext, UNCHANGED <<adapter, config>>
    PROVE  PairsInv'
  <1>1. Requests' = Requests /\ IsBacnet4j /\ IsBacnet4j'
    BY RequestsStay DEF IsBacnet4j, Bacnet4jNext
  <1>2. SUFFICES ASSUME NEW r \in Requests PROVE PairInv(r)' /\ PairLinesInv(r)'
    BY <1>1 DEF PairsInv
  <1>3. PairInv(r) /\ PairLinesInv(r)
    BY DEF PairsInv
  <1>4. CASE SendsNoPair /\ TellsNoPair /\ UNCHANGED <<outgoing, sender>>
             /\ (at'[r] \in {"unsent", "received"} => at[r] \in {"unsent", "received"})
             /\ (LinesOf(r, "operation")' = LinesOf(r, "operation") \/ LinesOf(r, "unconfirmed-sent") = {})
    <2>1. First(sent', r) = First(sent, r) /\ Second(sent', r) = Second(sent, r)
      BY <1>4, NoPairSent
    <2>2. \A what \in PairLines : LinesOf(r, what)' = LinesOf(r, what)
      BY <1>4, NoPairTold
    <2>3. First(outgoing', r) = First(outgoing, r) /\ Second(outgoing', r) = Second(outgoing, r) /\ sender'[r] = sender[r]
      BY <1>4
    <2>4. PairInv(r)'
      BY <1>3, <2>1, <2>3, PairStays
    <2>5. at'[r] \in {"unsent", "received"} => sender'[r] = "none"
      BY <1>3, <1>4 DEF PairLinesInv
    <2>6. PairLinesInv(r)'
      BY <1>3, <1>4, <2>1, <2>2, <2>3, <2>5, PairLinesStay
    <2>7. QED
      BY <2>4, <2>6
  <1>5. UNCHANGED told => LinesOf(r, "operation")' = LinesOf(r, "operation")
    BY DEF LinesOf, Line
  <1>6. CASE Main \/ (Signalled /\ UNCHANGED threads)
    <2>1. UNCHANGED <<sent, told, outgoing, sender, at>>
      BY <1>6 DEF Main, Signalled, ReadFixture, LoadsIf, Initialize, Binds, CreateDeferred, HearServices, HearReads,
                  Advances, EmitReadyEvent, Announces, HookEnds, handlers, threads
    <2>2. QED
      BY <1>4, <1>5, <2>1 DEF SendsNoPair, TellsNoPair
  <1>7. ASSUME NEW q \in Requests, Receive(q) PROVE PairInv(r)' /\ PairLinesInv(r)'
    <2>1. UNCHANGED <<sent, told, outgoing, sender>> /\ at[q] = "unsent" /\ at' = [at EXCEPT ![q] = "received"]
      BY <1>7 DEF Receive, Arrives, Progress
    <2>2. at'[r] \in {"unsent", "received"} => at[r] \in {"unsent", "received"}
      BY <2>1 DEF HandlersInv
    <2>3. QED
      BY <1>4, <1>5, <2>1, <2>2 DEF SendsNoPair, TellsNoPair
  <1>8. CASE CallFirstListener
    <2>1. /\ thread \in Requests /\ at[thread] = "received" /\ UNCHANGED <<sent, outgoing>>
          /\ at' = [at EXCEPT ![thread] = "heard"]
          /\ UNCHANGED told \/ told' = Append(told, Line(thread, "operation"))
          /\ sender' = sender \/ sender' = [sender EXCEPT ![thread] = "sleeping"]
      BY <1>8 DEF CallFirstListener, Progress, Reports, HandlersInv
    <2>2. TellsNoPair
      BY <2>1 DEF TellsNoPair, Line, PairLines
    <2>3. \A what \in PairLines : LinesOf(r, what)' = LinesOf(r, what)
      BY <2>2, NoPairTold
    <2>4. /\ First(outgoing', r) = First(outgoing, r) /\ Second(outgoing', r) = Second(outgoing, r)
          /\ First(sent', r) = First(sent, r) /\ Second(sent', r) = Second(sent, r)
      BY <2>1
    <2>5. thread = r => sender[r] = "none" /\ LinesOf(r, "unconfirmed-sent") = {}
      BY <1>3, <2>1 DEF PairLinesInv
    <2>6. sender'[r] = sender[r] \/ (sender[r] = "none" /\ sender'[r] = "sleeping")
      BY <2>1, <2>5 DEF OutgoingInv
    <2>7. thread # r => LinesOf(r, "operation")' = LinesOf(r, "operation")
      <3>1. thread # r => Line(thread, "operation") # Line(r, "operation")
        BY DEF Line
      <3>2. \A l : told' = Append(told, l) /\ l # Line(r, "operation") => LinesOf(r, "operation")' = LinesOf(r, "operation")
        BY LinesAppend DEF HandlersInv
      <3>3. QED
        BY <1>5, <2>1, <3>1, <3>2
    <2>8. at'[r] \in {"unsent", "received"} => sender'[r] = "none"
      BY <1>3, <2>1 DEF PairLinesInv, HandlersInv, OutgoingInv
    <2>9. PairInv(r)'
      BY <1>3, <2>4, <2>6, PairStays
    <2>10. LinesOf(r, "operation")' = LinesOf(r, "operation") \/ LinesOf(r, "unconfirmed-sent") = {}
      BY <2>5, <2>7
    <2>11. PairLinesInv(r)'
      BY <1>3, <2>3, <2>4, <2>6, <2>8, <2>10, PairLinesStay
    <2>12. QED
      BY <2>9, <2>11
  <1>9. CASE CallSecondListener
    <2> DEFINE m == Message(Call(thread).client, "event", thread, {})
    <2>1. /\ UNCHANGED <<sent, told, sender>> /\ at' = [at EXCEPT ![thread] = "told"]
          /\ UNCHANGED outgoing \/ outgoing' = Append(outgoing, m)
      BY <1>9 DEF CallSecondListener, Progress, Queue
    <2>2. First(outgoing', r) = First(outgoing, r) /\ Second(outgoing', r) = Second(outgoing, r)
      <3>1. m.kind = "event"
        BY DEF Message
      <3>2. \A x, kind : x.kind # kind => About(Append(outgoing, x), r, kind) = About(outgoing, r, kind)
        BY AboutAppend DEF OutgoingInv
      <3> HIDE DEF m
      <3>3. QED
        BY <2>1, <3>1, <3>2 DEF First, Second
    <2>3. TellsNoPair
      BY <2>1 DEF TellsNoPair
    <2>4. \A what \in PairLines : LinesOf(r, what)' = LinesOf(r, what)
      BY <2>3, NoPairTold
    <2>5. First(sent', r) = First(sent, r) /\ Second(sent', r) = Second(sent, r) /\ sender'[r] = sender[r]
      BY <2>1
    <2>6. at'[r] \in {"unsent", "received"} => sender'[r] = "none"
      BY <1>3, <2>1 DEF PairLinesInv, HandlersInv
    <2>7. PairInv(r)'
      BY <1>3, <2>2, <2>5, PairStays
    <2>8. LinesOf(r, "operation")' = LinesOf(r, "operation")
      BY <1>5, <2>1
    <2>9. PairLinesInv(r)'
      BY <1>3, <2>4, <2>5, <2>6, <2>8, PairLinesStay
    <2>10. QED
      BY <2>7, <2>9
  <1>10. CASE Conclude
    <2>1. UNCHANGED <<told, outgoing, sender>> /\ at' = [at EXCEPT ![thread] = "done"]
      BY <1>10 DEF Conclude, Progress
    <2>2. SendsNoPair
      BY <1>10 DEF Conclude, Answer, Send, Message, SendsNoPair
    <2>3. at'[r] \in {"unsent", "received"} => at[r] \in {"unsent", "received"}
      BY <2>1 DEF HandlersInv
    <2>4. QED
      BY <1>4, <1>5, <2>1, <2>2, <2>3 DEF TellsNoPair
  <1>11. CASE Depart
    <2>1. /\ outgoing # <<>> /\ outgoing' = Tail(outgoing) /\ UNCHANGED <<told, at, sender>>
          /\ sent' = Append(sent, outgoing[1])
      BY <1>11, TailSequence DEF Depart, Send, OutgoingInv
    <2>2. PairInv(r)'
      BY <1>3, <2>1, PairDeparts
    <2>3. Second(sent, r) # {} => Second(sent', r) # {}
      <3>1. \A x, kind : About(sent, r, kind) \subseteq About(Append(sent, x), r, kind)
        BY AboutAppend DEF HandlersInv
      <3>2. QED
        BY <2>1, <3>1 DEF Second
    <2>4. TellsNoPair
      BY <2>1 DEF TellsNoPair
    <2>5. \A what \in PairLines : LinesOf(r, what)' = LinesOf(r, what)
      BY <2>4, NoPairTold
    <2>6. sender'[r] = sender[r] /\ (at'[r] \in {"unsent", "received"} => sender'[r] = "none")
      BY <1>3, <2>1 DEF PairLinesInv
    <2>7. LinesOf(r, "operation")' = LinesOf(r, "operation")
      BY <1>5, <2>1
    <2>8. PairLinesInv(r)'
      BY <1>3, <2>3, <2>5, <2>6, <2>7, PairLinesStay
    <2>9. QED
      BY <2>2, <2>8
  <1>12. ASSUME NEW q \in Requests, HearConfirmation(q) PROVE PairInv(r)' /\ PairLinesInv(r)'
    <2>1. /\ told' = Append(told, Line(q, "acknowledged")) /\ UNCHANGED <<sent, outgoing, sender, at>>
          /\ Second(sent, q) # {}
      BY <1>12 DEF HearConfirmation, Reports, threads, Second, About
    <2>2. PairInv(r)'
      BY <1>3, <2>1, PairStays
    <2>3. CASE q = r
      BY <1>3, <2>1, <2>2, <2>3, PairLinesTold
    <2>4. CASE q # r
      <3>1. \A what : Line(q, "acknowledged") # Line(r, what)
        BY <2>4 DEF Line
      <3>2. \A what : LinesOf(r, what)' = LinesOf(r, what)
        BY <2>1, <3>1, LinesAppend DEF HandlersInv
      <3>3. at'[r] \in {"unsent", "received"} => sender'[r] = "none"
        BY <1>3, <2>1 DEF PairLinesInv
      <3>4. PairLinesInv(r)'
        BY <1>3, <2>1, <3>2, <3>3, PairLinesStay
      <3>5. QED
        BY <2>2, <3>4
    <2>5. QED
      BY <2>3, <2>4, <2>2
  <1>13. ASSUME NEW q \in Requests, NEW from, NEW to, NEW kind, Sends(q, from, to, kind),
                \/ from = "sleeping" /\ to = "unconfirmed" /\ kind = "cov-multiple"
                \/ from = "between" /\ to = "confirmed" /\ kind = "confirmed-cov-multiple"
         PROVE  PairInv(r)' /\ PairLinesInv(r)'
    <2> DEFINE m == Message(Call(q).client, kind, q, {})
    <2>1. /\ UNCHANGED <<sent, told, at>> /\ sender[q] = from
          /\ \/ outgoing' = Append(outgoing, m) /\ sender' = [sender EXCEPT ![q] = to]
             \/ UNCHANGED outgoing /\ sender' = [sender EXCEPT ![q] = "ended"]
      BY <1>13 DEF Sends, Queue, processVars, handlers
    <2>2. m.about = q /\ m.kind = kind
      BY DEF Message
    <2>3. /\ q = r => sender'[r] = to \/ sender'[r] = "ended"
          /\ q # r => sender'[r] = sender[r]
      BY <2>1 DEF OutgoingInv
    <2>4. q # r => First(outgoing', r) = First(outgoing, r) /\ Second(outgoing', r) = Second(outgoing, r)
      <3>1. \A x, k : x.about # r => About(Append(outgoing, x), r, k) = About(outgoing, r, k)
        BY AboutAppend DEF OutgoingInv
      <3> HIDE DEF m
      <3>2. QED
        BY <2>1, <2>2, <3>1 DEF First, Second
    <2>5. PairInv(r)'
      <3>1. CASE q # r \/ (UNCHANGED outgoing /\ sender' = [sender EXCEPT ![q] = "ended"])
        <4>1. First(outgoing', r) = First(outgoing, r) /\ Second(outgoing', r) = Second(outgoing, r)
          BY <2>4, <3>1
        <4>2. sender'[r] = sender[r] \/ sender'[r] = "ended"
          BY <2>3, <3>1 DEF OutgoingInv
        <4>3. First(sent', r) = First(sent, r) /\ Second(sent', r) = Second(sent, r)
          BY <2>1
        <4>4. QED
          BY <1>3, <4>1, <4>2, <4>3, PairStays
      <3>2. CASE q = r /\ outgoing' = Append(outgoing, m) /\ sender' = [sender EXCEPT ![q] = to]
        <4>1. sender'[r] = to /\ sender[r] = from /\ m.about = r
          BY <2>1, <2>2, <3>2 DEF OutgoingInv
        <4> HIDE DEF m
        <4>2. QED
          BY <1>3, <1>13, <2>1, <2>2, <3>2, <4>1, PairQueued
      <3>3. QED
        BY <2>1, <3>1, <3>2
    <2>6. TellsNoPair
      BY <2>1 DEF TellsNoPair
    <2>7. \A what \in PairLines : LinesOf(r, what)' = LinesOf(r, what)
      BY <2>6, NoPairTold
    <2>8. LinesOf(r, "operation")' = LinesOf(r, "operation")
      BY <1>5, <2>1
    <2>9. \/ sender'[r] = sender[r] \/ sender'[r] = "ended"
          \/ sender[r] = "sleeping" /\ sender'[r] = "unconfirmed"
          \/ sender[r] = "between" /\ sender'[r] = "confirmed"
      BY <1>13, <2>1, <2>3
    <2>10. at'[r] \in {"unsent", "received"} => sender'[r] = "none"
      BY <1>3, <1>13, <2>1, <2>3 DEF PairLinesInv
    <2>11. Second(sent, r) # {} => Second(sent', r) # {}
      BY <2>1
    <2>12. PairLinesInv(r)'
      BY <1>3, <2>7, <2>8, <2>9, <2>10, <2>11, PairLinesStay
    <2>13. QED
      BY <2>5, <2>12
  <1>14. ASSUME NEW q \in Requests, NEW from, NEW to, NEW what, Tells(q, from, to, what),
                \/ from = "unconfirmed" /\ to = "between" /\ what = "unconfirmed-sent"
                \/ from = "confirmed" /\ to = "ended" /\ what = "confirmed-sent"
         PROVE  PairInv(r)' /\ PairLinesInv(r)'
    <2>1. /\ UNCHANGED <<sent, outgoing, at>> /\ sender[q] = from /\ sender' = [sender EXCEPT ![q] = to]
          /\ told' = Append(told, Line(q, what))
      BY <1>14 DEF Tells, Reports
    <2>2. /\ q = r => sender'[r] = to
          /\ q # r => sender'[r] = sender[r]
      BY <2>1 DEF OutgoingInv
    <2>3. PairInv(r)'
      <3>1. \/ sender'[r] = sender[r] \/ sender'[r] = "ended"
            \/ sender[r] = "unconfirmed" /\ sender'[r] = "between"
        BY <1>14, <2>1, <2>2
      <3>2. QED
        BY <1>3, <2>1, <3>1, PairStays
    <2>4. CASE q = r
      <3>1. \/ what = "unconfirmed-sent" /\ sender[r] = "unconfirmed" /\ sender'[r] = "between"
            \/ what = "confirmed-sent" /\ sender[r] = "confirmed" /\ sender'[r] = "ended"
        BY <1>14, <2>1, <2>2, <2>4
      <3>2. PairLinesInv(r)'
        BY <1>3, <2>1, <2>4, <3>1, PairLinesTold
      <3>3. QED
        BY <2>3, <3>2
    <2>5. CASE q # r
      <3>1. \A w : Line(q, what) # Line(r, w)
        BY <2>5 DEF Line
      <3>2. \A w : LinesOf(r, w)' = LinesOf(r, w)
        BY <2>1, <3>1, LinesAppend DEF HandlersInv
      <3>3. at'[r] \in {"unsent", "received"} => sender'[r] = "none"
        BY <1>3, <2>1, <2>2, <2>5 DEF PairLinesInv
      <3>4. PairLinesInv(r)'
        BY <1>3, <2>1, <2>2, <2>5, <3>2, <3>3, PairLinesStay
      <3>5. QED
        BY <2>3, <3>4
    <2>6. QED
      BY <2>4, <2>5
  <1>15. CASE Senders
    BY <1>13, <1>14, <1>15 DEF Senders, Sender
  <1>16. QED
    BY <1>6, <1>7, <1>8, <1>9, <1>10, <1>11, <1>12, <1>15 DEF Bacnet4jNext, Transport

LEMMA PairsSteps ==
    ASSUME LifecycleInv, TypesInv, AboutInv, PairsInv, [Next]_vars
    PROVE  PairsInv'
  <1>1. CASE UNCHANGED <<adapter, config, at, sent, told, outgoing, sender>>
    <2>1. Requests' = Requests /\ IsBacnet4j' = IsBacnet4j
      BY <1>1, RequestsStay DEF IsBacnet4j
    <2>2. \A r : PairInv(r)' = PairInv(r)
      BY <1>1 DEF PairInv, AtMostOne, AllBefore, First, Second, About
    <2>3. \A r : PairLinesInv(r)' = PairLinesInv(r)
      BY <1>1 DEF PairLinesInv, AllBefore, Second, About, LinesOf, Line
    <2>4. QED
      BY <1>1, <2>1, <2>2, <2>3 DEF PairsInv
  <1>2. CASE UNCHANGED vars
    BY <1>1, <1>2 DEF vars, shared, processVars, handlers, ownVars, threads
  <1>3. CASE SupervisorNext /\ UNCHANGED <<processVars, threads>>
    BY <1>1, <1>3, SupervisorSteps DEF processVars, handlers, threads
  <1>4. CASE RouterNext /\ UNCHANGED threads
    BY <1>1, <1>4, RouterRests, RouterLives DEF Lives, Keeps, handlers, threads
  <1>5. ASSUME ProcessNext PROVE UNCHANGED <<adapter, config>> /\ CallsFit
    BY <1>5, ProcessGrows, CallsAsAssumed DEF Lives, Keeps, TypesInv
  <1>6. CASE Bacnet4jNext
    BY <1>5, <1>6, Bacnet4jPairs DEF ProcessNext, TypesInv, AboutInv
  <1>7. CASE (BacpypesNext \/ WorldietyNext \/ CbsigmaNext \/ SysioNext) /\ UNCHANGED threads
    <2>1. ~IsBacnet4j
      BY <1>7
         DEF BacpypesNext, WorldietyNext, CbsigmaNext, SysioNext, IsBacpypes, IsWorldiety, IsCbsigma, IsSysio,
             IsBacnet4j
    <2>2. QED
      BY <1>5, <1>7, <2>1, OthersMakeNoPairs, PairsRest DEF ProcessNext, TypesInv, AboutInv, threads
  <1>8. QED
    BY <1>2, <1>3, <1>4, <1>6, <1>7 DEF Next, ownVars

LEMMA InitPairs == Init => PairsInv
  <1> SUFFICES ASSUME Init PROVE PairsInv
    OBVIOUS
  <1> USE EmptySequence DEF Init, ProcessInit, Bacnet4jInit
  <1>1. ASSUME NEW r \in Requests PROVE PairInv(r) /\ PairLinesInv(r)
    <2>1. First(sent, r) = {} /\ Second(sent, r) = {} /\ First(outgoing, r) = {} /\ Second(outgoing, r) = {}
      BY DEF First, Second, About
    <2>2. \A what : LinesOf(r, what) = {}
      BY DEF LinesOf
    <2>3. sender[r] = "none"
      OBVIOUS
    <2>4. QED
      BY <2>1, <2>2, <2>3 DEF PairInv, PairLinesInv, AtMostOne, AllBefore
  <1>2. QED
    BY <1>1 DEF PairsInv

LEMMA OneElement ==
    ASSUME NEW S, AtMostOne(S)
    PROVE  S = {} \/ \E x : S = {x}
  BY DEF AtMostOne

\* bacnet4j sends one pair for each request of it, the unconfirmed notification
\* first, and tells of its parts after the request and in order.
THEOREM PairsAreInOrder == Spec => []CovNotificationsComeInPairs
  <1>1. PairsInv => CovNotificationsComeInPairs
    <2> SUFFICES ASSUME PairsInv, NEW r \in Requests
                 PROVE  /\ Cardinality(CovMultiple(r, "cov-multiple")) <= 1
                        /\ Cardinality(CovMultiple(r, "confirmed-cov-multiple"))
                               <= Cardinality(CovMultiple(r, "cov-multiple"))
                        /\ AllBefore(CovMultiple(r, "cov-multiple"), CovMultiple(r, "confirmed-cov-multiple"))
                        /\ LinesOf(r, "acknowledged") # {} => CovMultiple(r, "confirmed-cov-multiple") # {}
                        /\ LinesOf(r, "confirmed-sent") # {} => LinesOf(r, "unconfirmed-sent") # {}
                        /\ AllBefore(LinesOf(r, "operation"), LinesOf(r, "unconfirmed-sent"))
                        /\ AllBefore(LinesOf(r, "unconfirmed-sent"),
                                     LinesOf(r, "confirmed-sent") \cup LinesOf(r, "acknowledged"))
      BY DEF CovNotificationsComeInPairs
    <2>1. CovMultiple(r, "cov-multiple") = First(sent, r) /\ CovMultiple(r, "confirmed-cov-multiple") = Second(sent, r)
      BY DEF CovMultiple, First, Second, About
    <2>2. PairInv(r) /\ PairLinesInv(r)
      BY DEF PairsInv
    <2>3. \A S : AtMostOne(S) => Cardinality(S) \in {0, 1} /\ (S # {} => Cardinality(S) = 1) /\ (S = {} => Cardinality(S) = 0)
      <3>1. ASSUME NEW S, AtMostOne(S)
            PROVE  Cardinality(S) \in {0, 1} /\ (S # {} => Cardinality(S) = 1) /\ (S = {} => Cardinality(S) = 0)
        <4>1. CASE S = {}
          BY <4>1, FS_EmptySet
        <4>2. ASSUME NEW x, S = {x} PROVE Cardinality(S) = 1
          BY <4>2, FS_Singleton
        <4>3. QED
          BY <3>1, <4>1, <4>2, OneElement
      <3>2. QED
        BY <3>1
    <2>4. Cardinality(First(sent, r)) <= 1 /\ Cardinality(Second(sent, r)) <= Cardinality(First(sent, r))
      <3>1. /\ AtMostOne(First(sent, r)) /\ AtMostOne(Second(sent, r))
            /\ Second(sent, r) # {} => First(sent, r) # {}
        BY <2>2 DEF PairInv
      <3>2. QED
        BY <2>3, <3>1
    <2>5. AllBefore(First(sent, r), Second(sent, r))
      BY <2>2 DEF PairInv
    <2>6. AllBefore(LinesOf(r, "unconfirmed-sent"), LinesOf(r, "confirmed-sent") \cup LinesOf(r, "acknowledged"))
      BY <2>2 DEF PairLinesInv, AllBefore
    <2>7. QED
      BY <2>1, <2>2, <2>4, <2>5, <2>6 DEF PairLinesInv
  <1>2. LifecycleInv /\ TypesInv /\ [Next]_vars => TypesInv'
    BY TypesSteps
  <1>3. LifecycleInv /\ TypesInv /\ AboutInv /\ [Next]_vars => AboutInv'
    BY AboutSteps
  <1>4. LifecycleInv /\ TypesInv /\ AboutInv /\ PairsInv /\ [Next]_vars => PairsInv'
    BY PairsSteps
  <1>5. QED
    BY InitTypes, InitAbout, InitPairs, LifecycleHolds, <1>1, <1>2, <1>3, <1>4, PTL DEF Spec

-----------------------------------------------------------------------------
(* cbsigma's simulator and its reporter *)

\* The place of a request in the lists.
Held(lists, x, l, i) == l \in Lists /\ i \in DOMAIN lists[l] /\ lists[l][i] = x

\* In one list, once, and concluded.
ListsInv ==
    /\ \A l \in Lists : IsSequence(recorded[l])
    /\ recorded = [l \in Lists |-> recorded[l]] /\ counted \in [Lists -> Nat]
    /\ \A l \in Lists : counted[l] <= Len(recorded[l])
    /\ \A x, l, i : Held(recorded, x, l, i) =>
          x \in Requests /\ Call(x).kind = "simulated" /\ Call(x).arg.list = l /\ at[x] = "done"
    /\ \A x, l, i, j : Held(recorded, x, l, i) /\ Held(recorded, x, l, j) => i = j

\* What has been taken, in the order of each list.
Ordered(s) ==
    \A m, n \in DOMAIN s : m < n =>
        \A l, i, j : Held(recorded, s[m], l, i) /\ Held(recorded, s[n], l, j) => i < j

BatchInv ==
    /\ IsSequence(batch) /\ Ordered(batch)
    /\ \A n \in DOMAIN batch : \E l, i : Held(recorded, batch[n], l, i) /\ i <= counted[l]

\* What has been reported, in the same order, and before what waits.
ReportedInv ==
    /\ \A n \in DOMAIN told :
          /\ told[n] = Line(told[n].about, "operation")
          /\ Call(told[n].about).arg.named /\ ~Waits(told[n].about)
          /\ \E l, i : Held(recorded, told[n].about, l, i) /\ i <= counted[l]
    /\ \A m, n \in DOMAIN told : m < n =>
          \A l, i, j : Held(recorded, told[m].about, l, i) /\ Held(recorded, told[n].about, l, j) => i < j
    /\ \A x, l, i : Held(recorded, x, l, i) /\ i <= counted[l] /\ Call(x).arg.named /\ ~Waits(x)
                       => HasLine(x, "operation")
    /\ \A m \in DOMAIN told, n \in DOMAIN batch : \A l, i, j :
          Held(recorded, told[m].about, l, i) /\ Held(recorded, batch[n], l, j) => i < j

Simulates == IsCbsigma /\ config.role = "sim"

SimulatorInv == Simulates => ListsInv /\ BatchInv /\ ReportedInv

\* A sequence holds just what the lists of A have gained, in their order.
Takes(s, A) ==
    /\ IsSequence(s) /\ Ordered(s)
    /\ \A n \in DOMAIN s : \E l \in A : \E i : Held(recorded, s[n], l, i) /\ counted[l] < i
    /\ \A x, i : \A l \in A : Held(recorded, x, l, i) /\ counted[l] < i => \E n \in DOMAIN s : s[n] = x

LEMMA HeldOnce ==
    ASSUME ListsInv, NEW x, NEW l, NEW i, NEW k, NEW j, Held(recorded, x, l, i), Held(recorded, x, k, j)
    PROVE  l = k /\ i = j
  BY DEF ListsInv

LEMMA FreshIsTaken ==
    ASSUME ListsInv, NEW l \in Lists
    PROVE  Takes(Fresh(l), {l})
  <1> DEFINE s == recorded[l]
             c == counted[l]
             f == Fresh(l)
             S == {s[k] : k \in DOMAIN s}
  <1>1. s \in Seq(S) /\ Len(s) \in Nat /\ DOMAIN s = 1..Len(s) /\ c \in Nat /\ c <= Len(s)
    BY Indices DEF ListsInv, IsSequence
  <1> HIDE DEF s, c, f, S
  <1>2. ASSUME NEW m \in Int, NEW n \in Int, m \in 1..Len(s) + 1, n \in m - 1..Len(s)
        PROVE  /\ SubSeq(s, m, n) \in Seq(S) /\ Len(SubSeq(s, m, n)) = n - m + 1
               /\ \A k \in 1..(n - m + 1) : SubSeq(s, m, n)[k] = s[m + k - 1]
    <2>1. \A i \in m..n : s[i] \in S
      BY <1>1, <1>2
    <2>2. (IF m <= n THEN n - m + 1 ELSE 0) = n - m + 1
      BY <1>1, <1>2
    <2>3. QED
      BY <2>1, <2>2, SubSeqProperties
  <1>3. f = SubSeq(s, c + 1, Len(s))
    BY DEF Fresh, s, c, f
  <1>4. f \in Seq(S) /\ Len(f) = Len(s) - c /\ \A k \in 1..(Len(s) - c) : f[k] = s[c + k]
    <2>1. c + 1 \in Int /\ Len(s) \in Int /\ c + 1 \in 1..Len(s) + 1 /\ Len(s) \in (c + 1) - 1..Len(s)
      BY <1>1
    <2>2. /\ f \in Seq(S) /\ Len(f) = Len(s) - (c + 1) + 1
          /\ \A k \in 1..(Len(s) - (c + 1) + 1) : f[k] = s[(c + 1) + k - 1]
      BY <1>2, <1>3, <2>1
    <2>3. Len(s) - (c + 1) + 1 = Len(s) - c /\ \A k \in Int : (c + 1) + k - 1 = c + k
      BY <1>1
    <2>4. ASSUME NEW k \in 1..(Len(s) - c) PROVE f[k] = s[c + k]
      <3>1. (c + 1) + k - 1 = c + k /\ k \in 1..(Len(s) - (c + 1) + 1)
        BY <1>1, <2>3
      <3>2. f[k] = s[(c + 1) + k - 1]
        BY <2>2, <3>1
      <3>3. QED
        BY <3>1, <3>2
    <2>5. Len(f) = Len(s) - c
      BY <2>2, <2>3
    <2>6. QED
      BY <2>2, <2>4, <2>5
  <1>5. IsSequence(f) /\ DOMAIN f = 1..(Len(s) - c)
    <2>1. IsSequence(f)
      BY <1>4, SequenceOfAnything
    <2>2. QED
      BY <1>4, <2>1, Indices
  <1>6. \A n \in DOMAIN f : n \in Nat /\ c + n \in DOMAIN s /\ c < c + n /\ f[n] = s[c + n]
    BY <1>1, <1>4, <1>5
  <1>7. \A n \in DOMAIN f : Held(recorded, f[n], l, c + n)
    BY <1>6 DEF Held, s
  <1>8. Ordered(f)
    <2> SUFFICES ASSUME NEW m \in DOMAIN f, NEW n \in DOMAIN f, m < n, NEW k, NEW i, NEW j,
                        Held(recorded, f[m], k, i), Held(recorded, f[n], k, j)
                 PROVE  i < j
      BY DEF Ordered
    <2>1. i = c + m /\ j = c + n
      BY <1>7, HeldOnce
    <2>2. QED
      BY <1>1, <1>6, <2>1
  <1>9. ASSUME NEW x, NEW i, Held(recorded, x, l, i), c < i PROVE \E n \in DOMAIN f : f[n] = x
    <2>1. i \in 1..Len(s) /\ s[i] = x
      BY <1>1, <1>9 DEF Held, s
    <2>2. i - c \in DOMAIN f /\ c + (i - c) = i
      BY <1>1, <1>5, <1>9, <2>1
    <2>3. QED
      BY <1>6, <2>1, <2>2
  <1>10. \A n \in DOMAIN f : \E k \in {l} : \E i : Held(recorded, f[n], k, i) /\ counted[k] < i
    <2>1. ASSUME NEW n \in DOMAIN f PROVE Held(recorded, f[n], l, c + n) /\ counted[l] < c + n
      BY <1>6, <1>7 DEF c
    <2>2. QED
      BY <2>1
  <1>11. \A x, i : \A k \in {l} : Held(recorded, x, k, i) /\ counted[k] < i => \E n \in DOMAIN f : f[n] = x
    BY <1>9 DEF c
  <1>12. Takes(f, {l})
    BY <1>5, <1>8, <1>10, <1>11 DEF Takes
  <1>13. QED
    BY <1>12 DEF f

LEMMA TakenTogether ==
    ASSUME ListsInv, NEW A, NEW B, A \cap B = {}, NEW s, NEW t, Takes(s, A), Takes(t, B)
    PROVE  Takes(s \o t, A \cup B)
  <1> DEFINE u == s \o t
  <1>1. IsSequence(s) /\ IsSequence(t) /\ Ordered(s) /\ Ordered(t)
    BY DEF Takes
  <1>2. /\ IsSequence(u) /\ Len(s) \in Nat /\ Len(t) \in Nat /\ DOMAIN s = 1..Len(s) /\ DOMAIN t = 1..Len(t)
        /\ DOMAIN u = 1..(Len(s) + Len(t))
        /\ \A k \in DOMAIN s : u[k] = s[k]
        /\ \A k \in DOMAIN t : u[Len(s) + k] = t[k]
        /\ \A k \in DOMAIN u :
              \/ k \in DOMAIN s /\ u[k] = s[k]
              \/ k > Len(s) /\ k - Len(s) \in DOMAIN t /\ u[k] = t[k - Len(s)]
    <2>1. /\ IsSequence(u) /\ DOMAIN u = 1..(Len(s) + Len(t))
          /\ \A k \in DOMAIN s : u[k] = s[k]
          /\ \A k \in DOMAIN t : u[Len(s) + k] = t[k]
          /\ \A k \in DOMAIN u :
                \/ k \in DOMAIN s /\ u[k] = s[k]
                \/ k > Len(s) /\ k - Len(s) \in DOMAIN t /\ u[k] = t[k - Len(s)]
      <3>1. IsSequence(u) /\ DOMAIN u = 1..(Len(s) + Len(t))
        BY <1>1, ConcatSequence
      <3>2. \A k \in DOMAIN s : u[k] = s[k]
        BY <1>1, ConcatSequence
      <3>3. \A k \in DOMAIN t : u[Len(s) + k] = t[k]
        BY <1>1, ConcatSequence
      <3>4. \A k \in DOMAIN u :
               \/ k \in DOMAIN s /\ u[k] = s[k]
               \/ k > Len(s) /\ k - Len(s) \in DOMAIN t /\ u[k] = t[k - Len(s)]
        BY <1>1, ConcatSequence
      <3> HIDE DEF u
      <3>5. QED
        BY <3>1, <3>2, <3>3, <3>4
    <2>2. Len(s) \in Nat /\ Len(t) \in Nat /\ DOMAIN s = 1..Len(s) /\ DOMAIN t = 1..Len(t)
      BY <1>1, Indices
    <2> HIDE DEF u
    <2>3. QED
      BY <2>1, <2>2
  <1> HIDE DEF u
  <1>3. \A n \in DOMAIN u : \E l \in A \cup B : \E i : Held(recorded, u[n], l, i) /\ counted[l] < i
    <2> SUFFICES ASSUME NEW n \in DOMAIN u PROVE \E l \in A \cup B : \E i : Held(recorded, u[n], l, i) /\ counted[l] < i
      OBVIOUS
    <2>1. CASE n \in DOMAIN s /\ u[n] = s[n]
      BY <2>1 DEF Takes
    <2>2. CASE n - Len(s) \in DOMAIN t /\ u[n] = t[n - Len(s)]
      BY <2>2 DEF Takes
    <2>3. QED
      BY <1>2, <2>1, <2>2
  <1>4. ASSUME NEW x, NEW i, NEW l \in A \cup B, Held(recorded, x, l, i), counted[l] < i
        PROVE  \E n \in DOMAIN u : u[n] = x
    <2>1. (\E n \in DOMAIN s : s[n] = x) \/ (\E n \in DOMAIN t : t[n] = x)
      BY <1>4 DEF Takes
    <2>2. (\A n \in DOMAIN s : n \in DOMAIN u) /\ (\A n \in DOMAIN t : Len(s) + n \in DOMAIN u)
      BY <1>2
    <2>3. QED
      BY <1>2, <2>1, <2>2
  <1>5. Ordered(u)
    <2> SUFFICES ASSUME NEW m \in DOMAIN u, NEW n \in DOMAIN u, m < n, NEW l, NEW i, NEW j,
                        Held(recorded, u[m], l, i), Held(recorded, u[n], l, j)
                 PROVE  i < j
      BY DEF Ordered
    <2>1. CASE m \in DOMAIN s /\ u[m] = s[m] /\ n \in DOMAIN s /\ u[n] = s[n]
      BY <1>1, <2>1 DEF Ordered
    <2>2. CASE m - Len(s) \in DOMAIN t /\ u[m] = t[m - Len(s)] /\ n - Len(s) \in DOMAIN t /\ u[n] = t[n - Len(s)]
      <3>1. m - Len(s) < n - Len(s)
        BY <1>2
      <3>2. QED
        BY <1>1, <2>2, <3>1 DEF Ordered
    <2>3. CASE m \in DOMAIN s /\ u[m] = s[m] /\ n - Len(s) \in DOMAIN t /\ u[n] = t[n - Len(s)]
      <3>1. PICK k, i1 : k \in A /\ Held(recorded, u[m], k, i1)
        BY <2>3 DEF Takes
      <3>2. PICK h, j1 : h \in B /\ Held(recorded, u[n], h, j1)
        BY <2>3 DEF Takes
      <3>3. k = l /\ h = l
        BY <3>1, <3>2, HeldOnce
      <3>4. QED
        BY <3>1, <3>2, <3>3
    <2>4. CASE m > Len(s) /\ n \in DOMAIN s
      BY <1>2, <2>4
    <2>5. QED
      BY <1>2, <2>1, <2>2, <2>3, <2>4
  <1>6. Takes(u, A \cup B)
    BY <1>2, <1>3, <1>4, <1>5 DEF Takes
  <1>7. QED
    BY <1>6 DEF u

\* Under the lock a request joins the end of its list.
LEMMA SimulateKeeps ==
    ASSUME HandlersInv, CallsFit, ListsInv, BatchInv, ReportedInv, NEW r \in Requests, Simulate(r),
           UNCHANGED <<adapter, config>>
    PROVE  ListsInv' /\ BatchInv' /\ ReportedInv'
  <1> DEFINE list == Call(r).arg.list
             last == Len(recorded[list]) + 1
  <1>1. /\ Call(r).kind = "simulated" /\ at[r] = "received" /\ at' = [at EXCEPT ![r] = "done"]
        /\ recorded' = [recorded EXCEPT ![list] = Append(recorded[list], r)] /\ UNCHANGED <<told, counted, batch>>
    BY DEF Simulate, Progress
  <1>2. Requests' = Requests /\ \A x : Call(x)' = Call(x)
    BY RequestsStay
  <1>3. list \in Lists
    BY <1>1 DEF CallsFit
  <1>4. /\ recorded' = [l \in Lists |-> recorded'[l]] /\ recorded'[list] = Append(recorded[list], r)
        /\ \A l \in Lists : l # list => recorded'[l] = recorded[l]
    BY <1>1, <1>3 DEF ListsInv
  <1>5. /\ IsSequence(recorded'[list]) /\ Len(recorded'[list]) = last
        /\ DOMAIN recorded'[list] = DOMAIN recorded[list] \cup {last}
        /\ \A i \in DOMAIN recorded[list] : recorded'[list][i] = recorded[list][i]
        /\ recorded'[list][last] = r
    <2>1. IsSequence(recorded[list])
      BY <1>3 DEF ListsInv
    <2>2. recorded'[list] = Append(recorded[list], r)
      BY <1>4
    <2>3. LET t == Append(recorded[list], r)
          IN  /\ IsSequence(t) /\ Len(t) = last
              /\ DOMAIN t = DOMAIN recorded[list] \cup {last}
              /\ \A i \in DOMAIN recorded[list] : t[i] = recorded[list][i]
              /\ t[last] = r
      <3> HIDE DEF list
      <3>1. QED
        BY <2>1, AppendSequence
    <2>4. QED
      BY <2>2, <2>3
  <1>6. /\ last \notin DOMAIN recorded[list] /\ last \in Nat
        /\ \A l \in Lists : counted[l] \in Nat /\ Len(recorded[l]) \in Nat /\ counted[l] <= Len(recorded[l])
    BY <1>3, Indices DEF ListsInv
  <1>7. \A x, l, i : Held(recorded, x, l, i) => x # r
    BY <1>1 DEF ListsInv
  <1> HIDE DEF list, last
  <1>8. \A x, l, i : Held(recorded', x, l, i) <=> Held(recorded, x, l, i) \/ (x = r /\ l = list /\ i = last)
    <2> SUFFICES ASSUME NEW x, NEW l, NEW i
                 PROVE  Held(recorded', x, l, i) <=> Held(recorded, x, l, i) \/ (x = r /\ l = list /\ i = last)
      OBVIOUS
    <2>1. CASE l = list
      BY <1>3, <1>5, <1>6, <2>1 DEF Held
    <2>2. CASE l # list
      BY <1>4, <2>2 DEF Held
    <2>3. QED
      BY <2>1, <2>2
  <1>9. \A l, i : i <= counted[l] => ~(l = list /\ i = last)
    <2>1. counted[list] < last
      BY <1>3, <1>6 DEF last
    <2>2. QED
      BY <1>3, <1>6, <2>1
  <1>10. ListsInv'
    <2>1. \A l \in Lists : IsSequence(recorded'[l])
      BY <1>4, <1>5 DEF ListsInv
    <2>2. \A l \in Lists : counted'[l] <= Len(recorded'[l])
      <3>1. counted[list] <= last
        BY <1>3, <1>6 DEF last
      <3>2. QED
        BY <1>1, <1>4, <1>5, <1>6, <3>1
    <2>3. \A x, l, i : Held(recorded', x, l, i) =>
             x \in Requests /\ Call(x).kind = "simulated" /\ Call(x).arg.list = l /\ at'[x] = "done"
      <3> SUFFICES ASSUME NEW x, NEW l, NEW i, Held(recorded', x, l, i)
                   PROVE  x \in Requests /\ Call(x).kind = "simulated" /\ Call(x).arg.list = l /\ at'[x] = "done"
        OBVIOUS
      <3>1. CASE Held(recorded, x, l, i)
        <4>1. x \in Requests /\ Call(x).kind = "simulated" /\ Call(x).arg.list = l /\ at[x] = "done"
          BY <3>1 DEF ListsInv
        <4>2. QED
          BY <1>1, <4>1 DEF HandlersInv
      <3>2. CASE x = r /\ l = list
        BY <1>1, <3>2 DEF HandlersInv, list
      <3>3. QED
        BY <1>8, <3>1, <3>2
    <2>4. \A x, l, i, j : Held(recorded', x, l, i) /\ Held(recorded', x, l, j) => i = j
      <3> SUFFICES ASSUME NEW x, NEW l, NEW i, NEW j, Held(recorded', x, l, i), Held(recorded', x, l, j) PROVE i = j
        OBVIOUS
      <3>1. CASE x = r
        <4>1. i = last /\ j = last
          BY <1>7, <1>8, <3>1
        <4>2. QED
          BY <4>1
      <3>2. CASE x # r
        <4>1. Held(recorded, x, l, i) /\ Held(recorded, x, l, j)
          BY <1>8, <3>2
        <4>2. QED
          BY <4>1 DEF ListsInv
      <3>3. QED
        BY <3>1, <3>2
    <2>5. counted' \in [Lists -> Nat]
      BY <1>1 DEF ListsInv
    <2>6. QED
      BY <1>2, <1>4, <2>1, <2>2, <2>3, <2>4, <2>5 DEF ListsInv
  <1>11. \A n \in DOMAIN batch : batch[n] # r
    BY <1>7 DEF BatchInv
  <1>12. \A n \in DOMAIN told : told[n].about # r
    BY <1>7 DEF ReportedInv
  <1>13. BatchInv'
    <2>1. \A m, n \in DOMAIN batch : m < n =>
             \A l, i, j : Held(recorded', batch[m], l, i) /\ Held(recorded', batch[n], l, j) => i < j
      <3>1. \A m, n \in DOMAIN batch : m < n =>
               \A l, i, j : Held(recorded, batch[m], l, i) /\ Held(recorded, batch[n], l, j) => i < j
        BY DEF BatchInv, Ordered
      <3> SUFFICES ASSUME NEW m \in DOMAIN batch, NEW n \in DOMAIN batch, m < n, NEW l, NEW i, NEW j,
                          Held(recorded', batch[m], l, i), Held(recorded', batch[n], l, j)
                   PROVE  i < j
        OBVIOUS
      <3>2. Held(recorded, batch[m], l, i) /\ Held(recorded, batch[n], l, j)
        BY <1>8, <1>11
      <3>3. QED
        BY <3>1, <3>2
    <2>2. \A n \in DOMAIN batch : \E l, i : Held(recorded', batch[n], l, i) /\ i <= counted[l]
      BY <1>8 DEF BatchInv
    <2>3. batch' = batch /\ counted' = counted /\ IsSequence(batch)
      BY <1>1 DEF BatchInv
    <2>4. Ordered(batch)'
      BY <2>1, <2>3 DEF Ordered
    <2>5. QED
      BY <2>2, <2>3, <2>4 DEF BatchInv
  <1>14. ReportedInv'
    <2>1. \A n \in DOMAIN told :
            /\ told[n] = Line(told[n].about, "operation") /\ Call(told[n].about).arg.named /\ ~Waits(told[n].about)
            /\ \E l, i : Held(recorded', told[n].about, l, i) /\ i <= counted[l]
      BY <1>8 DEF ReportedInv
    <2>2. \A m, n \in DOMAIN told : m < n =>
             \A l, i, j : Held(recorded', told[m].about, l, i) /\ Held(recorded', told[n].about, l, j) => i < j
      <3>1. \A m, n \in DOMAIN told : m < n =>
               \A l, i, j : Held(recorded, told[m].about, l, i) /\ Held(recorded, told[n].about, l, j) => i < j
        BY DEF ReportedInv
      <3> SUFFICES ASSUME NEW m \in DOMAIN told, NEW n \in DOMAIN told, m < n, NEW l, NEW i, NEW j,
                          Held(recorded', told[m].about, l, i), Held(recorded', told[n].about, l, j)
                   PROVE  i < j
        OBVIOUS
      <3>2. Held(recorded, told[m].about, l, i)
        BY <1>8, <1>12
      <3>3. Held(recorded, told[n].about, l, j)
        BY <1>8, <1>12
      <3>4. QED
        BY <3>1, <3>2, <3>3
    <2>3. \A x, l, i :
             Held(recorded', x, l, i) /\ i <= counted[l] /\ Call(x).arg.named /\ ~Waits(x) => HasLine(x, "operation")
      BY <1>8, <1>9 DEF ReportedInv
    <2>4. \A m \in DOMAIN told, n \in DOMAIN batch : \A l, i, j :
             Held(recorded', told[m].about, l, i) /\ Held(recorded', batch[n], l, j) => i < j
      <3>1. \A m \in DOMAIN told, n \in DOMAIN batch : \A l, i, j :
               Held(recorded, told[m].about, l, i) /\ Held(recorded, batch[n], l, j) => i < j
        BY DEF ReportedInv
      <3> SUFFICES ASSUME NEW m \in DOMAIN told, NEW n \in DOMAIN batch, NEW l, NEW i, NEW j,
                          Held(recorded', told[m].about, l, i), Held(recorded', batch[n], l, j)
                   PROVE  i < j
        OBVIOUS
      <3>2. Held(recorded, told[m].about, l, i)
        BY <1>8, <1>12
      <3>3. Held(recorded, batch[n], l, j)
        BY <1>8, <1>11
      <3>4. QED
        BY <3>1, <3>2, <3>3
    <2>5. QED
      BY <1>1, <1>2, <2>1, <2>2, <2>3, <2>4 DEF ReportedInv, Waits, HasLine
  <1>15. QED
    BY <1>10, <1>13, <1>14

\* Under the lock the reporter takes what the lists have gained.
LEMMA LookKeeps ==
    ASSUME HandlersInv, ListsInv, BatchInv, ReportedInv, LookAtLists, UNCHANGED <<adapter, config>>
    PROVE  ListsInv' /\ BatchInv' /\ ReportedInv'
  <1>1. /\ batch = <<>> /\ UNCHANGED <<recorded, told, at>> /\ counted' = [l \in Lists |-> Len(recorded[l])]
        /\ batch' = Fresh("writes") \o Fresh("mgmt") \o Fresh("unconf") \o Fresh("acks") \o Fresh("registrations")
    BY DEF LookAtLists, processVars, handlers
  <1>2. Requests' = Requests /\ \A x : Call(x)' = Call(x)
    BY RequestsStay
  <1>3. Takes(batch', Lists)
    <2>1. /\ Takes(Fresh("writes"), {"writes"}) /\ Takes(Fresh("mgmt"), {"mgmt"}) /\ Takes(Fresh("unconf"), {"unconf"})
          /\ Takes(Fresh("acks"), {"acks"}) /\ Takes(Fresh("registrations"), {"registrations"})
      BY FreshIsTaken DEF Lists
    <2>2. Takes(Fresh("writes") \o Fresh("mgmt"), {"writes", "mgmt"})
      <3>1. {"writes"} \cap {"mgmt"} = {} /\ {"writes"} \cup {"mgmt"} = {"writes", "mgmt"}
        OBVIOUS
      <3>2. QED
        BY <2>1, <3>1, TakenTogether
    <2>3. Takes(Fresh("writes") \o Fresh("mgmt") \o Fresh("unconf"), {"writes", "mgmt", "unconf"})
      <3>1. {"writes", "mgmt"} \cap {"unconf"} = {} /\ {"writes", "mgmt"} \cup {"unconf"} = {"writes", "mgmt", "unconf"}
        OBVIOUS
      <3>2. QED
        BY <2>1, <2>2, <3>1, TakenTogether
    <2>4. Takes(Fresh("writes") \o Fresh("mgmt") \o Fresh("unconf") \o Fresh("acks"), {"writes", "mgmt", "unconf", "acks"})
      <3>1. /\ {"writes", "mgmt", "unconf"} \cap {"acks"} = {}
            /\ {"writes", "mgmt", "unconf"} \cup {"acks"} = {"writes", "mgmt", "unconf", "acks"}
        OBVIOUS
      <3>2. QED
        BY <2>1, <2>3, <3>1, TakenTogether
    <2>5. /\ {"writes", "mgmt", "unconf", "acks"} \cap {"registrations"} = {}
          /\ {"writes", "mgmt", "unconf", "acks"} \cup {"registrations"} = Lists
      BY DEF Lists
    <2>6. QED
      BY <1>1, <2>1, <2>4, <2>5, TakenTogether, Zenon
  <1>4. \A x, l, i : Held(recorded, x, l, i) => i \in Nat /\ i <= counted'[l] /\ counted[l] \in Nat
    BY <1>1, Indices DEF Held, ListsInv
  <1>5. ListsInv'
    <2>1. counted' \in [Lists -> Nat] /\ \A l \in Lists : counted'[l] <= Len(recorded[l])
      BY <1>1, Indices DEF ListsInv
    <2>2. QED
      BY <1>1, <1>2, <2>1 DEF ListsInv
  <1>6. BatchInv'
    <2>1. IsSequence(batch') /\ \A n \in DOMAIN batch' : \E l, i : Held(recorded, batch'[n], l, i) /\ i <= counted'[l]
      BY <1>3, <1>4 DEF Takes
    <2>2. \A m, n \in DOMAIN batch' : m < n =>
             \A l, i, j : Held(recorded, batch'[m], l, i) /\ Held(recorded, batch'[n], l, j) => i < j
      BY <1>3 DEF Takes, Ordered
    <2>3. QED
      BY <1>1, <2>1, <2>2 DEF BatchInv, Ordered
  <1>7. \A x, l, i : Held(recorded, x, l, i) /\ i <= counted[l] => \A n \in DOMAIN batch' : batch'[n] # x
    <2> SUFFICES ASSUME NEW x, NEW l, NEW i, Held(recorded, x, l, i), i <= counted[l], NEW n \in DOMAIN batch', batch'[n] = x
                 PROVE  FALSE
      OBVIOUS
    <2>1. PICK k, j : Held(recorded, x, k, j) /\ counted[k] < j
      BY <1>3 DEF Takes
    <2>2. k = l /\ j = i
      BY <2>1, HeldOnce
    <2>3. QED
      BY <1>4, <2>1, <2>2
  <1>8. \A x : ~Waits(x)
    BY <1>1 DEF Waits
  <1>9. ReportedInv'
    <2>1. \A n \in DOMAIN told :
            /\ told[n] = Line(told[n].about, "operation") /\ Call(told[n].about).arg.named
            /\ ~\E k \in DOMAIN batch' : batch'[k] = told[n].about
            /\ \E l, i : Held(recorded, told[n].about, l, i) /\ i <= counted'[l]
      BY <1>4, <1>7 DEF ReportedInv
    <2>2. \A x, l, i : Held(recorded, x, l, i) /\ i <= counted'[l] /\ Call(x).arg.named
                          /\ ~(\E k \in DOMAIN batch' : batch'[k] = x) => HasLine(x, "operation")
      <3> SUFFICES ASSUME NEW x, NEW l, NEW i, Held(recorded, x, l, i), Call(x).arg.named,
                          ~\E k \in DOMAIN batch' : batch'[k] = x
                   PROVE  HasLine(x, "operation")
        OBVIOUS
      <3>1. l \in Lists
        BY DEF Held
      <3>2. i <= counted[l]
        BY <1>3, <1>4, <3>1 DEF Takes
      <3>3. QED
        BY <1>8, <3>2 DEF ReportedInv
    <2>3. \A m \in DOMAIN told, n \in DOMAIN batch' : \A l, i, j :
             Held(recorded, told[m].about, l, i) /\ Held(recorded, batch'[n], l, j) => i < j
      <3> SUFFICES ASSUME NEW m \in DOMAIN told, NEW n \in DOMAIN batch', NEW l, NEW i, NEW j,
                          Held(recorded, told[m].about, l, i), Held(recorded, batch'[n], l, j)
                   PROVE  i < j
        OBVIOUS
      <3>1. PICK k, i1 : Held(recorded, told[m].about, k, i1) /\ i1 <= counted[k]
        BY DEF ReportedInv
      <3>2. PICK h, j1 : Held(recorded, batch'[n], h, j1) /\ counted[h] < j1
        BY <1>3 DEF Takes
      <3>3. k = l /\ i1 = i /\ h = l /\ j1 = j
        BY <3>1, <3>2, HeldOnce
      <3>4. QED
        BY <1>4, <3>1, <3>2, <3>3
    <2>4. \A m, n \in DOMAIN told : m < n =>
             \A l, i, j : Held(recorded, told[m].about, l, i) /\ Held(recorded, told[n].about, l, j) => i < j
      BY DEF ReportedInv
    <2>5. QED
      <3>1. UNCHANGED <<told, recorded, config>>
        BY <1>1, <1>2
      <3>2. (\A n \in DOMAIN told :
               /\ told[n] = Line(told[n].about, "operation")
               /\ Call(told[n].about).arg.named /\ ~Waits(told[n].about)
               /\ \E l, i : Held(recorded, told[n].about, l, i) /\ i <= counted[l])'
        BY <2>1, <3>1 DEF Waits, Line, Call, Held
      <3>3. (\A m, n \in DOMAIN told : m < n =>
                \A l, i, j : Held(recorded, told[m].about, l, i) /\ Held(recorded, told[n].about, l, j) => i < j)'
        BY <2>4, <3>1 DEF Held
      <3>4. (\A x, l, i : Held(recorded, x, l, i) /\ i <= counted[l] /\ Call(x).arg.named /\ ~Waits(x)
                              => HasLine(x, "operation"))'
        BY <2>2, <3>1 DEF Waits, HasLine, Call, Held
      <3>5. (\A m \in DOMAIN told, n \in DOMAIN batch : \A l, i, j :
                Held(recorded, told[m].about, l, i) /\ Held(recorded, batch[n], l, j) => i < j)'
        BY <2>3, <3>1 DEF Held
      <3>6. QED
        BY <3>2, <3>3, <3>4, <3>5 DEF ReportedInv
  <1>10. QED
    BY <1>5, <1>6, <1>9

\* The reporter goes on to the next of what it has taken.
LEMMA ReportKeeps ==
    ASSUME HandlersInv, ListsInv, BatchInv, ReportedInv, ReportNext, UNCHANGED <<adapter, config>>
    PROVE  ListsInv' /\ BatchInv' /\ ReportedInv'
  <1> DEFINE x == batch[1]
             last == Len(told) + 1
  <1>1. /\ UNCHANGED <<recorded, counted, at>> /\ batch # <<>> /\ batch' = Tail(batch)
        /\ IF Call(x).arg.named THEN told' = Append(told, Line(x, "operation")) ELSE UNCHANGED told
    BY TailSequence DEF ReportNext, Reports, BatchInv
  <1>2. Requests' = Requests /\ \A y : Call(y)' = Call(y)
    BY RequestsStay
  <1>3. /\ 1 \in DOMAIN batch /\ IsSequence(batch') /\ DOMAIN batch' = {k \in Nat \ {0} : k + 1 \in DOMAIN batch}
        /\ \A k \in DOMAIN batch' : k + 1 \in DOMAIN batch /\ batch'[k] = batch[k + 1] /\ k \in Nat \ {0}
    BY <1>1, TailSequence DEF BatchInv
  <1>4. PICK l, i : Held(recorded, x, l, i) /\ i <= counted[l]
    BY <1>3 DEF BatchInv
  <1>5. \A k \in DOMAIN batch' : \E h, j : Held(recorded, batch'[k], h, j) /\ j <= counted[h]
    BY <1>3 DEF BatchInv
  <1> HIDE DEF x, last
  <1>6. \A k \in DOMAIN batch' : \A h, m, n : Held(recorded, x, h, m) /\ Held(recorded, batch'[k], h, n) => m < n
    <2> SUFFICES ASSUME NEW k \in DOMAIN batch', NEW h, NEW m, NEW n, Held(recorded, x, h, m), Held(recorded, batch'[k], h, n)
                 PROVE  m < n
      OBVIOUS
    <2>1. 1 < k + 1
      BY <1>3
    <2>2. QED
      BY <1>3, <2>1 DEF BatchInv, Ordered, x
  <1>7. i \in Nat
    BY <1>4, Indices DEF Held, ListsInv
  <1>8. \A k \in DOMAIN batch' : batch'[k] # x
    BY <1>4, <1>6, <1>7
  <1>9. \A y : (\E k \in DOMAIN batch' : batch'[k] = y) <=> Waits(y) /\ y # x
    <2>1. ASSUME NEW k \in DOMAIN batch, batch[k] # x PROVE \E n \in DOMAIN batch' : batch'[n] = batch[k]
      <3>1. k \in Nat \ {0} /\ k # 1
        BY <2>1, Indices DEF x, BatchInv
      <3>2. k - 1 \in Nat \ {0} /\ (k - 1) + 1 = k
        BY <3>1
      <3>3. k - 1 \in DOMAIN batch'
        BY <1>3, <3>2
      <3>4. QED
        BY <1>3, <3>2, <3>3
    <2>2. QED
      BY <1>3, <1>8, <2>1 DEF Waits
  <1>10. ListsInv'
    BY <1>1, <1>2 DEF ListsInv
  <1>11. BatchInv'
    <2>1. \A m, n \in DOMAIN batch' : m < n =>
             \A h, j, k : Held(recorded, batch'[m], h, j) /\ Held(recorded, batch'[n], h, k) => j < k
      <3> SUFFICES ASSUME NEW m \in DOMAIN batch', NEW n \in DOMAIN batch', m < n, NEW h, NEW j, NEW k,
                          Held(recorded, batch'[m], h, j), Held(recorded, batch'[n], h, k)
                   PROVE  j < k
        OBVIOUS
      <3>1. m + 1 < n + 1
        BY <1>3
      <3>2. QED
        BY <1>3, <3>1 DEF BatchInv, Ordered
    <2>2. QED
      BY <1>1, <1>3, <1>5, <2>1 DEF BatchInv, Ordered
  <1>12. \A m \in DOMAIN told : told[m].about # x /\ \A h, j, k :
            Held(recorded, told[m].about, h, j) /\ Held(recorded, x, h, k) => j < k
    <2>1. Waits(x)
      BY <1>3 DEF Waits, x
    <2>2. QED
      BY <1>3, <2>1 DEF ReportedInv, x
  <1>13. \A m \in DOMAIN told, n \in DOMAIN batch' : \A h, j, k :
            Held(recorded, told[m].about, h, j) /\ Held(recorded, batch'[n], h, k) => j < k
    BY <1>3 DEF ReportedInv
  <1>14. CASE ~Call(x).arg.named /\ UNCHANGED told
    <2>1. \A n \in DOMAIN told :
            /\ told[n] = Line(told[n].about, "operation") /\ Call(told[n].about).arg.named
            /\ ~\E k \in DOMAIN batch' : batch'[k] = told[n].about
            /\ \E h, j : Held(recorded, told[n].about, h, j) /\ j <= counted[h]
      BY <1>9 DEF ReportedInv
    <2>2. \A y, h, j : Held(recorded, y, h, j) /\ j <= counted[h] /\ Call(y).arg.named
                          /\ ~(\E k \in DOMAIN batch' : batch'[k] = y) => HasLine(y, "operation")
      BY <1>9, <1>14 DEF ReportedInv
    <2>3. \A m, n \in DOMAIN told : m < n =>
             \A h, j, k : Held(recorded, told[m].about, h, j) /\ Held(recorded, told[n].about, h, k) => j < k
      BY DEF ReportedInv
    <2>4. (\A n \in DOMAIN told :
              /\ told[n] = Line(told[n].about, "operation")
              /\ Call(told[n].about).arg.named /\ ~Waits(told[n].about)
              /\ \E h, j : Held(recorded, told[n].about, h, j) /\ j <= counted[h])'
      <3>1. \A y : Waits(y)' <=> \E k \in DOMAIN batch' : batch'[k] = y
        BY DEF Waits
      <3>2. told' = told /\ recorded' = recorded /\ counted' = counted
        BY <1>1, <1>14
      <3>3. \A n \in DOMAIN told : told[n] = Line(told[n].about, "operation")'
        BY <1>14, <2>1 DEF Line
      <3>4. QED
        BY <1>2, <2>1, <3>1, <3>2, <3>3
    <2>5. (\A y, h, j : Held(recorded, y, h, j) /\ j <= counted[h] /\ Call(y).arg.named /\ ~Waits(y)
                            => HasLine(y, "operation"))'
      <3>1. \A y : Waits(y)' <=> \E k \in DOMAIN batch' : batch'[k] = y
        BY DEF Waits
      <3>2. \A y : HasLine(y, "operation") => HasLine(y, "operation")'
        BY <1>14 DEF HasLine
      <3>3. recorded' = recorded /\ counted' = counted /\ \A y : Call(y)' = Call(y)
        BY <1>1, <1>2
      <3> SUFFICES ASSUME NEW y, NEW h, NEW j, Held(recorded, y, h, j)', (j <= counted[h])', Call(y)'.arg.named, ~Waits(y)'
                   PROVE  HasLine(y, "operation")'
        OBVIOUS
      <3>4. Held(recorded, y, h, j) /\ j <= counted[h] /\ Call(y).arg.named
        BY <3>3
      <3>5. ~\E k \in DOMAIN batch' : batch'[k] = y
        BY <3>1
      <3>6. HasLine(y, "operation")
        BY <2>2, <3>4, <3>5
      <3>7. QED
        BY <3>2, <3>6
    <2>6. ReportedInv'
      <3>1. told' = told /\ recorded' = recorded
        BY <1>1, <1>14
      <3>2. (\A m, n \in DOMAIN told : m < n =>
               \A h, j, k : Held(recorded, told[m].about, h, j) /\ Held(recorded, told[n].about, h, k) => j < k)'
        BY <2>3, <3>1
      <3>3. (\A m \in DOMAIN told, n \in DOMAIN batch : \A h, j, k :
               Held(recorded, told[m].about, h, j) /\ Held(recorded, batch[n], h, k) => j < k)'
        BY <1>13, <3>1
      <3>4. QED
        BY <2>4, <2>5, <3>2, <3>3 DEF ReportedInv
    <2>7. QED
      BY <1>10, <1>11, <2>6
  <1>15. CASE Call(x).arg.named /\ told' = Append(told, Line(x, "operation"))
    <2>1. /\ DOMAIN told' = DOMAIN told \cup {last} /\ last \notin DOMAIN told
          /\ \A k \in DOMAIN told : told'[k] = told[k] /\ k \in Nat /\ k < last
          /\ told'[last] = Line(x, "operation") /\ last \in Nat
      BY <1>15, AppendSequence, Indices DEF HandlersInv, last
    <2>2. told'[last].about = x
      BY <2>1 DEF Line
    <2>3. \A n \in DOMAIN told' :
            /\ told'[n] = Line(told'[n].about, "operation") /\ Call(told'[n].about).arg.named
            /\ ~\E k \in DOMAIN batch' : batch'[k] = told'[n].about
            /\ \E h, j : Held(recorded, told'[n].about, h, j) /\ j <= counted[h]
      <3> SUFFICES ASSUME NEW n \in DOMAIN told'
                   PROVE  /\ told'[n] = Line(told'[n].about, "operation") /\ Call(told'[n].about).arg.named
                          /\ ~\E k \in DOMAIN batch' : batch'[k] = told'[n].about
                          /\ \E h, j : Held(recorded, told'[n].about, h, j) /\ j <= counted[h]
        OBVIOUS
      <3>1. CASE n \in DOMAIN told
        BY <1>9, <2>1, <3>1 DEF ReportedInv
      <3>2. CASE n = last
        BY <1>4, <1>8, <1>15, <2>1, <2>2, <3>2
      <3>3. QED
        BY <2>1, <3>1, <3>2
    <2>4. \A m, n \in DOMAIN told' : m < n =>
             \A h, j, k : Held(recorded, told'[m].about, h, j) /\ Held(recorded, told'[n].about, h, k) => j < k
      <3> SUFFICES ASSUME NEW m \in DOMAIN told', NEW n \in DOMAIN told', m < n, NEW h, NEW j, NEW k,
                          Held(recorded, told'[m].about, h, j), Held(recorded, told'[n].about, h, k)
                   PROVE  j < k
        OBVIOUS
      <3>1. m \in DOMAIN told
        BY <2>1
      <3>2. CASE n \in DOMAIN told
        BY <2>1, <3>1, <3>2 DEF ReportedInv
      <3>3. CASE n = last
        BY <1>12, <2>1, <2>2, <3>1, <3>3
      <3>4. QED
        BY <2>1, <3>2, <3>3
    <2>5. \A y : (\E n \in DOMAIN told' : told'[n] = Line(y, "operation")) <=> HasLine(y, "operation") \/ y = x
      <3>1. \A y : Line(x, "operation") = Line(y, "operation") <=> y = x
        BY DEF Line
      <3>2. QED
        BY <2>1, <3>1 DEF HasLine
    <2>6. \A y, h, j : Held(recorded, y, h, j) /\ j <= counted[h] /\ Call(y).arg.named
                          /\ ~(\E k \in DOMAIN batch' : batch'[k] = y)
                       => \E n \in DOMAIN told' : told'[n] = Line(y, "operation")
      BY <1>9, <2>5 DEF ReportedInv
    <2>7. \A m \in DOMAIN told', n \in DOMAIN batch' : \A h, j, k :
             Held(recorded, told'[m].about, h, j) /\ Held(recorded, batch'[n], h, k) => j < k
      <3> SUFFICES ASSUME NEW m \in DOMAIN told', NEW n \in DOMAIN batch', NEW h, NEW j, NEW k,
                          Held(recorded, told'[m].about, h, j), Held(recorded, batch'[n], h, k)
                   PROVE  j < k
        OBVIOUS
      <3>1. CASE m \in DOMAIN told
        BY <1>13, <2>1, <3>1
      <3>2. CASE m = last
        BY <1>6, <2>2, <3>2
      <3>3. QED
        BY <2>1, <3>1, <3>2
    <2>8. ReportedInv'
      BY <1>1, <1>2, <2>3, <2>4, <2>6, <2>7 DEF ReportedInv, Waits, HasLine
    <2>9. QED
      BY <1>10, <1>11, <2>8
  <1>16. QED
    BY <1>1, <1>14, <1>15

\* The rest of the program leaves what has been recorded.
LEMMA SimulatorRests ==
    ASSUME ListsInv, BatchInv, ReportedInv, UNCHANGED <<adapter, config, simulator, told>>,
           \A r \in Requests : at[r] = "done" => at'[r] = "done"
    PROVE  ListsInv' /\ BatchInv' /\ ReportedInv'
  <1>1. Requests' = Requests /\ \A y : Call(y)' = Call(y)
    BY RequestsStay
  <1>2. ListsInv'
    <2>1. \A x, l, i : Held(recorded, x, l, i) =>
             x \in Requests /\ Call(x).kind = "simulated" /\ Call(x).arg.list = l /\ at'[x] = "done"
      BY DEF ListsInv
    <2>2. QED
      BY <1>1, <2>1 DEF ListsInv, simulator
  <1>3. BatchInv' /\ ReportedInv'
    BY <1>1 DEF BatchInv, ReportedInv, Ordered, Waits, HasLine, simulator
  <1>4. QED
    BY <1>2, <1>3

LEMMA CbsigmaSimulates ==
    ASSUME HandlersInv, CallsFit, SimulatorInv, CbsigmaNext, UNCHANGED <<adapter, config>>
    PROVE  SimulatorInv'
  <1> SUFFICES ASSUME config.role = "sim" PROVE ListsInv' /\ BatchInv' /\ ReportedInv'
    BY DEF SimulatorInv, Simulates, IsCbsigma
  <1>1. ListsInv /\ BatchInv /\ ReportedInv
    BY DEF SimulatorInv, Simulates, CbsigmaNext
  <1>2. CASE CbsigmaMain \/ CbsigmaSignalled
    <2>1. UNCHANGED <<simulator, told, at>>
      BY <1>2
         DEF CbsigmaMain, CbsigmaSignalled, LoadCbsigma, LoadsIf, Serve, Binds, EmitCbsigmaReady, Announces, Notify,
             Advances, StopCbsigma, handlers
    <2>2. QED
      BY <1>1, <2>1, SimulatorRests
  <1>3. CASE CbsigmaReceives
    <2>1. UNCHANGED <<simulator, told>> /\ \E q \in Requests : at[q] = "unsent" /\ at' = [at EXCEPT ![q] = "received"]
      BY <1>3 DEF CbsigmaReceives, Arrives, Progress
    <2>2. \A r \in Requests : at[r] = "done" => at'[r] = "done"
      BY <2>1 DEF HandlersInv
    <2>3. QED
      BY <1>1, <2>1, <2>2, SimulatorRests
  <1>4. CASE ReportSim
    BY <1>1, <1>4, LookKeeps, ReportKeeps DEF ReportSim
  <1>5. CASE UpstreamRuns
    <2>1. \E r \in Requests : Simulate(r)
      BY <1>5 DEF UpstreamRuns, WriteProperty
    <2>2. QED
      BY <1>1, <2>1, SimulateKeeps
  <1>6. QED
    BY <1>2, <1>3, <1>4, <1>5 DEF CbsigmaNext

LEMMA SimulatorSteps ==
    ASSUME LifecycleInv, TypesInv, SimulatorInv, [Next]_vars
    PROVE  SimulatorInv'
  <1>1. CASE UNCHANGED <<adapter, config, simulator, told, at>>
    BY <1>1, SimulatorRests, RequestsStay DEF SimulatorInv, Simulates, IsCbsigma
  <1>2. CASE UNCHANGED vars
    BY <1>1, <1>2 DEF vars, shared, processVars, handlers, ownVars
  <1>3. CASE SupervisorNext /\ UNCHANGED <<processVars, simulator>>
    BY <1>1, <1>3, SupervisorSteps DEF processVars, handlers
  <1>4. CASE RouterNext /\ UNCHANGED simulator
    BY <1>1, <1>4, RouterRests, RouterLives DEF Lives, Keeps, handlers
  <1>5. ASSUME ProcessNext PROVE UNCHANGED <<adapter, config>> /\ CallsFit
    BY <1>5, ProcessGrows, CallsAsAssumed DEF Lives, Keeps, TypesInv
  <1>6. CASE CbsigmaNext
    BY <1>5, <1>6, CbsigmaSimulates DEF ProcessNext, TypesInv
  <1>7. CASE BacpypesNext \/ Bacnet4jNext \/ WorldietyNext \/ SysioNext
    <2>1. ~Simulates
      BY <1>7 DEF BacpypesNext, Bacnet4jNext, WorldietyNext, SysioNext, IsBacpypes, IsBacnet4j, IsWorldiety, IsSysio,
                  IsCbsigma, Simulates
    <2>2. QED
      BY <1>5, <1>7, <2>1 DEF ProcessNext, SimulatorInv, Simulates, IsCbsigma
  <1>8. QED
    BY <1>2, <1>3, <1>4, <1>6, <1>7 DEF Next, ownVars

LEMMA InitSimulator == Init => SimulatorInv
  <1> SUFFICES ASSUME Init PROVE ListsInv /\ BatchInv /\ ReportedInv
    BY DEF SimulatorInv
  <1> USE EmptySequence DEF Init, ProcessInit, CbsigmaInit
  <1>1. \A x, l, i : ~Held(recorded, x, l, i)
    BY DEF Held
  <1>2. ListsInv
    BY <1>1 DEF ListsInv
  <1>3. BatchInv /\ ReportedInv
    BY <1>1 DEF BatchInv, ReportedInv, Ordered
  <1>4. QED
    BY <1>2, <1>3

\* Of what cbsigma's simulator has recorded up to the reporter's last look, each
\* request with a name waits to be reported or has been, once and in the order of
\* its list.
THEOREM SimulatorReports == Spec => []SimulatorIsReported
  <1>1. TypesInv /\ SimulatorInv => SimulatorIsReported
    <2> SUFFICES ASSUME HandlersInv, ListsInv, BatchInv, ReportedInv, NEW list \in Lists, NEW i \in DOMAIN recorded[list]
                 PROVE  LET r == recorded[list][i] IN
                        /\ Waits(r) => i <= counted[list] /\ LinesOf(r, "operation") = {}
                        /\ LinesOf(r, "operation") # {} => i <= counted[list] /\ Call(r).arg.named
                        /\ i <= counted[list] /\ Call(r).arg.named /\ ~Waits(r)
                              => Cardinality(LinesOf(r, "operation")) = 1
                        /\ \A j \in 1..(i - 1) :
                              AllBefore(LinesOf(recorded[list][j], "operation"), LinesOf(r, "operation"))
      BY DEF SimulatorInv, Simulates, SimulatorIsReported, TypesInv
    <2> DEFINE r == recorded[list][i]
    <2>1. Held(recorded, r, list, i)
      BY DEF Held
    <2> HIDE DEF r
    <2>2. Waits(r) => i <= counted[list]
      <3> SUFFICES ASSUME Waits(r) PROVE i <= counted[list]
        OBVIOUS
      <3>1. PICK l, j : Held(recorded, r, l, j) /\ j <= counted[l]
        BY DEF Waits, BatchInv
      <3>2. l = list /\ j = i
        BY <2>1, <3>1, HeldOnce
      <3>3. QED
        BY <3>1, <3>2
    <2>3. \A x : \A n \in LinesOf(x, "operation") : n \in DOMAIN told /\ told[n].about = x
      BY DEF LinesOf, Line
    <2>4. ASSUME NEW n \in LinesOf(r, "operation") PROVE ~Waits(r) /\ i <= counted[list] /\ Call(r).arg.named
      <3>1. n \in DOMAIN told /\ told[n].about = r
        BY <2>3
      <3>2. PICK l, j : Held(recorded, r, l, j) /\ j <= counted[l]
        BY <3>1 DEF ReportedInv
      <3>3. l = list /\ j = i
        BY <2>1, <3>2, HeldOnce
      <3>4. QED
        BY <3>1, <3>2, <3>3 DEF ReportedInv
    <2>5. DOMAIN told \subseteq Nat /\ DOMAIN recorded[list] = 1..Len(recorded[list]) /\ Len(recorded[list]) \in Nat
          /\ i \in Nat
      <3>1. DOMAIN told \subseteq Nat
        BY Indices DEF HandlersInv
      <3>2. QED
        BY <3>1, Indices DEF ListsInv
    <2>6. ASSUME NEW m \in LinesOf(r, "operation"), NEW n \in LinesOf(r, "operation"), m < n PROVE FALSE
      <3>1. m \in DOMAIN told /\ n \in DOMAIN told /\ told[m].about = r /\ told[n].about = r
        BY <2>3
      <3>2. Held(recorded, told[m].about, list, i) /\ Held(recorded, told[n].about, list, i)
        BY <2>1, <3>1
      <3>3. i < i
        BY <2>6, <3>1, <3>2 DEF ReportedInv
      <3>4. QED
        BY <2>5, <3>3
    <2>7. ASSUME i <= counted[list], Call(r).arg.named, ~Waits(r) PROVE Cardinality(LinesOf(r, "operation")) = 1
      <3>1. PICK n : n \in LinesOf(r, "operation")
        BY <2>1, <2>7 DEF ReportedInv, HasLine, LinesOf
      <3>2. LinesOf(r, "operation") = {n}
        BY <2>3, <2>5, <2>6, <3>1
      <3>3. QED
        BY <3>2, FS_Singleton
    <2>8. ASSUME NEW j \in 1..(i - 1), NEW m \in LinesOf(recorded[list][j], "operation"), NEW n \in LinesOf(r, "operation")
          PROVE  m < n
      <3>1. j \in DOMAIN recorded[list] /\ j < i /\ j \in Nat
        BY <2>5
      <3>2. Held(recorded, recorded[list][j], list, j)
        BY <3>1 DEF Held
      <3>3. m \in DOMAIN told /\ n \in DOMAIN told /\ told[m].about = recorded[list][j] /\ told[n].about = r
        BY <2>3
      <3>4. ~(n < m)
        <4>1. Held(recorded, told[m].about, list, j) /\ Held(recorded, told[n].about, list, i)
          BY <2>1, <3>2, <3>3
        <4>2. n < m => i < j
          BY <3>3, <4>1 DEF ReportedInv
        <4>3. QED
          BY <2>5, <3>1, <4>2
      <3>5. m # n
        BY <2>1, <2>5, <3>1, <3>2, <3>3, HeldOnce
      <3>6. QED
        BY <2>5, <3>3, <3>4, <3>5
    <2>9. QED
      BY <2>2, <2>4, <2>7, <2>8 DEF AllBefore, r
  <1>2. LifecycleInv /\ TypesInv /\ [Next]_vars => TypesInv'
    BY TypesSteps
  <1>3. LifecycleInv /\ TypesInv /\ SimulatorInv /\ [Next]_vars => SimulatorInv'
    BY SimulatorSteps
  <1>4. QED
    BY InitTypes, InitSimulator, LifecycleHolds, <1>1, <1>2, <1>3, PTL DEF Spec

-----------------------------------------------------------------------------
(* The lines and the answers *)

Operation(r) == HasLine(r, "operation")

\* Where a handler is, by whether its line has been written.
HeardInv(r) ==
    /\ IsBacpypes /\ at[r] = "told" /\ Call(r).kind \in Told => Operation(r)
    /\ IsBacnet4j /\ r \notin early =>
          /\ at[r] = "received" => lines # <<>>
          /\ at[r] \in {"heard", "told"} /\ Call(r).kind \in Messaging => Operation(r)
    /\ Operation(r) => IsCbsigma \/ at[r] \notin {"unsent", "received"}
    /\ IsSysio /\ Operation(r) => at[r] = "done"

\* bacpypes3's audit task tells of its own as it goes on.
AuditLinesInv ==
    IsBacpypes =>
        /\ audit.state \in {"none", "created", "sent"} => ~HasLine(0, "unconfirmed-sent")
        /\ audit.state # "ended" => ~HasLine(0, "acknowledged")

AfterItsLine(m) == m.kind = "ack" /\ ToldFirst(m.about) => Operation(m.about)

AcksInv == \A k \in DOMAIN sent : AfterItsLine(sent[k])

\* sysiobacnet acknowledges first and is then on its way to the line.
AnsweredInv(r) ==
    AnsweredFirst(r) =>
        /\ at[r] = "told" \/ Operation(r) => Acked(r)
        /\ Acked(r) => at[r] = "told" \/ (at[r] = "done" /\ Operation(r))

Again(r) == r # 0 /\ ToldByWrite(r)

OnceInv == \A m, n \in DOMAIN told : told[m] = told[n] => m = n \/ Again(told[m].about)

\* cbsigma's device tells of a write as it carries it out; its simulator has none.
WrittenInv ==
    /\ Simulates => log = <<>>
    /\ ~Simulates => \A r \in Requests : ToldByWrite(r) => Cardinality(LinesOf(r, "operation")) = CarriedOut(r)

\* bacnet4j's program has no phases of the others.
PhasesInv == IsBacnet4j => phase \notin {"ready", "announcing", "closed"}

TellInv ==
    /\ PhasesInv /\ \A r \in Requests : HeardInv(r)
    /\ AuditLinesInv /\ AcksInv /\ \A r \in Requests : AnsweredInv(r)
    /\ ~Simulates => OnceInv
    /\ WrittenInv

LEMMA HasLineAppend ==
    ASSUME IsSequence(told), NEW l, told' = Append(told, l), NEW r, NEW what
    PROVE  HasLine(r, what)' <=> HasLine(r, what) \/ l = Line(r, what)
  <1>1. DOMAIN told' = DOMAIN told \cup {Len(told) + 1}
        /\ (\A k \in DOMAIN told : told'[k] = told[k]) /\ told'[Len(told) + 1] = l
    BY AppendSequence
  <1>2. HasLine(r, what)' <=> \E n \in DOMAIN told' : told'[n] = Line(r, what)
    BY DEF HasLine, Line
  <1>3. QED
    BY <1>1, <1>2 DEF HasLine

LEMMA HasLineStays ==
    ASSUME UNCHANGED told, NEW r, NEW what
    PROVE  HasLine(r, what)' <=> HasLine(r, what)
  BY DEF HasLine, Line

\* A handler's line is one thing, its place another: what a step may do to a
\* request whose line it does not write.
Onward(r) ==
    \/ at'[r] = at[r]
    \/ at[r] = "unsent" /\ at'[r] = "received" /\ (IsBacnet4j /\ r \notin early' => lines' # <<>>)
    \/ at'[r] = "done"
    \/ ~IsSysio /\ at'[r] \in {"cancelled", "read", "emitting"}
    \/ IsSysio /\ at[r] = "received" /\ at'[r] = "told"
    \/ IsBacnet4j /\ at[r] = "heard" /\ at'[r] = "told"

LinesGo == (lines # <<>> => lines' # <<>>) /\ \A r : r \in early => r \in early'

LEMMA HeardStays ==
    ASSUME NEW r \in Requests, HeardInv(r), UNCHANGED <<adapter, config>>, LinesGo, Onward(r),
           Operation(r)' <=> Operation(r)
    PROVE  HeardInv(r)'
  <1>1. UNCHANGED <<IsBacpypes, IsBacnet4j, IsCbsigma, IsSysio>> /\ Call(r)' = Call(r)
    BY RequestsStay DEF IsBacpypes, IsBacnet4j, IsCbsigma, IsSysio
  <1>2. IsBacpypes => ~IsBacnet4j /\ ~IsSysio /\ ~IsCbsigma
    BY DEF IsBacpypes, IsBacnet4j, IsCbsigma, IsSysio
  <1>3. IsBacnet4j => ~IsSysio /\ ~IsCbsigma
    BY DEF IsBacnet4j, IsCbsigma, IsSysio
  <1>4. IsSysio => ~IsCbsigma
    BY DEF IsCbsigma, IsSysio
  <1>5. /\ (IsBacpypes /\ at'[r] = "told" /\ Call(r).kind \in Told => Operation(r))
        /\ (Operation(r) => IsCbsigma \/ at'[r] \notin {"unsent", "received"})
        /\ (IsSysio /\ Operation(r) => at'[r] = "done")
    BY <1>2, <1>3, <1>4 DEF HeardInv, Onward
  <1>6. ASSUME IsBacnet4j, r \notin early'
        PROVE  /\ at'[r] = "received" => lines' # <<>>
               /\ at'[r] \in {"heard", "told"} /\ Call(r).kind \in Messaging => Operation(r)
    BY <1>3, <1>6 DEF HeardInv, Onward, LinesGo
  <1>7. QED
    BY <1>1, <1>5, <1>6 DEF HeardInv

\* The line of a request is written.
LEMMA HeardTold ==
    ASSUME NEW q \in Requests, NEW how, told' = Append(told, Line(q, "operation")), at' = [at EXCEPT ![q] = how],
           HandlersInv, \A r \in Requests : HeardInv(r), UNCHANGED <<adapter, config>>, LinesGo,
           how \notin {"unsent", "received"}, IsSysio => how = "done"
    PROVE  \A r \in Requests : HeardInv(r)'
  <1> SUFFICES ASSUME NEW r \in Requests PROVE HeardInv(r)'
    OBVIOUS
  <1>1. HeardInv(r) /\ at'[q] = how
    BY DEF HandlersInv
  <1>2. CASE r = q
    <2>1. Operation(r)'
      BY <1>2, HasLineAppend DEF HandlersInv, Operation
    <2>2. UNCHANGED <<IsBacpypes, IsBacnet4j, IsCbsigma, IsSysio>>
      BY DEF IsBacpypes, IsBacnet4j, IsCbsigma, IsSysio
    <2>3. QED
      BY <1>1, <1>2, <2>1, <2>2 DEF HeardInv
  <1>3. CASE r # q
    <2>1. Line(q, "operation") # Line(r, "operation")
      BY <1>3 DEF Line
    <2>2. Operation(r)' <=> Operation(r)
      BY <2>1, HasLineAppend DEF HandlersInv, Operation
    <2>3. Onward(r)
      BY <1>3 DEF Onward, HandlersInv
    <2>4. QED
      BY <1>1, <2>2, <2>3, HeardStays
  <1>4. QED
    BY <1>2, <1>3

\* A line is written that has not been.
TellsNew ==
    \/ UNCHANGED told
    \/ \E q, what : told' = Append(told, Line(q, what)) /\ (Again(q) \/ ~HasLine(q, what))

LEMMA OnceKept ==
    ASSUME HandlersInv, OnceInv, TellsNew, UNCHANGED <<adapter, config>>
    PROVE  OnceInv'
  <1>1. \A q : Again(q)' <=> Again(q)
    BY RequestsStay DEF Again, ToldByWrite, IsCbsigma
  <1>2. CASE UNCHANGED told
    BY <1>1, <1>2 DEF OnceInv
  <1>3. ASSUME NEW q, NEW what, told' = Append(told, Line(q, what)), Again(q) \/ ~HasLine(q, what) PROVE OnceInv'
    <2>1. DOMAIN told' = DOMAIN told \cup {Len(told) + 1} /\ Len(told) + 1 \notin DOMAIN told
          /\ (\A k \in DOMAIN told : told'[k] = told[k]) /\ told'[Len(told) + 1] = Line(q, what)
      BY <1>3, AppendSequence DEF HandlersInv
    <2>2. Line(q, what).about = q
      BY DEF Line
    <2>3. \A k \in DOMAIN told : told[k] = Line(q, what) => Again(q)
      BY <1>3 DEF HasLine
    <2>4. \A m, n \in DOMAIN told' : told'[m] = told'[n] => m = n \/ Again(told'[m].about)
      BY <2>1, <2>2, <2>3 DEF OnceInv
    <2>5. QED
      BY <1>1, <2>4 DEF OnceInv
  <1>4. QED
    BY <1>2, <1>3 DEF TellsNew

\* Of what is sent, the acknowledgements come after their lines.
SendsAfter ==
    \/ UNCHANGED sent
    \/ \E m : sent' = Append(sent, m) /\ AfterItsLine(m)

LinesStay == \A r : Operation(r) => Operation(r)'

LEMMA AcksKept ==
    ASSUME HandlersInv, AcksInv, SendsAfter, LinesStay, LinesGo, UNCHANGED <<adapter, config>>
    PROVE  AcksInv'
  <1>1. \A m : AfterItsLine(m) => AfterItsLine(m)'
    <2>1. UNCHANGED <<IsBacpypes, IsBacnet4j>> /\ \A r : Call(r)' = Call(r)
      BY RequestsStay DEF IsBacpypes, IsBacnet4j
    <2>2. \A r : ToldFirst(r)' => ToldFirst(r)
      BY <2>1 DEF ToldFirst, LinesGo
    <2>3. QED
      BY <2>2 DEF AfterItsLine, LinesStay
  <1>2. CASE UNCHANGED sent
    BY <1>1, <1>2 DEF AcksInv
  <1>3. ASSUME NEW m, sent' = Append(sent, m), AfterItsLine(m) PROVE AcksInv'
    <2>1. DOMAIN sent' = DOMAIN sent \cup {Len(sent) + 1}
          /\ (\A k \in DOMAIN sent : sent'[k] = sent[k]) /\ sent'[Len(sent) + 1] = m
      BY <1>3, AppendSequence DEF HandlersInv
    <2>2. \A k \in DOMAIN sent' : AfterItsLine(sent'[k])
      BY <1>3, <2>1 DEF AcksInv
    <2>3. QED
      BY <1>1, <2>2 DEF AcksInv
  <1>4. QED
    BY <1>2, <1>3 DEF SendsAfter

Quiet == UNCHANGED told /\ \A r \in Requests : Onward(r)

LEMMA QuietHeard ==
    ASSUME Quiet, \A r \in Requests : HeardInv(r), LinesGo, UNCHANGED <<adapter, config>>
    PROVE  (\A r \in Requests : HeardInv(r)') /\ TellsNew
  <1>1. TellsNew
    BY DEF Quiet, TellsNew
  <1>2. ASSUME NEW r \in Requests PROVE HeardInv(r)'
    <2>1. Operation(r)' <=> Operation(r)
      BY HasLineStays DEF Quiet, Operation
    <2>2. QED
      BY <2>1, HeardStays DEF Quiet
  <1>3. QED
    BY <1>1, <1>2

LEMMA ProgressQuiet ==
    ASSUME HandlersInv, UNCHANGED told, NEW q \in Requests, NEW how, Progress(q, how),
           \/ how = "done"
           \/ ~IsSysio /\ how \in {"read", "emitting"}
           \/ at[q] = "unsent" /\ how = "received" /\ (IsBacnet4j /\ q \notin early' => lines' # <<>>)
           \/ IsSysio /\ at[q] = "received" /\ how = "told"
           \/ IsBacnet4j /\ at[q] = "heard" /\ how = "told"
    PROVE  Quiet
  BY DEF HandlersInv, Progress, Quiet, Onward

\* Another line, about a request or the audit.
LEMMA HeardOther ==
    ASSUME HandlersInv, NEW q, NEW what, told' = Append(told, Line(q, what)), what # "operation", UNCHANGED at,
           \A r \in Requests : HeardInv(r), LinesGo, UNCHANGED <<adapter, config>>
    PROVE  \A r \in Requests : HeardInv(r)'
  <1> SUFFICES ASSUME NEW r \in Requests PROVE HeardInv(r)'
    OBVIOUS
  <1>1. Line(q, what) # Line(r, "operation")
    BY DEF Line
  <1>2. Operation(r)' <=> Operation(r)
    BY <1>1, HasLineAppend DEF HandlersInv, Operation
  <1>3. Onward(r)
    BY DEF Onward
  <1>4. QED
    BY <1>2, <1>3, HeardStays

TellsWell == (\A r \in Requests : HeardInv(r)') /\ SendsAfter /\ TellsNew

LEMMA BacpypesTellsWell ==
    ASSUME HandlersInv, CallsFit, BacpypesNext, \A r \in Requests : HeardInv(r), AuditLinesInv, AuditInv, LinesGo,
           UNCHANGED <<adapter, config>>, early' = early
    PROVE  TellsWell /\ AuditLinesInv'
  <1> USE DEF TellsWell
  <1>1. IsBacpypes /\ ~IsBacnet4j /\ ~IsSysio /\ ~IsCbsigma
    BY DEF BacpypesNext, IsBacpypes, IsBacnet4j, IsSysio, IsCbsigma
  <1>2. UNCHANGED IsBacpypes
    BY DEF IsBacpypes
  <1>3. ASSUME \A what : HasLine(0, what)' <=> HasLine(0, what),
               audit'.state = audit.state \/ (audit.state = "none" /\ audit'.state = "created")
        PROVE  AuditLinesInv'
    BY <1>2, <1>3 DEF AuditLinesInv
  <1>4. UNCHANGED told => \A what : HasLine(0, what)' <=> HasLine(0, what)
    BY HasLineStays
  <1>5. CASE Program \/ HearSignal
    <2>1. UNCHANGED <<told, sent, audit>>
      BY <1>5 DEF Program, HearSignal, Load, LoadsIf, Build, Binds, Announce, Announces, Listen, Advances, Close,
                  handlers
    <2>2. UNCHANGED at \/ at' = [r \in Requests |-> IF at[r] \in {"unsent", "done"} THEN at[r] ELSE "cancelled"]
      BY <1>5 DEF Program, HearSignal, Load, LoadsIf, Build, Binds, Announce, Announces, Listen, Advances, Close,
                  handlers
    <2>3. Quiet
      BY <1>1, <2>1, <2>2 DEF Quiet, Onward
    <2>4. QED
      BY <1>3, <1>4, <2>1, <2>3, QuietHeard DEF SendsAfter
  <1>6. ASSUME NEW q \in Requests, Arrive(q) PROVE TellsWell /\ AuditLinesInv'
    <2>1. UNCHANGED <<told, sent, audit>> /\ at[q] = "unsent" /\ Progress(q, "received")
      BY <1>6 DEF Arrive, Arrives
    <2>2. Quiet
      BY <1>1, <2>1, ProgressQuiet
    <2>3. QED
      BY <1>3, <1>4, <2>1, <2>2, QuietHeard DEF SendsAfter
  <1>7. CASE SendUnconfirmedAudit
    <2>1. UNCHANGED <<told, at>> /\ audit.state = "created"
      BY <1>7 DEF SendUnconfirmedAudit
    <2>2. SendsAfter
      BY <1>7 DEF SendUnconfirmedAudit, SendsAfter, Send, Message, AfterItsLine
    <2>3. Quiet
      BY <2>1 DEF Quiet, Onward
    <2>4. ~HasLine(0, "acknowledged")' /\ ~HasLine(0, "unconfirmed-sent")'
      BY <1>1, <1>4, <2>1 DEF AuditLinesInv
    <2>5. QED
      BY <2>2, <2>3, <2>4, QuietHeard, <1>7 DEF AuditLinesInv
  <1>8. CASE SendConfirmedAudit
    <2>1. UNCHANGED at /\ audit.state = "sent" /\ told' = Append(told, Line(0, "unconfirmed-sent"))
      BY <1>8 DEF SendConfirmedAudit, AuditEmitted
    <2>2. SendsAfter
      BY <1>8 DEF SendConfirmedAudit, SendsAfter, Send, Message, AfterItsLine
    <2>3. ~HasLine(0, "acknowledged") /\ ~HasLine(0, "unconfirmed-sent")
      BY <1>1, <2>1 DEF AuditLinesInv
    <2>4. TellsNew
      BY <2>1, <2>3 DEF TellsNew
    <2>5. \A r \in Requests : HeardInv(r)'
      BY <2>1, HeardOther
    <2>6. Line(0, "unconfirmed-sent") # Line(0, "acknowledged")
      BY DEF Line
    <2>7. ~HasLine(0, "acknowledged")'
      BY <2>1, <2>3, <2>6, HasLineAppend DEF HandlersInv
    <2>8. audit'.state \in {"waiting", "ended"}
      <3>1. audit' = [audit EXCEPT !.state = "waiting"] \/ audit' = [audit EXCEPT !.state = "ended"]
        BY <1>8 DEF SendConfirmedAudit, AuditTo
      <3>2. QED
        BY <2>1, <3>1 DEF AuditInv
    <2>9. QED
      BY <2>2, <2>4, <2>5, <2>7, <2>8 DEF AuditLinesInv

  <1>9. ASSUME NEW outcome, AuditAnswered(outcome) PROVE TellsWell /\ AuditLinesInv'
    <2>1. UNCHANGED <<at, sent>> /\ audit.state = "waiting" /\ audit' = [audit EXCEPT !.state = "ended"]
          /\ (UNCHANGED told \/ told' = Append(told, Line(0, "acknowledged")))
      BY <1>9 DEF AuditAnswered, AuditTo, AuditAcknowledged
    <2>2. audit'.state = "ended"
      BY <2>1 DEF AuditInv
    <2>3. ~HasLine(0, "acknowledged")
      BY <1>1, <2>1 DEF AuditLinesInv
    <2>4. CASE UNCHANGED told
      <3>1. Quiet
        BY <2>1, <2>4 DEF Quiet, Onward
      <3>2. QED
        BY <2>1, <2>2, <3>1, QuietHeard DEF AuditLinesInv, SendsAfter
    <2>5. CASE told' = Append(told, Line(0, "acknowledged"))
      <3>1. TellsNew
        BY <2>3, <2>5 DEF TellsNew
      <3>2. \A r \in Requests : HeardInv(r)'
        BY <2>1, <2>5, HeardOther
      <3>3. QED
        BY <2>1, <2>2, <3>1, <3>2 DEF AuditLinesInv, SendsAfter
    <2>6. QED
      BY <2>1, <2>4, <2>5
  <1>10. ASSUME NEW q \in Requests, Handle(q) PROVE TellsWell /\ AuditLinesInv'
    <2>1. CASE Tell(q)
      <3>1. /\ at[q] = "received" /\ UNCHANGED <<sent, audit>> /\ told' = Append(told, Line(q, "operation"))
            /\ at' = [at EXCEPT ![q] = "told"] \/ at' = [at EXCEPT ![q] = "done"]
        BY <2>1 DEF Tell, Progress
      <3>2. \A r \in Requests : HeardInv(r)'
        <4>1. PICK how \in {"told", "done"} : at' = [at EXCEPT ![q] = how]
          BY <3>1
        <4>2. QED
          BY <1>1, <3>1, <4>1, HeardTold
      <3>3. ~HasLine(q, "operation")
        BY <1>1, <3>1 DEF HeardInv, Operation
      <3>4. TellsNew
        BY <3>1, <3>3 DEF TellsNew
      <3>5. \A what : Line(q, "operation") # Line(0, what)
        BY DEF Line, CallsFit
      <3>6. \A what : HasLine(0, what)' <=> HasLine(0, what)
        BY <3>1, <3>5, HasLineAppend DEF HandlersInv
      <3>7. QED
        BY <1>3, <3>1, <3>2, <3>4, <3>6 DEF SendsAfter
    <2>2. CASE Respond(q)
      <3>1. UNCHANGED <<told, audit>> /\ Progress(q, "done") /\ MayRespond(q)
        BY <2>2 DEF Respond
      <3>2. Call(q).kind \in Told => Operation(q)
        BY <1>1, <3>1 DEF MayRespond, HeardInv
      <3>3. SendsAfter
        BY <1>1, <2>2, <3>2 DEF Respond, Answer, Send, Message, SendsAfter, AfterItsLine, ToldFirst
      <3>4. Quiet
        BY <3>1, ProgressQuiet
      <3>5. QED
        BY <1>3, <1>4, <3>1, <3>3, <3>4, QuietHeard
    <2>3. CASE WriteMultiple(q) \/ Read(q) \/ EmitEvent(q)
      <3>1. UNCHANGED <<told, audit>> /\ (UNCHANGED at \/ Progress(q, "done") \/ Progress(q, "read"))
        BY <2>3 DEF WriteMultiple, CarryOut, Refuse, Acknowledge, Read, EmitEvent
      <3>2. SendsAfter
        BY <1>1, <2>3 DEF WriteMultiple, Writes, CarryOut, Refuse, Acknowledge, Read, EmitEvent, Answer, Send,
                          Message, SendsAfter, AfterItsLine, ToldFirst, Told
      <3>3. Quiet
        BY <1>1, <3>1, ProgressQuiet DEF Quiet, Onward
      <3>4. QED
        BY <1>3, <1>4, <3>1, <3>2, <3>3, QuietHeard
    <2>4. CASE AfterRead(q)
      <3>1. UNCHANGED <<told, sent>> /\ (Progress(q, "emitting") \/ Progress(q, "done"))
        BY <2>4 DEF AfterRead
      <3>2. audit' = audit \/ (audit.state = "none" /\ audit' = [state |-> "created", to |-> Call(q).client])
        BY <2>4 DEF AfterRead
      <3>3. audit'.state = audit.state \/ (audit.state = "none" /\ audit'.state = "created")
        BY <3>2
      <3>4. Quiet
        BY <1>1, <3>1, ProgressQuiet
      <3>5. QED
        BY <1>3, <1>4, <3>1, <3>3, <3>4, QuietHeard DEF SendsAfter
    <2>5. QED
      BY <1>10, <2>1, <2>2, <2>3, <2>4 DEF Handle
  <1>11. QED
    BY <1>5, <1>6, <1>7, <1>8, <1>9, <1>10 DEF BacpypesNext, EventLoop, EmitAudit

LEMMA Bacnet4jPhases ==
    ASSUME PhasesInv, Bacnet4jNext, UNCHANGED adapter
    PROVE  PhasesInv'
  BY DEF PhasesInv, IsBacnet4j, Bacnet4jNext, Main, ReadFixture, LoadsIf, Initialize, Binds, CreateDeferred,
         HearServices, HearReads, Advances, EmitReadyEvent, Announces, HookEnds, Signalled, Transport, CallFirstListener,
         CallSecondListener, Conclude, Depart, HearConfirmation, Senders, Sender, Sends, Tells, Receive, Arrives,
         processVars, handlers

LEMMA Bacnet4jTellsWell ==
    ASSUME LifecycleInv, PhasesInv, HandlersInv, OutgoingInv, PairsInv, CallsFit, Bacnet4jNext,
           \A r \in Requests : HeardInv(r), LinesGo, UNCHANGED <<adapter, config>>
    PROVE  TellsWell
  <1> USE DEF TellsWell
  <1>1. IsBacnet4j /\ ~IsBacpypes /\ ~IsSysio /\ ~IsCbsigma /\ ~Supervised /\ ProcessInv
    BY DEF Bacnet4jNext, IsBacpypes, IsBacnet4j, IsSysio, IsCbsigma, Supervised, LifecycleInv
  <1>2. CASE Main \/ (Signalled /\ UNCHANGED threads)
    <2>1. UNCHANGED <<sent, told, at>>
      BY <1>2 DEF Main, Signalled, ReadFixture, LoadsIf, Initialize, Binds, CreateDeferred, HearServices, HearReads,
                  Advances, EmitReadyEvent, Announces, HookEnds, handlers
    <2>2. Quiet
      BY <2>1 DEF Quiet, Onward
    <2>3. QED
      BY <2>1, <2>2, QuietHeard DEF SendsAfter
  <1>3. ASSUME NEW q \in Requests, Receive(q) PROVE TellsWell
    <2>1. UNCHANGED <<sent, told, lines>> /\ at[q] = "unsent" /\ Progress(q, "received")
          /\ early' = IF lines = <<>> THEN early \cup {q} ELSE early
      BY <1>3 DEF Receive, Arrives, shared
    <2>2. q \notin early' => lines' # <<>>
      BY <2>1
    <2>3. Quiet
      BY <2>1, <2>2, ProgressQuiet
    <2>4. QED
      BY <2>1, <2>3, QuietHeard DEF SendsAfter
  <1>4. CASE CallFirstListener /\ Online
    <2>1. /\ thread \in Requests /\ at[thread] = "received" /\ UNCHANGED <<sent, early>>
          /\ at' = [at EXCEPT ![thread] = "heard"]
      BY <1>4 DEF CallFirstListener, Progress, HandlersInv
    <2>2. CASE HearsServices /\ Call(thread).kind \in Messaging \cup {"cov-multiple"}
      <3>1. told' = Append(told, Line(thread, "operation"))
        BY <1>4, <2>2 DEF CallFirstListener, Reports
      <3>2. ~HasLine(thread, "operation")
        BY <1>1, <2>1 DEF HeardInv, Operation
      <3>3. TellsNew
        BY <3>1, <3>2 DEF TellsNew
      <3>4. \A r \in Requests : HeardInv(r)'
        BY <1>1, <2>1, <3>1, HeardTold
      <3>5. QED
        BY <2>1, <3>3, <3>4 DEF SendsAfter
    <2>3. CASE ~(HearsServices /\ Call(thread).kind \in Messaging \cup {"cov-multiple"})
      <3>1. UNCHANGED <<told, lines>>
        BY <1>4, <2>3 DEF CallFirstListener
      <3>2. ~HearsServices => lines = <<>>
        BY <1>1, <1>4 DEF PhasesInv, HearsServices, Online, ProcessInv, Silent, Unbound, Announced, Over
      <3>3. thread \notin early => Call(thread).kind \notin Messaging
        BY <1>1, <2>1, <2>3, <3>2 DEF HeardInv
      <3>4. ASSUME NEW r \in Requests PROVE HeardInv(r)'
        <4>1. Operation(r)' <=> Operation(r)
          BY <3>1, HasLineStays DEF Operation
        <4>2. CASE r # thread
          <5>1. Onward(r)
            BY <2>1, <4>2 DEF Onward, HandlersInv
          <5>2. QED
            BY <4>1, <5>1, HeardStays
        <4>3. CASE r = thread
          <5>1. at'[r] = "heard" /\ (r \notin early' => Call(r).kind \notin Messaging)
            BY <2>1, <3>3, <4>3 DEF HandlersInv
          <5>2. UNCHANGED <<IsBacpypes, IsSysio>> /\ Call(r)' = Call(r)
            BY RequestsStay DEF IsBacpypes, IsSysio
          <5>3. QED
            BY <1>1, <5>1, <5>2 DEF HeardInv
        <4>4. QED
          BY <4>2, <4>3
      <3>5. QED
        BY <2>1, <3>1, <3>4 DEF SendsAfter, TellsNew
    <2>4. QED
      BY <2>2, <2>3
  <1>5. CASE CallSecondListener
    <2>1. UNCHANGED <<sent, told>> /\ thread \in Requests /\ at[thread] = "heard" /\ Progress(thread, "told")
      BY <1>5 DEF CallSecondListener, HandlersInv
    <2>2. Quiet
      BY <1>1, <2>1, ProgressQuiet
    <2>3. QED
      BY <2>1, <2>2, QuietHeard DEF SendsAfter
  <1>6. CASE Conclude
    <2>1. UNCHANGED told /\ thread \in Requests /\ at[thread] = "told" /\ Progress(thread, "done")
      BY <1>6 DEF Conclude, HandlersInv
    <2>2. thread \notin early /\ Call(thread).kind \in Messaging => Operation(thread)
      BY <1>1, <2>1 DEF HeardInv
    <2>3. SendsAfter
      BY <1>1, <1>6, <2>2 DEF Conclude, Answer, Send, Message, SendsAfter, AfterItsLine, ToldFirst, Messaging
    <2>4. Quiet
      BY <2>1, ProgressQuiet
    <2>5. QED
      BY <2>3, <2>4, QuietHeard
  <1>7. CASE Depart
    <2>1. UNCHANGED <<told, at>> /\ sent' = Append(sent, outgoing[1]) /\ 1 \in DOMAIN outgoing
      BY <1>7, TailSequence DEF Depart, Send, OutgoingInv
    <2>2. outgoing[1].kind # "ack"
      BY <2>1 DEF OutgoingInv
    <2>3. SendsAfter
      BY <2>1, <2>2 DEF SendsAfter, AfterItsLine
    <2>4. Quiet
      BY <2>1 DEF Quiet, Onward
    <2>5. QED
      BY <2>3, <2>4, QuietHeard
  <1>8. ASSUME NEW q \in Requests, NEW what, told' = Append(told, Line(q, what)), UNCHANGED <<at, sent>>,
               what # "operation", ~HasLine(q, what)
        PROVE  TellsWell
    <2>1. TellsNew
      BY <1>8 DEF TellsNew
    <2>2. \A r \in Requests : HeardInv(r)'
      BY <1>8, HeardOther
    <2>3. QED
      BY <1>8, <2>1, <2>2 DEF SendsAfter
  <1>9. ASSUME NEW q \in Requests, HearConfirmation(q) PROVE TellsWell
    BY <1>8, <1>9 DEF HearConfirmation, Reports
  <1>10. ASSUME NEW q \in Requests, Sender(q) PROVE TellsWell
    <2>1. ASSUME NEW from, NEW to, NEW kind, Sends(q, from, to, kind) PROVE TellsWell
      <3>1. UNCHANGED <<sent, told, at>>
        BY <2>1 DEF Sends, processVars, handlers
      <3>2. Quiet
        BY <3>1 DEF Quiet, Onward
      <3>3. QED
        BY <3>1, <3>2, QuietHeard DEF SendsAfter
    <2>2. PairLinesInv(q)
      BY DEF PairsInv
    <2>3. \A what : HasLine(q, what) => LinesOf(q, what) # {}
      BY DEF HasLine, LinesOf
    <2>4. CASE Tells(q, "unconfirmed", "between", "unconfirmed-sent")
      <3>1. told' = Append(told, Line(q, "unconfirmed-sent")) /\ UNCHANGED <<at, sent>> /\ sender[q] = "unconfirmed"
        BY <2>4 DEF Tells, Reports
      <3>2. ~HasLine(q, "unconfirmed-sent")
        BY <2>2, <2>3, <3>1 DEF PairLinesInv
      <3>3. QED
        BY <1>8, <3>1, <3>2
    <2>5. CASE Tells(q, "confirmed", "ended", "confirmed-sent")
      <3>1. told' = Append(told, Line(q, "confirmed-sent")) /\ UNCHANGED <<at, sent>> /\ sender[q] = "confirmed"
        BY <2>5 DEF Tells, Reports
      <3>2. ~HasLine(q, "confirmed-sent")
        BY <2>2, <2>3, <3>1 DEF PairLinesInv
      <3>3. QED
        BY <1>8, <3>1, <3>2
    <2>6. QED
      BY <1>10, <2>1, <2>4, <2>5 DEF Sender
  <1>11. QED
    BY <1>2, <1>3, <1>4, <1>5, <1>6, <1>7, <1>9, <1>10 DEF Bacnet4jNext, Transport, Senders


LEMMA WorldietyTellsWell ==
    ASSUME HandlersInv, WorldietyNext, \A r \in Requests : HeardInv(r), LinesGo, UNCHANGED <<adapter, config>>
    PROVE  TellsWell
  <1>1. ~IsBacnet4j /\ ~IsSysio /\ \A m : AfterItsLine(m)
    BY DEF WorldietyNext, IsWorldiety, IsBacnet4j, IsSysio, IsBacpypes, AfterItsLine, ToldFirst
  <1>2. UNCHANGED told
    BY DEF WorldietyNext, Run, RunFails, Interrupted, LoadFile, LoadsIf, NewClientRuntime, Binds, RegisterAndRun,
           EmitReadyLine, Announces, Advances, Select, Returns, handlers, Dispatches, Arrives, RunsHandlers,
           HandleWrites, HandleWhoIs, HandleRead, CarryOut, Refuse, Acknowledge
  <1>3. CASE Run \/ RunFails \/ Interrupted
    <2>1. UNCHANGED <<sent, at>>
      BY <1>3 DEF Run, RunFails, Interrupted, LoadFile, LoadsIf, NewClientRuntime, Binds, RegisterAndRun,
                  EmitReadyLine, Announces, Advances, Select, Returns, handlers
    <2>2. Quiet
      BY <1>2, <2>1 DEF Quiet, Onward
    <2>3. QED
      BY <2>1, <2>2, QuietHeard DEF SendsAfter, TellsWell
  <1>4. ASSUME NEW q \in Requests, Arrives(q) PROVE TellsWell
    <2>1. UNCHANGED sent /\ at[q] = "unsent" /\ Progress(q, "received")
      BY <1>4 DEF Arrives
    <2>2. Quiet
      BY <1>1, <1>2, <2>1, ProgressQuiet
    <2>3. QED
      BY <2>1, <2>2, QuietHeard DEF SendsAfter, TellsWell
  <1>5. ASSUME NEW q \in Requests, HandleWrites(q) \/ HandleWhoIs(q) \/ HandleRead(q) PROVE TellsWell
    <2>1. UNCHANGED at \/ Progress(q, "done")
      BY <1>5 DEF HandleWrites, HandleWhoIs, HandleRead, CarryOut, Refuse, Acknowledge
    <2>2. SendsAfter
      BY <1>1, <1>5 DEF HandleWrites, HandleWhoIs, HandleRead, CarryOut, Refuse, Acknowledge, Answer, Send, SendsAfter
    <2>3. Quiet
      BY <1>2, <2>1, ProgressQuiet DEF Quiet, Onward
    <2>4. QED
      BY <2>2, <2>3, QuietHeard DEF TellsWell
  <1>6. QED
    BY <1>3, <1>4, <1>5 DEF WorldietyNext, Dispatches, RunsHandlers

LEMMA SysioTellsWell ==
    ASSUME HandlersInv, QueueInv, SysioNext, \A r \in Requests : HeardInv(r), LinesGo, UNCHANGED <<adapter, config>>
    PROVE  TellsWell
  <1>1. IsSysio /\ ~IsBacnet4j /\ ~IsCbsigma /\ \A m : AfterItsLine(m)
    BY DEF SysioNext, IsSysio, IsBacnet4j, IsCbsigma, IsBacpypes, AfterItsLine, ToldFirst
  <1>2. ASSUME Quiet, SendsAfter PROVE TellsWell
    BY <1>2, QuietHeard DEF TellsWell
  <1>3. CASE SysioMain \/ SysioSignalled
    <2>1. UNCHANGED <<sent, told, at>>
      BY <1>3 DEF SysioMain, SysioSignalled, ReadSettings, LoadsIf, StartServer, Binds, EmitSysioReady, Announces,
                  RegisterSignals, Advances, DisposeServer, ReturnFromMain, handlers
    <2>2. QED
      BY <1>2, <2>1 DEF Quiet, Onward, SendsAfter
  <1>4. CASE SysioReceives
    <2>1. PICK q \in Requests : Arrives(q)
      BY <1>4 DEF SysioReceives
    <2>2. UNCHANGED <<sent, told>> /\ at[q] = "unsent" /\ Progress(q, "received")
      BY <2>1 DEF Arrives
    <2>3. Quiet
      BY <1>1, <2>2, ProgressQuiet
    <2>4. QED
      BY <1>2, <2>2, <2>3 DEF SendsAfter
  <1>5. ASSUME NEW q \in Requests, TakeGate(q) \/ HandleWrite(q) PROVE TellsWell
    <2>1. UNCHANGED told /\ (UNCHANGED at \/ Progress(q, "done"))
      BY <1>5 DEF TakeGate, HandleWrite, WriteStored, WriteThrows, AnswerWrites, CarryOut, Refuse, Acknowledge,
                  processVars, handlers
    <2>2. SendsAfter
      BY <1>1, <1>5 DEF TakeGate, HandleWrite, WriteStored, WriteThrows, AnswerWrites, CarryOut, Refuse, Acknowledge,
                        processVars, handlers, Answer, Send, SendsAfter
    <2>3. QED
      BY <1>2, <2>1, <2>2, ProgressQuiet DEF Quiet, Onward
  <1>6. ASSUME NEW q \in Requests, SubscribeCov(q) \/ ReadAndEmit(q) PROVE TellsWell
    <2>1. UNCHANGED told /\ Progress(q, "done")
      BY <1>6 DEF SubscribeCov, ReadAndEmit
    <2>2. SendsAfter
      BY <1>1, <1>6 DEF SubscribeCov, ReadAndEmit, Answer, Send, SendsAfter
    <2>3. QED
      BY <1>2, <2>1, <2>2, ProgressQuiet
  <1>7. ASSUME NEW q \in Requests, SysioTells(q) \/ AcknowledgeAlarm(q) PROVE TellsWell
    <2>1. CASE /\ UNCHANGED told /\ \E kind : Answer(q, kind, {})
               /\ Progress(q, "done") \/ (at[q] = "received" /\ Progress(q, "told"))
      <3>1. SendsAfter
        BY <1>1, <2>1 DEF Answer, Send, SendsAfter
      <3>2. QED
        BY <1>1, <1>2, <2>1, <3>1, ProgressQuiet
    <2>2. CASE at[q] \in {"received", "told"} /\ Progress(q, "done") /\ Reports(q, "operation") /\ UNCHANGED sent
      <3>1. told' = Append(told, Line(q, "operation")) /\ at' = [at EXCEPT ![q] = "done"]
        BY <2>2 DEF Reports, Progress
      <3>2. ~HasLine(q, "operation")
        BY <1>1, <2>2 DEF HeardInv, Operation
      <3>3. \A r \in Requests : HeardInv(r)'
        BY <3>1, HeardTold
      <3>4. QED
        BY <2>2, <3>1, <3>2, <3>3 DEF TellsWell, TellsNew, SendsAfter
    <2>3. CASE SysioTells(q)
      BY <2>1, <2>2, <2>3 DEF SysioTells, shared
    <2>4. CASE AcknowledgeAlarm(q)
      BY <2>1, <2>2, <2>4 DEF AcknowledgeAlarm, Acknowledged
    <2>5. QED
      BY <1>7, <2>3, <2>4
  <1>8. CASE SysioNotifier
    <2>1. UNCHANGED <<told, at>> /\ (UNCHANGED sent \/ sent' = Append(sent, Head(queue)))
      BY <1>8 DEF SysioNotifier, NotifyNext, Send
    <2>2. SendsAfter
      BY <1>1, <2>1 DEF SendsAfter
    <2>3. QED
      BY <1>2, <2>1, <2>2 DEF Quiet, Onward
  <1>9. CASE SysioHandlers
    <2>1. PICK q \in Requests : Handles(q)
      BY <1>9 DEF SysioHandlers
    <2>2. QED
      BY <1>5, <1>6, <1>7, <2>1 DEF Handles
  <1>10. QED
    BY <1>3, <1>4, <1>8, <1>9 DEF SysioNext

\* Nothing has been answered or told of a request, or nothing new is.
LEMMA AnsweredRests ==
    ASSUME HandlersInv, NEW r \in Requests, AnsweredInv(r), UNCHANGED <<adapter, config>>,
           UNCHANGED sent \/ \E m : sent' = Append(sent, m) /\ ~(m.about = r /\ m.kind = "ack"),
           UNCHANGED told \/ \E q : q # r /\ told' = Append(told, Line(q, "operation")),
           at'[r] = at[r] \/ (at[r] \in {"unsent", "received"} /\ at'[r] # "told")
    PROVE  AnsweredInv(r)'
  <1>1. AnsweredFirst(r)' <=> AnsweredFirst(r)
    BY RequestsStay DEF AnsweredFirst, IsSysio
  <1>2. Acked(r)' <=> Acked(r)
    <2>1. CASE UNCHANGED sent
      BY <2>1 DEF Acked, Sent
    <2>2. ASSUME NEW m, sent' = Append(sent, m), ~(m.about = r /\ m.kind = "ack") PROVE Acked(r)' <=> Acked(r)
      BY <2>2, SentGrows DEF HandlersInv, Acked, Sent
    <2>3. QED
      BY <2>1, <2>2
  <1>3. Operation(r)' <=> Operation(r)
    <2>1. CASE UNCHANGED told
      BY <2>1, HasLineStays DEF Operation
    <2>2. ASSUME NEW q, q # r, told' = Append(told, Line(q, "operation")) PROVE Operation(r)' <=> Operation(r)
      <3>1. Line(q, "operation") # Line(r, "operation")
        BY <2>2 DEF Line
      <3>2. QED
        BY <2>2, <3>1, HasLineAppend DEF HandlersInv, Operation
    <2>3. QED
      BY <2>1, <2>2
  <1>4. QED
    BY <1>1, <1>2, <1>3 DEF AnsweredInv

\* A handler's step is about its own request.
AnsweredOwn(q) ==
    /\ UNCHANGED at \/ \E how : Progress(q, how)
    /\ UNCHANGED sent \/ \E kind, body : Answer(q, kind, body)
    /\ UNCHANGED told \/ told' = Append(told, Line(q, "operation"))

LEMMA AnsweredOthers ==
    ASSUME HandlersInv, NEW q \in Requests, AnsweredOwn(q), UNCHANGED <<adapter, config>>,
           \A r \in Requests : AnsweredInv(r), ~AnsweredFirst(q) \/ AnsweredInv(q)'
    PROVE  \A r \in Requests : AnsweredInv(r)'
  <1> SUFFICES ASSUME NEW r \in Requests PROVE AnsweredInv(r)'
    OBVIOUS
  <1>1. CASE r = q
    <2>1. AnsweredFirst(q)' <=> AnsweredFirst(q)
      BY RequestsStay DEF AnsweredFirst, IsSysio
    <2>2. QED
      BY <1>1, <2>1 DEF AnsweredInv
  <1>2. CASE r # q
    <2>1. at'[r] = at[r]
      BY <1>2 DEF AnsweredOwn, Progress, HandlersInv
    <2>2. UNCHANGED sent \/ \E m : sent' = Append(sent, m) /\ ~(m.about = r /\ m.kind = "ack")
      <3>1. ASSUME NEW kind, NEW body, Answer(q, kind, body)
            PROVE  \E m : sent' = Append(sent, m) /\ ~(m.about = r /\ m.kind = "ack")
        BY <1>2, <3>1 DEF Answer, Send, Message
      <3>2. QED
        BY <3>1 DEF AnsweredOwn
    <2>3. UNCHANGED told \/ \E p : p # r /\ told' = Append(told, Line(p, "operation"))
      BY <1>2 DEF AnsweredOwn
    <2>4. AnsweredInv(r)
      OBVIOUS
    <2>5. QED
      BY <2>1, <2>2, <2>3, <2>4, AnsweredRests
  <1>3. QED
    BY <1>1, <1>2

\* sysiobacnet's handlers: the acknowledgement, and then its line.
LEMMA SysioAnswers ==
    ASSUME HandlersInv, QueueInv, SysioNext, \A r \in Requests : HeardInv(r), \A r \in Requests : AnsweredInv(r),
           UNCHANGED <<adapter, config>>
    PROVE  \A r \in Requests : AnsweredInv(r)'
  <1>1. IsSysio
    BY DEF SysioNext
  <1>2. CASE SysioMain \/ SysioSignalled \/ SysioNotifier
    <2>1. UNCHANGED <<told, at>> /\ (UNCHANGED sent \/ (sent' = Append(sent, queue[1]) /\ 1 \in DOMAIN queue))
      BY <1>2, TailSequence
         DEF SysioMain, SysioSignalled, ReadSettings, LoadsIf, StartServer, Binds, EmitSysioReady, Announces,
             RegisterSignals, Advances, DisposeServer, ReturnFromMain, handlers, SysioNotifier, NotifyNext, Send,
             QueueInv
    <2>2. 1 \in DOMAIN queue => queue[1].kind # "ack"
      BY DEF QueueInv
    <2>3. QED
      BY <2>1, <2>2, AnsweredRests
  <1>3. CASE SysioReceives
    <2>1. PICK q \in Requests : Arrives(q)
      BY <1>3 DEF SysioReceives
    <2>2. UNCHANGED <<sent, told>> /\ at[q] = "unsent" /\ Progress(q, "received")
      BY <2>1 DEF Arrives
    <2>3. \A r \in Requests : at'[r] = at[r] \/ (at[r] \in {"unsent", "received"} /\ at'[r] # "told")
      BY <2>2 DEF Progress, HandlersInv
    <2>4. QED
      BY <2>2, <2>3, AnsweredRests
  <1>4. ASSUME NEW q \in Requests, TakeGate(q) \/ HandleWrite(q) \/ SubscribeCov(q) \/ ReadAndEmit(q)
        PROVE  \A r \in Requests : AnsweredInv(r)'
    <2>1. AnsweredOwn(q)
      BY <1>4 DEF TakeGate, HandleWrite, SubscribeCov, ReadAndEmit, WriteStored, WriteThrows, AnswerWrites, CarryOut,
                  Refuse, Acknowledge, processVars, handlers, AnsweredOwn
    <2>2. ~AnsweredFirst(q)
      BY <1>4 DEF TakeGate, HandleWrite, SubscribeCov, ReadAndEmit, Writes, AnsweredFirst
    <2>3. QED
      BY <2>1, <2>2, AnsweredOthers
  <1>5. ASSUME NEW q \in Requests, SysioTells(q) \/ AcknowledgeAlarm(q)
        PROVE  \A r \in Requests : AnsweredInv(r)'
    <2>1. AnsweredOwn(q)
      <3>1. CASE SysioTells(q)
        BY <3>1 DEF SysioTells, Reports, shared, AnsweredOwn
      <3>2. CASE AcknowledgeAlarm(q)
        BY <3>2 DEF AcknowledgeAlarm, Reports, AnsweredOwn
      <3>3. QED
        BY <1>5, <3>1, <3>2
    <2>2. AnsweredFirst(q)' <=> AnsweredFirst(q)
      BY RequestsStay DEF AnsweredFirst, IsSysio
    <2>3. CASE ~AnsweredFirst(q)
      BY <2>1, <2>3, AnsweredOthers
    <2>4. CASE at[q] = "received" /\ Progress(q, "done") /\ Answer(q, "error", {}) /\ UNCHANGED told
      <3>1. at'[q] = "done"
        BY <2>4 DEF Progress, HandlersInv
      <3>2. \E m : sent' = Append(sent, m) /\ ~(m.about = q /\ m.kind = "ack")
        BY <2>4 DEF Answer, Send, Message
      <3>3. AnsweredInv(q)
        OBVIOUS
      <3>4. AnsweredInv(q)'
        BY <2>4, <3>1, <3>2, <3>3, AnsweredRests
      <3>5. QED
        BY <2>1, <3>4, AnsweredOthers
    <2>5. CASE at[q] = "received" /\ Progress(q, "told") /\ Answer(q, "ack", {}) /\ UNCHANGED told
      <3>1. at'[q] = "told"
        BY <2>5 DEF Progress, HandlersInv
      <3>2. Acked(q)'
        <4>1. PICK m : m.about = q /\ m.kind = "ack" /\ sent' = Append(sent, m)
          BY <2>5 DEF Answer, Send, Message
        <4>2. QED
          BY <4>1, SentGrows DEF HandlersInv, Acked, Sent
      <3>3. AnsweredInv(q)'
        BY <3>1, <3>2 DEF AnsweredInv
      <3>4. QED
        BY <2>1, <3>3, AnsweredOthers
    <2>6. CASE at[q] = "told" /\ Progress(q, "done") /\ Reports(q, "operation") /\ UNCHANGED sent /\ AnsweredFirst(q)
      <3>1. at'[q] = "done" /\ told' = Append(told, Line(q, "operation"))
        BY <2>6 DEF Progress, Reports, HandlersInv
      <3>2. Acked(q)
        BY <2>6 DEF AnsweredInv
      <3>3. Acked(q)'
        BY <2>6, <3>2 DEF Acked, Sent
      <3>4. Operation(q)'
        BY <3>1, HasLineAppend DEF HandlersInv, Operation
      <3>5. AnsweredInv(q)'
        BY <3>1, <3>3, <3>4 DEF AnsweredInv
      <3>6. QED
        BY <2>1, <3>5, AnsweredOthers
    <2>7. CASE SysioTells(q)
      BY <2>3, <2>5, <2>6, <2>7 DEF SysioTells, shared, AnsweredFirst
    <2>8. CASE AcknowledgeAlarm(q)
      BY <2>3, <2>4, <2>5, <2>6, <2>8 DEF AcknowledgeAlarm, Acknowledged
    <2>9. QED
      BY <1>5, <2>7, <2>8
  <1>6. CASE SysioHandlers
    <2>1. PICK q \in Requests : Handles(q)
      BY <1>6 DEF SysioHandlers
    <2>2. QED
      BY <1>4, <1>5, <2>1 DEF Handles
  <1>7. QED
    BY <1>2, <1>3, <1>6 DEF SysioNext

LEMMA CbsigmaTellsWell ==
    ASSUME HandlersInv, CallsFit, CbsigmaNext, ~Simulates, \A r \in Requests : HeardInv(r), LinesGo,
           UNCHANGED <<adapter, config>>
    PROVE  TellsWell
  <1>1. /\ IsCbsigma /\ ~IsBacnet4j /\ ~IsSysio /\ ~IsBacpypes /\ config.role # "sim"
        /\ \A m : AfterItsLine(m)
    BY DEF CbsigmaNext, IsSysio, IsBacnet4j, IsCbsigma, IsBacpypes, Simulates, AfterItsLine, ToldFirst
  <1>2. \A r \in Requests : HeardInv(r)'
    BY <1>1 DEF HeardInv, IsSysio, IsBacnet4j, IsCbsigma, IsBacpypes
  <1>3. CASE CbsigmaMain \/ CbsigmaSignalled \/ CbsigmaReceives
    <2>1. UNCHANGED <<sent, told>>
      BY <1>3 DEF CbsigmaMain, CbsigmaSignalled, LoadCbsigma, LoadsIf, Serve, Binds, EmitCbsigmaReady, Announces,
                  Notify, Advances, StopCbsigma, handlers, CbsigmaReceives, Arrives
    <2>2. QED
      BY <1>2, <2>1 DEF TellsWell, SendsAfter, TellsNew
  <1>4. ~ReportSim /\ \A r \in Requests : ~Simulate(r)
    BY <1>1 DEF ReportSim, ReporterRuns, Simulate
  <1>5. ASSUME NEW q \in Requests, WriteProperty(q) PROVE TellsWell
    <2>1. SendsAfter
      BY <1>1, <1>5 DEF WriteProperty, Refuse, Acknowledge, Answer, Send, SendsAfter
    <2>2. UNCHANGED told \/ told' = Append(told, Line(q, "operation"))
      BY <1>5 DEF WriteProperty, Refuse, Acknowledge, Reports
    <2>3. Again(q)
      BY <1>1, <1>5 DEF WriteProperty, Writes, Again, ToldByWrite, CallsFit
    <2>4. TellsNew
      BY <2>2, <2>3 DEF TellsNew
    <2>5. QED
      BY <1>2, <2>1, <2>4 DEF TellsWell
  <1>6. QED
    BY <1>3, <1>4, <1>5 DEF CbsigmaNext, UpstreamRuns

\* The simulator answers what its own services are, and has no WriteProperty.
LEMMA SimulatorTellsWell ==
    ASSUME CbsigmaNext, Simulates, UNCHANGED <<adapter, config>>
    PROVE  (\A r \in Requests : HeardInv(r)') /\ SendsAfter /\ UNCHANGED log
  <1>1. /\ IsCbsigma /\ ~IsBacnet4j /\ ~IsSysio /\ ~IsBacpypes /\ config.role = "sim"
        /\ \A m : AfterItsLine(m)
    BY DEF CbsigmaNext, IsSysio, IsBacnet4j, IsCbsigma, IsBacpypes, Simulates, AfterItsLine, ToldFirst
  <1>2. \A r \in Requests : HeardInv(r)'
    BY <1>1 DEF HeardInv, IsSysio, IsBacnet4j, IsCbsigma, IsBacpypes
  <1>3. CASE CbsigmaMain \/ CbsigmaSignalled \/ CbsigmaReceives
    <2>1. UNCHANGED <<sent, log>>
      BY <1>3 DEF CbsigmaMain, CbsigmaSignalled, LoadCbsigma, LoadsIf, Serve, Binds, EmitCbsigmaReady, Announces,
                  Notify, Advances, StopCbsigma, handlers, CbsigmaReceives, Arrives
    <2>2. QED
      BY <1>2, <2>1 DEF SendsAfter
  <1>4. CASE ReportSim
    <2>1. UNCHANGED <<sent, log>>
      BY <1>4 DEF ReportSim, LookAtLists, ReportNext, processVars, handlers
    <2>2. QED
      BY <1>2, <2>1 DEF SendsAfter
  <1>5. ASSUME NEW q \in Requests, Simulate(q) PROVE SendsAfter /\ UNCHANGED log
    BY <1>1, <1>5 DEF Simulate, Answer, Send, SendsAfter
  <1>6. \A r \in Requests : ~WriteProperty(r)
    BY <1>1 DEF WriteProperty
  <1>7. QED
    BY <1>2, <1>3, <1>4, <1>5, <1>6 DEF CbsigmaNext, UpstreamRuns

\* One more line is one more of what it tells.
LEMMA LinesGrow ==
    ASSUME IsSequence(told), NEW l, told' = Append(told, l), NEW r, NEW what
    PROVE  Cardinality(LinesOf(r, what))' =
               IF l = Line(r, what) THEN Cardinality(LinesOf(r, what)) + 1 ELSE Cardinality(LinesOf(r, what))
  <1>1. LinesOf(r, what)' = IF l = Line(r, what) THEN LinesOf(r, what) \cup {Len(told) + 1} ELSE LinesOf(r, what)
    BY LinesAppend
  <1>2. IsFiniteSet(LinesOf(r, what)) /\ Len(told) + 1 \notin LinesOf(r, what)
    <2>1. IsFiniteSet(1..Len(told)) /\ LinesOf(r, what) \subseteq 1..Len(told)
      <3>1. DOMAIN told = 1..Len(told) /\ Len(told) \in Nat
        BY Indices
      <3>2. QED
        BY <3>1, FS_Interval DEF LinesOf
    <2>2. Len(told) + 1 \notin DOMAIN told
      BY AppendSequence
    <2>3. QED
      BY <2>1, <2>2, FS_Subset DEF LinesOf
  <1>3. Cardinality(LinesOf(r, what) \cup {Len(told) + 1}) = Cardinality(LinesOf(r, what)) + 1
    BY <1>2, FS_AddElement
  <1>4. QED
    BY <1>1, <1>3

LEMMA CbsigmaWritesTell ==
    ASSUME HandlersInv, CallsFit, CbsigmaNext, WrittenInv, UNCHANGED <<adapter, config>>
    PROVE  WrittenInv'
  <1>1. UNCHANGED Simulates /\ Requests' = Requests
    BY RequestsStay DEF Simulates, IsCbsigma
  <1>2. \A r : ToldByWrite(r)' <=> ToldByWrite(r)
    BY RequestsStay DEF ToldByWrite, IsCbsigma
  <1>3. CASE Simulates
    BY <1>1, <1>3, SimulatorTellsWell DEF WrittenInv
  <1>4. ASSUME ~Simulates, UNCHANGED <<told, log>> PROVE WrittenInv'
    <2>1. \A r : CarriedOut(r)' = CarriedOut(r)
      BY <1>4, LogStays
    <2>2. \A r : LinesOf(r, "operation")' = LinesOf(r, "operation")
      BY <1>4 DEF LinesOf, Line
    <2>3. \A r : Cardinality(LinesOf(r, "operation"))' = Cardinality(LinesOf(r, "operation"))
      BY <2>2
    <2>4. QED
      BY <1>1, <1>2, <1>4, <2>1, <2>3 DEF WrittenInv
  <1>5. ASSUME ~Simulates, NEW q \in Requests, NEW w, log' = Append(log, [by |-> q, write |-> w]),
               told' = Append(told, Line(q, "operation"))
        PROVE  WrittenInv'
    <2>1. ASSUME NEW r \in Requests, ToldByWrite(r)
          PROVE  Cardinality(LinesOf(r, "operation"))' = CarriedOut(r)'
      <3>1. Line(q, "operation") = Line(r, "operation") <=> q = r
        BY DEF Line
      <3>2. CarriedOut(r)' = IF r = q THEN CarriedOut(r) + 1 ELSE CarriedOut(r)
        BY <1>5, LogGrows DEF HandlersInv
      <3>3. Cardinality(LinesOf(r, "operation"))' =
                IF r = q THEN Cardinality(LinesOf(r, "operation")) + 1 ELSE Cardinality(LinesOf(r, "operation"))
        BY <1>5, <3>1, LinesGrow DEF HandlersInv
      <3>4. Cardinality(LinesOf(r, "operation")) = CarriedOut(r)
        BY <1>5, <2>1 DEF WrittenInv
      <3>5. QED
        BY <3>2, <3>3, <3>4
    <2>2. QED
      BY <1>1, <1>2, <1>5, <2>1 DEF WrittenInv
  <1>6. CASE ~Simulates /\ (CbsigmaMain \/ CbsigmaSignalled \/ CbsigmaReceives)
    <2>1. UNCHANGED <<told, log>>
      BY <1>6 DEF CbsigmaMain, CbsigmaSignalled, LoadCbsigma, LoadsIf, Serve, Binds, EmitCbsigmaReady, Announces,
                  Notify, Advances, StopCbsigma, handlers, CbsigmaReceives, Arrives
    <2>2. QED
      BY <1>4, <1>6, <2>1
  <1>7. ASSUME ~Simulates, NEW q \in Requests, WriteProperty(q) PROVE WrittenInv'
    <2>1. UNCHANGED <<told, log>> \/ (log' = Append(log, [by |-> q, write |-> place[q] + 1])
                                      /\ told' = Append(told, Line(q, "operation")))
      BY <1>7 DEF WriteProperty, Refuse, Acknowledge, Reports
    <2>2. QED
      BY <1>4, <1>5, <1>7, <2>1
  <1>8. ~Simulates => ~ReportSim /\ \A r \in Requests : ~Simulate(r)
    BY DEF CbsigmaNext, Simulates, ReportSim, ReporterRuns, Simulate
  <1>9. QED
    BY <1>3, <1>6, <1>7, <1>8 DEF CbsigmaNext, UpstreamRuns


LEMMA EarlyGrows ==
    ASSUME Bacnet4jNext
    PROVE  \A r : r \in early => r \in early'
  <1>1. CASE Main \/ (Signalled /\ UNCHANGED threads)
    BY <1>1 DEF Main, threads
  <1>2. CASE Transport
    BY <1>2 DEF Transport, CallFirstListener, CallSecondListener, Conclude, Depart, HearConfirmation, threads
  <1>3. CASE Senders
    BY <1>3 DEF Senders, Sender, Sends, Tells
  <1>4. ASSUME NEW q \in Requests, Receive(q) PROVE \A r : r \in early => r \in early'
    BY <1>4 DEF Receive
  <1>5. QED
    BY <1>1, <1>2, <1>3, <1>4 DEF Bacnet4jNext

\* What the program of a device keeps of what has been written.
LEMMA LinesKept ==
    ASSUME LifecycleInv, HandlersInv, ProcessNext, Bacnet4jNext \/ UNCHANGED early
    PROVE  LinesGo /\ LinesStay
  <1>1. Lives /\ Grows
    BY ProcessGrows
  <1>2. lines # <<>> => lines' # <<>>
    BY <1>1, EmitCounts DEF Lives, Keeps, LifecycleInv
  <1>3. LinesGo
    BY <1>2, EarlyGrows DEF LinesGo
  <1>4. CASE UNCHANGED told
    <2>1. \A r : HasLine(r, "operation")' <=> HasLine(r, "operation")
      BY <1>4, HasLineStays
    <2>2. QED
      BY <1>3, <2>1 DEF LinesStay, Operation
  <1>5. ASSUME NEW l, told' = Append(told, l) PROVE LinesStay
    BY <1>5, HasLineAppend DEF LinesStay, Operation, HandlersInv
  <1>6. QED
    BY <1>1, <1>3, <1>4, <1>5 DEF Grows

LEMMA TellSteps ==
    ASSUME LifecycleInv, TypesInv, AboutInv, NotifyInv, PairsInv, TellInv, [Next]_vars
    PROVE  TellInv'
  <1>1. CASE UNCHANGED <<adapter, config, phase, lines, at, log, sent, told, audit, early>>
                \/ (UNCHANGED <<adapter, config, at, log, sent, told, audit, early>> /\ ~IsProcess)
    <2>1. Requests' = Requests /\ (\A r : Call(r)' = Call(r))
          /\ UNCHANGED <<IsBacpypes, IsBacnet4j, IsCbsigma, IsSysio, Simulates>>
      BY <1>1, RequestsStay DEF IsBacpypes, IsBacnet4j, IsCbsigma, IsSysio, Simulates
    <2>2. \A r, what : HasLine(r, what)' <=> HasLine(r, what)
      BY <1>1, HasLineStays
    <2>3. \A r : Operation(r)' <=> Operation(r)
      BY <2>2 DEF Operation
    <2>4. ~IsProcess => ~IsBacnet4j
      BY DEF IsProcess, Processes, IsBacnet4j
    <2>5. PhasesInv'
      BY <1>1, <2>1, <2>4 DEF PhasesInv, TellInv
    <2>6. \A r \in Requests : HeardInv(r)'
      BY <1>1, <2>1, <2>3, <2>4 DEF HeardInv, TellInv
    <2>7. AuditLinesInv'
      BY <1>1, <2>1, <2>2 DEF AuditLinesInv, TellInv
    <2>8. AcksInv'
      <3>1. \A r : ToldFirst(r)' <=> ToldFirst(r)
        BY <1>1, <2>1 DEF ToldFirst
      <3>2. QED
        BY <1>1, <2>3, <3>1 DEF AcksInv, AfterItsLine, TellInv
    <2>9. \A r : ToldByWrite(r)' <=> ToldByWrite(r)
      BY <2>1 DEF ToldByWrite
    <2>10. (~Simulates => OnceInv)'
      BY <1>1, <2>1, <2>9 DEF OnceInv, Again, TellInv
    <2>11. WrittenInv'
      BY <1>1, <2>1, <2>9 DEF WrittenInv, CarriedOut, WritesBy, LinesOf, Line, TellInv
    <2>12. (\A r \in Requests : AnsweredInv(r))'
      <3>1. \A r : (Acked(r)' <=> Acked(r)) /\ (AnsweredFirst(r)' <=> AnsweredFirst(r))
        BY <1>1, <2>1 DEF Acked, Sent, AnsweredFirst
      <3>2. QED
        BY <1>1, <2>1, <2>3, <3>1 DEF AnsweredInv, TellInv
    <2>13. QED
      BY <2>1, <2>5, <2>6, <2>7, <2>8, <2>10, <2>11, <2>12 DEF TellInv
  <1>2. CASE UNCHANGED vars
    BY <1>1, <1>2 DEF vars, shared, processVars, handlers, ownVars, threads
  <1>3. CASE SupervisorNext /\ UNCHANGED <<processVars, audit, threads>>
    <2>1. ~IsProcess
      BY <1>3 DEF SupervisorNext, Supervised, IsProcess, Processes, Runs
    <2>2. QED
      BY <1>1, <1>3, <2>1, SupervisorSteps DEF processVars, handlers, threads
  <1>4. CASE RouterNext /\ UNCHANGED <<audit, threads>>
    BY <1>1, <1>4, RouterRests, RouterLives DEF Lives, Keeps, handlers, threads
  <1>5. CASE ProcessNext /\ (Bacnet4jNext \/ UNCHANGED threads) /\ (BacpypesNext \/ UNCHANGED audit)
    <2>1. UNCHANGED <<adapter, config>> /\ CallsFit
      BY <1>5, ProcessGrows, CallsAsAssumed DEF Lives, Keeps, TypesInv
    <2>2. LinesGo /\ LinesStay
      BY <1>5, LinesKept DEF threads, TypesInv
    <2>3. Requests' = Requests /\ UNCHANGED <<IsBacpypes, IsBacnet4j, IsCbsigma, Simulates>>
      BY <2>1, RequestsStay DEF IsBacpypes, IsBacnet4j, IsCbsigma, Simulates
    <2>4. PhasesInv'
      <3>1. CASE Bacnet4jNext
        BY <2>1, <3>1, Bacnet4jPhases DEF TellInv
      <3>2. CASE ~Bacnet4jNext
        <4>1. ~IsBacnet4j
          BY <1>5, <3>2 DEF ProcessNext, BacpypesNext, WorldietyNext, CbsigmaNext, SysioNext, IsBacpypes, IsWorldiety,
                            IsCbsigma, IsSysio, IsBacnet4j
        <4>2. QED
          BY <2>3, <4>1 DEF PhasesInv
      <3>3. QED
        BY <3>1, <3>2
    <2>5. HandlersInv /\ QueueInv /\ OutgoingInv /\ AuditInv /\ (\A r \in Requests : HeardInv(r))
          /\ PhasesInv /\ AuditLinesInv /\ AcksInv /\ (~Simulates => OnceInv) /\ WrittenInv
          /\ \A r \in Requests : AnsweredInv(r)
      BY DEF TypesInv, AboutInv, NotifyInv, TellInv
    <2>6. (\A r \in Requests : HeardInv(r)') /\ SendsAfter /\ (~Simulates => TellsNew)
      <3>1. CASE BacpypesNext
        BY <1>5, <2>1, <2>2, <2>5, <3>1, BacpypesTellsWell DEF TellsWell, threads, BacpypesNext, Bacnet4jNext,
           IsBacpypes, IsBacnet4j
      <3>2. CASE Bacnet4jNext
        BY <2>1, <2>2, <2>5, <3>2, Bacnet4jTellsWell DEF TellsWell
      <3>3. CASE WorldietyNext
        BY <2>1, <2>2, <2>5, <3>3, WorldietyTellsWell DEF TellsWell
      <3>4. CASE SysioNext
        BY <2>1, <2>2, <2>5, <3>4, SysioTellsWell DEF TellsWell
      <3>5. CASE CbsigmaNext
        BY <2>1, <2>2, <2>5, <3>5, CbsigmaTellsWell, SimulatorTellsWell DEF TellsWell
      <3>6. QED
        BY <1>5, <3>1, <3>2, <3>3, <3>4, <3>5 DEF ProcessNext
    <2>7. AuditLinesInv'
      <3>1. CASE BacpypesNext
        BY <1>5, <2>1, <2>2, <2>5, <3>1, BacpypesTellsWell DEF threads, BacpypesNext, Bacnet4jNext,
           IsBacpypes, IsBacnet4j
      <3>2. CASE ~BacpypesNext
        <4>1. ~IsBacpypes
          BY <1>5, <3>2 DEF ProcessNext, Bacnet4jNext, WorldietyNext, CbsigmaNext, SysioNext, IsBacpypes, IsWorldiety,
                            IsCbsigma, IsSysio, IsBacnet4j
        <4>2. QED
          BY <2>3, <4>1 DEF AuditLinesInv
      <3>3. QED
        BY <3>1, <3>2
    <2>8. AcksInv'
      BY <2>1, <2>2, <2>5, <2>6, AcksKept
    <2>9. (~Simulates => OnceInv)'
      BY <2>1, <2>3, <2>5, <2>6, OnceKept
    <2>10. WrittenInv'
      <3>1. CASE CbsigmaNext
        BY <2>1, <2>5, <3>1, CbsigmaWritesTell
      <3>2. CASE ~CbsigmaNext
        <4>1. ~IsCbsigma
          BY <1>5, <3>2 DEF ProcessNext, Bacnet4jNext, WorldietyNext, BacpypesNext, SysioNext, IsBacpypes, IsWorldiety,
                            IsCbsigma, IsSysio, IsBacnet4j
        <4>2. ~IsCbsigma' /\ ~Simulates' /\ \A r : ~ToldByWrite(r)'
          BY <2>3, <4>1 DEF ToldByWrite, Simulates
        <4>3. QED
          BY <4>2 DEF WrittenInv
      <3>3. QED
        BY <3>1, <3>2
    <2>11. (\A r \in Requests : AnsweredInv(r))'
      <3>1. CASE SysioNext
        BY <2>1, <2>3, <2>5, <3>1, SysioAnswers
      <3>2. CASE ~SysioNext
        <4>1. ~IsSysio /\ UNCHANGED IsSysio
          BY <1>5, <2>1, <3>2 DEF ProcessNext, Bacnet4jNext, WorldietyNext, BacpypesNext, CbsigmaNext, IsBacpypes,
                                  IsBacnet4j, IsWorldiety, IsCbsigma, IsSysio
        <4>2. QED
          BY <4>1 DEF AnsweredInv, AnsweredFirst
      <3>3. QED
        BY <3>1, <3>2
    <2>12. QED
      BY <2>3, <2>4, <2>6, <2>7, <2>8, <2>9, <2>10, <2>11 DEF TellInv
  <1>6. QED
    BY <1>2, <1>3, <1>4, <1>5 DEF Next, ownVars, ProcessNext

LEMMA InitTell == Init => TellInv
  <1> SUFFICES ASSUME Init PROVE TellInv
    OBVIOUS
  <1> USE EmptySequence DEF Init, ProcessInit, BacpypesInit, AdapterInit
  <1>1. \A r, what : ~HasLine(r, what)
    BY DEF HasLine
  <1>2. ASSUME NEW r \in Requests PROVE HeardInv(r)
    BY <1>1 DEF HeardInv, Operation
  <1>3. PhasesInv /\ AuditLinesInv /\ AcksInv /\ OnceInv
    BY <1>1 DEF PhasesInv, AuditLinesInv, AcksInv, OnceInv
  <1>4. WrittenInv
    <2>1. \A r : LinesOf(r, "operation") = {} /\ WritesBy(r) = {}
      BY DEF LinesOf, WritesBy
    <2>2. QED
      BY <2>1 DEF WrittenInv, CarriedOut
  <1>5. ASSUME NEW r \in Requests PROVE AnsweredInv(r)
    BY <1>1 DEF AnsweredInv, Operation, Acked
  <1>6. QED
    BY <1>2, <1>3, <1>4, <1>5 DEF TellInv

\* What a test that has its answer can expect on standard output: bacpypes3 and
\* bacnet4j tell of an operation before they answer it, but for what bacnet4j receives
\* before its ready event; sysiobacnet's ReinitializeDevice and AcknowledgeAlarm are
\* answered first, and their line comes after an acknowledgement and never without
\* one; there is one line of an operation, of cbsigma's device one for each write
\* it carries out.
THEOREM LinesInOrder == Spec => []LinesAndAnswersAreInOrder
  <1>1. TypesInv /\ SimulatorInv /\ TellInv => LinesAndAnswersAreInOrder
    <2> SUFFICES ASSUME TypesInv, SimulatorInv, TellInv PROVE LinesAndAnswersAreInOrder
      OBVIOUS
    <2>1. /\ \A k \in DOMAIN sent :
                Sent(k, "ack") /\ ToldFirst(sent[k].about) => HasLine(sent[k].about, "operation")
          /\ \A r \in Requests : AnsweredFirst(r) =>
                /\ HasLine(r, "operation") => Acked(r)
                /\ Acked(r) /\ at[r] = "done" => HasLine(r, "operation")
      <3>1. \A k \in DOMAIN sent :
               Sent(k, "ack") /\ ToldFirst(sent[k].about) => HasLine(sent[k].about, "operation")
        BY DEF TellInv, AcksInv, AfterItsLine, Operation, Sent
      <3>2. ASSUME NEW r \in Requests, AnsweredFirst(r)
            PROVE  /\ HasLine(r, "operation") => Acked(r)
                   /\ Acked(r) /\ at[r] = "done" => HasLine(r, "operation")
        BY <3>2 DEF TellInv, AnsweredInv, Operation
      <3>3. QED
        BY <3>1, <3>2
    <2>2. CASE ~Simulates
      <3>1. OnceInv
            /\ \A r \in Requests : ToldByWrite(r) => Cardinality(LinesOf(r, "operation")) = Cardinality(WritesBy(r))
        BY <2>2 DEF TellInv, WrittenInv, CarriedOut
      <3>2. QED
        BY <2>1, <3>1 DEF LinesAndAnswersAreInOrder, OnceInv, Again
    <2>3. CASE Simulates
      <3>1. ListsInv /\ ReportedInv /\ log = <<>>
        BY <2>3 DEF SimulatorInv, TellInv, WrittenInv
      <3>2. ASSUME NEW m \in DOMAIN told, NEW n \in DOMAIN told, told[m] = told[n], m < n PROVE FALSE
        <4>1. PICK l, i : Held(recorded, told[m].about, l, i) /\ i <= counted[l]
          BY <3>1 DEF ReportedInv
        <4>2. \A a, b, c : Held(recorded, told[m].about, a, b) /\ Held(recorded, told[n].about, a, c) => b < c
          BY <3>1, <3>2 DEF ReportedInv
        <4>3. i < i
          BY <3>2, <4>1, <4>2
        <4>4. i \in Nat
          BY <3>1, <4>1, Indices DEF ListsInv, Held
        <4>5. QED
          BY <4>3, <4>4
      <3>3. \A m, n \in DOMAIN told : told[m] = told[n] => m = n
        <4>1. DOMAIN told \subseteq Nat
          BY Indices DEF TypesInv, HandlersInv
        <4>2. QED
          BY <3>2, <4>1
      <3>4. ASSUME NEW r \in Requests, ToldByWrite(r) PROVE LinesOf(r, "operation") = {} /\ WritesBy(r) = {}
        <4>1. ASSUME NEW n \in LinesOf(r, "operation") PROVE FALSE
          <5>1. n \in DOMAIN told /\ told[n].about = r
            BY DEF LinesOf, Line
          <5>2. PICK l, i : Held(recorded, r, l, i)
            BY <3>1, <5>1 DEF ReportedInv
          <5>3. Call(r).kind = "simulated"
            BY <3>1, <5>2 DEF ListsInv
          <5>4. QED
            BY <3>4, <5>3 DEF ToldByWrite
        <4>2. WritesBy(r) = {}
          BY <3>1, EmptySequence DEF WritesBy
        <4>3. QED
          BY <4>1, <4>2
      <3>5. QED
        BY <2>1, <3>3, <3>4 DEF LinesAndAnswersAreInOrder
    <2>4. QED
      BY <2>2, <2>3
  <1>2. LifecycleInv /\ TypesInv /\ [Next]_vars => TypesInv'
    BY TypesSteps
  <1>3. LifecycleInv /\ TypesInv /\ AboutInv /\ [Next]_vars => AboutInv'
    BY AboutSteps
  <1>4. LifecycleInv /\ TypesInv /\ AboutInv /\ PairsInv /\ [Next]_vars => PairsInv'
    BY PairsSteps
  <1>5. LifecycleInv /\ TypesInv /\ AboutInv /\ NotifyInv /\ [Next]_vars => NotifyInv'
    BY NotifySteps
  <1>6. LifecycleInv /\ TypesInv /\ SimulatorInv /\ [Next]_vars => SimulatorInv'
    BY SimulatorSteps
  <1>7. LifecycleInv /\ TypesInv /\ AboutInv /\ NotifyInv /\ PairsInv /\ TellInv /\ [Next]_vars => TellInv'
    BY TellSteps
  <1>8. QED
    BY InitTypes, InitAbout, InitPairs, InitNotify, InitSimulator, InitTell, LifecycleHolds, <1>1, <1>2, <1>3, <1>4,
       <1>5, <1>6, <1>7, PTL DEF Spec
=============================================================================
