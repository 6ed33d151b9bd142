---------------------------- MODULE ContainerProofs ----------------------------
(***************************************************************************)
(* Theorems about Container for every value of its constants: any set of      *)
(* images, any fixtures and environments, any number of looks and lines, any    *)
(* capacity of the pipe.                                                          *)
(***************************************************************************)
EXTENDS Container, SequenceTheorems, TLAPS

-----------------------------------------------------------------------------
(* How far an image that is a single process can be *)

Unbound == {"loading", "building", "binding", "half"}
Silent == Unbound \cup {"bound", "created", "hearing", "listening", "running"}
Announced == {"ready", "serving", "stopping", "closed", "announcing"}
Over == {"failed", "stopped"}

ExitCodes == 0..255

\* The operations standard output tells of after the ready event.
Counted == IF lines = <<>> THEN 0 ELSE Len(lines) - 1

Reported ==
    [about : Requests \cup {0}, what : {"operation", "unconfirmed-sent", "confirmed-sent", "acknowledged"}]

\* The ready event is written between the last silent phase and the first
\* announced one, and the program is over exactly when it has an exit code.  A
\* code of 0 comes only after the ready event.
ProcessInv ==
    /\ phase \in Silent \cup Announced \cup Over
    /\ phase \in {"binding", "half"} => IsBipRouter
    /\ exit # Running <=> phase \in Over
    /\ phase \in Silent \cup {"failed"} => lines = <<>>
    /\ phase \in Announced => lines # <<>>
    /\ ~ServesEarly => told \in Seq(Reported) /\ Len(told) = Counted

-----------------------------------------------------------------------------
(* The supervisor, its child and the pipe between them *)

BeforeChild == {"preparing", "resolving"}
Looking == {"started", "polling", "looking", "unbound"}
Passing == {"bridging", "waiting"}

Entries == [kind : {"operation", "chatter", "unreadable"}, number : Nat]

\* The number of the last operation before the k-th entry of the pipe.
NumberBefore(k) == IF k = 1 THEN Counted ELSE pipe[k - 1].number

\* And before whatever comes next.
LastNumber == IF pipe = <<>> THEN Counted ELSE pipe[Len(pipe)].number

\* The pipe holds exactly the operations between the last line that was passed on
\* and the last one performed, each with its number.
PipeInv ==
    /\ pipe \in Seq(Entries) /\ performed \in Nat
    /\ \A k \in 1..Len(pipe) :
          /\ pipe[k].number = NumberBefore(k) + (IF pipe[k].kind = "operation" THEN 1 ELSE 0)
          /\ pipe[k].number <= performed
    /\ performed = LastNumber

SupervisorInv ==
    /\ stage \in BeforeChild \cup Looking \cup Passing \cup {"ended"}
    /\ exit # Running <=> stage = "ended"
    /\ child \in {"absent", "starting", "serving", "dead"}
    /\ code \in {0, 1, 2, -11, -15} /\ sockets \in 0..Needed
    /\ stage \in BeforeChild => child = "absent"
    /\ stage \in Looking \cup Passing => child # "absent"
    /\ child \in {"absent", "starting"} => sockets < Needed
    /\ child = "serving" => sockets = Needed
    /\ stage \in BeforeChild => (stage = "resolving" <=> IsRouter)
    /\ stage \in Looking \cup Passing /\ IsRouter => Len(ports) = 2
    /\ stage \in BeforeChild \cup Looking => lines = <<>>
    /\ stage \in Passing => lines # <<>>

\* Nothing but the child has the port: see Seen.
PortIsItsOwn ==
    /\ "bacnet-stack" \in Adapters => Others = {}
    /\ "bacnet-stack-router" \in Adapters => "local" \notin Others

-----------------------------------------------------------------------------
LifecycleInv ==
    /\ adapter \in Adapters
    /\ lines \in Seq(Nat) /\ exit \in ExitCodes \cup {Running}
    /\ lines = <<>> => exit # 0
    /\ ~Supervised => ProcessInv
    /\ Supervised => SupervisorInv /\ PipeInv

\* What a ready event of a supervised image says: it does not follow without
\* PortIsItsOwn.
ReadyIsBound == Supervised /\ lines # <<>> => sockets = Needed

-----------------------------------------------------------------------------
(* Lemmas *)

\* What the outside sees of the exit codes the programs end with.
LEMMA ExitStatuses ==
    \A c \in {0, 1, 2, 143, -11, -15} :
        /\ ExitStatus(c) \in ExitCodes /\ ExitStatus(c) # Running
        /\ c # 0 => ExitStatus(c) # 0
  BY DEF ExitStatus, ExitCodes, Running

\* An operation line adds one to what has been counted.
LEMMA EmitCounts ==
    ASSUME lines \in Seq(Nat)
    PROVE  /\ Counted \in Nat
           /\ EmitReady => lines' \in Seq(Nat) /\ lines' # <<>> /\ Counted' = 0
           /\ lines # <<>> /\ EmitOperation =>
                  lines' \in Seq(Nat) /\ lines' # <<>> /\ Counted' = Counted + 1
  <1>1. Counted \in Nat
    BY DEF Counted
  <1>2. ASSUME EmitReady PROVE lines' \in Seq(Nat) /\ lines' # <<>> /\ Counted' = 0
    <2>1. <<0>> \in Seq(Nat) /\ <<0>> # <<>> /\ Len(<<0>>) = 1
      OBVIOUS
    <2>2. lines' = <<0>>
      BY <1>2 DEF EmitReady, Ready
    <2>3. QED
      BY <2>1, <2>2 DEF Counted
  <1>3. ASSUME lines # <<>>, EmitOperation
        PROVE  lines' \in Seq(Nat) /\ lines' # <<>> /\ Counted' = Counted + 1
    <2>1. Len(lines) \in Nat \ {0}
      BY <1>3, EmptySeq
    <2>2. /\ Append(lines, Len(lines)) \in Seq(Nat) /\ Append(lines, Len(lines)) # <<>>
          /\ Len(Append(lines, Len(lines))) = Len(lines) + 1
      BY <2>1, AppendProperties
    <2>3. lines' = Append(lines, Len(lines))
      BY <1>3 DEF EmitOperation
    <2>4. QED
      BY <1>3, <2>1, <2>2, <2>3 DEF Counted
  <1>4. QED
    BY <1>1, <1>2, <1>3

-----------------------------------------------------------------------------
(* The contract, move by move *)

\* Nothing the contract speaks of changes, or only Bound becomes true; the ready
\* event or an operation line is written once the sockets are bound; or the
\* container ends.
Keeps ==
    /\ UNCHANGED <<adapter, config>>
    /\ \/ UNCHANGED <<lines, exit>> /\ (Bound => Bound')
       \/ /\ UNCHANGED exit /\ Bound /\ Bound'
          /\ (lines = <<>> /\ EmitReady) \/ (lines # <<>> /\ EmitOperation)
       \/ UNCHANGED lines /\ (Bound <=> Bound') /\ exit' \in ExitCodes

LEMMA InitLifecycle == Init => LifecycleInv
  <1> SUFFICES ASSUME Init PROVE LifecycleInv
    OBVIOUS
  <1> USE DEF Init, AdapterInit, NetworkInit, ProcessInit, SupervisorInit
  <1>1. ~Supervised => ProcessInv
    BY DEF ProcessInv, Silent, Unbound, Announced, Over, Running, Counted
  <1>2. Supervised => SupervisorInv
    BY DEF SupervisorInv, BeforeChild, Looking, Passing, Running, Needed
  <1>3. Supervised => PipeInv
    BY DEF PipeInv, NumberBefore, LastNumber, Counted
  <1>4. QED
    BY <1>1, <1>2, <1>3 DEF LifecycleInv, ExitCodes, Running

LEMMA InitContract == Init => Contract!Init
  BY DEF Init, AdapterInit, ProcessInit, SupervisorInit, Contract!Init, Contract!Running, Running,
         Bound, Operations, Needed

\* A program that is over has an exit code, so its further steps are none.
LEMMA KeepsContract ==
    ASSUME LifecycleInv, LifecycleInv', ~Supervised, exit = Running, Keeps
    PROVE  [Contract!Next]_Contract!vars
  <1>2. ~Supervised' /\ (ServesEarly <=> ServesEarly')
    BY DEF Keeps, Supervised, ServesEarly, IsBacnet4j, IsCbsigma, IsSysio
  <1>3. Operations = Counted /\ Operations' = Counted'
    BY <1>2 DEF LifecycleInv, ProcessInv, Operations, Counted
  <1>4. lines \in Seq(Nat) /\ Counted \in Nat
    BY EmitCounts DEF LifecycleInv
  <1>5. CASE UNCHANGED <<lines, exit>> /\ (Bound => Bound')
    <2>1. Operations' = Operations
      BY <1>3, <1>5 DEF Counted
    <2>2. CASE Bound' = Bound
      BY <1>5, <2>1, <2>2 DEF Contract!vars
    <2>3. CASE ~Bound /\ Bound'
      BY <1>5, <2>1, <2>3 DEF Contract!vars, Contract!Next, Contract!Bind, Contract!Running, Running
    <2>4. QED
      BY <1>5, <2>2, <2>3 DEF Bound
  <1>6. CASE UNCHANGED exit /\ Bound /\ Bound' /\ lines = <<>> /\ EmitReady
    <2>1. Counted = 0 /\ Counted' = 0
      BY <1>4, <1>6, EmitCounts DEF Counted
    <2>2. Contract!WriteReady
      BY <1>3, <1>6, <2>1 DEF Contract!WriteReady, Contract!Ready, EmitReady, Ready
    <2>3. QED
      BY <2>2 DEF Contract!Next, Contract!Running, Running
  <1>7. CASE UNCHANGED exit /\ Bound /\ Bound' /\ lines # <<>> /\ EmitOperation
    <2>1. Counted' = Counted + 1 /\ Len(lines) = Counted + 1
      BY <1>4, <1>7, EmitCounts DEF Counted
    <2>2. Contract!PerformAndWrite
      BY <1>3, <1>7, <2>1 DEF Contract!PerformAndWrite, EmitOperation
    <2>3. QED
      BY <2>2 DEF Contract!Next, Contract!Running, Running
  <1>8. CASE UNCHANGED lines /\ (Bound <=> Bound') /\ exit' \in ExitCodes
    <2>1. Operations' = Operations
      BY <1>3, <1>8 DEF Counted
    <2>2. Bound' = Bound
      BY <1>8 DEF Bound
    <2>3. Contract!Stop
      BY <1>8, <2>1, <2>2 DEF Contract!Stop, ExitCodes
    <2>4. QED
      BY <2>3 DEF Contract!Next, Contract!Running, Running
  <1>9. QED
    BY <1>5, <1>6, <1>7, <1>8 DEF Keeps

-----------------------------------------------------------------------------
(* The steps of a program, by what they do to its phase and its output *)

\* A step of a program that is not over, after which the invariant holds again.
Lives == exit = Running /\ LifecycleInv' /\ Keeps

\* A handler that writes no line.
LEMMA HandlerLives ==
    ASSUME LifecycleInv, ~Supervised, phase \notin Over, UNCHANGED <<shared, phase, told>>
    PROVE  Lives
  <1>1. UNCHANGED <<Supervised, ServesEarly, IsBipRouter, Reported, Counted, Bound>>
    BY DEF Supervised, ServesEarly, IsBacnet4j, IsCbsigma, IsSysio, IsBipRouter, Reported, Requests,
           IsProcess, Call, Counted, Bound, shared
  <1>2. ProcessInv'
    BY <1>1 DEF LifecycleInv, ProcessInv, shared
  <1>3. QED
    BY <1>1, <1>2 DEF LifecycleInv, ProcessInv, Lives, Keeps, shared

\* The program goes on, without a line.
LEMMA AdvanceLives ==
    ASSUME LifecycleInv, ~Supervised, UNCHANGED <<adapter, config, lines, exit, told>>,
           \/ phase \in Silent /\ phase' \in Silent
           \/ phase \in Announced /\ phase' \in Announced,
           phase' \in Unbound => phase \in Unbound,
           phase' \in {"binding", "half"} => IsBipRouter
    PROVE  Lives
  <1>1. UNCHANGED <<Supervised, ServesEarly, IsBipRouter, Reported, Counted>>
    BY DEF Supervised, ServesEarly, IsBacnet4j, IsCbsigma, IsSysio, IsBipRouter, Reported, Requests,
           IsProcess, Counted
  <1>2. ProcessInv' /\ exit = Running
    BY <1>1 DEF LifecycleInv, ProcessInv, Silent, Announced, Unbound, Over
  <1>3. Bound => Bound'
    BY <1>1 DEF Bound, Silent, Announced, Unbound
  <1>4. QED
    BY <1>1, <1>2, <1>3 DEF LifecycleInv, Lives, Keeps

\* The ready event.
LEMMA AnnounceLives ==
    ASSUME LifecycleInv, ~Supervised, UNCHANGED <<adapter, config, exit, told>>, EmitReady,
           phase \in Silent \ Unbound, phase' \in Announced
    PROVE  Lives
  <1>1. UNCHANGED <<Supervised, ServesEarly, IsBipRouter, Reported>>
    BY DEF Supervised, ServesEarly, IsBacnet4j, IsCbsigma, IsSysio, IsBipRouter, Reported, Requests, IsProcess
  <1>2. lines = <<>> /\ lines' \in Seq(Nat) /\ lines' # <<>> /\ Counted' = Counted
    BY EmitCounts DEF LifecycleInv, ProcessInv, Counted
  <1>3. ProcessInv' /\ exit = Running
    BY <1>1, <1>2 DEF LifecycleInv, ProcessInv, Silent, Announced, Unbound, Over
  <1>4. Bound /\ Bound'
    BY <1>1 DEF Bound, Silent, Announced, Unbound
  <1>5. QED
    BY <1>1, <1>2, <1>3, <1>4 DEF LifecycleInv, Lives, Keeps

\* An operation line after the ready event, told or not as ServesEarly has it.
LEMMA OperationLives ==
    ASSUME LifecycleInv, ~Supervised, UNCHANGED <<adapter, config, exit, phase>>,
           phase \in Announced, EmitOperation,
           ~ServesEarly => \E line \in Reported : told' = Append(told, line)
    PROVE  Lives
  <1>1. UNCHANGED <<Supervised, ServesEarly, IsBipRouter, Reported>>
    BY DEF Supervised, ServesEarly, IsBacnet4j, IsCbsigma, IsSysio, IsBipRouter, Reported, Requests, IsProcess
  <1>2. lines # <<>> /\ lines' \in Seq(Nat) /\ lines' # <<>> /\ Counted' = Counted + 1 /\ Counted \in Nat
    BY EmitCounts DEF LifecycleInv, ProcessInv
  <1>3. ~ServesEarly => told' \in Seq(Reported) /\ Len(told') = Len(told) + 1
    <2> SUFFICES ASSUME ~ServesEarly PROVE told' \in Seq(Reported) /\ Len(told') = Len(told) + 1
      OBVIOUS
    <2>1. told \in Seq(Reported)
      BY DEF LifecycleInv, ProcessInv
    <2>2. PICK line \in Reported : told' = Append(told, line)
      OBVIOUS
    <2>3. QED
      BY <2>1, <2>2, AppendProperties
  <1>4. ProcessInv' /\ exit = Running
    <2>1. ProcessInv
      BY DEF LifecycleInv
    <2>2. phase \notin Silent \cup Over
      BY DEF Silent, Announced, Unbound, Over
    <2>3. exit = Running
      BY <2>1, <2>2 DEF ProcessInv
    <2>4. ~ServesEarly' => told' \in Seq(Reported') /\ Len(told') = Counted'
      BY <1>1, <1>2, <1>3, <2>1 DEF ProcessInv
    <2>5. QED
      BY <1>1, <1>2, <2>1, <2>2, <2>3, <2>4 DEF ProcessInv
  <1>5. Bound /\ Bound'
    BY <1>1 DEF Bound, Announced
  <1>6. QED
    BY <1>1, <1>2, <1>4, <1>5 DEF LifecycleInv, Lives, Keeps

\* The same in a program that may tell of an operation before its ready event.
LEMMA ReportsLives ==
    ASSUME LifecycleInv, ~Supervised, UNCHANGED <<adapter, config, exit, served, phase>>, ServesEarly,
           phase \notin Over, NEW about, NEW what, Reports(about, what)
    PROVE  Lives
  <1>1. CASE lines = <<>>
    <2>1. UNCHANGED <<lines, Supervised, ServesEarly, IsBipRouter, Counted, Bound>>
      BY <1>1 DEF Reports, Supervised, ServesEarly, IsBacnet4j, IsCbsigma, IsSysio, IsBipRouter, Counted, Bound
    <2>2. ProcessInv' /\ exit = Running
      BY <2>1 DEF LifecycleInv, ProcessInv
    <2>3. QED
      BY <2>1, <2>2 DEF LifecycleInv, Lives, Keeps
  <1>2. CASE lines # <<>>
    <2>1. EmitOperation /\ phase \in Announced
      BY <1>2 DEF Reports, LifecycleInv, ProcessInv, Over
    <2>2. QED
      BY <2>1, OperationLives
  <1>3. QED
    BY <1>1, <1>2

\* The program ends, and with 0 only once it was ready.
LEMMA EndLives ==
    ASSUME LifecycleInv, ~Supervised, UNCHANGED <<adapter, config, lines, told>>,
           phase \notin Over, phase' = (IF phase \in Unbound THEN "failed" ELSE "stopped"),
           NEW c \in {0, 1, 2, 143}, Exit(c), c = 0 => phase \in Announced
    PROVE  Lives
  <1>1. UNCHANGED <<Supervised, ServesEarly, IsBipRouter, Reported, Counted>>
    BY DEF Supervised, ServesEarly, IsBacnet4j, IsCbsigma, IsSysio, IsBipRouter, Reported, Requests,
           IsProcess, Counted
  <1>2. exit' \in ExitCodes /\ exit' # Running /\ (c # 0 => exit' # 0)
    BY ExitStatuses DEF Exit
  <1>3. ProcessInv' /\ exit = Running /\ (lines' = <<>> => exit' # 0)
    BY <1>1, <1>2 DEF LifecycleInv, ProcessInv, Silent, Announced, Unbound, Over
  <1>4. Bound <=> Bound'
    BY <1>1 DEF LifecycleInv, ProcessInv, Bound, Silent, Announced, Unbound, Over
  <1>5. QED
    BY <1>1, <1>2, <1>3, <1>4 DEF LifecycleInv, Lives, Keeps

-----------------------------------------------------------------------------
(* The steps the programs share *)

LEMMA LoadsLives ==
    ASSUME LifecycleInv, ~Supervised, NEW loadable, LoadsIf(loadable)
    PROVE  Lives
  <1>1. CASE loadable
    BY <1>1, AdvanceLives DEF LoadsIf, handlers, Silent, Unbound
  <1>2. CASE ~loadable
    BY <1>2, EndLives DEF LoadsIf, handlers, Unbound, Over
  <1>3. QED
    BY <1>1, <1>2

LEMMA BindsLives ==
    ASSUME LifecycleInv, ~Supervised, NEW objects, Binds(objects)
    PROVE  Lives
  <1>1. CASE phase' = "bound"
    BY <1>1, AdvanceLives DEF Binds, handlers, Silent, Unbound
  <1>2. CASE phase' = "failed"
    BY <1>2, EndLives DEF Binds, handlers, Unbound, Over
  <1>3. QED
    BY <1>1, <1>2 DEF Binds

LEMMA ArrivesLives ==
    ASSUME LifecycleInv, ~Supervised, phase \notin Over, NEW r, Arrives(r)
    PROVE  Lives
  BY HandlerLives DEF Arrives

LEMMA WriteStepsLive ==
    ASSUME LifecycleInv, ~Supervised, phase \notin Over, NEW r, NEW named,
           CarryOut(r) \/ Refuse(r, named) \/ Acknowledge(r)
    PROVE  Lives
  BY HandlerLives DEF CarryOut, Refuse, Acknowledge

-----------------------------------------------------------------------------
(* Each image in turn *)

LEMMA WorldietyLives ==
    ASSUME LifecycleInv, WorldietyNext
    PROVE  Lives
  <1>1. ~Supervised /\ IsWorldiety
    BY DEF WorldietyNext, IsWorldiety, Supervised
  <1>2. CASE LoadFile
    BY <1>1, <1>2, LoadsLives DEF LoadFile
  <1>3. CASE NewClientRuntime
    BY <1>1, <1>3, BindsLives DEF NewClientRuntime
  <1>4. CASE RegisterAndRun
    BY <1>1, <1>4, AdvanceLives DEF RegisterAndRun, Advances, shared, handlers, Silent, Unbound
  <1>5. CASE EmitReadyLine
    BY <1>1, <1>5, AnnounceLives DEF EmitReadyLine, Announces, handlers, Silent, Unbound, Announced
  <1>6. CASE Select \/ RunFails
    BY <1>1, <1>6, EndLives DEF Select, RunFails, Returns, handlers, Unbound, Over, Announced
  <1>7. CASE Interrupted
    <2>1. CASE Advances("serving", "stopping")
      BY <1>1, <2>1, AdvanceLives DEF Advances, shared, handlers, Announced, Unbound
    <2>2. CASE /\ phase \in {"loading", "building", "bound"}
               /\ phase' = (IF phase = "bound" THEN "stopped" ELSE "failed") /\ Exit(2)
               /\ UNCHANGED <<adapter, config, lines, served, handlers>>
      BY <1>1, <2>2, EndLives DEF handlers, Unbound, Over
    <2>3. QED
      BY <1>7, <2>1, <2>2 DEF Interrupted
  <1>8. CASE RunsHandlers
    <2>1. phase \notin Over
      BY <1>8 DEF RunsHandlers, RuntimeRuns, Over
    <2>2. PICK r \in Requests : HandleWrites(r) \/ HandleWhoIs(r) \/ HandleRead(r)
      BY <1>8 DEF RunsHandlers
    <2>3. CASE HandleWrites(r)
      BY <1>1, <2>1, <2>3, WriteStepsLive DEF HandleWrites
    <2>4. CASE HandleWhoIs(r) \/ HandleRead(r)
      BY <1>1, <2>1, <2>4, HandlerLives DEF HandleWhoIs, HandleRead
    <2>5. QED
      BY <2>2, <2>3, <2>4
  <1>9. CASE Dispatches
    BY <1>1, <1>9, ArrivesLives DEF Dispatches, Over
  <1>10. QED
    BY <1>2, <1>3, <1>4, <1>5, <1>6, <1>7, <1>8, <1>9 DEF WorldietyNext, Run

LEMMA CbsigmaLives ==
    ASSUME LifecycleInv, CbsigmaNext
    PROVE  Lives
  <1>1. ~Supervised /\ IsCbsigma /\ ServesEarly
    BY DEF CbsigmaNext, IsCbsigma, Supervised, ServesEarly
  <1>2. CASE LoadCbsigma
    BY <1>1, <1>2, LoadsLives DEF LoadCbsigma
  <1>3. CASE Serve
    BY <1>1, <1>3, BindsLives DEF Serve
  <1>4. CASE EmitCbsigmaReady
    BY <1>1, <1>4, AnnounceLives DEF EmitCbsigmaReady, Announces, handlers, Silent, Unbound, Announced
  <1>5. CASE Notify
    BY <1>1, <1>5, AdvanceLives DEF Notify, Advances, shared, handlers, Announced, Unbound
  <1>6. CASE StopCbsigma
    BY <1>1, <1>6, EndLives DEF StopCbsigma, handlers, Unbound, Over, Announced
  <1>7. CASE CbsigmaSignalled
    <2>1. CASE Advances("serving", "stopping")
      BY <1>1, <2>1, AdvanceLives DEF Advances, shared, handlers, Announced, Unbound
    <2>2. CASE /\ phase \in {"loading", "building", "bound", "ready"}
               /\ phase' = (IF phase \in {"bound", "ready"} THEN "stopped" ELSE "failed") /\ Exit(2)
               /\ UNCHANGED <<adapter, config, lines, served, handlers>>
      BY <1>1, <2>2, EndLives DEF handlers, Unbound, Over
    <2>3. QED
      BY <1>7, <2>1, <2>2 DEF CbsigmaSignalled
  <1>8. CASE ReportSim
    <2>1. phase \notin Over
      BY <1>8 DEF ReportSim, ReporterRuns, Over
    <2>2. CASE LookAtLists
      BY <1>1, <2>1, <2>2, HandlerLives DEF LookAtLists, processVars, handlers
    <2>3. CASE ReportNext
      BY <1>1, <2>1, <2>3, ReportsLives, HandlerLives DEF ReportNext, shared
    <2>4. QED
      BY <1>8, <2>2, <2>3 DEF ReportSim
  <1>9. CASE UpstreamRuns
    <2>1. phase \notin Over
      BY <1>9 DEF UpstreamRuns, CbsigmaServes, Over
    <2>2. PICK r \in Requests : WriteProperty(r) \/ Simulate(r)
      BY <1>9 DEF UpstreamRuns
    <2>3. CASE Simulate(r)
      BY <1>1, <2>1, <2>3, HandlerLives DEF Simulate
    <2>4. CASE WriteProperty(r)
      <3>1. CASE Refuse(r, {}) \/ Acknowledge(r)
        BY <1>1, <2>1, <3>1, WriteStepsLive
      <3>2. CASE Reports(r, "operation") /\ UNCHANGED <<adapter, config, exit, served, phase>>
        BY <1>1, <2>1, <3>2, ReportsLives
      <3>3. QED
        BY <2>4, <3>1, <3>2 DEF WriteProperty
    <2>5. QED
      BY <2>2, <2>3, <2>4
  <1>10. CASE CbsigmaReceives
    BY <1>1, <1>10, ArrivesLives DEF CbsigmaReceives, CbsigmaServes, Over
  <1>11. QED
    BY <1>2, <1>3, <1>4, <1>5, <1>6, <1>7, <1>8, <1>9, <1>10 DEF CbsigmaNext, CbsigmaMain

LEMMA SysioLives ==
    ASSUME LifecycleInv, SysioNext
    PROVE  Lives
  <1>1. ~Supervised /\ IsSysio /\ ServesEarly
    BY DEF SysioNext, IsSysio, Supervised, ServesEarly
  <1>2. CASE ReadSettings
    BY <1>1, <1>2, LoadsLives DEF ReadSettings
  <1>3. CASE StartServer
    BY <1>1, <1>3, BindsLives DEF StartServer
  <1>4. CASE EmitSysioReady
    BY <1>1, <1>4, AnnounceLives DEF EmitSysioReady, Announces, handlers, Silent, Unbound, Announced
  <1>5. CASE RegisterSignals \/ DisposeServer
    BY <1>1, <1>5, AdvanceLives DEF RegisterSignals, DisposeServer, Advances, shared, handlers, Announced, Unbound
  <1>6. CASE ReturnFromMain
    BY <1>1, <1>6, EndLives DEF ReturnFromMain, handlers, Unbound, Over, Announced
  <1>7. CASE SysioSignalled
    <2>1. CASE Advances("serving", "stopping")
      BY <1>1, <2>1, AdvanceLives DEF Advances, shared, handlers, Announced, Unbound
    <2>2. CASE /\ phase \in {"loading", "building", "bound", "ready"}
               /\ phase' = (IF phase \in {"bound", "ready"} THEN "stopped" ELSE "failed") /\ Exit(143)
               /\ UNCHANGED <<adapter, config, lines, served, handlers, server>>
      BY <1>1, <2>2, EndLives DEF handlers, Unbound, Over
    <2>3. QED
      BY <1>7, <2>1, <2>2 DEF SysioSignalled
  <1>8. CASE SysioHandlers
    <2>1. phase \notin Over
      BY <1>8 DEF SysioHandlers, SysioServes, Over
    <2>2. PICK r \in Requests : Handles(r)
      BY <1>8 DEF SysioHandlers
    <2>3. CASE TakeGate(r) \/ SubscribeCov(r) \/ ReadAndEmit(r)
      BY <1>1, <2>1, <2>3, HandlerLives DEF TakeGate, SubscribeCov, ReadAndEmit, processVars, handlers
    <2>4. CASE HandleWrite(r)
      BY <1>1, <2>1, <2>4, WriteStepsLive, HandlerLives DEF HandleWrite, WriteStored, WriteThrows, AnswerWrites
    <2>5. CASE SysioTells(r)
      BY <1>1, <2>1, <2>5, HandlerLives, ReportsLives DEF SysioTells
    <2>6. CASE AcknowledgeAlarm(r)
      BY <1>1, <2>1, <2>6, HandlerLives, ReportsLives DEF AcknowledgeAlarm
    <2>7. QED
      BY <2>2, <2>3, <2>4, <2>5, <2>6 DEF Handles
  <1>9. CASE SysioNotifier
    BY <1>1, <1>9, HandlerLives DEF SysioNotifier, NotifyNext, SysioServes, Over
  <1>10. CASE SysioReceives
    BY <1>1, <1>10, ArrivesLives DEF SysioReceives, SysioServes, Over
  <1>11. QED
    BY <1>2, <1>3, <1>4, <1>5, <1>6, <1>7, <1>8, <1>9, <1>10 DEF SysioNext, SysioMain

LEMMA RouterLives ==
    ASSUME LifecycleInv, RouterNext
    PROVE  Lives
  <1>1. ~Supervised /\ IsBipRouter
    BY DEF RouterNext, IsBipRouter, Supervised
  <1>2. CASE FindAddresses \/ InstallRouterHandlers
    BY <1>1, <1>2, AdvanceLives DEF FindAddresses, InstallRouterHandlers, Advances, shared, handlers, Silent, Unbound
  <1>3. CASE FindNone
    BY <1>1, <1>3, EndLives DEF FindNone, handlers, Unbound, Over
  <1>4. CASE BindPorts
    <2>1. CASE phase \in {"binding", "half"} /\ phase' = "failed" /\ Exit(1)
      BY <1>1, <1>4, <2>1, EndLives DEF BindPorts, BindsPort, handlers, Unbound, Over
    <2>2. CASE phase \in {"binding", "half"} /\ phase' \in {"half", "bound"} /\ UNCHANGED exit
      BY <1>1, <1>4, <2>2, AdvanceLives DEF BindPorts, BindsPort, handlers, Silent, Unbound
    <2>3. QED
      BY <1>4, <2>1, <2>2 DEF BindPorts, BindsPort
  <1>5. CASE EmitRouterReady
    BY <1>1, <1>5, AnnounceLives DEF EmitRouterReady, Announces, handlers, Silent, Unbound, Announced
  <1>6. CASE AnnounceRouters
    BY <1>1, <1>6, AdvanceLives, EndLives
       DEF AnnounceRouters, Advances, Quits, shared, handlers, Announced, Silent, Unbound, Over
  <1>7. CASE Leave
    BY <1>1, <1>7, EndLives DEF Leave, Quits, handlers, Announced, Unbound, Over
  <1>8. CASE StopRouter
    BY <1>1, <1>8, HandlerLives DEF StopRouter, processVars, handlers, Over
  <1>9. ASSUME NEW n \in {1, 2}, ConnectRouter(n) PROVE Lives
    BY <1>1, <1>9, HandlerLives DEF ConnectRouter, processVars, handlers, Over
  <1>10. QED
    BY <1>2, <1>3, <1>4, <1>5, <1>6, <1>7, <1>8, <1>9 DEF RouterNext, RouterMain

LEMMA BacpypesLives ==
    ASSUME LifecycleInv, BacpypesNext
    PROVE  Lives
  <1>1. ~Supervised /\ IsBacpypes /\ ~ServesEarly /\ IsProcess
    BY DEF BacpypesNext, IsBacpypes, Supervised, ServesEarly, IsBacnet4j, IsCbsigma, IsSysio, IsProcess, Processes
  <1>2. CASE Load
    BY <1>1, <1>2, LoadsLives DEF Load
  <1>3. CASE Build
    BY <1>1, <1>3, BindsLives DEF Build
  <1>4. CASE Announce
    BY <1>1, <1>4, AnnounceLives DEF Announce, Announces, handlers, Silent, Unbound, Announced
  <1>5. CASE Listen \/ HearSignal
    BY <1>1, <1>5, AdvanceLives DEF Listen, HearSignal, Advances, shared, handlers, Announced, Unbound
  <1>6. CASE Close
    BY <1>1, <1>6, EndLives DEF Close, Unbound, Over, Announced
  <1>7. ASSUME LoopRuns, UNCHANGED <<adapter, config, exit, served, phase>>, EmitOperation,
               NEW line \in Reported, told' = Append(told, line)
        PROVE  Lives
    BY <1>1, <1>7, OperationLives DEF LoopRuns, Announced
  <1>8. CASE EventLoop /\ EmitAudit
    <2>1. LoopRuns /\ phase \notin Over
      BY <1>8 DEF EventLoop, LoopRuns, Over
    <2>2. AuditEmitted \in Reported /\ AuditAcknowledged \in Reported
      BY DEF AuditEmitted, AuditAcknowledged, Line, Reported
    <2>3. CASE SendUnconfirmedAudit
      BY <1>1, <2>1, <2>3, HandlerLives DEF SendUnconfirmedAudit
    <2>4. CASE SendConfirmedAudit
      BY <1>7, <2>1, <2>2, <2>4 DEF SendConfirmedAudit
    <2>5. ASSUME NEW outcome \in {"answer", "exception"}, AuditAnswered(outcome) PROVE Lives
      <3>1. CASE outcome = "answer"
        BY <1>7, <2>1, <2>2, <2>5, <3>1 DEF AuditAnswered
      <3>2. CASE outcome # "answer"
        BY <1>1, <2>1, <2>5, <3>2, HandlerLives DEF AuditAnswered, shared
      <3>3. QED
        BY <3>1, <3>2
    <2>6. QED
      BY <1>8, <2>3, <2>4, <2>5 DEF EmitAudit
  <1>9. ASSUME EventLoop, NEW r \in Requests, Handle(r) PROVE Lives
    <2>1. LoopRuns /\ phase \notin Over
      BY <1>9 DEF EventLoop, LoopRuns, Over
    <2>2. CASE Tell(r)
      <3>1. Line(r, "operation") \in Reported
        BY DEF Line, Reported
      <3>2. QED
        BY <1>7, <2>1, <2>2, <3>1 DEF Tell
    <2>3. CASE Respond(r) \/ Read(r) \/ AfterRead(r) \/ EmitEvent(r)
      BY <1>1, <2>1, <2>3, HandlerLives DEF Respond, Read, AfterRead, EmitEvent
    <2>4. CASE WriteMultiple(r)
      BY <1>1, <2>1, <2>4, WriteStepsLive DEF WriteMultiple
    <2>5. QED
      BY <1>9, <2>2, <2>3, <2>4 DEF Handle
  <1>10. ASSUME NEW r \in Requests, Arrive(r) PROVE Lives
    BY <1>1, <1>10, ArrivesLives DEF Arrive, Over
  <1>11. QED
    BY <1>2, <1>3, <1>4, <1>5, <1>6, <1>8, <1>9, <1>10 DEF BacpypesNext, Program, EventLoop

LEMMA Bacnet4jLives ==
    ASSUME LifecycleInv, Bacnet4jNext
    PROVE  Lives
  <1>1. ~Supervised /\ IsBacnet4j /\ ServesEarly
    BY DEF Bacnet4jNext, IsBacnet4j, Supervised, ServesEarly
  <1>2. CASE ReadFixture
    BY <1>1, <1>2, LoadsLives DEF ReadFixture
  <1>3. CASE Initialize
    BY <1>1, <1>3, BindsLives DEF Initialize
  <1>4. CASE CreateDeferred \/ HearServices \/ HearReads
    BY <1>1, <1>4, AdvanceLives
       DEF CreateDeferred, HearServices, HearReads, Advances, shared, handlers, Silent, Unbound
  <1>5. CASE EmitReadyEvent
    BY <1>1, <1>5, AnnounceLives DEF EmitReadyEvent, Announces, handlers, Silent, Unbound, Announced
  <1>6. CASE HookEnds
    BY <1>1, <1>6, EndLives DEF HookEnds, handlers, Unbound, Over
  <1>7. CASE Signalled
    <2>1. CASE phase = "serving"
      BY <1>1, <1>7, <2>1, AdvanceLives DEF Signalled, handlers, Announced, Unbound
    <2>2. CASE phase # "serving"
      <3>1. phase \notin {"binding", "half"}
        BY <1>1 DEF LifecycleInv, ProcessInv, IsBipRouter, IsBacnet4j
      <3>2. phase' = (IF phase \in Unbound THEN "failed" ELSE "stopped")
        BY <1>7, <2>2, <3>1 DEF Signalled, Unbound
      <3>3. QED
        BY <1>1, <1>7, <2>2, <3>2, EndLives DEF Signalled, handlers, Over
    <2>3. QED
      BY <2>1, <2>2
  <1>8. CASE Transport
    <2>1. phase \notin Over
      BY <1>8 DEF Transport, Online, Over
    <2>2. CASE CallFirstListener
      <3>1. CASE Reports(thread, "operation")
        BY <1>1, <2>1, <2>2, <3>1, ReportsLives DEF CallFirstListener
      <3>2. CASE UNCHANGED <<lines, told>>
        BY <1>1, <2>1, <2>2, <3>2, HandlerLives DEF CallFirstListener, shared
      <3>3. QED
        BY <2>2, <3>1, <3>2 DEF CallFirstListener
    <2>3. CASE CallSecondListener \/ Conclude \/ Depart
      BY <1>1, <2>1, <2>3, HandlerLives DEF CallSecondListener, Conclude, Depart
    <2>4. ASSUME NEW r \in Requests, HearConfirmation(r) PROVE Lives
      BY <1>1, <2>1, <2>4, ReportsLives DEF HearConfirmation
    <2>5. QED
      BY <1>8, <2>2, <2>3, <2>4 DEF Transport
  <1>9. CASE Senders
    <2>1. phase \notin Over
      BY <1>9 DEF Senders, Online, Over
    <2>2. PICK r \in Requests : Sender(r)
      BY <1>9 DEF Senders
    <2>3. ASSUME NEW from, NEW to, NEW what, Tells(r, from, to, what) PROVE Lives
      BY <1>1, <2>1, <2>3, ReportsLives DEF Tells
    <2>4. ASSUME NEW from, NEW to, NEW kind, Sends(r, from, to, kind) PROVE Lives
      BY <1>1, <2>1, <2>4, HandlerLives DEF Sends, processVars, handlers
    <2>5. QED
      BY <2>2, <2>3, <2>4 DEF Sender
  <1>10. ASSUME phase # "stopping", NEW r \in Requests, Receive(r) PROVE Lives
    BY <1>1, <1>10, ArrivesLives DEF Receive, Online, Over
  <1>11. QED
    BY <1>2, <1>3, <1>4, <1>5, <1>6, <1>7, <1>8, <1>9, <1>10 DEF Bacnet4jNext, Main

-----------------------------------------------------------------------------
(* The two supervised images *)

LEMMA EndsCodes ==
    ASSUME NEW c \in {0, 1, 2, -11, -15}, Ends(c)
    PROVE  stage' = "ended" /\ exit' \in ExitCodes /\ exit' # Running /\ (c # 0 => exit' # 0)
  BY ExitStatuses DEF Ends, Exit

\* Where the supervisor, its child and the sockets stand after each step.
LEMMA SupervisorSteps ==
    ASSUME LifecycleInv, SupervisorNext
    PROVE  SupervisorInv' /\ UNCHANGED <<adapter, config>> /\ exit' \in ExitCodes \cup {Running}
  <1> USE DEF SupervisorNext, Runs, LifecycleInv, SupervisorInv, BeforeChild, Looking, Passing, shared,
              network, process, output, Needed
  <1>1. CASE Prepare
    <2>1. CASE Ends(1)
      BY <1>1, <2>1, EndsCodes DEF Prepare, IsRouter
    <2>2. CASE StartChild /\ UNCHANGED exit
      BY <1>1, <2>2 DEF Prepare, StartChild, IsRouter
    <2>3. QED
      BY <1>1, <2>1, <2>2 DEF Prepare
  <1>2. CASE Resolve
    <2>1. Resolved # <<>> => Len(Resolved) = 2
      BY DEF Resolved, ByInterface
    <2>2. CASE Ends(1)
      BY <1>2, <2>2, EndsCodes DEF Resolve, IsRouter
    <2>3. CASE Ends(2)
      BY <1>2, <2>3, EndsCodes DEF Resolve, IsRouter
    <2>4. CASE Resolved # <<>> /\ ports' = Resolved /\ StartChild /\ UNCHANGED exit
      BY <1>2, <2>1, <2>4 DEF Resolve, StartChild, IsRouter
    <2>5. QED
      BY <1>2, <2>2, <2>3, <2>4 DEF Resolve
  <1>3. CASE InstallHandlers
    BY <1>3 DEF InstallHandlers, IsRouter
  <1>4. CASE Poll
    BY <1>4, EndsCodes DEF Poll, GiveUp, FailedStart, IsRouter
  <1>5. CASE Look
    <2>1. EmitReady => lines' # <<>>
      BY EmitCounts
    <2>2. QED
      BY <1>5, <2>1 DEF Look, GiveUp, IsRouter
  <1>6. CASE Abandon
    BY <1>6, EndsCodes DEF Abandon, IsRouter
  <1>7. CASE Bridge
    <2>1. Head(pipe) \in Entries
      BY <1>7, HeadTailProperties DEF Bridge, PipeInv
    <2>2. lines' = lines \/ lines' = Append(lines, Head(pipe).number)
      BY <1>7, <2>1 DEF Bridge, Entries
    <2>3. lines' # <<>>
      BY <1>7, <2>1, <2>2, AppendProperties DEF Bridge, Entries
    <2>4. QED
      BY <1>7, <2>1, <2>3 DEF Bridge, Entries, IsRouter
  <1>8. CASE BridgeEnds
    BY <1>8 DEF BridgeEnds, IsRouter
  <1>9. CASE Reap
    BY <1>9, EndsCodes DEF Reap, IsRouter
  <1>10. CASE Terminate
    BY <1>10 DEF Terminate, IsRouter
  <1>11. ASSUME NEW n \in {1, 2}, Connect(n) PROVE SupervisorInv' /\ UNCHANGED <<adapter, config, exit>>
    BY <1>11 DEF Connect, Connects, IsRouter
  <1>12. CASE ChildFails
    BY <1>12 DEF ChildFails, Dies, IsRouter
  <1>13. CASE ChildBinds
    BY <1>13 DEF ChildBinds, IsRouter
  <1>14. CASE ChildStops
    BY <1>14 DEF ChildStops, ChildAlive, Dies, IsRouter
  <1>15. CASE ChildCrashes
    BY <1>15 DEF ChildCrashes, Dies, IsRouter
  <1>16. ASSUME NEW kind \in {"operation", "chatter", "unreadable"}, ChildWrites(kind)
         PROVE  SupervisorInv' /\ UNCHANGED <<adapter, config, exit>>
    BY <1>16 DEF ChildWrites, IsRouter
  <1>17. QED
    BY <1>1, <1>2, <1>3, <1>4, <1>5, <1>6, <1>7, <1>8, <1>9, <1>10, <1>11, <1>12, <1>13, <1>14, <1>15, <1>16
       DEF SupervisorStep, Surroundings

\* A line that is read, written or passed on leaves the numbers as they have to be.
LEMMA PipeSteps ==
    ASSUME LifecycleInv, SupervisorNext
    PROVE  PipeInv'
  <1>0. SupervisorInv /\ PipeInv /\ lines \in Seq(Nat) /\ Counted \in Nat
    BY EmitCounts DEF SupervisorNext, Runs, LifecycleInv
  <1>1. CASE UNCHANGED <<pipe, performed, Counted>>
    BY <1>0, <1>1 DEF PipeInv, NumberBefore, LastNumber
  <1>2. UNCHANGED lines => UNCHANGED Counted
    BY DEF Counted
  <1>3. CASE Look
    <2>1. stage \in Looking
      BY <1>3 DEF Look, Looking
    <2>2. lines = <<>>
      BY <1>0, <2>1 DEF SupervisorInv
    <2>3. EmitReady => UNCHANGED Counted
      BY <1>0, <2>2, EmitCounts DEF Counted
    <2>4. QED
      BY <1>1, <1>2, <1>3, <2>3 DEF Look, process, output
  <1>4. CASE Bridge
    <2>1. /\ lines # <<>> /\ pipe # <<>> /\ pipe \in Seq(Entries) /\ Counted \in Nat
          /\ Len(pipe) \in Nat \ {0} /\ Head(pipe) \in Entries /\ Head(pipe) = pipe[1]
      <3>1. stage \in Passing
        BY <1>4 DEF Bridge, Passing
      <3>2. QED
        BY <1>0, <1>4, <3>1, HeadTailProperties, EmptySeq DEF Bridge, PipeInv, SupervisorInv
    <2>2. /\ Tail(pipe) \in Seq(Entries) /\ Len(Tail(pipe)) = Len(pipe) - 1
          /\ \A k \in 1..Len(Tail(pipe)) : Tail(pipe)[k] = pipe[k + 1]
      BY <2>1, HeadTailProperties
    <2>3. Counted' = pipe[1].number
      <3>1. pipe[1].number = Counted + (IF Head(pipe).kind = "operation" THEN 1 ELSE 0)
        BY <1>0, <2>1 DEF PipeInv, NumberBefore
      <3>2. CASE Head(pipe).kind = "operation"
        <4>1. Head(pipe).number = Len(lines)
          BY <2>1, <3>1, <3>2 DEF Counted
        <4>2. EmitOperation
          BY <1>4, <3>2, <4>1 DEF Bridge, EmitOperation
        <4>3. QED
          BY <1>0, <2>1, <3>1, <3>2, <4>2, EmitCounts
      <3>3. CASE Head(pipe).kind # "operation"
        <4>1. UNCHANGED lines
          BY <1>4, <2>1, <3>3 DEF Bridge, Entries
        <4>2. QED
          BY <1>2, <2>1, <3>1, <3>3, <4>1
      <3>4. QED
        BY <3>2, <3>3
    <2>4. pipe' = Tail(pipe) /\ performed' = performed
      BY <1>4 DEF Bridge
    <2>5. ASSUME NEW k \in 1..Len(pipe')
          PROVE  /\ pipe'[k].number = NumberBefore(k)' + (IF pipe'[k].kind = "operation" THEN 1 ELSE 0)
                 /\ pipe'[k].number <= performed'
      <3>1. k + 1 \in 1..Len(pipe) /\ k + 1 # 1 /\ (k + 1) - 1 = k /\ pipe'[k] = pipe[k + 1]
        BY <2>1, <2>2, <2>4
      <3>2. NumberBefore(k)' = pipe[k].number
        BY <2>1, <2>2, <2>3, <2>4 DEF NumberBefore
      <3>3. NumberBefore(k + 1) = pipe[k].number
        BY <3>1 DEF NumberBefore
      <3>4. QED
        BY <1>0, <2>4, <3>1, <3>2, <3>3 DEF PipeInv
    <2>6. LastNumber' = LastNumber
      <3>1. CASE pipe' = <<>>
        <4>1. Len(pipe) = 1
          BY <2>1, <2>2, <2>4, <3>1
        <4>2. QED
          BY <2>1, <2>3, <3>1, <4>1 DEF LastNumber
      <3>2. CASE pipe' # <<>>
        <4>1. Len(pipe') = Len(pipe) - 1 /\ Len(pipe') \in 1..Len(pipe')
          BY <2>1, <2>2, <2>4, <3>2
        <4>2. pipe'[Len(pipe')] = pipe[Len(pipe)]
          BY <2>1, <2>2, <2>4, <4>1
        <4>3. QED
          BY <2>1, <3>2, <4>2 DEF LastNumber
      <3>3. QED
        BY <3>1, <3>2
    <2>7. QED
      BY <1>0, <2>2, <2>4, <2>5, <2>6 DEF PipeInv
  <1>5. ASSUME NEW kind \in {"operation", "chatter", "unreadable"}, ChildWrites(kind) PROVE PipeInv'
    <2> DEFINE step == IF kind = "operation" THEN 1 ELSE 0
               entry == [kind |-> kind, number |-> performed + step]
    <2>1. pipe \in Seq(Entries) /\ performed \in Nat /\ entry \in Entries /\ Len(pipe) \in Nat
      BY <1>0 DEF PipeInv, Entries
    <2>2. pipe' = Append(pipe, entry) /\ performed' = performed + step /\ UNCHANGED Counted
      BY <1>2, <1>5 DEF ChildWrites, shared
    <2>3. /\ pipe' \in Seq(Entries) /\ Len(pipe') = Len(pipe) + 1 /\ pipe'[Len(pipe) + 1] = entry
          /\ \A k \in 1..Len(pipe) : pipe'[k] = pipe[k]
      BY <2>1, <2>2, AppendProperties
    <2>4. ASSUME NEW k \in 1..Len(pipe)
          PROVE  /\ pipe'[k].number = NumberBefore(k)' + (IF pipe'[k].kind = "operation" THEN 1 ELSE 0)
                 /\ pipe'[k].number <= performed'
      <3>1. pipe[k] \in Entries
        BY <2>1, ElementOfSeq
      <3>2. pipe[k].number \in Nat
        BY <3>1 DEF Entries
      <3>3. NumberBefore(k)' = NumberBefore(k)
        BY <2>1, <2>2, <2>3 DEF NumberBefore
      <3>4. pipe[k].number <= performed /\ performed <= performed'
        BY <1>0, <2>1, <2>2 DEF PipeInv
      <3>5. QED
        BY <1>0, <2>1, <2>2, <2>3, <3>2, <3>3, <3>4 DEF PipeInv
    <2>5. ASSUME NEW k \in {Len(pipe) + 1}
          PROVE  /\ pipe'[k].number = NumberBefore(k)' + (IF pipe'[k].kind = "operation" THEN 1 ELSE 0)
                 /\ pipe'[k].number <= performed'
      <3>1. pipe'[k] = entry /\ entry.number = performed' /\ entry.kind = kind
        BY <2>2, <2>3
      <3>2. NumberBefore(k)' = performed
        BY <1>0, <2>1, <2>2, <2>3 DEF NumberBefore, PipeInv, LastNumber
      <3>3. QED
        BY <2>1, <2>2, <3>1, <3>2
    <2>6. LastNumber' = performed'
      BY <2>1, <2>2, <2>3 DEF LastNumber
    <2>7. 1..Len(pipe') = 1..Len(pipe) \cup {Len(pipe) + 1} /\ performed' \in Nat
      BY <2>1, <2>2, <2>3
    <2>8. QED
      BY <2>3, <2>4, <2>5, <2>6, <2>7 DEF PipeInv
  <1>6. CASE Prepare \/ Resolve \/ InstallHandlers \/ Poll \/ Abandon \/ BridgeEnds \/ Reap
    BY <1>1, <1>2, <1>6 DEF Prepare, Resolve, InstallHandlers, Poll, Abandon, BridgeEnds, Reap, shared, output
  <1>7. CASE Terminate \/ (\E n \in {1, 2} : Connect(n)) \/ ChildFails \/ ChildBinds \/ ChildStops \/ ChildCrashes
    BY <1>1, <1>2, <1>7 DEF Terminate, Connect, ChildFails, ChildBinds, ChildStops, ChildCrashes, shared, output
  <1>8. QED
    BY <1>3, <1>4, <1>5, <1>6, <1>7 DEF SupervisorNext, SupervisorStep, Surroundings

\* What the supervisor sees when the port is its child's alone.
LEMMA SeenIsBound ==
    ASSUME LifecycleInv, PortIsItsOwn, Supervised, exit = Running, stage = "looking", Seen
    PROVE  sockets = Needed
  <1>1. SupervisorInv /\ adapter \in Adapters
    BY DEF LifecycleInv
  <1>2. CASE IsRouter
    <2>1. "local" \notin Others /\ Len(ports) = 2
      BY <1>1, <1>2 DEF PortIsItsOwn, IsRouter, SupervisorInv, Looking
    <2>2. QED
      BY <1>1, <1>2, <2>1 DEF Seen, Visible, SupervisorInv, Needed
  <1>3. CASE ~IsRouter
    <2>1. Others = {}
      BY <1>1, <1>3 DEF PortIsItsOwn, IsRouter, Supervised
    <2>2. QED
      BY <1>1, <1>3, <2>1 DEF Seen, Visible, SupervisorInv, Needed
  <1>4. QED
    BY <1>2, <1>3

\* What the consumer of a supervised container can observe of a step.
SupervisedMove ==
    \/ UNCHANGED <<lines, exit, sockets, performed>>
    \/ /\ UNCHANGED <<lines, exit, performed>>
       /\ sockets # Needed /\ sockets' = sockets + 1
    \/ /\ UNCHANGED <<exit, sockets, performed>>
       /\ stage = "looking" /\ Seen /\ lines = <<>> /\ EmitReady
    \/ /\ UNCHANGED <<exit, sockets, performed>>
       /\ lines # <<>> /\ EmitOperation /\ Len(lines) <= performed
    \/ /\ UNCHANGED <<lines, exit, sockets>>
       /\ sockets = Needed /\ performed' = performed + 1
    \/ /\ UNCHANGED <<lines, sockets, performed>>
       /\ exit' \in ExitCodes /\ (lines = <<>> => exit' # 0)

LEMMA SupervisedMoves ==
    ASSUME LifecycleInv, SupervisorNext
    PROVE  SupervisedMove
  <1>1. /\ SupervisorInv /\ PipeInv /\ lines \in Seq(Nat) /\ exit = Running /\ Supervised
    BY DEF SupervisorNext, Runs, LifecycleInv
  <1>2. ASSUME NEW c \in {0, 1, 2, -11, -15}, Ends(c), c = 0 => lines # <<>>,
               UNCHANGED <<lines, sockets, performed>>
        PROVE  SupervisedMove
    BY <1>2, EndsCodes DEF SupervisedMove
  <1>3. CASE UNCHANGED <<lines, exit, sockets, performed>>
    BY <1>3 DEF SupervisedMove
  <1>4. CASE Prepare \/ Resolve \/ Abandon
    BY <1>2, <1>3, <1>4 DEF Prepare, Resolve, Abandon, StartChild, process, output
  <1>5. CASE Poll
    <2>1. FailedStart(code) \in {1, 2, -11, -15}
      BY <1>1 DEF FailedStart, SupervisorInv
    <2>2. CASE Ends(FailedStart(code))
      BY <1>2, <1>5, <2>1, <2>2 DEF Poll, output
    <2>3. CASE UNCHANGED exit
      BY <1>3, <1>5, <2>3 DEF Poll, output
    <2>4. QED
      BY <1>5, <2>2, <2>3 DEF Poll
  <1>6. CASE Reap
    BY <1>1, <1>2, <1>6 DEF Reap, SupervisorInv, Passing, process, output
  <1>7. CASE Look
    <2>1. CASE Seen
      <3>1. lines = <<>>
        BY <1>1, <1>7 DEF Look, SupervisorInv, Looking
      <3>2. QED
        BY <1>7, <2>1, <3>1 DEF Look, output, SupervisedMove
    <2>2. CASE ~Seen
      BY <1>3, <1>7, <2>2 DEF Look, output
    <2>3. QED
      BY <2>1, <2>2
  <1>8. CASE Bridge
    <2>1. lines # <<>> /\ Head(pipe) = pipe[1] /\ Len(pipe) \in Nat \ {0} /\ Head(pipe) \in Entries
      BY <1>1, <1>8, HeadTailProperties, EmptySeq DEF Bridge, SupervisorInv, Passing, PipeInv
    <2>2. CASE Head(pipe).kind = "operation"
      <3>1. Head(pipe).number = Counted + 1 /\ Head(pipe).number <= performed
        BY <1>1, <2>1, <2>2 DEF PipeInv, NumberBefore
      <3>2. Len(lines) = Counted + 1
        BY <1>1, <2>1 DEF Counted
      <3>3. EmitOperation
        BY <1>8, <2>2, <3>1, <3>2 DEF Bridge, EmitOperation
      <3>4. QED
        BY <1>8, <2>1, <3>1, <3>2, <3>3 DEF Bridge, process, SupervisedMove
    <2>3. CASE Head(pipe).kind # "operation"
      BY <1>3, <1>8, <2>1, <2>3 DEF Bridge, Entries, process
    <2>4. QED
      BY <2>2, <2>3
  <1>9. CASE InstallHandlers \/ BridgeEnds \/ Terminate \/ (\E n \in {1, 2} : Connect(n))
    BY <1>3, <1>9 DEF InstallHandlers, BridgeEnds, Terminate, Connect, shared, process, output
  <1>10. CASE ChildFails \/ ChildStops \/ ChildCrashes
    BY <1>3, <1>10 DEF ChildFails, ChildStops, ChildCrashes, shared, output
  <1>11. CASE ChildBinds
    <2>1. sockets \in Nat /\ sockets # Needed
      BY <1>1, <1>11 DEF ChildBinds, SupervisorInv, Needed
    <2>2. QED
      BY <1>11, <2>1 DEF ChildBinds, output, SupervisedMove
  <1>12. ASSUME NEW kind \in {"operation", "chatter", "unreadable"}, ChildWrites(kind) PROVE SupervisedMove
    <2>1. sockets = Needed /\ performed \in Nat
      BY <1>1, <1>12 DEF ChildWrites, SupervisorInv, PipeInv
    <2>2. QED
      BY <1>12, <2>1 DEF ChildWrites, shared, process, SupervisedMove
  <1>13. QED
    BY <1>4, <1>5, <1>6, <1>7, <1>8, <1>9, <1>10, <1>11, <1>12 DEF SupervisorNext, SupervisorStep, Surroundings

LEMMA SupervisorLives ==
    ASSUME LifecycleInv, SupervisorNext
    PROVE  LifecycleInv'
  <1>1. /\ SupervisorInv /\ PipeInv /\ lines \in Seq(Nat) /\ exit = Running /\ Supervised
        /\ adapter \in Adapters
    BY DEF SupervisorNext, Runs, LifecycleInv
  <1>2. SupervisorInv' /\ PipeInv' /\ UNCHANGED <<adapter, config>> /\ SupervisedMove
    BY SupervisorSteps, PipeSteps, SupervisedMoves
  <1>3. Supervised'
    BY <1>1, <1>2 DEF Supervised
  <1>4. lines' \in Seq(Nat)
    BY <1>1, <1>2, EmitCounts DEF SupervisedMove
  <1>5. exit' \in ExitCodes \cup {Running} /\ (lines' = <<>> => exit' # 0)
    BY <1>1, <1>2 DEF SupervisedMove, Running, ExitCodes
  <1>6. QED
    BY <1>1, <1>2, <1>3, <1>4, <1>5 DEF LifecycleInv

\* With the port to itself a supervised container is ready when its sockets are
\* bound, and each of its steps is one of the contract's.
LEMMA SupervisorContract ==
    ASSUME LifecycleInv, ReadyIsBound, PortIsItsOwn, SupervisorNext
    PROVE  ReadyIsBound' /\ [Contract!Next]_Contract!vars
  <1>1. /\ SupervisorInv /\ PipeInv /\ lines \in Seq(Nat) /\ exit = Running /\ Supervised
        /\ sockets \in 0..Needed /\ (lines # <<>> => sockets = Needed)
    BY DEF SupervisorNext, Runs, LifecycleInv, SupervisorInv, ReadyIsBound
  <1>2. UNCHANGED adapter /\ SupervisedMove
    BY SupervisorSteps, SupervisedMoves
  <1>3. UNCHANGED <<Supervised, Needed>> /\ Needed \in Nat
    BY <1>2 DEF Supervised, Needed, IsRouter
  <1>4. stage = "looking" /\ Seen => sockets = Needed
    BY <1>1, SeenIsBound
  <1>5. /\ Bound = (sockets = Needed) /\ Bound' = (sockets' = Needed)
        /\ Operations = performed /\ Operations' = performed'
    BY <1>1, <1>3 DEF Bound, Operations
  <1>6. CASE UNCHANGED <<lines, exit, sockets, performed>>
    BY <1>1, <1>3, <1>5, <1>6 DEF ReadyIsBound, Contract!vars
  <1>7. CASE UNCHANGED <<lines, exit, performed>> /\ sockets # Needed /\ sockets' = sockets + 1
    <2>1. ReadyIsBound'
      BY <1>1, <1>3, <1>7 DEF ReadyIsBound
    <2>2. CASE sockets' = Needed
      BY <1>1, <1>5, <1>7, <2>1, <2>2 DEF Contract!Next, Contract!Bind, Contract!Running, Running
    <2>3. CASE sockets' # Needed
      BY <1>5, <1>7, <2>1, <2>3 DEF Contract!vars
    <2>4. QED
      BY <2>2, <2>3
  <1>8. CASE UNCHANGED <<exit, sockets, performed>> /\ stage = "looking" /\ Seen /\ lines = <<>> /\ EmitReady
    BY <1>1, <1>3, <1>4, <1>5, <1>8
       DEF ReadyIsBound, EmitReady, Ready, Contract!Next, Contract!WriteReady, Contract!Ready, Contract!Running, Running
  <1>9. CASE UNCHANGED <<exit, sockets, performed>> /\ lines # <<>> /\ EmitOperation /\ Len(lines) <= performed
    BY <1>1, <1>3, <1>5, <1>9
       DEF ReadyIsBound, EmitOperation, Contract!Next, Contract!WriteOperation, Contract!Running, Running
  <1>10. CASE UNCHANGED <<lines, exit, sockets>> /\ sockets = Needed /\ performed' = performed + 1
    BY <1>1, <1>3, <1>5, <1>10 DEF ReadyIsBound, Contract!Next, Contract!Perform, Contract!Running, Running
  <1>11. CASE UNCHANGED <<lines, sockets, performed>> /\ exit' \in ExitCodes
    BY <1>1, <1>3, <1>5, <1>11 DEF ReadyIsBound, Contract!Next, Contract!Stop, Contract!Running, Running, ExitCodes
  <1>12. QED
    BY <1>2, <1>6, <1>7, <1>8, <1>9, <1>10, <1>11 DEF SupervisedMove

-----------------------------------------------------------------------------
(* Every step of a container *)

LEMMA LifecycleSteps ==
    ASSUME LifecycleInv, [Next]_vars
    PROVE  LifecycleInv'
  <1>1. CASE UNCHANGED vars
    <2>1. UNCHANGED <<Reported, Counted, Supervised, ServesEarly, IsBipRouter, IsRouter, Needed>>
      BY <1>1 DEF vars, shared, Reported, Requests, IsProcess, Counted, Supervised, ServesEarly, IsBacnet4j,
                  IsCbsigma, IsSysio, IsBipRouter, IsRouter, Needed
    <2>2. ~Supervised => ProcessInv'
      BY <1>1, <2>1 DEF vars, shared, processVars, handlers, LifecycleInv, ProcessInv
    <2>3. Supervised => SupervisorInv'
      BY <1>1, <2>1 DEF vars, shared, network, ownVars, supervision, process, LifecycleInv, SupervisorInv
    <2>4. Supervised => PipeInv'
      BY <1>1, <2>1 DEF vars, ownVars, supervision, output, LifecycleInv, PipeInv, NumberBefore, LastNumber
    <2>5. QED
      BY <1>1, <2>1, <2>2, <2>3, <2>4 DEF vars, shared, LifecycleInv
  <1>2. CASE Next
    BY <1>2, SupervisorLives, RouterLives, BacpypesLives, Bacnet4jLives, WorldietyLives, CbsigmaLives, SysioLives
       DEF Next, Lives
  <1>3. QED
    BY <1>1, <1>2

LEMMA ContractSteps ==
    ASSUME LifecycleInv, LifecycleInv', ReadyIsBound, PortIsItsOwn, [Next]_vars
    PROVE  ReadyIsBound' /\ [Contract!Next]_Contract!vars
  <1>1. CASE UNCHANGED vars
    BY <1>1 DEF vars, shared, processVars, handlers, ownVars, supervision, process, output, routerVars,
                Contract!vars, ReadyIsBound, Supervised, Needed, IsRouter, Bound, Operations, ServesEarly,
                IsBacnet4j, IsCbsigma, IsSysio
  <1>2. CASE SupervisorNext
    BY <1>2, SupervisorContract
  <1>3. CASE RouterNext \/ BacpypesNext \/ Bacnet4jNext \/ WorldietyNext \/ CbsigmaNext \/ SysioNext
    <2>1. Lives
      BY <1>3, RouterLives, BacpypesLives, Bacnet4jLives, WorldietyLives, CbsigmaLives, SysioLives
    <2>2. ~Supervised /\ UNCHANGED Supervised
      BY <1>3, <2>1 DEF Lives, Keeps, RouterNext, BacpypesNext, Bacnet4jNext, WorldietyNext, CbsigmaNext, SysioNext,
                        IsBipRouter, IsBacpypes, IsBacnet4j, IsWorldiety, IsCbsigma, IsSysio, Supervised
    <2>3. QED
      BY <2>1, <2>2, KeepsContract DEF Lives, ReadyIsBound
  <1>4. QED
    BY <1>1, <1>2, <1>3 DEF Next

-----------------------------------------------------------------------------
(* The networks of a router *)

PortsInv ==
    /\ config.addressed => ports \in {<<>>, <<1, 2>>}
    /\ IsRouter /\ lines # <<>> => ports # <<>>
    /\ IsBipRouter /\ (phase \notin {"loading", "failed"} \/ lines # <<>>) => ports # <<>>

LEMMA PortsSteps ==
    ASSUME LifecycleInv, PortsInv, [Next]_vars
    PROVE  PortsInv'
  <1> DEFINE Same == UNCHANGED <<adapter, config, lines, phase, ports>>
  <1>1. CASE Same
    BY <1>1 DEF PortsInv, IsRouter, IsBipRouter
  <1>2. CASE UNCHANGED vars
    BY <1>1, <1>2 DEF vars, shared, network, processVars
  <1>3. CASE SupervisorNext /\ UNCHANGED <<processVars, routerVars, audit, threads, simulator, server>>
    <2>1. SupervisorInv /\ ~IsBipRouter
      BY <1>3 DEF SupervisorNext, Runs, LifecycleInv, Supervised, IsBipRouter
    <2>2. UNCHANGED <<adapter, config>>
      BY <1>3, SupervisorSteps
    <2>3. CASE Resolve
      <3>1. stage \in BeforeChild /\ UNCHANGED lines
        BY <2>3 DEF Resolve, BeforeChild
      <3>2. lines' = <<>>
        BY <2>1, <3>1 DEF SupervisorInv
      <3>3. config.addressed => ports' \in {<<>>, <<1, 2>>}
        BY <2>3 DEF Resolve, Resolved, PortsInv
      <3>4. QED
        BY <2>1, <2>2, <3>2, <3>3 DEF PortsInv, IsRouter, IsBipRouter
    <2>4. CASE UNCHANGED ports /\ (IsRouter /\ lines' # <<>> => ports # <<>>)
      BY <2>1, <2>2, <2>4 DEF PortsInv, IsRouter, IsBipRouter
    <2>5. CASE Look \/ Bridge
      <3>1. stage \in Looking \cup Passing
        BY <2>5 DEF Look, Bridge, Looking, Passing
      <3>2. IsRouter => ports # <<>>
        BY <2>1, <3>1 DEF SupervisorInv
      <3>3. UNCHANGED ports
        BY <2>5 DEF Look, Bridge, network
      <3>4. QED
        BY <2>4, <3>2, <3>3
    <2>6. CASE UNCHANGED <<lines, ports>>
      BY <2>4, <2>6 DEF PortsInv
    <2>7. QED
      BY <1>3, <2>3, <2>5, <2>6
         DEF SupervisorNext, SupervisorStep, Surroundings, Prepare, InstallHandlers, Poll, Abandon, BridgeEnds, Reap,
             Terminate, Connect, ChildFails, ChildBinds, ChildStops, ChildCrashes, ChildWrites, shared, network
  <1>4. CASE RouterNext
    <2>1. IsBipRouter /\ ~IsRouter /\ ~Supervised /\ Lives
      BY <1>4, RouterLives DEF RouterNext, IsBipRouter, IsRouter, Supervised
    <2>2. UNCHANGED <<adapter, config>>
      BY <1>4 DEF RouterNext, RouterMain, FindAddresses, FindNone, InstallRouterHandlers, BindPorts, BindsPort,
                  EmitRouterReady, AnnounceRouters, Leave, Quits, StopRouter, ConnectRouter, Advances, Announces, shared
    <2>3. CASE FindAddresses
      BY <2>1, <2>2, <2>3 DEF FindAddresses, Addresses, PortsInv, IsRouter, IsBipRouter
    <2>4. CASE UNCHANGED ports /\ (phase' \in {"loading", "failed"} \/ phase \notin {"loading", "failed"})
      <3>1. phase' = "failed" \/ phase' = "loading" => lines' = <<>>
        BY <2>1, <2>2 DEF Lives, LifecycleInv, ProcessInv, Supervised, Silent, Unbound
      <3>2. QED
        BY <2>1, <2>2, <2>4, <3>1 DEF PortsInv, IsRouter, IsBipRouter
    <2>5. CASE RouterNext /\ ~FindAddresses
      BY <2>4, <2>5
         DEF RouterNext, RouterMain, FindNone, InstallRouterHandlers, BindPorts, BindsPort, EmitRouterReady,
             AnnounceRouters, Leave, Quits, StopRouter, ConnectRouter, Advances, Announces, shared, network, processVars
    <2>6. QED
      BY <1>4, <2>3, <2>5
  <1>5. CASE /\ BacpypesNext \/ Bacnet4jNext \/ WorldietyNext \/ CbsigmaNext \/ SysioNext
             /\ UNCHANGED network
    <2>1. Lives /\ ~IsRouter /\ ~IsBipRouter
      BY <1>5, BacpypesLives, Bacnet4jLives, WorldietyLives, CbsigmaLives, SysioLives
         DEF BacpypesNext, Bacnet4jNext, WorldietyNext, CbsigmaNext, SysioNext, IsRouter, IsBipRouter,
             IsBacpypes, IsBacnet4j, IsWorldiety, IsCbsigma, IsSysio
    <2>2. UNCHANGED <<adapter, config, ports>>
      BY <1>5, <2>1 DEF Lives, Keeps, network
    <2>3. QED
      BY <2>1, <2>2 DEF PortsInv, IsRouter, IsBipRouter
  <1>6. QED
    BY <1>2, <1>3, <1>4, <1>5 DEF Next

-----------------------------------------------------------------------------
(* The objects of a device *)

\* The program has built all of its objects, and which they are.
Filled ==
    IF IsBacnet4j THEN phase \in {"created", "hearing", "listening"} \/ lines # <<>>
                  ELSE phase \in {"bound", "running"} \/ lines # <<>>

Expected ==
    CASE IsBacpypes  -> NetworkPort \cup Objects(config)
      [] IsBacnet4j  -> ObjectsOf(Required \cup Optional) \cup ObjectsOf(Deferred)
      [] IsWorldiety -> Store
      [] IsCbsigma   -> ServedObjects
      [] IsSysio     -> FromFixture

ObjectsInv ==
    /\ IsProcess /\ Filled => served = Expected
    /\ IsBacnet4j /\ phase = "bound" => served = ObjectsOf(Required \cup Optional)
    /\ IsWorldiety /\ (Filled \/ phase = "building") => LoadsFile
    /\ adapter = "bacnet-stack" /\ sockets > 0 => served = Built(ServerArgs(config))
    /\ ~Supervised /\ ~IsBipRouter /\ ~IsProcess => lines = <<>>

LEMMA InitObjects == Init => ObjectsInv
  BY DEF Init, AdapterInit, ProcessInit, SupervisorInit, ObjectsInv, Filled

\* A step of a program that does not change what is served, and after which the
\* program has its objects only if it had them before.
LEMMA ObjectsKept ==
    ASSUME ObjectsInv, UNCHANGED <<adapter, config, served>>, adapter # "bacnet-stack",
           IsProcess, Filled' => Filled, IsBacnet4j => phase' # "bound", IsWorldiety => phase' # "building"
    PROVE  ObjectsInv'
  <1>1. UNCHANGED <<IsProcess, IsBacpypes, IsBacnet4j, IsWorldiety, IsCbsigma, IsSysio, Expected, LoadsFile,
                    ObjectsOf(Required \cup Optional)>>
    BY DEF IsProcess, IsBacpypes, IsBacnet4j, IsWorldiety, IsCbsigma, IsSysio, Expected, Objects, ObjectsOf,
           Store, ServedObjects, FromFixture, LoadsFile
  <1>2. QED
    BY <1>1 DEF ObjectsInv

LEMMA ObjectsUntouched ==
    ASSUME ObjectsInv, UNCHANGED <<shared, phase, sockets>>
    PROVE  ObjectsInv'
  BY DEF ObjectsInv, shared, Supervised, IsBipRouter, IsProcess, IsBacpypes, IsBacnet4j, IsWorldiety, IsCbsigma, IsSysio, Expected, Objects,
         ObjectsOf, Store, ServedObjects, FromFixture, LoadsFile, Filled

\* A handler, which writes a first line only after the ready event.
LEMMA ObjectsHandled ==
    ASSUME ObjectsInv, UNCHANGED <<adapter, config, served, phase>>, adapter # "bacnet-stack",
           lines' # <<>> => lines # <<>>
    PROVE  ObjectsInv'
  BY DEF ObjectsInv, Supervised, IsBipRouter, IsProcess, IsBacpypes, IsBacnet4j, IsWorldiety, IsCbsigma, IsSysio, Expected, Objects,
         ObjectsOf, Store, ServedObjects, FromFixture, LoadsFile, Filled

\* A program binds its socket with the objects it serves.
LEMMA ObjectsBound ==
    ASSUME LifecycleInv, ObjectsInv, IsProcess, NEW objects, Binds(objects),
           IF IsBacnet4j THEN objects = ObjectsOf(Required \cup Optional) ELSE objects = Expected
    PROVE  ObjectsInv'
  <1>1. lines = <<>> /\ UNCHANGED <<adapter, config, lines>> /\ adapter # "bacnet-stack" /\ phase = "building"
    BY DEF Binds, LifecycleInv, ProcessInv, IsProcess, Processes, Supervised, Silent, Unbound
  <1>2. UNCHANGED <<IsProcess, IsBacpypes, IsBacnet4j, IsWorldiety, IsCbsigma, IsSysio, Expected, LoadsFile,
                    ObjectsOf(Required \cup Optional)>>
    BY <1>1 DEF IsProcess, IsBacpypes, IsBacnet4j, IsWorldiety, IsCbsigma, IsSysio, Expected, Objects, ObjectsOf,
                Store, ServedObjects, FromFixture, LoadsFile
  <1>3. CASE phase' = "bound" /\ served' = objects
    BY <1>1, <1>2, <1>3 DEF ObjectsInv, Filled
  <1>4. CASE phase' = "failed" /\ UNCHANGED served
    BY <1>1, <1>2, <1>4 DEF ObjectsInv, Filled
  <1>5. QED
    BY <1>3, <1>4 DEF Binds

LEMMA ObjectsLoaded ==
    ASSUME ObjectsInv, IsProcess, NEW loadable, LoadsIf(loadable), IsWorldiety /\ loadable => LoadsFile
    PROVE  ObjectsInv'
  <1>1. UNCHANGED <<adapter, config, lines, served>> /\ adapter # "bacnet-stack"
    BY DEF LoadsIf, IsProcess, Processes
  <1>2. CASE loadable
    BY <1>1, <1>2 DEF LoadsIf, ObjectsInv, IsProcess, IsBacpypes, IsBacnet4j, IsWorldiety, IsCbsigma, IsSysio, Expected,
                Objects, ObjectsOf, Store, ServedObjects, FromFixture, LoadsFile, Filled
  <1>3. CASE ~loadable
    BY <1>1, <1>3, ObjectsKept DEF LoadsIf, Filled, IsBacnet4j
  <1>4. QED
    BY <1>2, <1>3

\* The ready event of a program whose objects are there.
LEMMA ObjectsAnnounced ==
    ASSUME ObjectsInv, IsProcess, Filled, phase' \notin {"bound", "building"},
           UNCHANGED <<adapter, config, served>>
    PROVE  ObjectsInv'
  BY ObjectsKept DEF IsProcess, Processes

LEMMA WorldietyObjects ==
    ASSUME LifecycleInv, ObjectsInv, WorldietyNext
    PROVE  ObjectsInv'
  <1>1. IsWorldiety /\ IsProcess /\ ~IsBacnet4j /\ adapter # "bacnet-stack" /\ Expected = Store
    BY DEF WorldietyNext, IsWorldiety, IsProcess, Processes, IsBacnet4j, IsBacpypes, IsCbsigma, IsSysio, Expected
  <1>2. CASE LoadFile
    BY <1>1, <1>2, ObjectsLoaded DEF LoadFile
  <1>3. CASE NewClientRuntime
    BY <1>1, <1>3, ObjectsBound DEF NewClientRuntime
  <1>4. CASE RegisterAndRun \/ EmitReadyLine
    BY <1>1, <1>4, ObjectsAnnounced DEF RegisterAndRun, EmitReadyLine, Advances, Announces, shared, Filled
  <1>5. CASE Select \/ RunFails \/ Interrupted
    BY <1>1, <1>5, ObjectsKept DEF Select, RunFails, Interrupted, Advances, Returns, shared, Filled
  <1>6. CASE RunsHandlers \/ Dispatches
    BY <1>1, <1>6, ObjectsHandled
       DEF RunsHandlers, Dispatches, HandleWrites, CarryOut, Refuse, Acknowledge, HandleWhoIs, HandleRead, Arrives, shared
  <1>7. QED
    BY <1>2, <1>3, <1>4, <1>5, <1>6 DEF WorldietyNext, Run

LEMMA CbsigmaObjects ==
    ASSUME LifecycleInv, ObjectsInv, CbsigmaNext
    PROVE  ObjectsInv'
  <1>1. /\ IsCbsigma /\ IsProcess /\ ~IsBacnet4j /\ ~IsWorldiety /\ adapter # "bacnet-stack"
        /\ Expected = ServedObjects
    BY DEF CbsigmaNext, IsCbsigma, IsProcess, Processes, IsBacnet4j, IsBacpypes, IsWorldiety, IsSysio, Expected
  <1>2. CASE LoadCbsigma
    BY <1>1, <1>2, ObjectsLoaded DEF LoadCbsigma
  <1>3. CASE Serve
    BY <1>1, <1>3, ObjectsBound DEF Serve
  <1>4. CASE EmitCbsigmaReady
    BY <1>1, <1>4, ObjectsAnnounced DEF EmitCbsigmaReady, Announces, Filled
  <1>5. CASE Notify \/ StopCbsigma \/ CbsigmaSignalled
    BY <1>1, <1>5, ObjectsKept DEF Notify, StopCbsigma, CbsigmaSignalled, Advances, shared, Filled
  <1>6. CASE ReportSim \/ UpstreamRuns \/ CbsigmaReceives
    BY <1>1, <1>6, ObjectsHandled
       DEF ReportSim, LookAtLists, ReportNext, UpstreamRuns, WriteProperty, Refuse, Acknowledge, Simulate,
           CbsigmaReceives, Arrives, Reports, shared, processVars
  <1>7. QED
    BY <1>2, <1>3, <1>4, <1>5, <1>6 DEF CbsigmaNext, CbsigmaMain

LEMMA SysioObjects ==
    ASSUME LifecycleInv, ObjectsInv, SysioNext
    PROVE  ObjectsInv'
  <1>1. /\ IsSysio /\ IsProcess /\ ~IsBacnet4j /\ ~IsWorldiety /\ adapter # "bacnet-stack"
        /\ Expected = FromFixture
    BY DEF SysioNext, IsSysio, IsProcess, Processes, IsBacnet4j, IsBacpypes, IsWorldiety, IsCbsigma, Expected
  <1>2. CASE ReadSettings
    BY <1>1, <1>2, ObjectsLoaded DEF ReadSettings
  <1>3. CASE StartServer
    BY <1>1, <1>3, ObjectsBound DEF StartServer
  <1>4. CASE EmitSysioReady
    BY <1>1, <1>4, ObjectsAnnounced DEF EmitSysioReady, Announces, Filled
  <1>5. CASE RegisterSignals \/ DisposeServer \/ ReturnFromMain \/ SysioSignalled
    BY <1>1, <1>5, ObjectsKept
       DEF RegisterSignals, DisposeServer, ReturnFromMain, SysioSignalled, Advances, shared, Filled
  <1>6. CASE SysioHandlers
    <2>1. PICK r \in Requests : Handles(r)
      BY <1>6 DEF SysioHandlers
    <2>2. CASE TakeGate(r) \/ SubscribeCov(r) \/ ReadAndEmit(r)
      BY <1>1, <2>2, ObjectsHandled DEF TakeGate, SubscribeCov, ReadAndEmit, shared, processVars
    <2>3. CASE HandleWrite(r)
      BY <1>1, <2>3, ObjectsHandled
         DEF HandleWrite, WriteStored, WriteThrows, AnswerWrites, CarryOut, Refuse, Acknowledge, shared
    <2>4. CASE SysioTells(r) \/ AcknowledgeAlarm(r)
      BY <1>1, <2>4, ObjectsHandled DEF SysioTells, AcknowledgeAlarm, Reports, shared
    <2>5. QED
      BY <2>1, <2>2, <2>3, <2>4 DEF Handles
  <1>7. CASE SysioNotifier \/ SysioReceives
    BY <1>1, <1>7, ObjectsHandled DEF SysioNotifier, NotifyNext, SysioReceives, Arrives, shared
  <1>8. QED
    BY <1>2, <1>3, <1>4, <1>5, <1>6, <1>7 DEF SysioNext, SysioMain

LEMMA BacpypesObjects ==
    ASSUME LifecycleInv, ObjectsInv, BacpypesNext
    PROVE  ObjectsInv'
  <1>1. /\ IsBacpypes /\ IsProcess /\ ~IsBacnet4j /\ ~IsWorldiety /\ adapter # "bacnet-stack" /\ ~Supervised
        /\ Expected = NetworkPort \cup Objects(config)
    BY DEF BacpypesNext, IsProcess, Processes, IsBacnet4j, IsBacpypes, IsWorldiety, IsCbsigma, IsSysio, Expected,
           Supervised
  <1>2. CASE Load
    BY <1>1, <1>2, ObjectsLoaded DEF Load
  <1>3. CASE Build
    BY <1>1, <1>3, ObjectsBound DEF Build
  <1>4. CASE Announce
    BY <1>1, <1>4, ObjectsAnnounced DEF Announce, Announces, Filled
  <1>5. CASE Listen \/ HearSignal \/ Close
    BY <1>1, <1>5, ObjectsKept DEF Listen, HearSignal, Close, Advances, shared, Filled
  <1>6. CASE EventLoop
    <2>1. lines # <<>>
      BY <1>1, <1>6 DEF EventLoop, LoopRuns, LifecycleInv, ProcessInv, Announced
    <2>2. UNCHANGED <<adapter, config, served, phase>>
      BY <1>6 DEF EventLoop, EmitAudit, SendUnconfirmedAudit, SendConfirmedAudit, AuditAnswered, Handle, Tell, Respond,
                  WriteMultiple, CarryOut, Refuse, Acknowledge, Read, AfterRead, EmitEvent, shared
    <2>3. QED
      BY <1>1, <2>1, <2>2, ObjectsHandled
  <1>7. CASE \E r \in Requests : Arrive(r)
    BY <1>1, <1>7, ObjectsHandled DEF Arrive, Arrives, shared
  <1>8. QED
    BY <1>2, <1>3, <1>4, <1>5, <1>6, <1>7 DEF BacpypesNext, Program

LEMMA Bacnet4jObjects ==
    ASSUME LifecycleInv, ObjectsInv, Bacnet4jNext
    PROVE  ObjectsInv'
  <1>1. /\ IsBacnet4j /\ IsProcess /\ ~IsWorldiety /\ adapter # "bacnet-stack" /\ ~Supervised
        /\ Expected = ObjectsOf(Required \cup Optional) \cup ObjectsOf(Deferred)
    BY DEF Bacnet4jNext, IsProcess, Processes, IsBacnet4j, IsBacpypes, IsWorldiety, IsCbsigma, IsSysio, Expected,
           Supervised
  <1>2. CASE ReadFixture
    BY <1>1, <1>2, ObjectsLoaded DEF ReadFixture
  <1>3. CASE Initialize
    BY <1>1, <1>3, ObjectsBound DEF Initialize
  <1>4. CASE CreateDeferred
    <2>1. UNCHANGED <<adapter, config>> /\ served' = ObjectsOf(Required \cup Optional) \cup ObjectsOf(Deferred)
          /\ phase' = "created"
      BY <1>1, <1>4 DEF CreateDeferred, ObjectsInv
    <2>2. IsBacnet4j' /\ IsProcess' /\ Expected' = Expected /\ ~IsWorldiety'
      BY <1>1, <2>1 DEF IsBacnet4j, IsBacpypes, IsWorldiety, IsProcess, Processes, Expected, ObjectsOf
    <2>3. QED
      BY <1>1, <2>1, <2>2 DEF ObjectsInv
  <1>5. CASE HearServices \/ HearReads \/ EmitReadyEvent
    BY <1>1, <1>5, ObjectsAnnounced
       DEF HearServices, HearReads, EmitReadyEvent, Advances, Announces, shared, Filled
  <1>6. CASE HookEnds \/ Signalled
    BY <1>1, <1>6, ObjectsKept DEF HookEnds, Signalled, Filled
  <1>7. CASE Transport
    BY <1>1, <1>7, ObjectsHandled
       DEF Transport, CallFirstListener, CallSecondListener, Conclude, Depart, HearConfirmation, Reports, shared
  <1>8. CASE Senders
    <2>1. PICK r \in Requests : Sender(r)
      BY <1>8 DEF Senders
    <2>2. ASSUME NEW from, NEW to, NEW what, Tells(r, from, to, what) PROVE ObjectsInv'
      BY <1>1, <2>2, ObjectsHandled DEF Tells, Reports
    <2>3. ASSUME NEW from, NEW to, NEW kind, Sends(r, from, to, kind) PROVE ObjectsInv'
      BY <1>1, <2>3, ObjectsHandled DEF Sends, shared, processVars
    <2>4. QED
      BY <2>1, <2>2, <2>3 DEF Sender
  <1>9. CASE \E r \in Requests : Receive(r)
    BY <1>1, <1>9, ObjectsHandled DEF Receive, Arrives, shared
  <1>10. QED
    BY <1>2, <1>3, <1>4, <1>5, <1>6, <1>7, <1>8, <1>9 DEF Bacnet4jNext, Main

LEMMA SupervisorObjects ==
    ASSUME LifecycleInv, ObjectsInv, SupervisorNext, UNCHANGED processVars
    PROVE  ObjectsInv'
  <1>1. SupervisorInv /\ ~IsProcess /\ ~IsWorldiety /\ ~IsBacnet4j /\ Supervised
    BY DEF SupervisorNext, Runs, LifecycleInv, Supervised, IsProcess, Processes, IsWorldiety, IsBacnet4j
  <1>2. UNCHANGED <<adapter, config>>
    BY SupervisorSteps
  <1>3. UNCHANGED <<IsProcess, IsWorldiety, IsBacnet4j, Supervised, IsBipRouter, Built(ServerArgs(config))>>
    BY <1>2 DEF IsProcess, IsBipRouter, IsWorldiety, IsBacnet4j, Supervised, Built, ServerArgs, Instances
  <1>4. CASE UNCHANGED <<served, sockets>>
    BY <1>1, <1>2, <1>3, <1>4 DEF ObjectsInv
  <1>5. CASE ChildBinds
    BY <1>1, <1>2, <1>3, <1>5 DEF ChildBinds, ObjectsInv, IsRouter
  <1>6. QED
    BY <1>4, <1>5
       DEF SupervisorNext, SupervisorStep, Surroundings, Prepare, Resolve, InstallHandlers, Poll, Look, Abandon, Bridge,
           BridgeEnds, Reap, Terminate, Connect, ChildFails, ChildStops, ChildCrashes, ChildWrites, shared, process

LEMMA ObjectsSteps ==
    ASSUME LifecycleInv, ObjectsInv, [Next]_vars
    PROVE  ObjectsInv'
  <1>1. CASE UNCHANGED vars
    BY <1>1, ObjectsUntouched DEF vars, ownVars, processVars, supervision, process
  <1>2. CASE RouterNext /\ UNCHANGED supervision
    <2>1. IsBipRouter /\ Lives
      BY <1>2, RouterLives DEF RouterNext
    <2>2. UNCHANGED <<adapter, config>>
      BY <2>1 DEF Lives, Keeps
    <2>3. QED
      BY <2>1, <2>2 DEF ObjectsInv, IsBipRouter, IsProcess, Processes, IsBacnet4j, IsWorldiety
  <1>3. QED
    BY <1>1, <1>2, SupervisorObjects, BacpypesObjects, Bacnet4jObjects, WorldietyObjects, CbsigmaObjects, SysioObjects
       DEF Next

-----------------------------------------------------------------------------
(* What the images build, and the objects of the fixture *)

\* device_server.c is told of the types the fixture does not have, and so puts
\* no object of its own besides those the stack always has.
LEMMA NoDefaults == Built(ServerArgs(config)) = StackObjects \cup ObjectsIn(Listed)
  <1> DEFINE All == {config.objects[k] : k \in DOMAIN config.objects}
             Defaults == {t \in {"analog-value", "binary-value"} \ ServerArgs(config).none :
                            \A o \in ServerArgs(config).objects : o.type # t}
  <1>1. ASSUME NEW t \in Defaults PROVE FALSE
    <2>1. t \in Listed /\ Instances(config, t) # {}
      BY DEF ServerArgs, Listed
    <2>2. PICK k \in DOMAIN config.objects : config.objects[k].type = t
      BY <2>1 DEF Instances
    <2>3. config.objects[k] \in ServerArgs(config).objects
      BY <2>1, <2>2 DEF ServerArgs
    <2>4. QED
      BY <2>2, <2>3
  <1>2. {<<t, 1>> : t \in Defaults} = {}
    BY <1>1
  <1>3. {<<o.type, o.instance>> : o \in ServerArgs(config).objects} = ObjectsIn(Listed)
    BY DEF ServerArgs, ObjectsIn
  <1>4. Built(ServerArgs(config))
          = StackObjects \cup {<<o.type, o.instance>> : o \in ServerArgs(config).objects} \cup {<<t, 1>> : t \in Defaults}
    BY DEF Built
  <1>5. QED
    BY <1>2, <1>3, <1>4

LEMMA TypesTogether ==
    ASSUME NEW S, NEW T
    PROVE  ObjectsOf(S) \cup ObjectsOf(T) = ObjectsIn(S \cup T)
  BY DEF ObjectsOf, ObjectsIn

\* An event-enrollment of the fixture becomes a notification class.
LEMMA StoreOfFixture ==
    ASSUME LoadsFile
    PROVE  Store = ObjectsIn(Parsed \ {"device", "event-enrollment"})
                     \cup {<<"notification-class", n>> : n \in {o[2] : o \in ObjectsIn({"event-enrollment"})}}
  <1> DEFINE type(k) == config.objects[k].type
             instance(k) == config.objects[k].instance
             classes == {<<"notification-class", n>> : n \in {o[2] : o \in ObjectsIn({"event-enrollment"})}}
             others == ObjectsIn(Parsed \ {"device", "event-enrollment"})
  <1>1. ASSUME NEW k \in DOMAIN config.objects PROVE type(k) \in Parsed
    BY DEF LoadsFile
  <1>2. ASSUME NEW k \in DOMAIN config.objects, type(k) # "device"
        PROVE  <<StoredType(type(k)), instance(k)>> \in others \cup classes
    <2>1. CASE type(k) = "event-enrollment"
      <3>1. <<type(k), instance(k)>> \in ObjectsIn({"event-enrollment"})
        BY <2>1 DEF ObjectsIn
      <3>2. <<"notification-class", instance(k)>> \in classes
        BY <3>1
      <3>3. QED
        BY <2>1, <3>2 DEF StoredType
    <2>2. CASE type(k) # "event-enrollment"
      BY <1>1, <1>2, <2>2 DEF StoredType, ObjectsIn
    <2>3. QED
      BY <2>1, <2>2
  <1>3. ASSUME NEW o \in others PROVE o \in Store
    <2>1. PICK k \in DOMAIN config.objects :
              type(k) \in Parsed \ {"device", "event-enrollment"} /\ o = <<type(k), instance(k)>>
      BY DEF ObjectsIn
    <2>2. QED
      BY <2>1 DEF Store, StoredType
  <1>4. ASSUME NEW o \in classes PROVE o \in Store
    <2>1. PICK k \in DOMAIN config.objects :
              type(k) = "event-enrollment" /\ o = <<"notification-class", instance(k)>>
      BY DEF ObjectsIn
    <2>2. QED
      BY <2>1 DEF Store, StoredType
  <1>5. ASSUME NEW o \in Store PROVE o \in others \cup classes
    BY <1>2 DEF Store
  <1>6. QED
    BY <1>3, <1>4, <1>5

-----------------------------------------------------------------------------
(* The theorems *)

\* How far a container can be, what it has written and which exit code it has
\* always fit together, whatever image it is.
THEOREM LifecycleHolds == Spec => []LifecycleInv
  <1>1. LifecycleInv /\ [Next]_vars => LifecycleInv'
    BY LifecycleSteps
  <1>2. QED
    BY InitLifecycle, <1>1, PTL DEF Spec

\* A container that ends without a ready event ends with a failure code.
THEOREM FailuresAreReported == Spec => []FailedStartsAreReported
  <1>1. LifecycleInv => FailedStartsAreReported
    BY DEF LifecycleInv, FailedStartsAreReported
  <1>2. QED
    BY LifecycleHolds, <1>1, PTL

\* Every image keeps the contract of docs/CONTAINER_CONTRACT.md step by step: the
\* ready event after the sockets are bound, then one line for each operation, in
\* order, and nothing after the exit, whatever the fixture, the number of lines
\* and the capacity of the pipe, as long as no other process has the port.
THEOREM ContractHolds ==
    ASSUME PortIsItsOwn
    PROVE  Spec => ContractIsKept
  <1>1. Init => ReadyIsBound
    BY DEF Init, AdapterInit, ReadyIsBound
  <1>2. LifecycleInv /\ LifecycleInv' /\ ReadyIsBound /\ [Next]_vars
          => ReadyIsBound' /\ [Contract!Next]_Contract!vars
    BY ContractSteps
  <1>3. QED
    BY InitContract, LifecycleHolds, <1>1, <1>2, PTL DEF Spec, ContractIsKept, Contract!Spec

\* A router started with its addresses has each port on the network it is
\* configured for, in whichever order the networks were connected.
THEOREM RoutesHold == Spec => []RoutesTheRightNetworks
  <1>1. Init => PortsInv
    BY DEF Init, AdapterInit, NetworkInit, ProcessInit, PortsInv
  <1>2. LifecycleInv /\ PortsInv /\ [Next]_vars => PortsInv'
    BY PortsSteps
  <1>3. PortsInv => RoutesTheRightNetworks
    BY DEF PortsInv, RoutesTheRightNetworks
  <1>4. QED
    BY LifecycleHolds, <1>1, <1>2, <1>3, PTL DEF Spec

\* With the ready event a device serves the objects of its fixture that its stack
\* has and, of the types of the fixture, no others, whatever the fixture; besides,
\* what bacpypes3's and bacnet-stack's stacks always have.
THEOREM FixturesAreServed ==
    ASSUME PortIsItsOwn
    PROVE  Spec => []ServesItsFixture
  <1>1. LifecycleInv /\ ObjectsInv /\ [Next]_vars => ObjectsInv'
    BY ObjectsSteps
  <1>2. ASSUME LifecycleInv, ReadyIsBound, ObjectsInv PROVE ServesItsFixture
    <2> SUFFICES ASSUME lines # <<>>, ~IsRouter, ~IsBipRouter PROVE ServesItsFixture
      BY DEF ServesItsFixture
    <2>1. CASE adapter = "bacnet-stack"
      <3>1. sockets > 0
        BY <1>2, <2>1 DEF ReadyIsBound, Supervised, Needed, IsRouter
      <3>2. served = StackObjects \cup ObjectsIn(Listed)
        BY <1>2, <2>1, <3>1, NoDefaults DEF ObjectsInv
      <3>3. QED
        BY <2>1, <3>2 DEF ServesItsFixture, IsBacpypes, IsBacnet4j, IsWorldiety, IsCbsigma, IsSysio
    <2>2. CASE IsProcess
      <3>1. served = Expected /\ (IsWorldiety => LoadsFile)
        BY <1>2, <2>2 DEF ObjectsInv, Filled
      <3>2. CASE IsBacpypes
        BY <3>1, <3>2 DEF Expected, Objects, ObjectsIn, ServesItsFixture, IsBacpypes, IsBacnet4j, IsWorldiety,
                          IsCbsigma, IsSysio
      <3>3. CASE IsBacnet4j
        <4>1. Expected = ObjectsIn(Required \cup Optional \cup Deferred)
          BY <3>3, TypesTogether DEF Expected, IsBacpypes, IsBacnet4j, IsWorldiety, IsCbsigma, IsSysio
        <4>2. QED
          BY <3>1, <3>3, <4>1 DEF ServesItsFixture, IsBacpypes, IsBacnet4j, IsWorldiety, IsCbsigma, IsSysio
      <3>4. CASE IsWorldiety
        <4>1. Expected = Store
          BY <3>4 DEF Expected, IsBacpypes, IsBacnet4j, IsWorldiety, IsCbsigma, IsSysio
        <4>2. QED
          BY <3>1, <3>4, <4>1, StoreOfFixture
             DEF ServesItsFixture, IsBacpypes, IsBacnet4j, IsWorldiety, IsCbsigma, IsSysio
      <3>5. CASE IsCbsigma
        BY <3>1, <3>5 DEF Expected, ServedObjects, ObjectsIn, ServesItsFixture, IsBacpypes, IsBacnet4j, IsWorldiety,
                          IsCbsigma, IsSysio
      <3>6. CASE IsSysio
        BY <3>1, <3>6 DEF Expected, FromFixture, ObjectsIn, ServesItsFixture, IsBacpypes, IsBacnet4j, IsWorldiety,
                          IsCbsigma, IsSysio
      <3>7. QED
        BY <2>2, <3>2, <3>3, <3>4, <3>5, <3>6
           DEF IsProcess, Processes, IsBacpypes, IsBacnet4j, IsWorldiety, IsCbsigma, IsSysio
    <2>3. QED
      BY <1>2, <2>1, <2>2 DEF ObjectsInv, Supervised, IsRouter
  <1>3. Init => ReadyIsBound
    BY DEF Init, AdapterInit, ReadyIsBound
  <1>4. LifecycleInv /\ LifecycleInv' /\ ReadyIsBound /\ [Next]_vars => ReadyIsBound'
    BY ContractSteps
  <1>5. QED
    BY InitObjects, LifecycleHolds, <1>1, <1>2, <1>3, <1>4, PTL DEF Spec
=============================================================================
