-------------------------- MODULE ClientDriverProofs --------------------------
(***************************************************************************)
(* Theorems about ClientDriver for every value of its constants: any set of *)
(* drivers, any scenario files, any number of identifiers and retries.       *)
(***************************************************************************)
EXTENDS ClientDriver, ClientToolsProofs, FiniteSetTheorems, TLAPS

-----------------------------------------------------------------------------
(* What the driver writes *)

Lines == {Contract!Ready}
           \cup [event : {"result"}, scenario : Nat, outcome : Outcomes]
           \cup [event : {"done"}, summary : [Outcomes -> Nat]]

OutputInv ==
    /\ TypeOK
    /\ output \in Seq(Lines)
    /\ summary = Contract!Counts(output)

\* A line that is no result changes no count.
LEMMA CountsOther ==
    ASSUME NEW lines \in Seq(Lines), NEW line \in Lines, line.event # "result"
    PROVE  Contract!Counts(Append(lines, line)) = Contract!Counts(lines)
  <1> DEFINE All == Append(lines, line)
             Of(ls, o) == {k \in DOMAIN ls : ls[k].event = "result" /\ ls[k].outcome = o}
  <1>1. ASSUME NEW o \in Outcomes PROVE Of(All, o) = Of(lines, o)
    OBVIOUS
  <1>2. QED
    BY <1>1 DEF Contract!Counts

\* A result line adds one to the count of its outcome and to no other.
LEMMA CountsResult ==
    ASSUME NEW lines \in Seq(Lines), NEW n \in Nat, NEW outcome \in Outcomes
    PROVE  Contract!Counts(Append(lines, Contract!Result(n, outcome)))
             = [Contract!Counts(lines) EXCEPT ![outcome] = @ + 1]
  <1> DEFINE line == Contract!Result(n, outcome)
             All == Append(lines, line)
             Of(ls, o) == {k \in DOMAIN ls : ls[k].event = "result" /\ ls[k].outcome = o}
             next == Len(lines) + 1
  <1>1. line.event = "result" /\ line.outcome = outcome
    BY DEF Contract!Result
  <1>2. /\ DOMAIN All = DOMAIN lines \cup {next} /\ next \notin DOMAIN lines
        /\ All[next] = line
        /\ \A k \in DOMAIN lines : All[k] = lines[k]
    OBVIOUS
  <1> HIDE DEF All, line
  <1>3. ASSUME NEW o \in Outcomes PROVE Of(All, o) = Of(lines, o) \cup (IF o = outcome THEN {next} ELSE {})
    BY <1>1, <1>2
  <1>4. ASSUME NEW o \in Outcomes PROVE IsFiniteSet(Of(lines, o)) /\ next \notin Of(lines, o)
    <2>1. IsFiniteSet(1..Len(lines))
      BY FS_Interval
    <2>2. Of(lines, o) \subseteq 1..Len(lines)
      OBVIOUS
    <2>3. QED
      BY <1>2, <2>1, <2>2, FS_Subset
  <1>5. Cardinality(Of(All, outcome)) = Cardinality(Of(lines, outcome)) + 1
    BY <1>3, <1>4, FS_AddElement
  <1>6. ASSUME NEW o \in Outcomes, o # outcome PROVE Cardinality(Of(All, o)) = Cardinality(Of(lines, o))
    BY <1>3, <1>6
  <1>7. /\ Contract!Counts(All) = [o \in Outcomes |-> Cardinality(Of(All, o))]
        /\ Contract!Counts(lines) = [o \in Outcomes |-> Cardinality(Of(lines, o))]
    BY DEF Contract!Counts, Contract!Cardinality, Cardinality, Contract!IsFiniteSet, IsFiniteSet
  <1> HIDE DEF Of
  <1>8. QED
    BY <1>5, <1>6, <1>7 DEF All, line

LEMMA CompareType == ASSUME NEW observed PROVE Compare(observed) \in Outcomes
  BY DEF Compare, Outcomes

\* The actions that end a scenario: each reports one of the outcomes.
Reporting ==
    GiveUp \/ NotSupported \/ AskBbmd \/ AskAnyone \/ SendUnconfirmed \/ RunTool \/ NotAsked
      \/ BindTimeout \/ Discovered \/ TakeDropped \/ Subscribed

LEMMA ReportingReports ==
    ASSUME OutputInv, exit = Running, Reporting
    PROVE  at \in 1..Len(plan) /\ \E o \in Outcomes : Report(o)
  <1> USE CompareType
  <1>1. at \in 1..Len(plan)
    BY DEF Reporting, OutputInv, TypeOK, GiveUp, NotSupported, AskBbmd, AskAnyone, SendUnconfirmed, RunTool, NotAsked,
           BindTimeout, Discovered, TakeDropped, Unanswered, Subscribed, Begins
  <1>2. {"pass", "fail", "unsupported", "known-difference", "infra-error"} \subseteq Outcomes
    BY DEF Outcomes
  <1>3. CASE GiveUp
    BY <1>3, <1>1, <1>2 DEF GiveUp
  <1>4. CASE NotSupported
    BY <1>4, <1>1, <1>2 DEF NotSupported
  <1>5. CASE AskBbmd \/ AskAnyone
    BY <1>5, <1>1, <1>2 DEF AskBbmd, AskAnyone
  <1>6. CASE SendUnconfirmed
    BY <1>6, <1>1 DEF SendUnconfirmed
  <1>7. CASE RunTool
    <2>1. ASSUME NEW reading PROVE Verdict(reading) \in Outcomes
      BY <1>2 DEF Verdict
    <2>2. PICK exchange, p : Report(Verdict(Reading(scenario.service, p)))
      BY <1>7 DEF RunTool
    <2>3. QED
      BY <1>1, <2>1, <2>2
  <1>7a. CASE NotAsked
    BY <1>7a, <1>1, <1>2 DEF NotAsked
  <1>8. CASE BindTimeout
    BY <1>8, <1>1, <1>2 DEF BindTimeout, NotBound
  <1>9. CASE Discovered
    <2>1. Compare("none") \in Outcomes /\ Compare("found") \in Outcomes
      OBVIOUS
    <2>2. QED
      BY <1>9, <1>1, <1>2, <2>1 DEF Discovered
  <1>10. CASE TakeDropped
    <2>1. Undecodable \in Outcomes
      BY <1>2 DEF Undecodable
    <2>2. QED
      BY <1>10, <1>1, <2>1 DEF TakeDropped
  <1>11. CASE Subscribed
    BY <1>11, <1>1 DEF Subscribed
  <1>12. QED
    BY <1>3, <1>4, <1>5, <1>6, <1>7, <1>7a, <1>8, <1>9, <1>10, <1>11 DEF Reporting

LEMMA AnswerOutcomesType == ASSUME NEW what PROVE AnswerOutcomes(what) \subseteq Outcomes
  <1>1. Compare(what) \in Outcomes /\ Compare("error") \in Outcomes
    BY CompareType
  <1>2. Undecodable \in Outcomes /\ "infra-error" \in Outcomes
    BY DEF Undecodable, Outcomes
  <1>3. ErrorOutcomes \subseteq Outcomes
    BY <1>1 DEF ErrorOutcomes, Outcomes
  <1>4. QED
    BY <1>1, <1>2, <1>3 DEF AnswerOutcomes

\* What a report does to the consumer's view is the contract's next result line.
LEMMA ReportIsResult ==
    ASSUME OutputInv, exit = Running, at \in 1..Len(plan), NEW o \in Outcomes, Report(o)
    PROVE  /\ Contract!WriteResult
           /\ output' \in Seq(Lines) /\ summary' = Contract!Counts(output')
           /\ summary' \in [Outcomes -> Nat]
           /\ stage' = "idle" /\ UNCHANGED <<plan, exit>>
  <1>1. Contract!WriteResult
    BY DEF Report, Contract!WriteResult, at, Running, Contract!Running
  <1>2. at \in Nat /\ Contract!Result(at, o) \in Lines
    BY DEF Lines, Contract!Result, OutputInv, at
  <1>3. output' \in Seq(Lines)
    BY <1>2 DEF Report, OutputInv
  <1>4. summary' = Contract!Counts(output')
    BY <1>2, CountsResult DEF Report, OutputInv
  <1>5. QED
    BY <1>1, <1>3, <1>4 DEF Report, OutputInv, TypeOK

-----------------------------------------------------------------------------
(* Every step keeps the types and the counts, and is a step of the contract *)

Requests == [kind : {"request"}, id : 1..Ids, scenario : Nat, step : Nat]
Answers ==
    [kind : {"answer"}, id : 1..Ids, scenario : Nat, step : Nat, what : {"ack", "other", "error", "garbled", "nothing"}]
Messages ==
    {WhoIs} \cup [kind : {"iAm"}, from : Answerers] \cup Requests \cup Answers
      \cup [kind : {"notification"}, scenario : Nat, process : Nat]

\* What is under way, and what has been received of it.
MessagesInv ==
    /\ wire \subseteq Messages
    /\ \A m \in wire : m.kind = "request" => m.scenario \in 1..Len(plan)
    /\ dropped \subseteq Answers
    /\ heard \in Seq([of : Nat, process : Nat, during : Nat])
    /\ basis \in Seq([scenario : Nat, step : Nat, during : Nat])
    /\ stage = "asking" => request \in [sent : Requests, tries : Nat, answer : {None} \cup Answers]

\* m belongs to the request the scenario has out.
Current(m) == m.scenario = at /\ m.step = Len(basis) + 1

\* Whatever could be taken for an answer to the request is one.
AskedInv ==
    stage = "asking" =>
      /\ request.sent.id = used /\ Current(request.sent)
      /\ request.answer # None => Current(request.answer)
      /\ \A m \in wire : m.kind \in {"request", "answer"} /\ m.id = used => Current(m)
      /\ scenario.service # "multiple" => \A m \in dropped : m.id = used => Current(m)

\* A subscription looks only at what came after it began.
FreshInv ==
    stage # "idle" /\ scenario.service \in Subscriptions
      => \A k \in (mark + 1)..Len(heard) : heard[k].during = at

RunInv == OutputInv /\ MessagesInv /\ AskedInv /\ AnswersAreOwn /\ FreshInv

ContractStep == Contract!Next \/ UNCHANGED consumer

\* A step that ends no scenario leaves the consumer's view alone.
LEMMA QuietStep ==
    ASSUME OutputInv, exit = Running, UNCHANGED <<consumer, summary>>,
           stage' \in {"idle", "binding", "bound", "asking", "listening"},
           stage' # "idle" => at \in 1..Len(plan),
           driver' = driver, failed' \in BOOLEAN, bound' \in BOOLEAN, refused' \in BOOLEAN,
           used' \in 1..Ids, mark' \in Nat, found' \subseteq Answerers
    PROVE  OutputInv' /\ ContractStep
  BY DEF OutputInv, TypeOK, consumer, ContractStep, at, Contract!Counts, Running

LEMMA ReportStep ==
    ASSUME OutputInv, exit = Running, at \in 1..Len(plan), NEW o \in Outcomes, Report(o),
           driver' = driver, failed' \in BOOLEAN, bound' \in BOOLEAN, refused' \in BOOLEAN,
           used' \in 1..Ids, mark' \in Nat, found' \subseteq Answerers
    PROVE  OutputInv' /\ ContractStep
  <1>1. /\ Contract!WriteResult
        /\ output' \in Seq(Lines) /\ summary' = Contract!Counts(output')
        /\ summary' \in [Outcomes -> Nat]
        /\ stage' = "idle" /\ UNCHANGED <<plan, exit>>
    BY ReportIsResult
  <1>2. ContractStep
    BY <1>1 DEF ContractStep, Contract!Next
  <1>3. TypeOK'
    BY <1>1 DEF OutputInv, TypeOK
  <1>4. QED
    BY <1>1, <1>2, <1>3 DEF OutputInv, Contract!Counts

LEMMA ReportingStep ==
    ASSUME RunInv, exit = Running, Reporting
    PROVE  OutputInv' /\ ContractStep
  <1>1. at \in 1..Len(plan) /\ \E o \in Outcomes : Report(o)
    BY ReportingReports DEF RunInv
  <1>2. /\ driver' = driver /\ failed' \in BOOLEAN /\ bound' \in BOOLEAN /\ refused' \in BOOLEAN
        /\ used' \in 1..Ids /\ mark' \in Nat /\ found' \subseteq Answerers
    BY DEF RunInv, OutputInv, TypeOK, Reporting, GiveUp, NotSupported, AskBbmd, AskAnyone, SendUnconfirmed, RunTool,
           NotAsked, BindTimeout, NotBound, Discovered, TakeDropped, Subscribed, session, listening
  <1>3. QED
    BY <1>1, <1>2, ReportStep DEF RunInv

StartAndEnd == Refuse \/ Start \/ Finish

LEMMA StartStep ==
    ASSUME RunInv, exit = Running, StartAndEnd
    PROVE  OutputInv' /\ ContractStep
  <1>1. CASE Refuse
    <2>1. Contract!Refuse
      BY <1>1 DEF Refuse, Contract!Refuse, Contract!Running, Running
    <2>2. TypeOK'
      BY <1>1 DEF Refuse, RunInv, OutputInv, TypeOK, session, listening, at, asking
    <2>3. QED
      BY <1>1, <2>1, <2>2 DEF Refuse, RunInv, OutputInv, ContractStep, Contract!Next, Contract!Counts
  <1>2. CASE Start
    <2>1. Contract!WriteReady
      BY <1>2 DEF Start, Contract!WriteReady, Contract!Running, Running
    <2>2. output' = Append(output, Contract!Ready) /\ Contract!Ready \in Lines
      BY <1>2 DEF Start, Lines
    <2>3. output' \in Seq(Lines) /\ Contract!Counts(output') = Contract!Counts(output)
      BY <2>2, CountsOther DEF RunInv, OutputInv, Contract!Ready
    <2>4. failed' \in BOOLEAN
      BY <1>2 DEF Start
    <2>5. stage' = "idle"
      BY <1>2 DEF Start, RunInv, OutputInv, TypeOK, at
    <2>6. /\ driver' = driver /\ plan' = plan /\ exit' = exit /\ summary' = summary /\ bound' = bound
          /\ refused' = refused /\ used' = used /\ mark' = mark /\ found' = found
      BY <1>2 DEF Start, listening, asking
    <2>7. TypeOK'
      BY <2>4, <2>5, <2>6 DEF RunInv, OutputInv, TypeOK
    <2>8. QED
      BY <2>1, <2>3, <2>6, <2>7 DEF RunInv, OutputInv, ContractStep, Contract!Next, Contract!Counts
  <1>3. CASE Finish
    <2>1. Contract!WriteDone
      BY <1>3 DEF Finish, Contract!WriteDone, Contract!Running, Running, at, RunInv, OutputInv
    <2>2. Contract!Done(summary) \in Lines /\ Contract!Done(summary).event # "result"
      BY DEF Contract!Done, Lines, RunInv, OutputInv, TypeOK
    <2>3. output' \in Seq(Lines) /\ Contract!Counts(output') = Contract!Counts(output)
      BY <1>3, <2>2, CountsOther DEF Finish, RunInv, OutputInv
    <2>4. TypeOK'
      BY <1>3 DEF Finish, RunInv, OutputInv, TypeOK, listening, session, asking
    <2>5. QED
      BY <1>3, <2>1, <2>3, <2>4 DEF Finish, RunInv, OutputInv, ContractStep, Contract!Next, Contract!Counts
  <1>4. QED
    BY <1>1, <1>2, <1>3 DEF StartAndEnd

\* The next identifier is one of the identifiers.
LEMMA NextIdType == ASSUME used \in 1..Ids PROVE NextId \in 1..Ids
  BY ClientAssumption DEF NextId

\* The steps of a scenario that report nothing and take no answer.
Quiet == Begin \/ Discover \/ Ask \/ Retry \/ AnswerTimeout

LEMMA QuietSteps ==
    ASSUME RunInv, exit = Running, Quiet
    PROVE  OutputInv' /\ ContractStep
  <1>0. OutputInv /\ TypeOK /\ heard \in Seq([of : Nat, process : Nat, during : Nat])
    BY DEF RunInv, OutputInv, MessagesInv
  <1>1. /\ UNCHANGED <<consumer, summary>>
        /\ driver' = driver /\ failed' = failed /\ bound' = bound /\ refused' = refused
    BY DEF Quiet, Begin, Discover, Ask, Retry, AnswerTimeout, session
  <1>2. stage' \in {"binding", "bound", "asking", "listening"} /\ at \in 1..Len(plan)
    BY <1>0 DEF TypeOK, Quiet, Begin, Discover, Ask, Retry, AnswerTimeout, Unanswered, Begins
  <1>3. used' \in 1..Ids
    BY <1>0, NextIdType DEF TypeOK, Quiet, Begin, Discover, Ask, Retry, AnswerTimeout, asking
  <1>4. mark' \in Nat /\ found' \subseteq Answerers
    <2>1. CASE Begin
      <3>1. mark' \in {0, mark, Len(heard)} /\ found' = found
        BY <2>1 DEF Begin, ForgetNotifications
      <3>2. QED
        BY <3>1, <1>0 DEF TypeOK
    <2>2. CASE ~Begin
      BY <2>2, <1>0 DEF TypeOK, Quiet, Discover, Ask, Retry, AnswerTimeout, listening
    <2>3. QED
      BY <2>1, <2>2
  <1>5. QED
    BY <1>0, <1>1, <1>2, <1>3, <1>4, QuietStep DEF TypeOK

LEMMA TakeAnswerStep ==
    ASSUME RunInv, exit = Running, TakeAnswer
    PROVE  OutputInv' /\ ContractStep
  <1>1. OutputInv /\ TypeOK /\ at \in 1..Len(plan)
    BY DEF RunInv, OutputInv, TypeOK, TakeAnswer
  <1>2. /\ driver' = driver /\ failed' \in BOOLEAN /\ bound' \in BOOLEAN /\ refused' \in BOOLEAN
        /\ used' \in 1..Ids /\ mark' \in Nat /\ found' \subseteq Answerers
    BY <1>1 DEF TypeOK, TakeAnswer, session, listening
  <1>3. CASE \E o \in Outcomes : Report(o)
    BY <1>1, <1>2, <1>3, ReportStep
  <1>4. CASE stage' \in {"bound", "listening"} /\ UNCHANGED <<consumer, summary>>
    BY <1>1, <1>2, <1>4, QuietStep DEF TakeAnswer, session
  <1>5. QED
    BY <1>3, <1>4, AnswerOutcomesType DEF TakeAnswer

LEMMA NetworkStep ==
    ASSUME RunInv, exit = Running, Network
    PROVE  OutputInv' /\ ContractStep
  <1>1. OutputInv /\ TypeOK
    BY DEF RunInv, OutputInv
  <1>2. PICK m \in wire : HearIAm(m) \/ HearAnswer(m) \/ HearNotification(m)
                            \/ DeviceAnswers(m) \/ StationsAnnounce(m) \/ Lose(m)
    BY DEF Network
  <1>3. CASE HearIAm(m)
    <2>1. m.from \in Answerers
      <3>1. m.kind = "iAm" /\ m \in Messages
        BY <1>3 DEF RunInv, MessagesInv, HearIAm
      <3>2. QED
        BY <3>1 DEF Messages, WhoIs, Requests, Answers
    <2>2. CASE stage = "binding" /\ m.from = "target"
      <3>1. stage' = "bound" /\ bound' = TRUE
            /\ UNCHANGED <<driver, failed, refused, ran, consumer, summary, asking, listening>>
        BY <1>3, <2>2 DEF HearIAm
      <3>2. QED
        BY <1>1, <2>2, <3>1, QuietStep DEF TypeOK, listening, asking
    <2>3. CASE stage = "binding" /\ m.from # "target"
      <3>1. NotBound /\ UNCHANGED <<used, basis, dropped, listening>>
        BY <1>3, <2>3 DEF HearIAm
      <3>2. refused' \in BOOLEAN
        BY <3>1 DEF NotBound
      <3>3. Report("infra-error") /\ "infra-error" \in Outcomes
        BY <3>1 DEF NotBound, Outcomes
      <3>4. QED
        BY <1>1, <2>3, <3>1, <3>2, <3>3, ReportStep DEF TypeOK, NotBound, listening
    <2>4. CASE stage # "binding"
      <3>1. /\ found' = found \cup {m.from}
            /\ UNCHANGED <<session, consumer, summary, stage, asking, heard, mark>>
        BY <1>3, <2>4 DEF HearIAm
      <3>2. found' \subseteq Answerers
        BY <1>1, <2>1, <3>1 DEF TypeOK
      <3>3. QED
        BY <1>1, <3>1, <3>2, QuietStep DEF TypeOK, session, asking
    <2>5. QED
      BY <2>2, <2>3, <2>4
  <1>4. CASE HearAnswer(m) \/ HearNotification(m) \/ DeviceAnswers(m) \/ StationsAnnounce(m) \/ Lose(m)
    <2>1. /\ UNCHANGED <<session, consumer, summary>>
          /\ stage' = stage /\ used' = used /\ mark' = mark /\ found' = found
      BY <1>4 DEF HearAnswer, HearNotification, DeviceAnswers, StationsAnnounce, Lose, listening, asking
    <2>2. QED
      BY <1>1, <2>1, QuietStep DEF TypeOK, session
  <1>5. QED
    BY <1>2, <1>3, <1>4

\* The next-state relation, its actions grouped as the lemmas group them.
LEMMA Actions ==
    ASSUME Next
    PROVE  exit = Running /\ (StartAndEnd \/ Reporting \/ Quiet \/ TakeAnswer \/ Network)
  BY DEF Next, DriverStep, StartAndEnd, Reporting, Quiet

LEMMA ConsumerStep ==
    ASSUME RunInv, Next
    PROVE  OutputInv' /\ ContractStep
  BY Actions, StartStep, ReportingStep, QuietSteps, TakeAnswerStep, NetworkStep

-----------------------------------------------------------------------------
(* What is under way keeps its types *)

\* The steps that leave the messages alone: starting, ending, and the reports
\* that rest on no dropped answer.
LEMMA UntouchedMessages ==
    ASSUME RunInv, StartAndEnd \/ (Reporting /\ ~TakeDropped)
    PROVE  /\ UNCHANGED <<wire, heard, mark, dropped, used, basis, plan>>
           /\ stage' = "idle"
  <1>1. CASE StartAndEnd
    <2>1. UNCHANGED <<wire, heard, mark, dropped, used, basis, plan, stage>>
      BY <1>1 DEF StartAndEnd, Refuse, Start, Finish, asking, listening
    <2>2. output = <<>> \/ stage = "idle"
      BY <1>1 DEF StartAndEnd, Refuse, Start, Finish
    <2>3. stage = "idle"
      BY <2>2 DEF RunInv, OutputInv, TypeOK, at
    <2>4. QED
      BY <2>1, <2>3
  <1>2. CASE GiveUp \/ NotSupported \/ AskBbmd \/ AskAnyone \/ SendUnconfirmed \/ RunTool \/ NotAsked
    BY <1>2 DEF GiveUp, NotSupported, AskBbmd, AskAnyone, SendUnconfirmed, RunTool, NotAsked, Report, listening
  <1>3. CASE BindTimeout \/ Discovered \/ Subscribed
    BY <1>3 DEF BindTimeout, NotBound, Discovered, Subscribed, Report, listening
  <1>4. QED
    BY <1>1, <1>2, <1>3 DEF Reporting

Taken(m) == Append(basis, [scenario |-> m.scenario, step |-> m.step, during |-> at])

LEMMA TakenType ==
    ASSUME RunInv, NEW m \in Answers
    PROVE  Taken(m) \in Seq([scenario : Nat, step : Nat, during : Nat])
  BY DEF RunInv, MessagesInv, OutputInv, Answers, Taken, at

\* A request carries the scenario that makes it.
NewRequest == [kind |-> "request", id |-> NextId, scenario |-> at, step |-> Len(basis) + 1]

LEMMA NewRequestType ==
    ASSUME RunInv, stage = "bound"
    PROVE  NewRequest \in Requests /\ NewRequest.scenario \in 1..Len(plan)
  <1>1. NextId \in 1..Ids /\ at \in 1..Len(plan) /\ at \in Nat /\ Len(basis) + 1 \in Nat
    BY NextIdType DEF RunInv, OutputInv, TypeOK, MessagesInv, at
  <1>2. QED
    BY <1>1 DEF NewRequest, Requests

LEMMA QuietMessages ==
    ASSUME RunInv, Quiet
    PROVE  MessagesInv'
  <1>1. plan' = plan
    BY DEF Quiet, Begin, Discover, Ask, Retry, AnswerTimeout, consumer
  <1>2. CASE Begin
    <2>1. wire' \subseteq wire \cup {WhoIs} /\ heard' \in {heard, <<>>}
      BY <1>2 DEF Begin, ForgetNotifications
    <2>2. stage' # "asking" /\ dropped' = dropped /\ basis' = <<>>
      BY <1>2 DEF Begin
    <2>3. wire' \subseteq Messages
      BY <2>1 DEF RunInv, MessagesInv, Messages
    <2>4. \A m \in wire' : m.kind = "request" => m \in wire
      BY <2>1 DEF WhoIs
    <2>5. heard' \in Seq([of : Nat, process : Nat, during : Nat])
      <3>1. CASE heard' = heard
        BY <3>1 DEF RunInv, MessagesInv
      <3>2. CASE heard' = <<>>
        BY <3>2
      <3>3. QED
        BY <2>1, <3>1, <3>2
    <2>6. basis' \in Seq([scenario : Nat, step : Nat, during : Nat])
      BY <2>2
    <2>7. QED
      BY <1>1, <2>2, <2>3, <2>4, <2>5, <2>6 DEF RunInv, MessagesInv
  <1>3. CASE Discover
    BY <1>1, <1>3 DEF Discover, RunInv, MessagesInv, Messages, WhoIs, asking
  <1>4. CASE Ask
    <2>1. used' = NextId /\ stage = "bound" /\ dropped' \subseteq dropped /\ heard' = heard /\ basis' = basis
      BY <1>4 DEF Ask, DroppedWithout, listening
    <2>2. /\ request' = [sent |-> NewRequest, tries |-> 1, answer |-> None]
          /\ wire' \subseteq wire \cup {NewRequest}
      BY <1>4, <2>1 DEF Ask, NewRequest
    <2>3. wire' \subseteq Messages /\ \A m \in wire' : m.kind = "request" => m.scenario \in 1..Len(plan)
      BY <2>1, <2>2, NewRequestType DEF RunInv, MessagesInv, Messages
    <2>4. request' \in [sent : Requests, tries : Nat, answer : {None} \cup Answers]
      BY <2>1, <2>2, NewRequestType
    <2>5. QED
      BY <1>1, <2>1, <2>3, <2>4 DEF RunInv, MessagesInv
  <1>5. CASE Retry
    <2>1. request \in [sent : Requests, tries : Nat, answer : {None} \cup Answers]
      BY <1>5 DEF Retry, Unanswered, RunInv, MessagesInv
    <2>2. request.sent \in Requests /\ request.sent.scenario \in 1..Len(plan)
      BY <1>5, <2>1 DEF Retry, Unanswered, RunInv, AskedInv, Current, OutputInv, TypeOK
    <2>3. /\ request' = [request EXCEPT !.tries = @ + 1] /\ wire' = wire \cup {request.sent}
          /\ UNCHANGED <<dropped, heard, basis, stage>>
      BY <1>5 DEF Retry, listening
    <2>4. wire' \subseteq Messages /\ \A m \in wire' : m.kind = "request" => m.scenario \in 1..Len(plan)
      BY <2>2, <2>3 DEF RunInv, MessagesInv, Messages
    <2>5. request' \in [sent : Requests, tries : Nat, answer : {None} \cup Answers]
      BY <2>1, <2>3
    <2>6. QED
      BY <1>1, <2>3, <2>4, <2>5 DEF RunInv, MessagesInv
  <1>6. CASE AnswerTimeout
    <2>1. request \in [sent : Requests, tries : Nat, answer : {None} \cup Answers]
      BY <1>6 DEF AnswerTimeout, Unanswered, RunInv, MessagesInv
    <2>2. Answer(request.sent, "nothing") \in Answers
      BY <2>1 DEF Answer, Answers, Requests
    <2>3. /\ request' = [request EXCEPT !.answer = Answer(request.sent, "nothing")]
          /\ UNCHANGED <<dropped, heard, basis, stage, wire>>
      BY <1>6 DEF AnswerTimeout, listening
    <2>4. QED
      BY <1>1, <2>1, <2>2, <2>3 DEF RunInv, MessagesInv
  <1>7. QED
    BY <1>2, <1>3, <1>4, <1>5, <1>6 DEF Quiet

LEMMA TakingMessages ==
    ASSUME RunInv, TakeAnswer \/ TakeDropped
    PROVE  MessagesInv'
  <1>1. PICK m \in Answers : basis' = Taken(m)
    BY DEF TakeAnswer, TakeDropped, Takes, Taken, RunInv, MessagesInv
  <1>2. dropped' \subseteq dropped /\ wire' = wire /\ heard' = heard
    BY DEF TakeAnswer, TakeDropped, listening
  <1>3. plan' = plan /\ stage' # "asking"
    BY DEF TakeAnswer, TakeDropped, Report, consumer
  <1>4. QED
    BY <1>1, <1>2, <1>3, TakenType DEF RunInv, MessagesInv

LEMMA NetworkMessages ==
    ASSUME RunInv, Network
    PROVE  MessagesInv'
  <1> USE DEF RunInv, MessagesInv
  <1>1. PICK m \in wire : HearIAm(m) \/ HearAnswer(m) \/ HearNotification(m)
                            \/ DeviceAnswers(m) \/ StationsAnnounce(m) \/ Lose(m)
    BY DEF Network
  <1>2. /\ m.kind = "answer" => m \in Answers
        /\ m.kind = "notification" => m.scenario \in Nat /\ m.process \in Nat
        /\ m.kind = "request" => m \in Requests
    <2>1. m \in Messages
      OBVIOUS
    <2>2. QED
      BY <2>1 DEF Messages, Answers, Requests, WhoIs
  <1>3. CASE HearIAm(m)
    BY <1>3 DEF HearIAm, NotBound, Report, consumer, asking, listening
  <1>4. CASE HearAnswer(m)
    <2>1. UNCHANGED <<plan, stage, basis, heard>> /\ wire' \subseteq wire
      BY <1>4 DEF HearAnswer, consumer, listening
    <2>2. dropped' \subseteq dropped \cup {m}
      BY <1>4 DEF HearAnswer
    <2>3. request' = request \/ (Unanswered /\ request' = [request EXCEPT !.answer = m])
      BY <1>4 DEF HearAnswer
    <2>4. m \in Answers
      BY <1>2, <1>4 DEF HearAnswer
    <2>5. QED
      BY <2>1, <2>2, <2>3, <2>4 DEF Unanswered
  <1>5. CASE HearNotification(m)
    <2>1. [of |-> m.scenario, process |-> m.process, during |-> at] \in [of : Nat, process : Nat, during : Nat]
      BY <1>2, <1>5 DEF HearNotification, OutputInv, at
    <2>2. QED
      BY <1>5, <2>1 DEF HearNotification, consumer, asking
  <1>6. CASE DeviceAnswers(m)
    <2>1. PICK what \in {"ack", "other", "error", "garbled"} :
            wire' = (wire \ {m}) \cup {Answer(m, what)} \cup
                    IF what = "ack" /\ plan[m.scenario].service \in Subscriptions
                    THEN {[kind |-> "notification", scenario |-> m.scenario, process |-> plan[m.scenario].process]}
                    ELSE {}
      BY <1>6 DEF DeviceAnswers
    <2>2. Answer(m, what) \in Answers /\ Answer(m, what).kind # "request"
      BY <1>2, <1>6, <2>1 DEF DeviceAnswers, Answer, Answers, Requests
    <2>3. m.scenario \in 1..Len(plan) /\ plan \in Seq(Scenario)
      BY <1>6, ClientAssumption DEF DeviceAnswers, OutputInv, TypeOK
    <2>4. m.scenario \in Nat /\ plan[m.scenario].process \in Nat
      <3>1. m.scenario \in Nat /\ plan[m.scenario] \in Scenario
        BY <2>3
      <3>2. QED
        BY <3>1 DEF Scenario
    <2>5. wire' \subseteq Messages
      BY <2>1, <2>2, <2>4 DEF Messages
    <2>6. \A w \in wire' : w.kind = "request" => w \in wire
      BY <2>1, <2>2
    <2>7. QED
      BY <1>6, <2>5, <2>6 DEF DeviceAnswers, consumer, asking, listening
  <1>7. CASE StationsAnnounce(m)
    <2>1. PICK who \in SUBSET Answerers : wire' = (wire \ {m}) \cup [kind : {"iAm"}, from : who]
      BY <1>7 DEF StationsAnnounce
    <2>2. wire' \subseteq Messages
      BY <2>1 DEF Messages
    <2>3. \A w \in wire' : w.kind = "request" => w \in wire
      BY <2>1
    <2>4. QED
      BY <1>7, <2>2, <2>3 DEF StationsAnnounce, consumer, asking, listening
  <1>8. CASE Lose(m)
    BY <1>8 DEF Lose, consumer, asking, listening
  <1>9. QED
    BY <1>1, <1>3, <1>4, <1>5, <1>6, <1>7, <1>8

LEMMA MessagesStep ==
    ASSUME RunInv, Next
    PROVE  MessagesInv'
  <1>1. CASE StartAndEnd \/ (Reporting /\ ~TakeDropped)
    BY <1>1, UntouchedMessages DEF RunInv, MessagesInv
  <1>2. CASE Quiet
    BY <1>2, QuietMessages
  <1>3. CASE TakeAnswer \/ TakeDropped
    BY <1>3, TakingMessages
  <1>4. CASE Network
    BY <1>4, NetworkMessages
  <1>5. QED
    BY <1>1, <1>2, <1>3, <1>4, Actions DEF Reporting

-----------------------------------------------------------------------------
(* Answers and notifications reach their own scenario *)

LEMMA QuietAsked ==
    ASSUME RunInv, exit = Running, Quiet
    PROVE  AskedInv' /\ AnswersAreOwn'
  <1>1. at' = at /\ scenario' = scenario
    BY DEF Quiet, Begin, Discover, Ask, Retry, AnswerTimeout, consumer, at, scenario
  <1>2. CASE Begin
    BY <1>2 DEF Begin, AskedInv, AnswersAreOwn
  <1>3. CASE Discover
    BY <1>3 DEF Discover, AskedInv, AnswersAreOwn, asking, RunInv
  <1>4. CASE Ask
    <2>1. /\ used' = NextId /\ basis' = basis
          /\ request' = [sent |-> NewRequest, tries |-> 1, answer |-> None]
          /\ wire' = {m \in wire : m.kind \in {"request", "answer"} => m.id # used'} \cup {NewRequest}
          /\ dropped' = DroppedWithout(used')
      BY <1>4 DEF Ask, NewRequest
    <2>2. NewRequest.id = used' /\ NewRequest.scenario = at /\ NewRequest.step = Len(basis) + 1
      BY <2>1 DEF NewRequest
    <2>3. \A m \in wire' : m.kind \in {"request", "answer"} /\ m.id = used' => m = NewRequest
      BY <2>1
    <2>4. scenario.service # "multiple" => \A m \in dropped' : m.id # used'
      BY <2>1 DEF DroppedWithout
    <2>5. AskedInv'
      BY <1>1, <2>1, <2>2, <2>3, <2>4 DEF AskedInv, Current
    <2>6. QED
      BY <2>1, <2>5 DEF AnswersAreOwn, RunInv
  <1>5. CASE Retry
    <2>1. /\ request \in [sent : Requests, tries : Nat, answer : {None} \cup Answers]
          /\ stage = "asking" /\ request.answer = None
      BY <1>5 DEF Retry, Unanswered, RunInv, MessagesInv
    <2>2. /\ request' = [request EXCEPT !.tries = @ + 1] /\ wire' = wire \cup {request.sent}
          /\ UNCHANGED <<stage, used, basis, dropped>>
      BY <1>5 DEF Retry
    <2>3. request'.sent = request.sent /\ request'.answer = request.answer
      BY <2>1, <2>2
    <2>4. AskedInv'
      BY <1>1, <2>1, <2>2, <2>3 DEF AskedInv, Current, RunInv
    <2>5. QED
      BY <2>2, <2>4 DEF AnswersAreOwn, RunInv
  <1>6. CASE AnswerTimeout
    <2>1. /\ request \in [sent : Requests, tries : Nat, answer : {None} \cup Answers]
          /\ stage = "asking"
      BY <1>6 DEF AnswerTimeout, Unanswered, RunInv, MessagesInv
    <2>2. /\ request' = [request EXCEPT !.answer = Answer(request.sent, "nothing")]
          /\ UNCHANGED <<stage, used, basis, dropped, wire>>
      BY <1>6 DEF AnswerTimeout
    <2>3. request'.sent = request.sent /\ request'.answer = Answer(request.sent, "nothing")
      BY <2>1, <2>2
    <2>4. Current(request.sent) => Current(Answer(request.sent, "nothing"))
      BY DEF Current, Answer
    <2>5. AskedInv'
      BY <1>1, <2>1, <2>2, <2>3, <2>4 DEF AskedInv, Current, RunInv
    <2>6. QED
      BY <2>2, <2>5 DEF AnswersAreOwn, RunInv
  <1>7. QED
    BY <1>2, <1>3, <1>4, <1>5, <1>6 DEF Quiet

\* The answer a scenario takes is the answer to the request it has out.
LEMMA TakingAsked ==
    ASSUME RunInv, exit = Running, TakeAnswer \/ TakeDropped
    PROVE  AskedInv' /\ AnswersAreOwn'
  <1>1. PICK m \in Answers : basis' = Taken(m) /\ Current(m)
    BY DEF TakeAnswer, TakeDropped, Unanswered, Takes, Taken, RunInv, MessagesInv, AskedInv
  <1>2. stage' # "asking"
    BY DEF TakeAnswer, TakeDropped, Report
  <1>3. basis \in Seq([scenario : Nat, step : Nat, during : Nat])
    BY DEF RunInv, MessagesInv
  <1>4. basis' = Append(basis, [scenario |-> at, step |-> Len(basis) + 1, during |-> at])
    BY <1>1 DEF Taken, Current
  <1>5. ASSUME NEW k \in DOMAIN basis'
        PROVE  basis'[k].step = k /\ basis'[k].scenario = basis'[k].during
    <2>1. CASE k \in DOMAIN basis
      BY <1>3, <1>4, <2>1 DEF RunInv, AnswersAreOwn
    <2>2. CASE k = Len(basis) + 1
      BY <1>3, <1>4, <2>2
    <2>3. QED
      BY <1>3, <1>4, <1>5, <2>1, <2>2
  <1>6. QED
    BY <1>2, <1>5 DEF AskedInv, AnswersAreOwn

LEMMA NetworkAsked ==
    ASSUME RunInv, exit = Running, Network
    PROVE  AskedInv' /\ AnswersAreOwn'
  <1>1. PICK m \in wire : HearIAm(m) \/ HearAnswer(m) \/ HearNotification(m)
                            \/ DeviceAnswers(m) \/ StationsAnnounce(m) \/ Lose(m)
    BY DEF Network
  <1>2. basis' = basis /\ used' = used
    BY <1>1 DEF HearIAm, HearAnswer, HearNotification, DeviceAnswers, StationsAnnounce, Lose, asking
  <1>3. AnswersAreOwn'
    BY <1>2 DEF AnswersAreOwn, RunInv
  <1>4. CASE stage' # "asking"
    BY <1>3, <1>4 DEF AskedInv
  <1>5. CASE stage' = "asking"
    <2>1. stage = "asking" /\ at' = at /\ scenario' = scenario
      BY <1>1, <1>5 DEF HearIAm, NotBound, Report, HearAnswer, HearNotification, DeviceAnswers,
                        StationsAnnounce, Lose, consumer, at, scenario
    <2>2. \A x \in wire : x.kind \in {"request", "answer"} /\ x.id = used => Current(x)
      BY <2>1 DEF RunInv, AskedInv
    <2>3. CASE HearAnswer(m)
      <3>1. request \in [sent : Requests, tries : Nat, answer : {None} \cup Answers]
        BY <2>1 DEF RunInv, MessagesInv
      <3>2. wire' \subseteq wire /\ m.kind = "answer" /\ stage' = stage
        BY <2>3 DEF HearAnswer
      <3>3. dropped' \subseteq dropped \cup {m}
        BY <2>3 DEF HearAnswer
      <3>4. \/ request' = request
            \/ request.sent.id = m.id /\ request' = [request EXCEPT !.answer = m]
        BY <2>3 DEF HearAnswer
      <3>5. /\ request'.sent = request.sent
            /\ request'.answer = request.answer \/ (request'.answer = m /\ m.id = used)
        BY <2>1, <3>1, <3>4 DEF RunInv, AskedInv
      <3>6. QED
        BY <1>2, <1>3, <2>1, <2>2, <3>2, <3>3, <3>5 DEF RunInv, AskedInv, Current
    <2>4. CASE DeviceAnswers(m)
      <3>1. PICK what : \A x \in wire' : x \in wire \/ x = Answer(m, what) \/ x.kind = "notification"
        BY <2>4 DEF DeviceAnswers
      <3>2. m.kind = "request" /\ request' = request /\ dropped' = dropped
        BY <2>4 DEF DeviceAnswers, asking
      <3>3. \A x \in wire' : x.kind \in {"request", "answer"} /\ x.id = used => Current(x)
        BY <2>2, <3>1, <3>2 DEF Answer, Current
      <3>4. QED
        BY <1>2, <1>3, <2>1, <3>2, <3>3 DEF RunInv, AskedInv, Current
    <2>5. CASE StationsAnnounce(m)
      <3>1. \A x \in wire' : x \in wire \/ x.kind = "iAm"
        BY <2>5 DEF StationsAnnounce
      <3>2. request' = request /\ dropped' = dropped
        BY <2>5 DEF StationsAnnounce, asking
      <3>3. QED
        BY <1>2, <1>3, <2>1, <2>2, <3>1, <3>2 DEF RunInv, AskedInv, Current
    <2>6. CASE HearIAm(m) \/ HearNotification(m) \/ Lose(m)
      <3>1. wire' \subseteq wire /\ request' = request /\ dropped' = dropped
        BY <2>1, <2>6 DEF HearIAm, HearNotification, Lose, asking
      <3>2. QED
        BY <1>2, <1>3, <2>1, <2>2, <3>1 DEF RunInv, AskedInv, Current
    <2>7. QED
      BY <1>1, <2>3, <2>4, <2>5, <2>6
  <1>6. QED
    BY <1>4, <1>5

LEMMA AskedStep ==
    ASSUME RunInv, Next
    PROVE  AskedInv' /\ AnswersAreOwn'
  <1>1. CASE StartAndEnd \/ (Reporting /\ ~TakeDropped)
    BY <1>1, UntouchedMessages DEF RunInv, AskedInv, AnswersAreOwn
  <1>2. QED
    BY <1>1, Actions, QuietAsked, TakingAsked, NetworkAsked DEF Reporting

\* The notifications a subscription looks at come during it.
LEMMA FreshStep ==
    ASSUME RunInv, Next
    PROVE  FreshInv'
  <1>1. CASE stage' = "idle"
    BY <1>1 DEF FreshInv
  <1>2. CASE stage' # "idle" /\ Begin
    <2>1. /\ driver = "bacpypes3" => mark' = Len(heard) /\ heard' = heard
          /\ driver # "bacpypes3" /\ scenario.service \in Subscriptions => mark' = 0 /\ heard' = <<>>
          /\ scenario' = scenario
      BY <1>2 DEF Begin, ForgetNotifications, consumer, scenario, at
    <2>2. scenario.service \in Subscriptions => (mark' + 1)..Len(heard') = {}
      BY <2>1 DEF RunInv, MessagesInv
    <2>3. QED
      BY <2>1, <2>2 DEF FreshInv
  <1>3. CASE stage' # "idle" /\ Discover
    <2>1. scenario' = scenario /\ scenario.service = "discover"
      BY <1>3 DEF Discover, consumer, scenario, at
    <2>2. QED
      BY <2>1 DEF FreshInv, Subscriptions
  <1>4. CASE stage' # "idle" /\ \E m \in wire : HearNotification(m)
    <2>1. PICK m \in wire : HearNotification(m)
      BY <1>4
    <2>2. /\ heard' = Append(heard, [of |-> m.scenario, process |-> m.process, during |-> at])
          /\ stage' = stage /\ mark' = mark /\ at' = at /\ scenario' = scenario
      BY <2>1 DEF HearNotification, consumer, at, scenario
    <2>3. heard \in Seq([of : Nat, process : Nat, during : Nat]) /\ mark \in Nat
      BY DEF RunInv, MessagesInv, OutputInv, TypeOK
    <2>4. ASSUME NEW k \in (mark + 1)..Len(heard') PROVE k \in (mark + 1)..Len(heard) \/ heard'[k].during = at
      BY <2>2, <2>3, <2>4
    <2>5. \A k \in 1..Len(heard) : heard'[k] = heard[k]
      BY <2>2, <2>3
    <2>6. QED
      BY <1>4, <2>2, <2>3, <2>4, <2>5 DEF RunInv, FreshInv
  <1>5. CASE stage' # "idle" /\ stage # "idle" /\ UNCHANGED <<heard, mark, consumer>>
    BY <1>5 DEF RunInv, FreshInv, at, scenario, consumer
  <1>6. QED
    <2>1. CASE StartAndEnd \/ (Reporting /\ ~TakeDropped)
      BY <2>1, <1>1, UntouchedMessages
    <2>2. CASE Ask \/ Retry \/ AnswerTimeout
      BY <2>2, <1>1, <1>5 DEF Ask, Retry, AnswerTimeout, Unanswered, listening
    <2>3. CASE TakeAnswer \/ TakeDropped
      BY <2>3, <1>1, <1>5 DEF TakeAnswer, TakeDropped, Report, listening
    <2>4. CASE Network
      <3>1. PICK m \in wire : HearIAm(m) \/ HearAnswer(m) \/ HearNotification(m)
                                \/ DeviceAnswers(m) \/ StationsAnnounce(m) \/ Lose(m)
        BY <2>4 DEF Network
      <3>2. CASE ~HearNotification(m)
        <4>1. UNCHANGED <<heard, mark>>
          BY <3>1, <3>2 DEF HearIAm, HearAnswer, DeviceAnswers, StationsAnnounce, Lose, listening
        <4>2. stage' = "idle" \/ (stage # "idle" /\ UNCHANGED consumer)
          BY <3>1, <3>2, <1>1 DEF HearIAm, NotBound, Report, HearAnswer, DeviceAnswers, StationsAnnounce, Lose
        <4>3. QED
          BY <4>1, <4>2, <1>1, <1>5
      <3>3. QED
        BY <3>1, <3>2, <1>1, <1>4
    <2>5. QED
      BY <2>1, <2>2, <2>3, <2>4, <1>1, <1>2, <1>3, Actions DEF Quiet, Reporting

-----------------------------------------------------------------------------
(* A tool's verdict is the outcome of its scenario *)

VerdictsInv ==
    /\ ran.scenario \in Nat
    /\ driver = "bacnet-stack" /\ ran.scenario > 0 => ran.scenario + 1 \in DOMAIN output
    /\ VerdictsAreTrue

\* The actions that run no tool.
Toolless == StartAndEnd \/ Quiet \/ TakeAnswer \/ Network \/ (Reporting /\ ~RunTool /\ ~NotAsked)

LEMMA ToollessStep ==
    ASSUME RunInv, VerdictsInv, Next, Toolless
    PROVE  VerdictsInv'
  <1>1. ran' = ran /\ driver' = driver
    <2>1. CASE StartAndEnd
      BY <2>1 DEF StartAndEnd, Refuse, Start, Finish, session
    <2>2. CASE Quiet
      BY <2>2 DEF Quiet, Begin, Discover, Ask, Retry, AnswerTimeout, session
    <2>3. CASE TakeAnswer
      BY <2>3 DEF TakeAnswer, session
    <2>4. CASE Network
      <3>1. PICK m \in wire : HearIAm(m) \/ HearAnswer(m) \/ HearNotification(m)
                                \/ DeviceAnswers(m) \/ StationsAnnounce(m) \/ Lose(m)
        BY <2>4 DEF Network
      <3>2. QED
        BY <3>1 DEF HearIAm, NotBound, HearAnswer, HearNotification, DeviceAnswers, StationsAnnounce, Lose, session
    <2>5. CASE Reporting /\ ~RunTool /\ ~NotAsked
      BY <2>5 DEF Reporting, GiveUp, NotSupported, AskBbmd, AskAnyone, SendUnconfirmed, BindTimeout, NotBound,
                  Discovered, TakeDropped, Subscribed, session
    <2>6. QED
      BY <2>1, <2>2, <2>3, <2>4, <2>5 DEF Toolless
  <1>2. plan' = plan /\ (output' = output \/ \E line \in Lines : output' = Append(output, line))
    <2>1. ContractStep
      BY ConsumerStep
    <2>2. output' \in Seq(Lines) /\ output \in Seq(Lines)
      BY ConsumerStep DEF RunInv, OutputInv
    <2>3. plan' = plan /\ (output' = output \/ \E line : output' = Append(output, line))
      <3>1. CASE Contract!WriteReady
        <4>1. plan' = plan /\ output = <<>> /\ output' = <<Contract!Ready>>
          BY <3>1 DEF Contract!WriteReady
        <4>2. output' = Append(output, Contract!Ready)
          BY <4>1
        <4>3. QED
          BY <4>1, <4>2
      <3>2. CASE ~Contract!WriteReady
        BY <2>1, <3>2 DEF ContractStep, consumer, Contract!Next, Contract!Refuse, Contract!WriteResult,
                          Contract!WriteDone
      <3>3. QED
        BY <3>1, <3>2
    <2>4. ASSUME NEW line, output' = Append(output, line) PROVE line \in Lines
      <3>1. output'[Len(output) + 1] = line /\ Len(output) + 1 \in DOMAIN output'
        BY <2>2, <2>4
      <3>2. QED
        BY <2>2, <3>1
    <2>5. QED
      BY <2>3, <2>4
  <1>3. \A k \in DOMAIN output : k \in DOMAIN output' /\ output'[k] = output[k]
    BY <1>2 DEF RunInv, OutputInv
  <1>4. QED
    BY <1>1, <1>2, <1>3 DEF VerdictsInv, VerdictsAreTrue

\* The scenario that is reported is the one its tool was run for.
LEMMA ToolReports ==
    ASSUME RunInv, at \in 1..Len(plan), NEW exchange, NEW status, NEW outcome \in Outcomes,
           Ran(exchange, status), Report(outcome)
    PROVE  /\ ran' = [scenario |-> at, exchange |-> exchange, status |-> status] /\ ran'.scenario \in Nat
           /\ ran'.scenario + 1 \in DOMAIN output' /\ output'[ran'.scenario + 1].outcome = outcome
           /\ plan'[ran'.scenario] = scenario
  <1>1. /\ ran' = [scenario |-> at, exchange |-> exchange, status |-> status]
        /\ output' = Append(output, Contract!Result(at, outcome)) /\ plan' = plan
    BY DEF Ran, Report
  <1>2. output \in Seq(Lines) /\ at = Len(output) /\ Contract!Result(at, outcome).outcome = outcome
    BY DEF RunInv, OutputInv, at, Contract!Result
  <1>3. ran'.scenario = Len(output)
    BY <1>1, <1>2
  <1>4. output'[Len(output) + 1] = Contract!Result(at, outcome) /\ Len(output) + 1 \in DOMAIN output'
    BY <1>1, <1>2
  <1>5. QED
    BY <1>1, <1>2, <1>3, <1>4 DEF scenario, at

LEMMA ToolStep ==
    ASSUME RunInv, exit = Running, RunTool
    PROVE  VerdictsInv'
  <1>1. at \in 1..Len(plan) /\ scenario \in Scenario
    <2>1. at \in 1..Len(plan) /\ plan \in Seq(Scenario)
      BY ClientAssumption DEF RunTool, Begins, RunInv, OutputInv, TypeOK
    <2>2. QED
      BY <2>1 DEF scenario
  <1>2. scenario.service \in ToolServices /\ scenario.expect \in Expectations
    BY <1>1 DEF RunTool, Supported, Unsupported, Scenario, Services, ToolServices, Discoveries
  <1>3. PICK exchange \in Exchanges(scenario.service) : \E p \in Prints(scenario.service, exchange) :
            Ran(exchange, p.status) /\ Report(Verdict(Reading(scenario.service, p)))
    BY DEF RunTool
  <1>4. PICK p \in Prints(scenario.service, exchange) :
            Ran(exchange, p.status) /\ Report(Verdict(Reading(scenario.service, p)))
    BY <1>3
  <1> DEFINE reading == Reading(scenario.service, p)
             outcome == Verdict(reading)
             met == Meets(exchange, scenario.expect)
  <1>5. Faithful(scenario.service, exchange, p, reading)
    BY <1>2, ReadingIsFaithful
  <1>6. outcome \in Outcomes
    BY CompareType DEF Verdict, Outcomes
  <1>7. /\ ran' = [scenario |-> at, exchange |-> exchange, status |-> p.status] /\ ran'.scenario \in Nat
        /\ ran'.scenario + 1 \in DOMAIN output' /\ output'[ran'.scenario + 1].outcome = outcome
        /\ plan'[ran'.scenario] = scenario
    BY <1>1, <1>4, <1>6, ToolReports
  <1> HIDE DEF reading
  <1>8. exchange \notin {"empty", "silent"} \/ ~met
    BY <1>2 DEF Meets, Expectations
  <1>9. exchange # "unsent"
    BY <1>2 DEF Exchanges, ToolServices, Discoveries, Content
  <1>10. CASE reading = "infra"
    <2>1. outcome = "infra-error"
      BY <1>10 DEF Verdict
    <2>2. QED
      BY <1>5, <1>7, <1>10, <2>1 DEF Faithful, VerdictsInv, VerdictsAreTrue
  <1>11. CASE reading = "different"
    <2>1. outcome = "known-difference"
      BY <1>11 DEF Verdict
    <2>2. QED
      BY <1>5, <1>7, <1>11, <2>1 DEF Faithful, VerdictsInv, VerdictsAreTrue
  <1>12. CASE reading \notin {"infra", "different"}
    <2>1. outcome = Compare(reading)
      BY <1>12 DEF Verdict
    <2>2. /\ exchange # "unbound"
          /\ \/ reading = exchange /\ exchange # "namesake"
             \/ reading = "timeout" /\ exchange = "silent"
             \/ reading = "undecoded" /\ exchange = "empty"
             \/ reading = "found" /\ exchange = "namesake"
      BY <1>5, <1>12 DEF Faithful
    <2>3. outcome = "pass" <=> met
      BY <1>2, <2>1, <2>2 DEF Compare, Meets, Expectations
    <2>4. outcome \in {"pass", "fail"}
      BY <2>1 DEF Compare
    <2>5. QED
      BY <1>7, <1>9, <2>2, <2>3, <2>4 DEF VerdictsInv, VerdictsAreTrue
  <1>13. QED
    BY <1>10, <1>11, <1>12

LEMMA UnaskedStep ==
    ASSUME RunInv, exit = Running, NotAsked
    PROVE  VerdictsInv'
  <1>1. at \in 1..Len(plan) /\ Ran("unsent", "exited") /\ Report("infra-error") /\ "infra-error" \in Outcomes
    BY DEF NotAsked, Begins, Outcomes
  <1>2. /\ ran' = [scenario |-> at, exchange |-> "unsent", status |-> "exited"] /\ ran'.scenario \in Nat
        /\ ran'.scenario + 1 \in DOMAIN output' /\ output'[ran'.scenario + 1].outcome = "infra-error"
    BY <1>1, ToolReports
  <1>3. QED
    BY <1>2 DEF VerdictsInv, VerdictsAreTrue

LEMMA VerdictsStep ==
    ASSUME RunInv, VerdictsInv, [Next]_vars
    PROVE  VerdictsInv'
  <1>1. CASE Next
    BY <1>1, Actions, ToollessStep, ToolStep, UnaskedStep DEF Toolless
  <1>2. CASE UNCHANGED vars
    BY <1>2 DEF vars, session, consumer, VerdictsInv, VerdictsAreTrue
  <1>3. QED
    BY <1>1, <1>2

-----------------------------------------------------------------------------
(* The theorems *)

LEMMA RunInitially == Init => RunInv /\ Contract!Init
  <1> SUFFICES ASSUME Init PROVE RunInv /\ Contract!Init
    OBVIOUS
  <1>1. TypeOK
    <2>1. summary \in [Outcomes -> Nat]
      BY DEF Init
    <2>2. used \in 1..Ids
      BY ClientAssumption DEF Init
    <2>3. QED
      BY <2>1, <2>2 DEF Init, TypeOK
  <1>2. output \in Seq(Lines) /\ output = <<>>
    BY DEF Init
  <1>3. summary = Contract!Counts(output)
    <2>1. ASSUME NEW o PROVE Cardinality({k \in DOMAIN output : output[k].event = "result" /\ output[k].outcome = o}) = 0
      <3>1. {k \in DOMAIN output : output[k].event = "result" /\ output[k].outcome = o} = {}
        BY <1>2
      <3>2. QED
        BY <3>1, FS_EmptySet
    <2>2. Contract!Counts(output)
            = [o \in Outcomes |->
                 Cardinality({k \in DOMAIN output : output[k].event = "result" /\ output[k].outcome = o})]
      BY DEF Contract!Counts, Contract!Cardinality, Cardinality, Contract!IsFiniteSet, IsFiniteSet
    <2>3. summary = [o \in Outcomes |-> 0]
      BY DEF Init
    <2>4. QED
      BY <2>1, <2>2, <2>3
  <1>4. MessagesInv /\ AskedInv /\ AnswersAreOwn /\ FreshInv
    BY DEF Init, MessagesInv, AskedInv, AnswersAreOwn, FreshInv
  <1>5. Contract!Init
    BY DEF Init, Contract!Init, Running
  <1>6. QED
    BY <1>1, <1>2, <1>3, <1>4, <1>5 DEF RunInv, OutputInv

LEMMA RunStep ==
    ASSUME RunInv, [Next]_vars
    PROVE  RunInv' /\ [Contract!Next]_(Contract!vars)
  <1>1. CASE Next
    BY <1>1, ConsumerStep, MessagesStep, AskedStep, FreshStep
       DEF RunInv, ContractStep, Contract!vars, consumer
  <1>2. CASE UNCHANGED vars
    <2>1. UNCHANGED <<driver, failed, bound, refused, ran, plan, output, exit, summary, stage, request, used, basis,
                      dropped, heard, mark, found, wire>>
      BY <1>2 DEF vars, session, consumer, asking, listening
    <2>2. OutputInv'
      BY <2>1 DEF RunInv, OutputInv, TypeOK, at, Contract!Counts
    <2>3. MessagesInv'
      BY <2>1 DEF RunInv, MessagesInv
    <2>4. AskedInv' /\ AnswersAreOwn' /\ FreshInv'
      BY <2>1 DEF RunInv, AskedInv, AnswersAreOwn, FreshInv, Current, at, scenario
    <2>5. QED
      BY <2>1, <2>2, <2>3, <2>4 DEF RunInv, Contract!vars
  <1>3. QED
    BY <1>1, <1>2

\* The types of a run, and the counts of the results written so far, for every
\* scenario file, driver and network (client_driver.py 1286-1342 and the other
\* drivers' main functions).
THEOREM TypeCorrect == Spec => []TypeOK
  <1>1. RunInv /\ [Next]_vars => RunInv'
    BY RunStep
  <1>2. RunInv => TypeOK
    BY DEF RunInv, OutputInv
  <1>3. QED
    BY <1>1, <1>2, RunInitially, PTL DEF Spec

\* What the consumer sees of a driver is a run of the contract: a driver that
\* refuses prints nothing, any other prints the ready line, one result for each
\* scenario in file order whatever fails, and their counts
\* (docs/CLIENT_DRIVER_CONTRACT.md 134-158).
THEOREM ContractSafety == Spec => Contract!Spec
  <1>1. RunInv /\ [Next]_vars => RunInv' /\ [Contract!Next]_(Contract!vars)
    BY RunStep
  <1>2. QED
    BY <1>1, RunInitially, PTL DEF Spec, Contract!Spec

\* No scenario reports on an answer to another one's request, whatever is lost,
\* late, repeated or undecodable (client_driver.py 547-566).
THEOREM OwnAnswers == Spec => []AnswersAreOwn
  <1>1. RunInv /\ [Next]_vars => RunInv'
    BY RunStep
  <1>2. RunInv => AnswersAreOwn
    BY DEF RunInv
  <1>3. QED
    BY <1>1, <1>2, RunInitially, PTL DEF Spec

\* No subscription passes with a notification of an earlier one
\* (client_driver.py 789, ClientDriver.java 537).
THEOREM FreshNotifications == Spec => []NotificationsAreFresh
  <1>1. RunInv /\ [Next]_vars => RunInv'
    BY RunStep
  <1>2. RunInv => NotificationsAreFresh
    BY DEF RunInv, FreshInv, NotificationsAreFresh, Counted
  <1>3. QED
    BY <1>1, <1>2, RunInitially, PTL DEF Spec

\* The driver that sees only what its tools print passes a scenario only if what it
\* asked for came of the request, and fails it only if the request was sent and
\* something else came of it (client_driver.py 128-145, 180-207 and 797-814), for
\* every scenario file.  A confirmed request nobody answers is such a fail.
THEOREM TrueVerdicts == Spec => []VerdictsAreTrue
  <1>1. Init => RunInv /\ VerdictsInv
    BY RunInitially DEF Init, VerdictsInv, VerdictsAreTrue
  <1>2. RunInv /\ VerdictsInv /\ [Next]_vars => RunInv' /\ VerdictsInv'
    BY RunStep, VerdictsStep
  <1>3. VerdictsInv => VerdictsAreTrue
    BY DEF VerdictsInv
  <1>4. QED
    BY <1>1, <1>2, <1>3, PTL DEF Spec

-----------------------------------------------------------------------------
(* How far a run is from its end: the lines still to write, the part of the   *)
(* scenario the driver is in, the requests it may still make in it, and the    *)
(* tries left of the one that is out.  The first that changes decides.         *)

LinesLeft == Len(plan) + 2 - Len(output)

Part == CASE stage = "idle"               -> 3
          [] stage = "binding"            -> 2
          [] stage \in {"bound", "asking"} -> 1
          [] stage = "listening"          -> 0

RequestsLeft == IF stage \in {"bound", "asking"} THEN Pages + 1 - Len(basis) ELSE 0

TriesLeft ==
    IF stage = "bound" THEN Tries + 1
    ELSE IF stage = "asking" /\ request.answer = None THEN Tries + 1 - request.tries
    ELSE 0

Nearer ==
    \/ LinesLeft' < LinesLeft
    \/ LinesLeft' = LinesLeft /\ Part' < Part
    \/ LinesLeft' = LinesLeft /\ Part' = Part /\ RequestsLeft' < RequestsLeft
    \/ LinesLeft' = LinesLeft /\ Part' = Part /\ RequestsLeft' = RequestsLeft /\ TriesLeft' < TriesLeft

AsNear == UNCHANGED <<LinesLeft, Part, RequestsLeft, TriesLeft>>

\* None of them is ever below zero.
LimitsInv ==
    /\ Len(output) <= Len(plan) + 2
    /\ exit = Running => Len(output) <= Len(plan) + 1
    /\ stage \in {"binding", "bound", "asking"} => Len(basis) <= Pages
    /\ stage = "asking" => request.tries \in 1..Tries

Measured == LinesLeft \in Nat /\ Part \in Nat /\ RequestsLeft \in Nat /\ TriesLeft \in Nat

LEMMA LimitsMeasure ==
    ASSUME RunInv, LimitsInv
    PROVE  Measured
  <1>1. Len(plan) \in Nat /\ Len(output) \in Nat /\ Len(basis) \in Nat /\ Pages \in Nat /\ Tries \in Nat
    BY ClientAssumption DEF RunInv, OutputInv, MessagesInv, TypeOK
  <1>2. LinesLeft \in Nat
    BY <1>1 DEF LimitsInv, LinesLeft
  <1>3. Part \in Nat
    BY DEF Part, RunInv, OutputInv, TypeOK
  <1>4. RequestsLeft \in Nat
    BY <1>1 DEF LimitsInv, RequestsLeft
  <1>5. TriesLeft \in Nat
    BY <1>1 DEF LimitsInv, TriesLeft
  <1>6. QED
    BY <1>2, <1>3, <1>4, <1>5 DEF Measured

\* A result line brings the run nearer to its end, whatever else the step does.
LEMMA ReportsAreNearer ==
    ASSUME RunInv, LimitsInv, exit = Running, at \in 1..Len(plan), NEW o \in Outcomes, Report(o)
    PROVE  LimitsInv' /\ Nearer
  <1>1. output' = Append(output, Contract!Result(at, o)) /\ plan' = plan /\ exit' = exit /\ stage' = "idle"
    BY DEF Report
  <1>2. Len(plan) \in Nat /\ Len(output) \in Nat
    BY ClientAssumption DEF RunInv, OutputInv, TypeOK
  <1>3. Len(output') = Len(output) + 1
    BY <1>1 DEF RunInv, OutputInv
  <1>4. LinesLeft' < LinesLeft
    BY <1>1, <1>2, <1>3 DEF LinesLeft
  <1>5. LimitsInv'
    BY <1>1, <1>2, <1>3 DEF LimitsInv, at
  <1>6. QED
    BY <1>4, <1>5 DEF Nearer

LEMMA ReportingNearer ==
    ASSUME RunInv, LimitsInv, exit = Running, Reporting
    PROVE  LimitsInv' /\ Nearer
  BY ReportingReports, ReportsAreNearer DEF RunInv

\* Starting writes the ready line; refusing and finishing end the run.
LEMMA StartsNearer ==
    ASSUME RunInv, LimitsInv, exit = Running, StartAndEnd
    PROVE  LimitsInv' /\ (exit' # Running \/ Nearer)
  <1>1. Len(plan) \in Nat /\ Len(output) \in Nat /\ plan' = plan
    <2>1. Len(plan) \in Nat /\ Len(output) \in Nat
      BY ClientAssumption DEF RunInv, OutputInv, TypeOK
    <2>2. plan' = plan
      BY DEF StartAndEnd, Refuse, Start, Finish
    <2>3. QED
      BY <2>1, <2>2
  <1>2. stage' = "idle"
    BY UntouchedMessages
  <1>3. CASE Refuse
    <2>1. output' = output /\ exit' # Running
      BY <1>3 DEF Refuse, Running, Contract!Running
    <2>2. QED
      BY <1>1, <1>2, <2>1 DEF LimitsInv
  <1>4. CASE Start
    <2>1. output = <<>> /\ output' = <<Contract!Ready>> /\ exit' = exit
      BY <1>4 DEF Start
    <2>2. Len(output) = 0 /\ Len(output') = 1
      BY <2>1
    <2>3. QED
      BY <1>1, <1>2, <2>2 DEF LimitsInv, Nearer, LinesLeft
  <1>5. CASE Finish
    <2>1. output' = Append(output, Contract!Done(summary)) /\ exit' # Running /\ Len(output) = Len(plan) + 1
      BY <1>5 DEF Finish, Running, Contract!Running, at
    <2>2. Len(output') = Len(output) + 1
      BY <2>1 DEF RunInv, OutputInv
    <2>3. QED
      BY <1>1, <1>2, <2>1, <2>2 DEF LimitsInv
  <1>6. QED
    BY <1>3, <1>4, <1>5 DEF StartAndEnd

LEMMA QuietNearer ==
    ASSUME RunInv, LimitsInv, exit = Running, Quiet
    PROVE  LimitsInv' /\ Nearer
  <1>1. Len(basis) \in Nat /\ Pages \in Nat \ {0} /\ Tries \in Nat \ {0}
    BY ClientAssumption DEF RunInv, MessagesInv
  <1>2. UNCHANGED <<plan, output, exit>>
    BY DEF Quiet, Begin, Discover, Ask, Retry, AnswerTimeout, consumer
  <1>3. LinesLeft' = LinesLeft /\ Len(output') <= Len(plan') + 2 /\ (exit' = Running => Len(output') <= Len(plan') + 1)
    BY <1>2 DEF LinesLeft, LimitsInv
  <1>4. CASE Begin
    <2>1. stage = "idle" /\ stage' \in {"binding", "bound"} /\ basis' = <<>>
      BY <1>4 DEF Begin, Begins
    <2>2. Part' < Part
      BY <2>1 DEF Part
    <2>3. Len(basis') <= Pages
      BY <1>1, <2>1
    <2>4. QED
      BY <1>3, <2>1, <2>2, <2>3 DEF LimitsInv, Nearer
  <1>5. CASE Discover
    <2>1. stage = "idle" /\ stage' = "listening"
      BY <1>5 DEF Discover, Begins
    <2>2. Part' < Part
      BY <2>1 DEF Part
    <2>3. QED
      BY <1>3, <2>1, <2>2 DEF LimitsInv, Nearer
  <1>6. CASE Ask
    <2>1. stage = "bound" /\ stage' = "asking" /\ basis' = basis /\ request'.answer = None /\ request'.tries = 1
      BY <1>6 DEF Ask
    <2>2. Part' = Part /\ RequestsLeft' = RequestsLeft
      BY <2>1 DEF Part, RequestsLeft
    <2>3. TriesLeft = Tries + 1 /\ TriesLeft' = Tries + 1 - 1
      BY <2>1 DEF TriesLeft
    <2>4. LimitsInv'
      BY <1>1, <1>3, <2>1 DEF LimitsInv
    <2>5. TriesLeft' < TriesLeft
      BY <1>1, <2>3
    <2>6. QED
      BY <1>3, <2>2, <2>4, <2>5 DEF Nearer
  <1>7. CASE Retry \/ AnswerTimeout
    <2>1. stage = "asking" /\ stage' = stage /\ basis' = basis /\ request.answer = None
          /\ request \in [sent : Requests, tries : Nat, answer : {None} \cup Answers]
      BY <1>7 DEF Retry, AnswerTimeout, Unanswered, RunInv, MessagesInv
    <2>2. Part' = Part /\ RequestsLeft' = RequestsLeft
      BY <2>1 DEF Part, RequestsLeft
    <2>3. TriesLeft = Tries + 1 - request.tries
      BY <2>1 DEF TriesLeft
    <2>4. CASE Retry
      <3>1. request.tries < Tries /\ request'.tries = request.tries + 1 /\ request'.answer = None
        BY <2>1, <2>4 DEF Retry
      <3>2. TriesLeft' = Tries + 1 - (request.tries + 1)
        BY <2>1, <3>1 DEF TriesLeft
      <3>3. request'.tries \in 1..Tries
        BY <1>1, <2>1, <3>1
      <3>4. LimitsInv'
        BY <1>3, <2>1, <3>3 DEF LimitsInv
      <3>5. TriesLeft' < TriesLeft
        BY <1>1, <2>1, <2>3, <3>2
      <3>6. QED
        BY <1>3, <2>2, <3>4, <3>5 DEF Nearer
    <2>5. CASE AnswerTimeout
      <3>1. request.tries = Tries /\ request'.tries = request.tries
            /\ request'.answer = Answer(request.sent, "nothing")
        BY <2>1, <2>5 DEF AnswerTimeout
      <3>2. request'.answer # None
        <4>1. Answer(request.sent, "nothing") \in Answers
          BY <2>1 DEF Answer, Answers, Requests
        <4>2. QED
          BY <3>1, <4>1, NoneAssumption DEF Answers
      <3>3. TriesLeft' = 0
        BY <2>1, <3>2 DEF TriesLeft
      <3>4. LimitsInv'
        BY <1>3, <2>1, <3>1 DEF LimitsInv
      <3>5. TriesLeft' < TriesLeft
        BY <1>1, <2>3, <3>1, <3>3
      <3>6. QED
        BY <1>3, <2>2, <3>4, <3>5 DEF Nearer
    <2>6. QED
      BY <1>7, <2>4, <2>5
  <1>8. QED
    BY <1>4, <1>5, <1>6, <1>7 DEF Quiet

\* Taking an answer ends the scenario, or the last of its requests, or leaves one
\* request less to make.
LEMMA AnswersNearer ==
    ASSUME RunInv, LimitsInv, exit = Running, TakeAnswer
    PROVE  LimitsInv' /\ Nearer
  <1>1. Len(basis) \in Nat /\ Pages \in Nat \ {0} /\ at \in 1..Len(plan) /\ stage = "asking"
    BY ClientAssumption DEF RunInv, OutputInv, TypeOK, MessagesInv, TakeAnswer
  <1>2. CASE \E o \in Outcomes : Report(o)
    BY <1>1, <1>2, ReportsAreNearer
  <1>3. CASE UNCHANGED <<consumer, summary>> /\ (stage' = "listening" \/ (stage' = "bound" /\ MoreToAsk))
    <2>1. UNCHANGED <<plan, output, exit>>
      BY <1>3 DEF consumer
    <2>2. LinesLeft' = LinesLeft /\ Len(output') <= Len(plan') + 2 /\ (exit' = Running => Len(output') <= Len(plan') + 1)
      BY <2>1 DEF LinesLeft, LimitsInv
    <2>3. CASE stage' = "listening"
      <3>1. Part' < Part
        BY <1>1, <2>3 DEF Part
      <3>2. QED
        BY <2>2, <2>3, <3>1 DEF LimitsInv, Nearer
    <2>4. CASE stage' = "bound" /\ MoreToAsk
      <3>1. Len(basis) + 1 <= Pages
        BY <1>1, <2>4 DEF MoreToAsk
      <3>2. Len(basis') = Len(basis) + 1
        BY DEF TakeAnswer, Takes, RunInv, MessagesInv
      <3>3. Part' = Part
        BY <1>1, <2>4 DEF Part
      <3>4. RequestsLeft = Pages + 1 - Len(basis) /\ RequestsLeft' = Pages + 1 - Len(basis')
        BY <1>1, <2>4 DEF RequestsLeft
      <3>5. RequestsLeft' < RequestsLeft
        BY <1>1, <3>2, <3>4
      <3>6. LimitsInv'
        BY <2>2, <2>4, <3>1, <3>2 DEF LimitsInv
      <3>7. QED
        BY <2>2, <3>3, <3>5, <3>6 DEF Nearer
    <2>5. QED
      BY <1>3, <2>3, <2>4
  <1>4. QED
    BY <1>2, <1>3, AnswerOutcomesType DEF TakeAnswer

LEMMA NetworkNearer ==
    ASSUME RunInv, LimitsInv, exit = Running, Network
    PROVE  LimitsInv' /\ (Nearer \/ AsNear)
  <1>1. PICK m \in wire : HearIAm(m) \/ HearAnswer(m) \/ HearNotification(m)
                            \/ DeviceAnswers(m) \/ StationsAnnounce(m) \/ Lose(m)
    BY DEF Network
  <1>2. ASSUME UNCHANGED <<plan, output, exit, stage, basis, request>>
        PROVE  LimitsInv' /\ AsNear
    BY <1>2 DEF LimitsInv, AsNear, LinesLeft, Part, RequestsLeft, TriesLeft
  <1>3. CASE HearIAm(m)
    <2>1. CASE stage = "binding" /\ m.from = "target"
      <3>1. stage' = "bound" /\ UNCHANGED <<plan, output, exit, basis>>
        BY <1>3, <2>1 DEF HearIAm, consumer, asking
      <3>2. LinesLeft' = LinesLeft /\ Part' < Part
        BY <2>1, <3>1 DEF LinesLeft, Part
      <3>3. LimitsInv'
        BY <2>1, <3>1 DEF LimitsInv
      <3>4. QED
        BY <3>2, <3>3 DEF Nearer
    <2>2. CASE stage = "binding" /\ m.from # "target"
      <3>1. Report("infra-error") /\ "infra-error" \in Outcomes
        BY <1>3, <2>2 DEF HearIAm, NotBound, Outcomes
      <3>2. at \in 1..Len(plan)
        BY <2>2 DEF RunInv, OutputInv, TypeOK
      <3>3. QED
        BY <3>1, <3>2, ReportsAreNearer
    <2>3. CASE stage # "binding"
      <3>1. UNCHANGED <<plan, output, exit, stage, basis, request>>
        BY <1>3, <2>3 DEF HearIAm, consumer, asking
      <3>2. QED
        BY <1>2, <3>1
    <2>4. QED
      BY <2>1, <2>2, <2>3
  <1>4. CASE HearAnswer(m)
    <2>1. UNCHANGED <<plan, output, exit, stage, basis>>
      BY <1>4 DEF HearAnswer, consumer
    <2>2. CASE request' = request
      BY <1>2, <2>1, <2>2
    <2>3. CASE Unanswered /\ request' = [request EXCEPT !.answer = m]
      <3>1. stage = "asking" /\ request.answer = None
            /\ request \in [sent : Requests, tries : Nat, answer : {None} \cup Answers]
        BY <2>3 DEF Unanswered, RunInv, MessagesInv
      <3>2. request'.tries = request.tries /\ request'.answer = m
        BY <2>3, <3>1
      <3>3. m \in Answers
        <4>1. m \in Messages /\ m.kind = "answer"
          BY <1>4 DEF HearAnswer, RunInv, MessagesInv
        <4>2. QED
          BY <4>1 DEF Messages, WhoIs, Requests
      <3>4. m # None
        BY <3>3, NoneAssumption DEF Answers
      <3>5. TriesLeft = Tries + 1 - request.tries /\ TriesLeft' = 0
        BY <2>1, <3>1, <3>2, <3>4 DEF TriesLeft
      <3>6. request.tries \in 1..Tries /\ Tries \in Nat
        BY <3>1, ClientAssumption DEF LimitsInv
      <3>7. TriesLeft' < TriesLeft
        BY <3>5, <3>6
      <3>8. UNCHANGED <<LinesLeft, Part, RequestsLeft>>
        BY <2>1 DEF LinesLeft, Part, RequestsLeft
      <3>9. LimitsInv'
        BY <2>1, <3>1, <3>2 DEF LimitsInv
      <3>10. QED
        BY <3>7, <3>8, <3>9 DEF Nearer
    <2>4. QED
      BY <1>4, <2>2, <2>3 DEF HearAnswer
  <1>5. CASE HearNotification(m) \/ DeviceAnswers(m) \/ StationsAnnounce(m) \/ Lose(m)
    <2>1. UNCHANGED <<plan, output, exit, stage, basis, request>>
      BY <1>5 DEF HearNotification, DeviceAnswers, StationsAnnounce, Lose, consumer, asking
    <2>2. QED
      BY <1>2, <2>1
  <1>6. QED
    BY <1>1, <1>3, <1>4, <1>5

\* Every step of a driver brings its run nearer to the end, and no step of the
\* network takes it further away: retries, the reads of a file or of a list and the
\* waiting for an address, an answer or a notification are each bounded, whatever is
\* lost or repeated, so a driver makes finitely many steps (client_driver.py
\* 1286-1342, ClientDriver.java 1377 and bacnet-stack's client_driver.py 796).
RunsComeNearerToTheirEnd ==
    [][ /\ Measured
        /\ DriverStep => exit' # Running \/ Nearer
        /\ Network => Nearer \/ AsNear ]_vars

THEOREM RunsAreFinite == Spec => RunsComeNearerToTheirEnd
  <1>1. Init => RunInv /\ LimitsInv
    <2>1. ASSUME Init PROVE LimitsInv
      <3>1. Len(plan) \in Nat /\ Len(output) = 0 /\ stage = "idle"
        BY <2>1, ClientAssumption DEF Init
      <3>2. QED
        BY <3>1 DEF LimitsInv
    <2>2. QED
      BY <2>1, RunInitially
  <1>2. RunInv /\ LimitsInv /\ [Next]_vars => RunInv' /\ LimitsInv'
    <2> SUFFICES ASSUME RunInv, LimitsInv, [Next]_vars PROVE LimitsInv'
      BY RunStep
    <2>1. CASE Next
      BY <2>1, Actions, StartsNearer, ReportingNearer, QuietNearer, AnswersNearer, NetworkNearer
    <2>2. CASE UNCHANGED vars
      BY <2>2 DEF vars, consumer, asking, LimitsInv
    <2>3. QED
      BY <2>1, <2>2
  <1>3. ASSUME RunInv, LimitsInv, Next
        PROVE  /\ Measured
               /\ DriverStep => exit' # Running \/ Nearer
               /\ Network => Nearer \/ AsNear
    <2>1. exit = Running
      BY <1>3 DEF Next
    <2>2. ASSUME DriverStep PROVE exit' # Running \/ Nearer
      <3>1. StartAndEnd \/ Reporting \/ Quiet \/ TakeAnswer
        BY <2>2 DEF DriverStep, StartAndEnd, Reporting, Quiet
      <3>2. QED
        BY <1>3, <2>1, <3>1, StartsNearer, ReportingNearer, QuietNearer, AnswersNearer
    <2>3. QED
      BY <1>3, <2>1, <2>2, LimitsMeasure, NetworkNearer
  <1>4. QED
    BY <1>1, <1>2, <1>3, PTL DEF Spec, RunsComeNearerToTheirEnd
=============================================================================
