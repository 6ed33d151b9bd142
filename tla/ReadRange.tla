------------------------------ MODULE ReadRange ------------------------------
(***************************************************************************)
(* ReadRange on the seeded Log_Buffer of two device peers, sysiobacnet     *)
(* (DeviceServer.cs, OnReadRange) and worldiety (read_range.go).  Both     *)
(* turn a request by position, by sequence number or by time into an       *)
(* interval of record positions, each with its own arithmetic: C# with a   *)
(* mixture of long and int, Go with 64-bit int.  The records are numbered  *)
(* 1..N, record k has sequence number k, and their time stamps increase;   *)
(* the clock of the model is such that record k is stamped 2 * k and odd   *)
(* instants lie between two records.                                       *)
(*                                                                         *)
(* The server keeps no state between requests.  What the module adds is    *)
(* the client: one without a plan sends any one request, one with a plan   *)
(* reads the log in pages, each request made from the answer before it.    *)
(***************************************************************************)
EXTENDS Integers, Sequences, FiniteSets

CONSTANTS
    Peers,        \* the device peers asked: a subset of {"sysio", "worldiety"}
    Records,      \* Records[p]: the number of records in p's log
    Bits,         \* the width of the counts of a request (32 in the code)
    Forms,        \* the forms of request made
    References,   \* the positions and sequence numbers asked for
    Counts,       \* the counts asked for by position or sequence number
    TimeCounts,   \* TimeCounts[p]: the counts p is asked for by time
    Pages         \* the page sizes of a client that walks a log

MinInt == -(2^(Bits - 1))
MaxInt == 2^(Bits - 1) - 1

ASSUME PeersAssumption == Peers \subseteq {"sysio", "worldiety"}
ASSUME FormsAssumption == Forms \subseteq {"all", "position", "sequence", "time"}
ASSUME WidthAssumption ==
    /\ Bits \in Nat \ {0}
    /\ Records \in [Peers -> 1..MaxInt]
    /\ References \subseteq 0..(2^Bits - 1)
    /\ Counts \subseteq MinInt..MaxInt /\ TimeCounts \in [Peers -> SUBSET (MinInt..MaxInt)]
    /\ Pages \subseteq 1..MaxInt
\* What the proofs need to know of powers, which the provers do not.
ASSUME PowersAssumption ==
    /\ 2^(Bits - 1) \in Nat \ {0}
    /\ 2^Bits = 2 * 2^(Bits - 1)

VARIABLES
    peer,     \* the device peer this client talks to
    request,  \* the request made last, or NoRequest
    answer,   \* the peer's answer to it, or NoAnswer
    plan,     \* the form and count of a client that walks the log, or NoPlan
    read      \* the records a walking client has gathered, oldest first

vars == <<peer, request, answer, plan, read>>

NoRequest == [form |-> "none"]
NoAnswer == [kind |-> "none"]
NoPlan == [form |-> "none", count |-> 0]

\* The answer carries no sequence number.
NoSequence == 0

Stamp(k) == 2 * k
Lesser(a, b) == IF a < b THEN a ELSE b
Greater(a, b) == IF a < b THEN b ELSE a

\* A reference time with an unspecified field; how the C# stack decodes one is
\* not in this repository, so only worldiety is asked for it.
Unspecified == -1
Times(p) == 0..(2 * Records[p] + 2) \cup (IF p = "worldiety" THEN {Unspecified} ELSE {})

Requests(p) ==
    [form : Forms \cap {"all"}, ref : {0}, count : {1}]
    \cup [form : Forms \cap {"position", "sequence"}, ref : References, count : Counts]
    \cup [form : Forms \cap {"time"}, ref : Times(p), count : TimeCounts[p]]

-----------------------------------------------------------------------------
(* Answers.                                                                *)

Refusal(code) == [kind |-> "error", code |-> code]

Interval(first, last) == [i \in 1..Greater(last - first + 1, 0) |-> first + i - 1]

Ack(n, first, last, items, claimed, sequence) ==
    [kind |-> "ack", items |-> items, claimed |-> claimed,
     firstItem |-> claimed > 0 /\ first = 1,
     lastItem |-> claimed > 0 /\ last = n,
     sequence |-> sequence]

-----------------------------------------------------------------------------
(* sysiobacnet.                                                            *)

\* A 32-bit signed result in an unchecked C# expression.
Wrap(i) == ((i - MinInt) % 2^Bits) + MinInt

\* A variant with a mistake: the interval is one record too long.
SysioByPositionTooLong(n, ref, count) ==
    IF ref < 1 \/ ref > n THEN <<1, 0>>
    ELSE IF count > 0 THEN <<ref, Lesser(n, ref + count)>>
    ELSE <<Greater(1, ref + count), ref>>

\* The interval of positions a request by position or sequence number selects;
\* the sum is made in long, so it cannot overflow.
SysioByPosition(n, ref, count) ==
    IF ref < 1 \/ ref > n THEN <<1, 0>>
    ELSE IF count > 0 THEN <<ref, Lesser(n, ref + count - 1)>>
    ELSE <<Greater(1, ref + count + 1), ref>>

\* The first record newer than t, and the last one older, or 0.
FirstAfter(n, t) ==
    LET after == {k \in 1..n : Stamp(k) > t} IN
    IF after = {} THEN 0 ELSE CHOOSE k \in after : \A j \in after : k <= j
LastBefore(n, t) ==
    LET before == {k \in 1..n : Stamp(k) < t} IN
    IF before = {} THEN 0 ELSE CHOOSE k \in before : \A j \in before : j <= k

\* The interval a request by time selects: newer records in int, older in long.
SysioNewer(n, first, count) ==
    IF first = 0 THEN <<1, 0>>
    ELSE <<first, Lesser(n, Wrap(Wrap(first + count) - 1))>>
SysioOlder(last, count) ==
    IF last = 0 THEN <<1, 0>> ELSE <<Greater(1, last + count + 1), last>>
SysioByTime(n, t, count) ==
    IF count > 0 THEN SysioNewer(n, FirstAfter(n, t), count)
    ELSE SysioOlder(LastBefore(n, t), count)

SysioInterval(n, r) ==
    CASE r.form = "all" -> <<1, n>>
      [] r.form \in {"position", "sequence"} -> SysioByPosition(n, r.ref, r.count)
      [] r.form = "time" -> SysioByTime(n, r.ref, r.count)

SysioAnswer(n, r) ==
    IF r.form # "all" /\ r.count = 0 THEN Refusal("inconsistent-parameters")
    ELSE LET range == SysioInterval(n, r)
             first == range[1]
             last == range[2]
         IN Ack(n, first, last, Interval(first, last),
                Greater(0, Wrap(Wrap(last - first) + 1)), first)

-----------------------------------------------------------------------------
(* worldiety: indices are 0-based, -1 selects nothing, and the reply holds *)
(* records[start:end].                                                     *)

\* A variant with a mistake: the record stamped exactly at the reference
\* time counts as older than it.
WorldietyTimeIndexInclusive(n, t, count) ==
    LET after == Cardinality({i \in 0..(n - 1) : Stamp(i + 1) <= t})
        index == IF count > 0 THEN after ELSE after - 1
    IN IF index >= n THEN -1 ELSE index

\* The 0-based index a request by time starts from or ends at.
WorldietyTimeIndex(n, t, count) ==
    LET after == Cardinality({i \in 0..(n - 1) : Stamp(i + 1) <= t})
        exact == after >= 1 /\ Stamp(after) = t
        index == IF count > 0 THEN after
                 ELSE IF exact THEN after - 2 ELSE after - 1
    IN IF index >= n THEN -1 ELSE index

WorldietyIndex(n, r) ==
    CASE r.form = "all" -> 0
      [] r.form = "position" -> r.ref - 1
      [] r.form = "sequence" -> IF r.ref >= 1 /\ r.ref <= n THEN r.ref - 1 ELSE -1
      [] r.form = "time" -> WorldietyTimeIndex(n, r.ref, r.count)

\* A variant with a mistake: the last record is never part of a longer page.
WorldietySliceShort(n, index, count) ==
    IF index < 0 THEN <<0, 0>>
    ELSE IF count > 0 THEN <<index, Lesser(index + count, n - 1)>>
    ELSE <<Greater(index + count + 1, 0), index + 1>>

\* <<start, end>> of the slice.
WorldietySlice(n, index, count) ==
    IF index < 0 THEN <<0, 0>>
    ELSE IF count > 0 THEN <<index, Lesser(index + count, n)>>
    ELSE <<Greater(index + count + 1, 0), index + 1>>

WorldietyRefusal(n, r) ==
    IF r.form # "all" /\ r.count = 0 THEN {"inconsistent-parameters"}
    ELSE IF r.form = "position" /\ (r.ref < 1 \/ r.ref > n) THEN {"invalid-array-index"}
    ELSE IF r.form = "time" /\ r.ref = Unspecified THEN {"datatype-not-supported"}
    ELSE {}

WorldietyAnswer(n, r) ==
    IF WorldietyRefusal(n, r) # {}
    THEN Refusal(CHOOSE code \in WorldietyRefusal(n, r) : TRUE)
    ELSE LET slice == WorldietySlice(n, WorldietyIndex(n, r),
                                     IF r.form = "all" THEN n ELSE r.count)
             start == slice[1]
             end == slice[2]
             named == r.form \in {"sequence", "time"} /\ start < end
         IN Ack(n, start + 1, end, Interval(start + 1, end), end - start,
                IF named THEN start + 1 ELSE NoSequence)

Answer(p, r) ==
    IF p = "sysio" THEN SysioAnswer(Records[p], r) ELSE WorldietyAnswer(Records[p], r)

-----------------------------------------------------------------------------
(* A client without a plan sends any one request: the answer depends on   *)
(* nothing that went before it.                                            *)

Ask ==
    /\ plan = NoPlan
    /\ request = NoRequest
    /\ request' \in Requests(peer)
    /\ answer' = Answer(peer, request')
    /\ UNCHANGED <<peer, plan, read>>

-----------------------------------------------------------------------------
(* A client that walks the log in pages, forwards with a positive count    *)
(* and backwards with a negative one, until an answer carries the flag of  *)
(* the end it is walking to.                                               *)

Forward == plan.count > 0

FirstReference ==
    IF plan.form = "time" THEN IF Forward THEN 0 ELSE Stamp(Records[peer]) + 1
    ELSE IF Forward THEN 1 ELSE Records[peer]

\* From the sequence number or the time stamp of the outermost record gathered.
NextReference ==
    LET edge == IF Forward THEN read[Len(read)] ELSE read[1] IN
    IF plan.form = "time" THEN Stamp(edge)
    ELSE IF Forward THEN edge + 1 ELSE edge - 1

AtTheEnd ==
    answer.kind = "ack" /\ (IF Forward THEN answer.lastItem ELSE answer.firstItem)

AskForPage(reference) ==
    LET r == [form |-> plan.form, ref |-> reference, count |-> plan.count]
        reply == Answer(peer, r)
    IN /\ request' = r
       /\ answer' = reply
       /\ read' = IF reply.kind # "ack" THEN read
                  ELSE IF Forward THEN read \o reply.items ELSE reply.items \o read
       /\ UNCHANGED <<peer, plan>>

StartWalk ==
    /\ plan # NoPlan
    /\ request = NoRequest
    /\ AskForPage(FirstReference)

ContinueWalk ==
    /\ plan # NoPlan
    /\ request # NoRequest
    /\ answer.kind = "ack"
    /\ ~AtTheEnd
    /\ Len(read) <= Records[peer]  \* a bound: a walk past every record has failed
    /\ read # <<>>
    /\ AskForPage(NextReference)

Walk == StartWalk \/ ContinueWalk

Init ==
    /\ peer \in Peers
    /\ request = NoRequest
    /\ answer = NoAnswer
    /\ plan \in {NoPlan} \cup [form : Forms \ {"all"}, count : Pages \cup {-k : k \in Pages}]
    /\ read = <<>>

Next == Ask \/ Walk

\* A walking client goes on as long as it has something to ask; a lost request or
\* answer is retried by its stack, and asking again changes nothing at the peer.
Spec == Init /\ [][Next]_vars /\ WF_vars(Walk)

-----------------------------------------------------------------------------
(* What a ReadRange request selects, by definition: the records on the     *)
(* requested side of the reference and, of those, the |count| nearest.     *)

Eligible(n, r) ==
    CASE r.form = "all" -> 1..n
      [] r.form \in {"position", "sequence"} /\ r.ref \notin 1..n -> {}
      [] r.form \in {"position", "sequence"} /\ r.ref \in 1..n ->
            {k \in 1..n : IF r.count > 0 THEN k >= r.ref ELSE k <= r.ref}
      [] r.form = "time" ->
            {k \in 1..n : IF r.count > 0 THEN Stamp(k) > r.ref ELSE Stamp(k) < r.ref}

Selected(n, r) ==
    LET E == Eligible(n, r) IN
    IF r.form = "all" THEN E
    ELSE {k \in E : IF r.count > 0
                    THEN Cardinality({j \in E : j <= k}) <= r.count
                    ELSE Cardinality({j \in E : j >= k}) <= -r.count}

\* An answer holds the selected records in order, claims as many items as it
\* holds, sets FIRST_ITEM and LAST_ITEM exactly when it holds that record and
\* names the sequence number of its first item, or none where the request named
\* neither a sequence number nor a time.  A request that selects something is
\* refused only for a zero count or a reference time that is not fully specified.
AnswerIsExact ==
    request # NoRequest =>
        LET n == Records[peer]
            S == Selected(n, request)
        IN CASE answer.kind = "error" ->
                  S = {} \/ request.count = 0 \/ request.ref = Unspecified
             [] answer.kind = "ack" ->
                  /\ answer.claimed = Cardinality(S)
                  /\ Len(answer.items) = answer.claimed
                  /\ {answer.items[i] : i \in DOMAIN answer.items} = S
                  /\ \A i, j \in DOMAIN answer.items : i < j => answer.items[i] < answer.items[j]
                  /\ answer.firstItem <=> 1 \in S
                  /\ answer.lastItem <=> n \in S
                  /\ S # {} => \/ answer.sequence \in S /\ \A k \in S : answer.sequence <= k
                               \/ answer.sequence = NoSequence /\ request.form \in {"all", "position"}

\* What the comment at DeviceServer.cs:645 says of a request by time with a
\* positive count: the answer is the |count| records newer than the time.
NewerRecordsAreReturned ==
    request # NoRequest /\ request.form = "time" /\ request.count > 0 /\ answer.kind = "ack" =>
        /\ answer.claimed = Len(answer.items)
        /\ {answer.items[i] : i \in DOMAIN answer.items} = Selected(Records[peer], request)

\* A client that walks the log gathers every record once and in order: what it
\* holds is always one end of the log, and at the end flag it holds all of it.
\* It is never refused on the way.
WalkReadsEachRecordOnce ==
    plan # NoPlan /\ request # NoRequest =>
        /\ answer.kind = "ack"
        /\ Len(read) <= Records[peer]
        /\ read = IF Forward THEN Interval(1, Len(read))
                  ELSE Interval(Records[peer] - Len(read) + 1, Records[peer])
        /\ AtTheEnd => Len(read) = Records[peer]

\* A walk comes to the end flag: no page is empty before it, whatever the page
\* size and the form of the requests.
WalksEnd == plan # NoPlan => <>AtTheEnd
=============================================================================
