--------------------------- MODULE ReadRangeProofs ---------------------------
(***************************************************************************)
(* Proofs about ReadRange: each server's interval arithmetic selects the   *)
(* records its definition names, for logs and counts of any width, and a   *)
(* client that walks a log in pages reads each of its records once.        *)
(***************************************************************************)
EXTENDS ReadRange, FiniteSetTheorems, SequenceTheorems, TLAPS

\* The requests for which the answers are compared with the definition: every
\* one a peer can decode.
Asked == [form : {"all", "position", "sequence", "time"}, ref : Int, count : MinInt..MaxInt]

\* No sum of a position of sysiobacnet's log and a count by time leaves the 32
\* bits; where one does, its answers are wrong (NewerRecordsAreReturned).
SumsFit(n, r) == r.form = "time" => n + r.count - 1 <= MaxInt

\* AnswerIsExact of an answer a to a request r of a log of n records.
IsExact(n, r, a) ==
    LET S == Selected(n, r)
    IN CASE a.kind = "error" -> S = {} \/ r.count = 0 \/ r.ref = Unspecified
         [] a.kind = "ack" ->
              /\ a.claimed = Cardinality(S)
              /\ Len(a.items) = a.claimed
              /\ {a.items[i] : i \in DOMAIN a.items} = S
              /\ \A i, j \in DOMAIN a.items : i < j => a.items[i] < a.items[j]
              /\ a.firstItem <=> 1 \in S
              /\ a.lastItem <=> n \in S
              /\ S # {} => \/ a.sequence \in S /\ \A k \in S : a.sequence <= k
                           \/ a.sequence = NoSequence /\ r.form \in {"all", "position"}

\* The number an answer names: that of its first item, or none.
Names(r, first, last, sequence) ==
    \/ sequence = first
    \/ sequence = NoSequence /\ (last < first \/ r.form \in {"all", "position"})

-----------------------------------------------------------------------------
(* Widths.                                                                 *)

LEMMA Widths ==
    /\ MinInt \in Int /\ MaxInt \in Nat /\ MinInt < 0
    /\ 2^Bits \in Nat \ {0} /\ 2^Bits = MaxInt - MinInt + 1
  BY PowersAssumption, WidthAssumption DEF MinInt, MaxInt

LEMMA SmallRemainder ==
    ASSUME NEW W \in Nat \ {0}, NEW i \in 0..(W - 1) PROVE i % W = i
  OBVIOUS

\* A number of 32 bits is left alone.
LEMMA WrapFits ==
    ASSUME NEW i \in MinInt..MaxInt PROVE Wrap(i) = i
  <1>1. i - MinInt \in 0..(2^Bits - 1)
    BY Widths
  <1>2. (i - MinInt) % 2^Bits = i - MinInt
    BY <1>1, Widths, SmallRemainder
  <1>3. QED
    BY <1>2, Widths DEF Wrap

LEMMA WrapOverEnd == Wrap(MaxInt + 1) = MinInt /\ Wrap(MinInt - 1) = MaxInt
  <1>1. ASSUME NEW W \in Nat \ {0} PROVE W % W = 0 /\ (-1) % W = W - 1
    OBVIOUS
  <1>2. MaxInt + 1 - MinInt = 2^Bits /\ MinInt - 1 - MinInt = -1
    BY Widths
  <1>3. 2^Bits % 2^Bits = 0 /\ (-1) % 2^Bits = 2^Bits - 1
    BY <1>1, Widths
  <1>4. QED
    BY <1>2, <1>3, Widths DEF Wrap

\* The C# expression first + count - 1 is what it says while it fits, although
\* the sum inside need not.
LEMMA WrapSum ==
    ASSUME NEW i \in Int, i - 1 \in MinInt..MaxInt PROVE Wrap(Wrap(i) - 1) = i - 1
  <1>1. CASE i \in MinInt..MaxInt
    BY <1>1, WrapFits
  <1>2. CASE i = MaxInt + 1
    BY <1>2, WrapOverEnd, Widths
  <1>3. QED
    BY <1>1, <1>2, Widths

-----------------------------------------------------------------------------
(* Intervals.                                                              *)

\* Of an interval, the count records nearest to its beginning or its end.
LEMMA NearestOfInterval ==
    ASSUME NEW a \in Int, NEW b \in Int, NEW c \in Int
    PROVE  /\ c > 0 => {k \in a..b : Cardinality({j \in a..b : j <= k}) <= c} = a..Lesser(b, a + c - 1)
           /\ c < 0 => {k \in a..b : Cardinality({j \in a..b : j >= k}) <= -c} = Greater(a, b + c + 1)..b
  <1>1. ASSUME NEW k \in a..b
        PROVE  Cardinality({j \in a..b : j <= k}) = k - a + 1 /\ Cardinality({j \in a..b : j >= k}) = b - k + 1
    <2>1. {j \in a..b : j <= k} = a..k /\ {j \in a..b : j >= k} = k..b
      BY <1>1
    <2>2. Cardinality(a..k) = k - a + 1 /\ Cardinality(k..b) = b - k + 1
      BY <1>1, FS_Interval
    <2>3. QED
      BY <2>1, <2>2
  <1>2. {k \in a..b : Cardinality({j \in a..b : j <= k}) <= c} = {k \in a..b : k - a + 1 <= c}
    BY <1>1
  <1>3. {k \in a..b : Cardinality({j \in a..b : j >= k}) <= -c} = {k \in a..b : b - k + 1 <= -c}
    BY <1>1
  <1>4. c > 0 => {k \in a..b : k - a + 1 <= c} = a..Lesser(b, a + c - 1)
    BY DEF Lesser
  <1>5. c < 0 => {k \in a..b : b - k + 1 <= -c} = Greater(a, b + c + 1)..b
    BY DEF Greater
  <1>6. QED
    BY <1>2, <1>3, <1>4, <1>5

\* An answer made of an interval of the log is exact about it.
LEMMA IntervalIsExact ==
    ASSUME NEW n \in Nat, NEW first \in Int, NEW last \in Int, NEW r, NEW a, NEW sequence,
           first >= 1, last <= n, Selected(n, r) = first..last, Names(r, first, last, sequence),
           a = Ack(n, first, last, Interval(first, last), Greater(0, last - first + 1), sequence)
    PROVE  IsExact(n, r, a)
  <1> DEFINE size == Greater(last - first + 1, 0)
  <1>1. size \in Nat /\ size = Greater(0, last - first + 1)
    BY DEF Greater
  <1>2. Cardinality(first..last) = size
    <2>1. Cardinality(first..last) = IF first > last THEN 0 ELSE last - first + 1
      BY FS_Interval
    <2>2. QED
      BY <2>1 DEF Greater
  <1>3. /\ a.kind = "ack" /\ a.items = Interval(first, last) /\ a.claimed = size /\ a.sequence = sequence
        /\ a.firstItem <=> size > 0 /\ first = 1
        /\ a.lastItem <=> size > 0 /\ last = n
    BY <1>1 DEF Ack
  <1>4. /\ DOMAIN a.items = 1..size /\ Len(a.items) = size
        /\ \A i \in 1..size : a.items[i] = first + i - 1
    <2>1. a.items = [i \in 1..size |-> first + i - 1]
      BY <1>3 DEF Interval
    <2>2. a.items \in Seq(Int)
      BY <1>1, <2>1
    <2>3. QED
      BY <1>1, <2>1, <2>2
  <1>5. (size > 0 => last - first + 1 = size) /\ (size = 0 => last < first)
    BY DEF Greater
  <1> HIDE DEF size
  <1>6. {a.items[i] : i \in 1..size} = first..last
    <2>1. ASSUME NEW k \in first..last PROVE \E i \in 1..size : a.items[i] = k
      <3>1. k - first + 1 \in 1..size
        BY <1>1, <1>5
      <3>2. a.items[k - first + 1] = k
        BY <1>4, <3>1
      <3>3. QED
        BY <3>1, <3>2
    <2>2. ASSUME NEW i \in 1..size PROVE a.items[i] \in first..last
      BY <1>1, <1>4, <1>5
    <2>3. QED
      BY <2>1, <2>2
  <1>7. \A i, j \in 1..size : i < j => a.items[i] < a.items[j]
    <2>1. ASSUME NEW i \in 1..size, NEW j \in 1..size, i < j PROVE a.items[i] < a.items[j]
      <3>1. a.items[i] = first + i - 1 /\ a.items[j] = first + j - 1
        BY <1>4
      <3>2. first + i - 1 < first + j - 1
        BY <1>1, <2>1
      <3>3. QED
        BY <3>1, <3>2
    <2>2. QED
      BY <2>1
  <1>8. (size > 0 /\ first = 1 <=> 1 \in first..last) /\ (size > 0 /\ last = n <=> n \in first..last)
    BY <1>1, <1>5
  <1>9. first..last # {} => first \in first..last /\ last >= first /\ \A k \in first..last : first <= k
    OBVIOUS
  <1>9a. first..last # {} => \/ sequence \in first..last /\ \A k \in first..last : sequence <= k
                             \/ sequence = NoSequence /\ r.form \in {"all", "position"}
    BY <1>9 DEF Names
  <1>10. QED
    BY <1>2, <1>3, <1>4, <1>6, <1>7, <1>8, <1>9a DEF IsExact
-----------------------------------------------------------------------------
(* The records a request may select, and those it does.                    *)

LEMMA SelectedFrom ==
    ASSUME NEW n \in Nat, NEW r \in Asked, r.form # "all", r.count # 0,
           NEW a \in Int, NEW b \in Int, Eligible(n, r) = a..b
    PROVE  Selected(n, r) = IF r.count > 0 THEN a..Lesser(b, a + r.count - 1)
                            ELSE Greater(a, b + r.count + 1)..b
  <1>1. r.count \in Int
    BY Widths DEF Asked
  <1>2. Selected(n, r) = IF r.count > 0 THEN {k \in a..b : Cardinality({j \in a..b : j <= k}) <= r.count}
                         ELSE {k \in a..b : Cardinality({j \in a..b : j >= k}) <= -r.count}
    BY DEF Selected
  <1>3. \A c \in Int :
            /\ c > 0 => {k \in a..b : Cardinality({j \in a..b : j <= k}) <= c} = a..Lesser(b, a + c - 1)
            /\ c < 0 => {k \in a..b : Cardinality({j \in a..b : j >= k}) <= -c} = Greater(a, b + c + 1)..b
    BY NearestOfInterval
  <1>4. CASE r.count > 0
    BY <1>1, <1>2, <1>3, <1>4
  <1>5. CASE r.count < 0
    BY <1>1, <1>2, <1>3, <1>5
  <1>6. QED
    BY <1>1, <1>4, <1>5

LEMMA AllSelected ==
    ASSUME NEW n, NEW r, r.form = "all"
    PROVE  Selected(n, r) = 1..n
  BY DEF Selected, Eligible

\* By position or sequence number.
LEMMA EligibleByPlace ==
    ASSUME NEW n \in Nat, NEW r \in Asked, r.form \in {"position", "sequence"}
    PROVE  Eligible(n, r) = IF r.ref \notin 1..n THEN 1..0
                            ELSE IF r.count > 0 THEN r.ref..n ELSE 1..r.ref
  <1>1. r.ref \in Int /\ r.count \in Int
    BY Widths DEF Asked
  <1>2. Eligible(n, r) = IF r.ref \notin 1..n THEN {}
                         ELSE {k \in 1..n : IF r.count > 0 THEN k >= r.ref ELSE k <= r.ref}
    BY DEF Eligible
  <1>3. ASSUME NEW ref \in 1..n
        PROVE  {k \in 1..n : k >= ref} = ref..n /\ {k \in 1..n : k <= ref} = 1..ref
    OBVIOUS
  <1>4. CASE r.ref \notin 1..n
    BY <1>2, <1>4
  <1>5. CASE r.ref \in 1..n /\ r.count > 0
    BY <1>2, <1>3, <1>5
  <1>6. CASE r.ref \in 1..n /\ ~(r.count > 0)
    BY <1>2, <1>3, <1>6
  <1>7. QED
    BY <1>4, <1>5, <1>6

LEMMA EligibleByTime ==
    ASSUME NEW n, NEW r, r.form = "time"
    PROVE  Eligible(n, r) = {k \in 1..n : IF r.count > 0 THEN Stamp(k) > r.ref ELSE Stamp(k) < r.ref}
  BY DEF Eligible

\* Where the instant t lies among the records.
LEMMA Instants ==
    ASSUME NEW t \in Int, NEW k \in Int
    PROVE  /\ t \div 2 \in Int /\ (t - 1) \div 2 \in Int
           /\ Stamp(k) > t <=> k >= t \div 2 + 1
           /\ Stamp(k) < t <=> k <= (t - 1) \div 2
           /\ Stamp(k) = t => (t - 1) \div 2 = k - 1 /\ t \div 2 = k
           /\ (\A j \in Int : Stamp(j) # t) => (t - 1) \div 2 = t \div 2
  <1>1. t \div 2 \in Int /\ (t - 1) \div 2 \in Int
    OBVIOUS
  <1>2. \/ t = 2 * (t \div 2)
        \/ t = 2 * (t \div 2) + 1
    OBVIOUS
  <1>3. \/ t - 1 = 2 * ((t - 1) \div 2)
        \/ t - 1 = 2 * ((t - 1) \div 2) + 1
    OBVIOUS
  <1>4. ASSUME \A j \in Int : Stamp(j) # t PROVE (t - 1) \div 2 = t \div 2
    <2>1. t # 2 * (t \div 2)
      BY <1>1, <1>4 DEF Stamp
    <2>2. QED
      BY <1>1, <1>2, <1>3, <2>1
  <1>5. QED
    BY <1>1, <1>2, <1>3, <1>4 DEF Stamp

-----------------------------------------------------------------------------
(* sysiobacnet.                                                            *)

\* The loops that look for the first newer and the last older record.
LEMMA FirstAfterBegins ==
    ASSUME NEW n \in Nat, NEW t \in Int
    PROVE  LET E == {k \in 1..n : Stamp(k) > t}
               first == FirstAfter(n, t)
           IN  IF first = 0 THEN E = {} ELSE first \in 1..n /\ E = first..n
  <1> DEFINE E == {k \in 1..n : Stamp(k) > t}
             least == Greater(1, t \div 2 + 1)
  <1>1. \A k \in Int : Stamp(k) > t <=> k >= t \div 2 + 1
    BY Instants
  <1>2. t \div 2 \in Int
    BY Instants
  <1>3. E = least..n /\ least \in Int /\ least >= 1
    BY <1>1, <1>2 DEF Greater
  <1>4. CASE E = {}
    BY <1>4 DEF FirstAfter
  <1>5. CASE E # {}
    <2>1. least \in E /\ \A j \in E : least <= j
      BY <1>3, <1>5
    <2>2. PICK m : m = CHOOSE k \in E : \A j \in E : k <= j
      OBVIOUS
    <2>3. m \in E /\ \A j \in E : m <= j
      BY <2>1, <2>2
    <2>4. m = least
      BY <1>3, <2>1, <2>3
    <2>5. FirstAfter(n, t) = m
      BY <1>5, <2>2 DEF FirstAfter
    <2>6. QED
      BY <1>3, <2>1, <2>4, <2>5
  <1>6. QED
    BY <1>4, <1>5

LEMMA LastBeforeEnds ==
    ASSUME NEW n \in Nat, NEW t \in Int
    PROVE  LET E == {k \in 1..n : Stamp(k) < t}
               last == LastBefore(n, t)
           IN  IF last = 0 THEN E = {} ELSE last \in 1..n /\ E = 1..last
  <1> DEFINE E == {k \in 1..n : Stamp(k) < t}
             most == Lesser(n, (t - 1) \div 2)
  <1>1. \A k \in Int : Stamp(k) < t <=> k <= (t - 1) \div 2
    BY Instants
  <1>2. (t - 1) \div 2 \in Int
    BY Instants
  <1>3. E = 1..most /\ most \in Int /\ most <= n
    BY <1>1, <1>2 DEF Lesser
  <1>4. CASE E = {}
    BY <1>4 DEF LastBefore
  <1>5. CASE E # {}
    <2>1. most \in E /\ \A j \in E : j <= most
      BY <1>3, <1>5
    <2>2. PICK m : m = CHOOSE k \in E : \A j \in E : j <= k
      OBVIOUS
    <2>3. m \in E /\ \A j \in E : j <= m
      BY <2>1, <2>2
    <2>4. m = most
      BY <1>3, <2>1, <2>3
    <2>5. LastBefore(n, t) = m
      BY <1>5, <2>2 DEF LastBefore
    <2>6. QED
      BY <1>3, <2>1, <2>4, <2>5
  <1>6. QED
    BY <1>4, <1>5

\* What an interval of the log is to its answer: its bounds are in the log and
\* it is empty in one way only.
Within(n, range) ==
    \/ range = <<1, 0>>
    \/ range[1] \in 1..n /\ range[2] \in range[1]..n /\ range = <<range[1], range[2]>>

LEMMA SysioSelects ==
    ASSUME NEW n \in 1..MaxInt, NEW r \in Asked, SumsFit(n, r), r.form = "all" \/ r.count # 0
    PROVE  LET range == SysioInterval(n, r)
           IN  Within(n, range) /\ Selected(n, r) = range[1]..range[2]
  <1> DEFINE c == r.count
             range == SysioInterval(n, r)
  <1>1. n \in Nat /\ n >= 1 /\ n <= MaxInt /\ c \in Int /\ c \in MinInt..MaxInt /\ r.ref \in Int
    BY Widths DEF Asked
  <1>2. CASE r.form = "all"
    <2>1. range = <<1, n>>
      BY <1>2 DEF SysioInterval
    <2>2. QED
      BY <1>1, <1>2, <2>1, AllSelected DEF Within
  <1>3. CASE r.form \in {"position", "sequence"}
    <2>1. range = SysioByPosition(n, r.ref, c)
      BY <1>3 DEF SysioInterval
    <2>2. Selected(n, r) = IF r.ref \notin 1..n THEN 1..0
                           ELSE IF c > 0 THEN r.ref..Lesser(n, r.ref + c - 1)
                           ELSE Greater(1, r.ref + c + 1)..r.ref
      <3>1. CASE r.ref \notin 1..n
        <4>1. Eligible(n, r) = 1..0
          BY <1>1, <1>3, <3>1, EligibleByPlace
        <4>2. Selected(n, r) \subseteq Eligible(n, r)
          BY DEF Selected
        <4>3. QED
          BY <3>1, <4>1, <4>2
      <3>2. CASE r.ref \in 1..n
        <4>1. Eligible(n, r) = IF c > 0 THEN r.ref..n ELSE 1..r.ref
          BY <1>1, <1>3, <3>2, EligibleByPlace
        <4>2. QED
          BY <1>1, <1>3, <3>2, <4>1, SelectedFrom
      <3>3. QED
        BY <3>1, <3>2
    <2>3. CASE r.ref \notin 1..n
      BY <1>1, <2>1, <2>2, <2>3 DEF SysioByPosition, Within
    <2>4. CASE r.ref \in 1..n /\ c > 0
      BY <1>1, <2>1, <2>2, <2>4 DEF SysioByPosition, Within, Lesser
    <2>5. CASE r.ref \in 1..n /\ c < 0
      BY <1>1, <2>1, <2>2, <2>5 DEF SysioByPosition, Within, Greater
    <2>6. QED
      BY <1>1, <1>3, <2>3, <2>4, <2>5
  <1>4. CASE r.form = "time" /\ c > 0
    <2>1. range = SysioNewer(n, FirstAfter(n, r.ref), c)
      BY <1>4 DEF SysioInterval, SysioByTime
    <2>2. Eligible(n, r) = {k \in 1..n : Stamp(k) > r.ref}
      BY <1>4, EligibleByTime
    <2>3. CASE FirstAfter(n, r.ref) = 0
      <3>1. Eligible(n, r) = {}
        BY <1>1, <2>2, <2>3, FirstAfterBegins
      <3>2. Selected(n, r) = {}
        BY <1>4, <3>1 DEF Selected
      <3>3. QED
        BY <2>1, <2>3, <3>2 DEF SysioNewer, Within
    <2>4. CASE FirstAfter(n, r.ref) # 0
      <3>1. PICK first \in 1..n : first = FirstAfter(n, r.ref) /\ Eligible(n, r) = first..n
        BY <1>1, <2>2, <2>4, FirstAfterBegins
      <3>2. Selected(n, r) = first..Lesser(n, first + c - 1)
        BY <1>1, <1>4, <3>1, SelectedFrom
      <3>3. first + c - 1 \in MinInt..MaxInt
        BY <1>1, <1>4, Widths DEF SumsFit
      <3>4. Wrap(Wrap(first + c) - 1) = first + c - 1
        BY <1>1, <3>3, WrapSum
      <3>5. range = <<first, Lesser(n, first + c - 1)>>
        BY <2>1, <2>4, <3>1, <3>4 DEF SysioNewer
      <3>6. QED
        BY <1>1, <1>4, <3>2, <3>5 DEF Within, Lesser
    <2>5. QED
      BY <2>3, <2>4
  <1>5. CASE r.form = "time" /\ c < 0
    <2>1. range = SysioOlder(LastBefore(n, r.ref), c)
      BY <1>1, <1>5 DEF SysioInterval, SysioByTime
    <2>2. Eligible(n, r) = {k \in 1..n : Stamp(k) < r.ref}
      BY <1>1, <1>5, EligibleByTime
    <2>3. CASE LastBefore(n, r.ref) = 0
      <3>1. Eligible(n, r) = {}
        BY <1>1, <2>2, <2>3, LastBeforeEnds
      <3>2. Selected(n, r) = {}
        BY <1>5, <3>1 DEF Selected
      <3>3. QED
        BY <2>1, <2>3, <3>2 DEF SysioOlder, Within
    <2>4. CASE LastBefore(n, r.ref) # 0
      <3>1. PICK last \in 1..n : last = LastBefore(n, r.ref) /\ Eligible(n, r) = 1..last
        BY <1>1, <2>2, <2>4, LastBeforeEnds
      <3>2. Selected(n, r) = Greater(1, last + c + 1)..last
        BY <1>1, <1>5, <3>1, SelectedFrom
      <3>3. range = <<Greater(1, last + c + 1), last>>
        BY <2>1, <2>4, <3>1 DEF SysioOlder
      <3>4. QED
        BY <1>1, <1>5, <3>2, <3>3 DEF Within, Greater
    <2>5. QED
      BY <2>3, <2>4
  <1>6. QED
    BY <1>1, <1>2, <1>3, <1>4, <1>5 DEF Asked

\* The answer a to a request r holds the interval of the log it selects.
HoldsSelected(n, r, a) ==
    \E first \in Int, last \in Int, sequence \in Int :
        /\ first >= 1 /\ last <= n
        /\ Selected(n, r) = first..last /\ Names(r, first, last, sequence)
        /\ a = Ack(n, first, last, Interval(first, last), Greater(0, last - first + 1), sequence)

\* sysiobacnet answers any request whose sums fit with what it selects.
LEMMA SysioAnswers ==
    ASSUME NEW n \in 1..MaxInt, NEW r \in Asked, SumsFit(n, r), r.form = "all" \/ r.count # 0
    PROVE  HoldsSelected(n, r, SysioAnswer(n, r))
  <1> DEFINE range == SysioInterval(n, r)
             first == range[1]
             last == range[2]
  <1>1. Within(n, range) /\ Selected(n, r) = first..last
    BY SysioSelects
  <1>2. n \in Nat /\ first \in Int /\ last \in Int /\ first >= 1 /\ last <= n /\ last - first + 1 \in 0..n
    BY <1>1, Widths DEF Within
  <1>3. SysioAnswer(n, r) = Ack(n, first, last, Interval(first, last),
                                Greater(0, Wrap(Wrap(last - first) + 1)), first)
    BY DEF SysioAnswer
  <1> HIDE DEF first, last, range
  <1>4. Wrap(Wrap(last - first) + 1) = last - first + 1
    <2>1. last - first \in MinInt..MaxInt /\ last - first + 1 \in MinInt..MaxInt
      BY <1>2, Widths
    <2>2. Wrap(last - first) = last - first /\ Wrap(last - first + 1) = last - first + 1
      BY <2>1, WrapFits
    <2>3. QED
      BY <2>2
  <1>5. QED
    BY <1>1, <1>2, <1>3, <1>4 DEF HoldsSelected, Names

-----------------------------------------------------------------------------
(* worldiety.                                                              *)

\* What sort.Search returns, and where it lies among the records.
LEMMA SearchedAfter ==
    ASSUME NEW n \in Nat, NEW t \in Int
    PROVE  LET after == Cardinality({i \in 0..(n - 1) : Stamp(i + 1) <= t})
           IN  /\ after \in 0..n
               /\ {k \in 1..n : Stamp(k) > t} = (after + 1)..n
               /\ {k \in 1..n : Stamp(k) < t} =
                      1..(IF after >= 1 /\ Stamp(after) = t THEN after - 1 ELSE after)
  <1> DEFINE half == t \div 2
             top == Lesser(n, half) - 1
             after == Cardinality({i \in 0..(n - 1) : Stamp(i + 1) <= t})
  <1>1. half \in Int /\ \A k \in Int : Stamp(k) > t <=> k >= half + 1
    BY Instants
  <1>2. \A k \in Int : Stamp(k) <= t <=> k <= half
    BY <1>1 DEF Stamp
  <1>3. {i \in 0..(n - 1) : Stamp(i + 1) <= t} = 0..top /\ top \in Int
    <2>1. top \in Int /\ \A i \in 0..(n - 1) : i + 1 <= half <=> i <= top
      BY <1>1 DEF Lesser
    <2>2. \A i \in 0..(n - 1) : Stamp(i + 1) <= t <=> i <= top
      BY <1>2, <2>1
    <2>3. \A i \in Int : i <= top => i <= n - 1
      BY <1>1 DEF Lesser
    <2> HIDE DEF top
    <2>4. QED
      BY <2>1, <2>2, <2>3
  <1>4. after = Greater(0, Lesser(n, half))
    <2>1. Cardinality(0..top) = IF 0 > top THEN 0 ELSE top - 0 + 1
      <3>1. top \in Int
        BY <1>3
      <3> HIDE DEF top
      <3>2. QED
        BY <3>1, FS_Interval
    <2>2. after = Cardinality(0..top)
      BY <1>3
    <2> HIDE DEF after
    <2>3. QED
      BY <1>1, <2>1, <2>2 DEF Lesser, Greater
  <1> HIDE DEF after
  <1>5. after \in 0..n /\ (after < n => after >= half) /\ (after > 0 => after <= half)
    BY <1>1, <1>4 DEF Lesser, Greater
  <1>6. {k \in 1..n : Stamp(k) > t} = (after + 1)..n
    BY <1>1, <1>5
  <1>7. {k \in 1..n : Stamp(k) < t} = {k \in 1..n : k <= half /\ Stamp(k) # t}
    BY <1>2 DEF Stamp
  <1>8. CASE after >= 1 /\ Stamp(after) = t
    <2>1. \A k \in 1..n : Stamp(k) < t <=> k <= after - 1
      BY <1>5, <1>8 DEF Stamp
    <2>2. QED
      BY <1>5, <1>6, <1>8, <2>1 DEF after
  <1>9. CASE ~(after >= 1 /\ Stamp(after) = t)
    <2>1. ASSUME NEW k \in 1..n PROVE Stamp(k) < t <=> k <= after
      <3>1. k <= half => k <= after
        BY <1>1, <1>5
      <3>2. k <= after => Stamp(k) <= t /\ (Stamp(k) = t => k = after)
        <4>1. after > 0 => Stamp(after) <= t
          BY <1>2, <1>5
        <4>2. QED
          BY <1>5, <4>1 DEF Stamp
      <3>3. QED
        BY <1>2, <1>5, <1>9, <3>1, <3>2 DEF Stamp
    <2>2. {k \in 1..n : Stamp(k) < t} = 1..after
      BY <1>5, <2>1
    <2>3. QED
      BY <1>5, <1>6, <1>9, <2>2 DEF after
  <1>10. QED
    BY <1>8, <1>9
\* What a request by time starts from selects its side of the log.
LEMMA EligibleFromIndex ==
    ASSUME NEW n \in Nat, NEW r \in Asked, r.form = "time"
    PROVE  LET index == WorldietyTimeIndex(n, r.ref, r.count)
           IN  /\ index \in Int /\ index < n
               /\ r.count > 0 => Eligible(n, r) = IF index < 0 THEN 1..0 ELSE (index + 1)..n
               /\ ~(r.count > 0) => Eligible(n, r) = IF index < 0 THEN 1..0 ELSE 1..(index + 1)
  <1> DEFINE t == r.ref
             after == Cardinality({i \in 0..(n - 1) : Stamp(i + 1) <= t})
             exact == after >= 1 /\ Stamp(after) = t
             start == IF r.count > 0 THEN after ELSE IF exact THEN after - 2 ELSE after - 1
             index == WorldietyTimeIndex(n, t, r.count)
  <1>1. t \in Int /\ r.count \in Int
    BY Widths DEF Asked
  <1>2. /\ after \in 0..n
        /\ {k \in 1..n : Stamp(k) > t} = (after + 1)..n
        /\ {k \in 1..n : Stamp(k) < t} = 1..(IF exact THEN after - 1 ELSE after)
    BY <1>1, SearchedAfter
  <1>3. Eligible(n, r) = {k \in 1..n : IF r.count > 0 THEN Stamp(k) > t ELSE Stamp(k) < t}
    BY EligibleByTime
  <1>4. index = IF start >= n THEN -1 ELSE start
    BY DEF WorldietyTimeIndex
  <1> HIDE DEF after, exact, index
  <1>5. CASE r.count > 0
    <2>1. Eligible(n, r) = (after + 1)..n
      BY <1>2, <1>3, <1>5
    <2>2. index = IF after >= n THEN -1 ELSE after
      BY <1>4, <1>5
    <2>3. QED
      BY <1>2, <1>5, <2>1, <2>2 DEF index
  <1>6. CASE ~(r.count > 0)
    <2>1. Eligible(n, r) = 1..(IF exact THEN after - 1 ELSE after)
      BY <1>2, <1>3, <1>6
    <2>2. index = IF exact THEN after - 2 ELSE after - 1
      BY <1>2, <1>4, <1>6
    <2>3. exact => after >= 1
      BY DEF exact
    <2>4. QED
      BY <1>2, <1>6, <2>1, <2>2, <2>3 DEF index
  <1>7. QED
    BY <1>5, <1>6

\* The slice a request selects, by whichever index it comes from.
LEMMA SliceSelects ==
    ASSUME NEW n \in Nat, NEW r \in Asked, r.form # "all", r.count # 0,
           NEW index \in Int, index < n,
           r.count > 0 => Eligible(n, r) = IF index < 0 THEN 1..0 ELSE (index + 1)..n,
           ~(r.count > 0) => Eligible(n, r) = IF index < 0 THEN 1..0 ELSE 1..(index + 1)
    PROVE  LET slice == WorldietySlice(n, index, r.count)
           IN  /\ slice[1] \in 0..n /\ slice[2] \in slice[1]..n
               /\ Selected(n, r) = (slice[1] + 1)..slice[2]
  <1> DEFINE c == r.count
             slice == WorldietySlice(n, index, c)
  <1>1. c \in Int /\ c # 0
    BY Widths DEF Asked
  <1>2. CASE index < 0
    <2>1. Eligible(n, r) = {}
      BY <1>2
    <2>2. Selected(n, r) = {}
      BY <2>1 DEF Selected
    <2>3. slice = <<0, 0>>
      BY <1>2 DEF WorldietySlice
    <2>4. QED
      BY <2>2, <2>3
  <1>3. CASE index >= 0 /\ c > 0
    <2>1. Selected(n, r) = (index + 1)..Lesser(n, index + 1 + c - 1)
      <3>1. Eligible(n, r) = (index + 1)..n
        BY <1>3
      <3>2. QED
        BY <1>1, <1>3, <3>1, SelectedFrom
    <2>2. slice = <<index, Lesser(index + c, n)>>
      BY <1>3 DEF WorldietySlice
    <2>3. index + 1 + c - 1 = index + c
      BY <1>1
    <2>4. Lesser(n, index + c) = Lesser(index + c, n) /\ Lesser(index + c, n) \in index..n
      BY <1>1, <1>3 DEF Lesser
    <2>5. QED
      BY <1>1, <1>3, <2>1, <2>2, <2>3, <2>4
  <1>4. CASE index >= 0 /\ c < 0
    <2>1. Selected(n, r) = Greater(1, index + 1 + c + 1)..(index + 1)
      <3>1. Eligible(n, r) = 1..(index + 1)
        BY <1>1, <1>4
      <3>2. QED
        BY <1>1, <1>4, <3>1, SelectedFrom
    <2>2. slice = <<Greater(index + c + 1, 0), index + 1>>
      BY <1>1, <1>4 DEF WorldietySlice
    <2>3. Greater(1, index + 1 + c + 1) = Greater(index + c + 1, 0) + 1 /\ Greater(index + c + 1, 0) \in 0..(index + 1)
      <3>1. ASSUME NEW d \in Int, d < 0, index >= 0
            PROVE  /\ Greater(1, index + 1 + d + 1) = Greater(index + d + 1, 0) + 1
                   /\ Greater(index + d + 1, 0) \in 0..(index + 1)
        BY <3>1 DEF Greater
      <3>2. QED
        BY <1>1, <1>4, <3>1
    <2>4. QED
      BY <1>1, <1>4, <2>1, <2>2, <2>3
  <1>5. QED
    BY <1>1, <1>2, <1>3, <1>4

\* worldiety refuses only what selects nothing, a zero count or an instant it
\* cannot compare.
LEMMA WorldietyRefuses ==
    ASSUME NEW n \in Nat, NEW r \in Asked, WorldietyRefusal(n, r) # {}
    PROVE  /\ r.form # "all" /\ (Selected(n, r) = {} \/ r.count = 0 \/ r.ref = Unspecified)
           /\ WorldietyAnswer(n, r).kind = "error"
  <1>1. WorldietyAnswer(n, r).kind = "error"
    BY DEF WorldietyAnswer, Refusal
  <1>2. \/ r.form # "all" /\ r.count = 0
        \/ r.form = "position" /\ (r.ref < 1 \/ r.ref > n)
        \/ r.form = "time" /\ r.ref = Unspecified
    BY DEF WorldietyRefusal
  <1>3. ASSUME r.form = "position", r.ref < 1 \/ r.ref > n
        PROVE  Selected(n, r) = {}
    <2>1. Eligible(n, r) = {}
      BY <1>3, EligibleByPlace
    <2>2. QED
      BY <2>1 DEF Selected
  <1>4. QED
    BY <1>1, <1>2, <1>3

\* It answers any other request with what it selects.
LEMMA WorldietyAnswers ==
    ASSUME NEW n \in Nat, n >= 1, NEW r \in Asked, WorldietyRefusal(n, r) = {}
    PROVE  HoldsSelected(n, r, WorldietyAnswer(n, r))
  <1> DEFINE c == IF r.form = "all" THEN n ELSE r.count
             index == WorldietyIndex(n, r)
             slice == WorldietySlice(n, index, c)
             sequence == IF r.form \in {"sequence", "time"} /\ slice[1] < slice[2] THEN slice[1] + 1 ELSE NoSequence
  <1>1. r.count \in Int /\ r.ref \in Int
    BY Widths DEF Asked
  <1>2. /\ r.form # "all" => r.count # 0
        /\ r.form = "position" => r.ref \in 1..n
    BY <1>1 DEF WorldietyRefusal
  <1>3. /\ slice[1] \in 0..n /\ slice[2] \in slice[1]..n
        /\ Selected(n, r) = (slice[1] + 1)..slice[2]
    <2>1. CASE r.form = "all"
      <3>1. index = 0 /\ c = n
        BY <2>1 DEF WorldietyIndex
      <3>2. slice = <<0, n>>
        BY <3>1 DEF WorldietySlice, Lesser
      <3>3. QED
        BY <2>1, <3>2, AllSelected
    <2>2. CASE r.form \in {"position", "sequence"}
      <3>1. index = IF r.ref \in 1..n THEN r.ref - 1 ELSE -1
        BY <1>1, <1>2, <2>2 DEF WorldietyIndex
      <3>2. Eligible(n, r) = IF r.ref \notin 1..n THEN 1..0 ELSE IF r.count > 0 THEN r.ref..n ELSE 1..r.ref
        BY <2>2, EligibleByPlace
      <3>3. /\ index \in Int /\ index < n /\ (index < 0 <=> r.ref \notin 1..n)
            /\ r.ref \in 1..n => index + 1 = r.ref
        BY <1>1, <3>1
      <3> HIDE DEF index
      <3>4. /\ r.count > 0 => Eligible(n, r) = IF index < 0 THEN 1..0 ELSE (index + 1)..n
            /\ ~(r.count > 0) => Eligible(n, r) = IF index < 0 THEN 1..0 ELSE 1..(index + 1)
        BY <3>2, <3>3
      <3>5. c = r.count /\ r.form # "all"
        BY <2>2
      <3>6. QED
        BY <1>2, <3>3, <3>4, <3>5, SliceSelects
    <2>3. CASE r.form = "time"
      <3>1. index = WorldietyTimeIndex(n, r.ref, r.count)
        BY <2>3 DEF WorldietyIndex
      <3>2. /\ index \in Int /\ index < n
            /\ r.count > 0 => Eligible(n, r) = IF index < 0 THEN 1..0 ELSE (index + 1)..n
            /\ ~(r.count > 0) => Eligible(n, r) = IF index < 0 THEN 1..0 ELSE 1..(index + 1)
        BY <2>3, <3>1, EligibleFromIndex
      <3> HIDE DEF index
      <3>3. c = r.count /\ r.form # "all"
        BY <2>3
      <3>4. QED
        BY <1>2, <3>2, <3>3, SliceSelects
    <2>4. QED
      BY <2>1, <2>2, <2>3 DEF Asked
  <1>4. WorldietyAnswer(n, r) =
            Ack(n, slice[1] + 1, slice[2], Interval(slice[1] + 1, slice[2]), slice[2] - slice[1], sequence)
    BY DEF WorldietyAnswer
  <1>4a. sequence \in Int /\ Names(r, slice[1] + 1, slice[2], sequence)
    <2> HIDE DEF slice
    <2>1. CASE slice[1] < slice[2]
      BY <1>3, <2>1 DEF Names, NoSequence, Asked
    <2>2. CASE ~(slice[1] < slice[2])
      BY <1>3, <2>2 DEF Names, NoSequence
    <2>3. QED
      BY <2>1, <2>2
  <1> HIDE DEF slice, sequence
  <1>5. slice[2] - slice[1] = Greater(0, slice[2] - (slice[1] + 1) + 1)
    BY <1>3 DEF Greater
  <1>6. slice[1] + 1 \in Int /\ slice[2] \in Int /\ slice[1] + 1 >= 1 /\ slice[2] <= n
    BY <1>3
  <1>7. QED
    BY <1>3, <1>4, <1>4a, <1>5, <1>6 DEF HoldsSelected
-----------------------------------------------------------------------------
(* Answers of either peer.                                                 *)

\* No sum sysiobacnet makes of a count by time leaves the 32 bits.
SumsStayInRange ==
    "sysio" \in Peers => \A c \in TimeCounts["sysio"] \cup Pages : Records["sysio"] + c - 1 <= MaxInt

Fits(p, r) == p = "sysio" => SumsFit(Records[p], r)

LEMMA AnswerOfAny ==
    ASSUME NEW p \in Peers, NEW r \in Asked, Fits(p, r)
    PROVE  /\ IsExact(Records[p], r, Answer(p, r))
           /\ /\ r.form # "all" /\ r.count # 0 /\ r.ref # Unspecified
              /\ r.form = "position" => r.ref \in 1..Records[p]
              => HoldsSelected(Records[p], r, Answer(p, r))
  <1> DEFINE n == Records[p]
  <1>1. n \in 1..MaxInt /\ n \in Nat /\ n >= 1
    BY WidthAssumption, Widths
  <1>2. r.ref \in Int
    BY DEF Asked
  <1>3. ASSUME HoldsSelected(n, r, Answer(p, r)) PROVE IsExact(n, r, Answer(p, r))
    BY <1>1, <1>3, IntervalIsExact DEF HoldsSelected
  <1>4. CASE p = "sysio"
    <2>1. Answer(p, r) = SysioAnswer(n, r)
      BY <1>4 DEF Answer
    <2>2. SumsFit(n, r)
      BY <1>4 DEF Fits
    <2> HIDE DEF n
    <2>3. CASE r.form # "all" /\ r.count = 0
      <3>1. SysioAnswer(n, r).kind = "error"
        BY <2>3 DEF SysioAnswer, Refusal
      <3>2. QED
        BY <2>1, <2>3, <3>1 DEF IsExact, n
    <2>4. CASE r.form = "all" \/ r.count # 0
      BY <1>1, <1>3, <2>1, <2>2, <2>4, SysioAnswers DEF n
    <2>5. QED
      BY <2>3, <2>4
  <1>5. CASE p # "sysio"
    <2>1. Answer(p, r) = WorldietyAnswer(n, r)
      BY <1>5 DEF Answer
    <2>2. CASE WorldietyRefusal(n, r) # {}
      <3>1. /\ r.form # "all" /\ (Selected(n, r) = {} \/ r.count = 0 \/ r.ref = Unspecified)
            /\ WorldietyAnswer(n, r).kind = "error"
        BY <1>1, <2>2, WorldietyRefuses
      <3>2. \/ r.count = 0
            \/ r.form = "position" /\ (r.ref < 1 \/ r.ref > n)
            \/ r.ref = Unspecified
        BY <2>2 DEF WorldietyRefusal
      <3>3. QED
        BY <1>1, <1>2, <2>1, <3>1, <3>2 DEF IsExact
    <2>3. CASE WorldietyRefusal(n, r) = {}
      BY <1>1, <1>3, <2>1, <2>3, WorldietyAnswers
    <2>4. QED
      BY <2>2, <2>3
  <1>6. QED
    BY <1>4, <1>5

-----------------------------------------------------------------------------
(* A page of a walk.                                                       *)

\* The answer to a request with records left on its side holds the nearest of them.
LEMMA PageOf ==
    ASSUME NEW p \in Peers, NEW r \in Asked, Fits(p, r),
           r.form # "all", r.count # 0, r.ref # Unspecified,
           r.form = "position" => r.ref \in 1..Records[p],
           NEW a \in 1..Records[p], NEW b \in a..Records[p], Eligible(Records[p], r) = a..b,
           NEW low, low = (IF r.count > 0 THEN a ELSE Greater(a, b + r.count + 1)),
           NEW high, high = (IF r.count > 0 THEN Lesser(b, a + r.count - 1) ELSE b)
    PROVE  LET reply == Answer(p, r)
           IN  /\ low \in a..b /\ high \in low..b
               /\ reply.kind = "ack" /\ reply.items = Interval(low, high)
               /\ reply.firstItem <=> low = 1
               /\ reply.lastItem <=> high = Records[p]
  <1> DEFINE n == Records[p]
             reply == Answer(p, r)
  <1>1. n \in Nat /\ n >= 1 /\ r.count \in Int /\ a \in Int /\ b \in Int
    BY WidthAssumption, Widths DEF Asked
  <1>2. low \in a..b /\ high \in low..b
    <2>1. CASE r.count > 0
      BY <1>1, <2>1 DEF Lesser
    <2>2. CASE r.count < 0
      BY <1>1, <2>2 DEF Greater
    <2>3. QED
      BY <1>1, <2>1, <2>2
  <1>3. Selected(n, r) = low..high
    <2>1. Selected(n, r) = IF r.count > 0 THEN a..Lesser(b, a + r.count - 1)
                           ELSE Greater(a, b + r.count + 1)..b
      BY <1>1, SelectedFrom
    <2>2. QED
      BY <2>1
  <1>4. PICK first \in Int, last \in Int, sequence \in Int :
            /\ first >= 1 /\ last <= n
            /\ Selected(n, r) = first..last
            /\ reply = Ack(n, first, last, Interval(first, last), Greater(0, last - first + 1), sequence)
    BY AnswerOfAny DEF HoldsSelected
  <1>5. first = low /\ last = high
    <2>1. low..high = first..last
      BY <1>3, <1>4
    <2>2. low \in low..high /\ high \in low..high
      BY <1>2
    <2>3. first <= low /\ high <= last
      BY <1>2, <2>1, <2>2
    <2>4. first \in first..last /\ last \in first..last
      BY <1>2, <2>3
    <2>5. low <= first /\ last <= high
      BY <1>2, <2>1, <2>4
    <2>6. QED
      BY <1>2, <2>3, <2>5
  <1>6. Greater(0, last - first + 1) > 0
    BY <1>2, <1>5 DEF Greater
  <1>7. /\ reply.kind = "ack" /\ reply.items = Interval(first, last)
        /\ reply.firstItem = (Greater(0, last - first + 1) > 0 /\ first = 1)
        /\ reply.lastItem = (Greater(0, last - first + 1) > 0 /\ last = n)
    <2> HIDE DEF reply
    <2>1. QED
      BY <1>4 DEF Ack
  <1>8. QED
    BY <1>2, <1>5, <1>6, <1>7

LEMMA IntervalElements ==
    ASSUME NEW x \in Int, NEW y \in Int, x <= y + 1
    PROVE  /\ Interval(x, y) \in Seq(Int) /\ Len(Interval(x, y)) = y - x + 1
           /\ \A i \in 1..(y - x + 1) : Interval(x, y)[i] = x + i - 1
  <1>1. PICK size \in Nat : size = y - x + 1
    OBVIOUS
  <1>2. Greater(y - x + 1, 0) = size
    BY <1>1 DEF Greater
  <1>3. Interval(x, y) = [i \in 1..size |-> x + i - 1]
    BY <1>2 DEF Interval
  <1>4. Interval(x, y) \in Seq(Int) /\ Len(Interval(x, y)) = size
    BY <1>3
  <1>5. \A i \in 1..size : Interval(x, y)[i] = x + i - 1
    BY <1>3
  <1>6. QED
    BY <1>1, <1>4, <1>5

LEMMA IntervalEnds ==
    \A x, y \in Int : x <= y =>
        /\ Len(Interval(x, y)) = y - x + 1
        /\ Interval(x, y)[1] = x
        /\ Interval(x, y)[y - x + 1] = y
  <1> TAKE x, y \in Int
  <1> HAVE x <= y
  <1>1. /\ Len(Interval(x, y)) = y - x + 1
        /\ \A i \in 1..(y - x + 1) : Interval(x, y)[i] = x + i - 1
    BY IntervalElements
  <1>2. PICK size \in Nat : size = y - x + 1
    OBVIOUS
  <1>3. 1 \in 1..size /\ size \in 1..size /\ x + 1 - 1 = x /\ x + size - 1 = y
    BY <1>2
  <1>4. Interval(x, y)[1] = x /\ Interval(x, y)[size] = y
    BY <1>1, <1>2, <1>3
  <1>5. QED
    BY <1>1, <1>2, <1>4

\* Neighbouring intervals make one.
LEMMA IntervalsJoin ==
    ASSUME NEW a \in Int, NEW b \in Int, NEW c \in Int, a <= b + 1, b <= c
    PROVE  /\ Interval(a, b) \in Seq(Int) /\ Len(Interval(a, b)) = b - a + 1
           /\ Interval(a, b) \o Interval(b + 1, c) = Interval(a, c)
  <1>1. ASSUME NEW x \in Int, NEW y \in Int, x <= y + 1
        PROVE  /\ Interval(x, y) \in Seq(Int) /\ Len(Interval(x, y)) = y - x + 1
               /\ \A i \in 1..(y - x + 1) : Interval(x, y)[i] = x + i - 1
    BY <1>1, IntervalElements
  <1> DEFINE s == Interval(a, b)
             t == Interval(b + 1, c)
             u == Interval(a, c)
  <1>2. s \in Seq(Int) /\ Len(s) = b - a + 1 /\ \A i \in 1..(b - a + 1) : s[i] = a + i - 1
    BY <1>1
  <1>3. u \in Seq(Int) /\ Len(u) = c - a + 1 /\ \A i \in 1..(c - a + 1) : u[i] = a + i - 1
    <2>1. a <= c + 1
      OBVIOUS
    <2> HIDE DEF u
    <2>2. QED
      BY <1>1, <2>1 DEF u
  <1>4. t \in Seq(Int) /\ Len(t) = c - b /\ \A i \in 1..(c - b) : t[i] = b + i
    <2>1. PICK d \in Int : d = b + 1
      OBVIOUS
    <2>2. /\ Interval(d, c) \in Seq(Int) /\ Len(Interval(d, c)) = c - d + 1
          /\ \A i \in 1..(c - d + 1) : Interval(d, c)[i] = d + i - 1
      <3>1. d <= c + 1
        BY <2>1
      <3>2. QED
        BY <1>1, <3>1
    <2>3. c - d + 1 = c - b /\ \A i \in Int : d + i - 1 = b + i
      BY <2>1
    <2>4. t = Interval(d, c)
      BY <2>1
    <2> HIDE DEF t
    <2>5. t \in Seq(Int) /\ Len(t) = c - b
      BY <2>2, <2>3, <2>4
    <2>6. ASSUME NEW i \in 1..(c - b) PROVE t[i] = b + i
      <3>1. t[i] = d + i - 1
        BY <2>2, <2>3, <2>4
      <3>2. QED
        BY <2>3, <3>1
    <2>7. QED
      BY <2>5, <2>6
  <1> HIDE DEF s, t, u
  <1>5. s \o t \in Seq(Int) /\ Len(s \o t) = Len(s) + Len(t)
    BY <1>2, <1>4, ConcatProperties
  <1>6. \A i \in 1..(Len(s) + Len(t)) : (s \o t)[i] = IF i <= Len(s) THEN s[i] ELSE t[i - Len(s)]
    BY <1>2, <1>4, ConcatProperties
  <1>7. Len(s) + Len(t) = c - a + 1 /\ Len(s) \in Nat
    BY <1>2, <1>4
  <1>8. ASSUME NEW i \in 1..(c - a + 1) PROVE (s \o t)[i] = u[i]
    <2>1. u[i] = a + i - 1
      BY <1>3
    <2>2. CASE i <= Len(s)
      BY <1>2, <1>6, <1>7, <2>1, <2>2
    <2>3. CASE i > Len(s)
      <3>1. i - Len(s) \in 1..(c - b)
        BY <1>2, <1>7, <2>3
      <3>2. t[i - Len(s)] = b + (i - Len(s))
        BY <1>4, <3>1
      <3>3. (s \o t)[i] = t[i - Len(s)]
        BY <1>6, <1>7, <2>3
      <3>4. QED
        BY <1>2, <2>1, <3>2, <3>3
    <2>4. QED
      BY <1>7, <2>2, <2>3
  <1>9. s \o t = u
    BY <1>3, <1>5, <1>7, <1>8, SeqEqual
  <1>10. QED
    BY <1>2, <1>9 DEF s, t, u
-----------------------------------------------------------------------------
(* Every answer.                                                           *)

\* The request made last is one a peer can decode, and the answer is its peer's.
AnsweredInv ==
    /\ peer \in Peers
    /\ request # NoRequest => request \in Asked /\ Fits(peer, request) /\ answer = Answer(peer, request)

\* The plan of a client, and what it has gathered while it has asked nothing.
PlanInv ==
    /\ plan \in {NoPlan} \cup [form : Forms \ {"all"}, count : Pages \cup {-k : k \in Pages}]
    /\ request = NoRequest => read = <<>>

\* How much of the log a walking client holds: one end of it, and all of it
\* exactly when the last answer had the flag of the end it walks to.
Gathered(size) ==
    read = IF Forward THEN Interval(1, size) ELSE Interval(Records[peer] - size + 1, Records[peer])

WalkInv ==
    plan # NoPlan /\ request # NoRequest =>
        /\ answer.kind = "ack"
        /\ \E size \in 1..Records[peer] : Gathered(size) /\ (AtTheEnd <=> size = Records[peer])

ReadInv == AnsweredInv /\ PlanInv /\ WalkInv

LEMMA PlanTypes ==
    ASSUME PlanInv, plan # NoPlan
    PROVE  /\ plan.form \in {"position", "sequence", "time"} /\ plan.count \in MinInt..MaxInt /\ plan.count \in Int
           /\ plan.count # 0 /\ (Forward => plan.count \in Pages) /\ (~Forward => plan.count < 0)
  <1>1. plan.form \in Forms \ {"all"} /\ plan.count \in Pages \cup {-k : k \in Pages}
    BY DEF PlanInv
  <1>2. Pages \subseteq 1..MaxInt /\ MaxInt \in Nat /\ MinInt \in Int /\ MinInt = -(MaxInt + 1)
    BY WidthAssumption, PowersAssumption, Widths DEF MinInt, MaxInt
  <1>3. plan.form \in {"position", "sequence", "time"}
    BY <1>1, FormsAssumption
  <1>4. CASE plan.count \in Pages
    <2>1. plan.count \in 1..MaxInt
      BY <1>2, <1>4
    <2>2. QED
      BY <1>2, <1>3, <1>4, <2>1 DEF Forward
  <1>5. CASE plan.count \in {-k : k \in Pages}
    <2>1. PICK k \in Pages : plan.count = -k
      BY <1>5
    <2>2. k \in 1..MaxInt
      BY <1>2
    <2>3. plan.count \in Int /\ plan.count < 0 /\ plan.count \in MinInt..MaxInt
      BY <1>2, <2>1, <2>2
    <2>4. QED
      BY <1>3, <2>3 DEF Forward
  <1>6. QED
    BY <1>1, <1>4, <1>5

LEMMA RequestsAreAsked ==
    ASSUME SumsStayInRange, NEW p \in Peers, NEW r \in Requests(p)
    PROVE  r \in Asked /\ Fits(p, r) /\ r # NoRequest
  <1>1. Records[p] \in 1..MaxInt /\ MaxInt \in Nat /\ MinInt \in Int /\ MinInt < 0 /\ 2^Bits \in Nat
    BY WidthAssumption, Widths
  <1>2. TimeCounts[p] \subseteq MinInt..MaxInt /\ Counts \subseteq MinInt..MaxInt /\ References \subseteq Int
    BY <1>1, WidthAssumption
  <1>3. Times(p) \subseteq Int
    BY <1>1 DEF Times, Unspecified
  <1>4. r # NoRequest
    <2>1. r.form \in Forms
      BY DEF Requests
    <2>2. QED
      BY <2>1, FormsAssumption DEF NoRequest
  <1>5. r \in Asked
    <2>1. 1 \in MinInt..MaxInt
      BY <1>1
    <2>2. \/ r \in [form : Forms \cap {"all"}, ref : {0}, count : {1}]
          \/ r \in [form : Forms \cap {"position", "sequence"}, ref : References, count : Counts]
          \/ r \in [form : Forms \cap {"time"}, ref : Times(p), count : TimeCounts[p]]
      BY DEF Requests
    <2>3. CASE r \in [form : Forms \cap {"all"}, ref : {0}, count : {1}]
      BY <2>1, <2>3 DEF Asked
    <2>4. CASE r \in [form : Forms \cap {"position", "sequence"}, ref : References, count : Counts]
      BY <1>2, <2>4 DEF Asked
    <2>5. CASE r \in [form : Forms \cap {"time"}, ref : Times(p), count : TimeCounts[p]]
      BY <1>2, <1>3, <2>5 DEF Asked
    <2>6. QED
      BY <2>2, <2>3, <2>4, <2>5
  <1>6. Fits(p, r)
    <2>1. r.form = "time" => r.count \in TimeCounts[p]
      BY DEF Requests
    <2>2. QED
      BY <2>1 DEF Fits, SumsFit, SumsStayInRange
  <1>7. QED
    BY <1>4, <1>5, <1>6

LEMMA InitRead ==
    ASSUME Init PROVE ReadInv
  BY DEF Init, ReadInv, AnsweredInv, PlanInv, WalkInv

\* The next page: size records are held and the request continues from there.
LEMMA PageSteps ==
    ASSUME ReadInv, SumsStayInRange, plan # NoPlan,
           NEW size \in 0..(Records[peer] - 1), IF size = 0 THEN read = <<>> ELSE Gathered(size),
           NEW reference \in Int, AskForPage(reference),
           plan.form # "time" => reference = (IF Forward THEN size + 1 ELSE Records[peer] - size),
           plan.form = "time" =>
               IF Forward THEN reference = 2 * size
               ELSE reference \in {2 * (Records[peer] - size) + 1, 2 * (Records[peer] - size) + 2}
    PROVE  ReadInv' /\ Len(read) < Len(read')
  <1> DEFINE n == Records[peer]
             r == [form |-> plan.form, ref |-> reference, count |-> plan.count]
             a == IF Forward THEN size + 1 ELSE 1
             b == IF Forward THEN n ELSE n - size
             low == IF plan.count > 0 THEN a ELSE Greater(a, b + plan.count + 1)
             high == IF plan.count > 0 THEN Lesser(b, a + plan.count - 1) ELSE b
             reply == Answer(peer, r)
  <1>1. /\ plan.form \in {"position", "sequence", "time"} /\ plan.count \in MinInt..MaxInt /\ plan.count \in Int
        /\ plan.count # 0 /\ (Forward => plan.count \in Pages) /\ (~Forward => plan.count < 0)
    BY PlanTypes DEF ReadInv
  <1>2. peer \in Peers /\ n \in Nat /\ n >= 1 /\ n \in 1..MaxInt
    BY WidthAssumption, Widths DEF ReadInv, AnsweredInv
  <1>3. /\ r \in Asked /\ r.form = plan.form /\ r.ref = reference /\ r.count = plan.count /\ r # NoRequest
    BY <1>1 DEF Asked, NoRequest
  <1>4. Fits(peer, r)
    <2>1. CASE plan.count \in Pages
      <3>1. ASSUME peer = "sysio" PROVE Records[peer] + plan.count - 1 <= MaxInt
        BY <1>2, <2>1, <3>1 DEF SumsStayInRange
      <3>2. QED
        BY <1>3, <3>1 DEF Fits, SumsFit
    <2>2. CASE plan.count < 0
      <3>1. n + plan.count - 1 <= MaxInt
        BY <1>1, <1>2, <2>2, Widths
      <3>2. QED
        BY <1>3, <3>1 DEF Fits, SumsFit
    <2>3. QED
      BY <1>1, <2>1, <2>2
  <1>5. a \in 1..n /\ b \in a..n
    BY <1>2
  <1>6. reference # Unspecified /\ (plan.form = "position" => reference \in 1..n)
    BY <1>1, <1>2 DEF Unspecified
  <1>7. Eligible(n, r) = a..b
    <2>1. CASE plan.form # "time"
      <3>1. reference = (IF Forward THEN size + 1 ELSE n - size) /\ reference \in 1..n
        BY <1>2, <2>1
      <3>2. Eligible(n, r) = IF r.count > 0 THEN reference..n ELSE 1..reference
        BY <1>1, <1>2, <1>3, <2>1, <3>1, EligibleByPlace
      <3>3. QED
        BY <1>3, <3>1, <3>2 DEF Forward
    <2>2. CASE plan.form = "time" /\ Forward
      <3>1. Eligible(n, r) = {k \in 1..n : Stamp(k) > reference}
        BY <1>3, <2>2, EligibleByTime DEF Forward
      <3>2. \A k \in 1..n : Stamp(k) > reference <=> k >= size + 1
        BY <2>2 DEF Stamp
      <3> HIDE DEF n
      <3>3. {k \in 1..n : Stamp(k) > reference} = (size + 1)..n
        BY <1>2, <3>2
      <3>4. QED
        BY <2>2, <3>1, <3>3
    <2>3. CASE plan.form = "time" /\ ~Forward
      <3>1. Eligible(n, r) = {k \in 1..n : Stamp(k) < reference}
        BY <1>3, <2>3, EligibleByTime DEF Forward
      <3>2. \A k \in 1..n : Stamp(k) < reference <=> k <= n - size
        BY <1>2, <2>3 DEF Stamp
      <3> HIDE DEF n
      <3>3. {k \in 1..n : Stamp(k) < reference} = 1..(n - size)
        BY <1>2, <3>2
      <3>4. QED
        BY <2>3, <3>1, <3>3
    <2>4. QED
      BY <2>1, <2>2, <2>3
  <1> HIDE DEF r, a, b, n
  <1>8. /\ low \in a..b /\ high \in low..b
        /\ reply.kind = "ack" /\ reply.items = Interval(low, high)
        /\ reply.firstItem <=> low = 1
        /\ reply.lastItem <=> high = n
    <2>1. r.form # "all"
      BY <1>1, <1>3
    <2>2. r.count # 0 /\ r.ref # Unspecified /\ (r.form = "position" => r.ref \in 1..n)
      BY <1>1, <1>3, <1>6
    <2>3. low = (IF r.count > 0 THEN a ELSE Greater(a, b + r.count + 1))
          /\ high = (IF r.count > 0 THEN Lesser(b, a + r.count - 1) ELSE b)
      BY <1>3
    <2> HIDE DEF low, high
    <2>4. a \in 1..Records[peer] /\ b \in a..Records[peer] /\ Eligible(Records[peer], r) = a..b
      BY <1>5, <1>7 DEF n
    <2>5. peer \in Peers /\ (r.form = "position" => r.ref \in 1..Records[peer])
      BY <1>2, <2>2 DEF n
    <2>6. /\ low \in a..b /\ high \in low..b
          /\ reply.kind = "ack" /\ reply.items = Interval(low, high)
          /\ reply.firstItem <=> low = 1
          /\ reply.lastItem <=> high = Records[peer]
      BY <1>3, <1>4, <2>1, <2>2, <2>3, <2>4, <2>5, PageOf
    <2>7. QED
      BY <2>6 DEF n
  <1>9. request' = r /\ answer' = reply /\ UNCHANGED <<peer, plan>>
        /\ read' = IF Forward THEN read \o reply.items ELSE reply.items \o read
    BY <1>8 DEF AskForPage, r
  <1>10. \E now \in 1..n :
            /\ read' = IF Forward THEN Interval(1, now) ELSE Interval(n - now + 1, n)
            /\ now = n <=> IF Forward THEN high = n ELSE low = 1
    <2>1. \A x, y, z \in Int : x <= y + 1 /\ y <= z => Interval(x, y) \o Interval(y + 1, z) = Interval(x, z)
      BY IntervalsJoin
    <2>2. size \in Int
      BY <1>2 DEF n
    <2>3. CASE Forward
      <3>1. low = size + 1 /\ high \in (size + 1)..n
        BY <1>1, <1>5, <1>8, <2>3 DEF Forward, a, b
      <3>2. read' = read \o Interval(size + 1, high)
        BY <1>8, <1>9, <2>3, <3>1
      <3>3. CASE size = 0
        <4>1. Interval(1, high) \in Seq(Int)
          BY <1>2, <3>1, <3>3, IntervalsJoin
        <4>2. read' = Interval(1, high)
          BY <3>2, <3>3, <4>1, ConcatEmptySeq
        <4>3. QED
          BY <1>2, <2>3, <3>1, <3>3, <4>2
      <3>4. CASE size # 0
        <4>1. read = Interval(1, size)
          BY <2>3, <3>4 DEF Gathered
        <4>2. high \in Int /\ 1 <= size + 1 /\ size <= high
          BY <1>2, <3>1
        <4>3. Interval(1, size) \o Interval(size + 1, high) = Interval(1, high)
          <5> HIDE DEF high, low
          <5>1. PICK x \in Int : x = 1
            OBVIOUS
          <5>2. x <= size + 1 /\ size <= high
            BY <4>2, <5>1
          <5>3. Interval(x, size) \o Interval(size + 1, high) = Interval(x, high)
            BY <2>1, <2>2, <4>2, <5>2
          <5>4. QED
            BY <5>1, <5>3
        <4>4. read' = Interval(1, high)
          BY <3>2, <4>1, <4>3
        <4>5. QED
          BY <1>2, <2>3, <3>1, <4>4
      <3>5. QED
        BY <3>3, <3>4
    <2>4. CASE ~Forward
      <3>1. high = n - size /\ low \in 1..(n - size)
        BY <1>1, <1>2, <1>5, <1>8, <2>4 DEF Forward, a, b
      <3>2. read' = Interval(low, n - size) \o read
        BY <1>8, <1>9, <2>4, <3>1
      <3>3. read' = Interval(low, n)
        <4>1. CASE size = 0
          <5>1. n - size = n
            BY <1>2, <4>1
          <5>2. Interval(low, n) \in Seq(Int)
            BY <1>2, <3>1, <5>1, IntervalsJoin
          <5>3. QED
            BY <3>2, <4>1, <5>1, <5>2, ConcatEmptySeq
        <4>2. CASE size # 0
          <5>1. read = Interval(n - size + 1, n)
            BY <2>4, <4>2 DEF Gathered, n
          <5>2. PICK edge \in Int : edge = n - size
            BY <1>2
          <5>3. low \in Int /\ low <= edge + 1 /\ edge <= n
            BY <1>2, <3>1, <5>2
          <5>4. Interval(low, edge) \o Interval(edge + 1, n) = Interval(low, n)
            <6> HIDE DEF low
            <6>1. low \in Int /\ edge \in Int /\ n \in Int
              BY <1>2, <5>3
            <6>2. QED
              BY <2>1, <5>3, <6>1
          <5>5. QED
            BY <3>2, <5>1, <5>2, <5>4
        <4>3. QED
          BY <4>1, <4>2
      <3>4. PICK now \in Int : now = n - low + 1
        BY <1>2, <3>1
      <3>5. now \in 1..n /\ n - now + 1 = low /\ (now = n <=> low = 1)
        BY <1>2, <3>1, <3>4
      <3>6. QED
        BY <2>4, <3>3, <3>5
    <2>5. QED
      BY <2>3, <2>4
  <1> HIDE DEF low, high, reply
  <1>10a. Len(read) < Len(read')
    <2>1. reply.items \in Seq(Int) /\ Len(reply.items) >= 1
      <3>1. low \in Int /\ high \in Int /\ low <= high
        BY <1>2, <1>5, <1>8
      <3>2. Interval(low, high) \in Seq(Int) /\ Len(Interval(low, high)) = high - low + 1
        <4>1. PICK x \in Int, y \in Int : x = low /\ y = high /\ x <= y + 1
          BY <3>1
        <4>2. Interval(x, y) \in Seq(Int) /\ Len(Interval(x, y)) = y - x + 1
          BY <4>1, IntervalElements
        <4>3. QED
          BY <4>1, <4>2
      <3>3. high - low + 1 >= 1
        BY <3>1
      <3>4. reply.items = Interval(low, high)
        BY <1>8
      <3>5. QED
        BY <3>2, <3>3, <3>4
    <2>2. read \in Seq(Int)
      <3>1. CASE size = 0
        BY <3>1
      <3>2. CASE size # 0
        <4>1. PICK from \in Int, to \in Int : from <= to + 1 /\ read = Interval(from, to)
          <5>1. size \in Int /\ n \in Int /\ 1 <= size + 1 /\ n - size + 1 \in Int /\ n - size + 1 <= n + 1
            BY <1>2 DEF n
          <5>2. CASE Forward
            BY <3>2, <5>1, <5>2 DEF Gathered
          <5>3. CASE ~Forward
            BY <3>2, <5>1, <5>3 DEF Gathered, n
          <5>4. QED
            BY <5>2, <5>3
        <4>2. QED
          BY <4>1, IntervalElements
      <3>3. QED
        BY <3>1, <3>2
    <2>3. Len(read \o reply.items) = Len(read) + Len(reply.items)
          /\ Len(reply.items \o read) = Len(reply.items) + Len(read)
      BY <2>1, <2>2, ConcatProperties
    <2>4. Len(read) \in Nat /\ Len(reply.items) \in Nat
      BY <2>1, <2>2
    <2>5. Len(read') = Len(read) + Len(reply.items)
      <3>1. CASE Forward
        BY <1>9, <2>3, <3>1
      <3>2. CASE ~Forward
        BY <1>9, <2>3, <2>4, <3>2
      <3>3. QED
        BY <3>1, <3>2
    <2>6. QED
      BY <2>1, <2>4, <2>5
  <1>11. n' = n /\ (Forward' <=> Forward) /\ (AtTheEnd' <=> IF Forward THEN high = n ELSE low = 1)
    BY <1>8, <1>9 DEF n, Forward, AtTheEnd
  <1>12. WalkInv'
    <2>1. \E now \in 1..n :
              /\ read' = IF Forward' THEN Interval(1, now) ELSE Interval(n - now + 1, n)
              /\ AtTheEnd' <=> now = n
      BY <1>10, <1>11
    <2>2. \E now \in 1..Records[peer'] :
              /\ read' = IF Forward' THEN Interval(1, now) ELSE Interval(Records[peer'] - now + 1, Records[peer'])
              /\ AtTheEnd' <=> now = Records[peer']
      BY <1>9, <2>1 DEF n
    <2>3. QED
      BY <1>8, <1>9, <2>2 DEF WalkInv, Gathered
  <1>13. AnsweredInv'
    BY <1>2, <1>3, <1>4, <1>9 DEF AnsweredInv, reply
  <1>14. PlanInv'
    BY <1>3, <1>9 DEF ReadInv, PlanInv
  <1>15. QED
    BY <1>10a, <1>12, <1>13, <1>14 DEF ReadInv

LEMMA WalkSteps ==
    ASSUME ReadInv, SumsStayInRange, Walk
    PROVE  ReadInv' /\ Len(read) < Len(read')
  <1> DEFINE n == Records[peer]
  <1>1. /\ plan # NoPlan
        /\ plan.form \in {"position", "sequence", "time"} /\ plan.count \in Int /\ n \in Nat /\ n >= 1
    BY PlanTypes, WidthAssumption, Widths DEF ReadInv, AnsweredInv, Walk, StartWalk, ContinueWalk
  <1>2. CASE StartWalk
    <2>1. read = <<>> /\ 0 \in 0..(n - 1) /\ AskForPage(FirstReference)
      BY <1>1, <1>2 DEF StartWalk, ReadInv, PlanInv
    <2>2. /\ FirstReference \in Int
          /\ plan.form # "time" => FirstReference = (IF Forward THEN 0 + 1 ELSE n - 0)
          /\ plan.form = "time" => IF Forward THEN FirstReference = 2 * 0
                                   ELSE FirstReference \in {2 * (n - 0) + 1, 2 * (n - 0) + 2}
      BY <1>1 DEF FirstReference, Stamp
    <2>3. PICK zero \in Int : zero = 0
      OBVIOUS
    <2>4. QED
      BY <1>1, <2>1, <2>2, <2>3, PageSteps
  <1>3. CASE ContinueWalk
    <2>1. PICK size \in 1..n : Gathered(size) /\ (AtTheEnd <=> size = n)
      BY <1>1, <1>3 DEF ContinueWalk, ReadInv, WalkInv
    <2>2. size \in 1..(n - 1) /\ AskForPage(NextReference)
      BY <1>1, <1>3, <2>1 DEF ContinueWalk
    <2>3. CASE Forward
      <3>1. read = Interval(1, size)
        BY <2>1, <2>3 DEF Gathered
      <3>2. Len(read) = size /\ read[Len(read)] = size
        <4> HIDE DEF n
        <4>1. size \in Int /\ 1 \in Int /\ 1 <= size
          OBVIOUS
        <4>2. /\ Len(Interval(1, size)) = size - 1 + 1
              /\ Interval(1, size)[size - 1 + 1] = size
          BY <4>1, IntervalEnds
        <4>3. size - 1 + 1 = size
          BY <4>1
        <4>4. QED
          BY <3>1, <4>2, <4>3
      <3>3. NextReference = IF plan.form = "time" THEN 2 * size ELSE size + 1
        BY <2>3, <3>2 DEF NextReference, Stamp
      <3>4. QED
        BY <1>1, <2>1, <2>2, <2>3, <3>3, PageSteps
    <2>4. CASE ~Forward
      <3>1. read = Interval(n - size + 1, n)
        BY <2>1, <2>4 DEF Gathered
      <3>2. read[1] = n - size + 1
        <4>1. PICK low \in Int : low = n - size + 1
          BY <1>1
        <4>2. low \in 1..n
          BY <1>1, <2>1, <4>1
        <4>3. Interval(low, n)[1] = low
          <5> HIDE DEF n
          <5>1. QED
            BY <1>1, <4>2, IntervalEnds
        <4>4. QED
          BY <3>1, <4>1, <4>3
      <3>3. NextReference = IF plan.form = "time" THEN 2 * (n - size + 1) ELSE n - size + 1 - 1
        <4>1. PICK low \in Int : low = n - size + 1
          BY <1>1
        <4>2. read[1] = low
          BY <3>2, <4>1
        <4>3. NextReference = IF plan.form = "time" THEN 2 * low ELSE low - 1
          BY <2>4, <4>2 DEF NextReference, Stamp
        <4>4. QED
          BY <1>1, <4>1, <4>3
      <3>4. /\ n - size + 1 - 1 = n - size
            /\ 2 * (n - size + 1) = 2 * (n - size) + 2
        BY <1>1
      <3>5. QED
        BY <1>1, <2>1, <2>2, <2>4, <3>3, <3>4, PageSteps
    <2>5. QED
      BY <2>3, <2>4
  <1>4. QED
    BY <1>2, <1>3 DEF Walk

LEMMA ReadSteps ==
    ASSUME ReadInv, SumsStayInRange, [Next]_vars
    PROVE  ReadInv'
  <1>1. CASE UNCHANGED vars
    BY <1>1 DEF vars, ReadInv, AnsweredInv, PlanInv, WalkInv, Gathered, Forward, AtTheEnd
  <1>2. CASE Ask
    <2>1. peer \in Peers /\ request' \in Requests(peer)
      BY <1>2 DEF Ask, ReadInv, AnsweredInv
    <2>2. request' \in Asked /\ Fits(peer, request') /\ request' # NoRequest
      BY <2>1, RequestsAreAsked
    <2>3. plan' = NoPlan /\ UNCHANGED <<peer, plan, read>> /\ answer' = Answer(peer, request')
      BY <1>2 DEF Ask
    <2>4. AnsweredInv'
      BY <2>1, <2>2, <2>3 DEF AnsweredInv
    <2>5. PlanInv' /\ WalkInv'
      BY <2>2, <2>3 DEF ReadInv, PlanInv, WalkInv
    <2>6. QED
      BY <2>4, <2>5 DEF ReadInv
  <1>3. CASE Walk
    BY <1>3, WalkSteps
  <1>4. QED
    BY <1>1, <1>2, <1>3 DEF Next

\* What a walking client holds, of the size the invariant gives it.
LEMMA WalkedSoFar ==
    ASSUME ReadInv
    PROVE  WalkReadsEachRecordOnce
  <1> DEFINE n == Records[peer]
  <1> SUFFICES ASSUME plan # NoPlan, request # NoRequest
               PROVE  /\ answer.kind = "ack" /\ Len(read) <= n
                      /\ read = IF Forward THEN Interval(1, Len(read)) ELSE Interval(n - Len(read) + 1, n)
                      /\ AtTheEnd => Len(read) = n
    BY DEF WalkReadsEachRecordOnce
  <1>1. PICK size \in 1..n : Gathered(size) /\ (AtTheEnd <=> size = n)
    BY DEF ReadInv, WalkInv
  <1>2. n \in Nat
    BY WidthAssumption, Widths DEF ReadInv, AnsweredInv
  <1>3. Len(read) = size
    <2>1. CASE Forward
      <3> HIDE DEF n
      <3>1. read = Interval(1, size) /\ size \in Int /\ 1 <= size
        BY <1>1, <1>2, <2>1 DEF Gathered
      <3>2. Len(Interval(1, size)) = size - 1 + 1
        BY <3>1, IntervalEnds
      <3>3. QED
        BY <3>1, <3>2
    <2>2. CASE ~Forward
      <3>1. PICK low \in Int : low = n - size + 1
        BY <1>2
      <3>2. low \in 1..n /\ n - low + 1 = size
        BY <1>1, <1>2, <3>1
      <3>3. Len(Interval(low, n)) = n - low + 1
        <4> HIDE DEF n
        <4>1. QED
          BY <1>2, <3>2, IntervalEnds
      <3>4. QED
        BY <1>1, <2>2, <3>1, <3>2, <3>3 DEF Gathered
    <2>3. QED
      BY <2>1, <2>2
  <1>4. QED
    BY <1>1, <1>3 DEF ReadInv, WalkInv, Gathered

-----------------------------------------------------------------------------
(* The theorems.                                                           *)

\* Every answer of either server is the one the definition of ReadRange names,
\* whatever the length of the log, the width of a count and the request, if the
\* one sum sysiobacnet makes in 32 bits fits into them.
THEOREM AnswersAreExact ==
    ASSUME SumsStayInRange
    PROVE  Spec => []AnswerIsExact
  <1>1. ReadInv /\ [Next]_vars => ReadInv'
    BY ReadSteps
  <1>2. ASSUME ReadInv PROVE AnswerIsExact
    <2> SUFFICES ASSUME request # NoRequest PROVE IsExact(Records[peer], request, answer)
      BY DEF AnswerIsExact, IsExact
    <2>1. QED
      BY <1>2, AnswerOfAny DEF ReadInv, AnsweredInv
  <1>3. QED
    BY InitRead, <1>1, <1>2, PTL DEF Spec

\* A client that walks a log in pages, in either direction, by sequence number,
\* position or time and with pages of any size, holds one end of the log, each
\* record once and in order, and all of it at the end flag.
THEOREM WalksReadOnce ==
    ASSUME SumsStayInRange
    PROVE  Spec => []WalkReadsEachRecordOnce
  <1>1. ReadInv /\ [Next]_vars => ReadInv'
    BY ReadSteps
  <1>2. ReadInv => WalkReadsEachRecordOnce
    BY WalkedSoFar
  <1>3. QED
    BY InitRead, <1>1, <1>2, PTL DEF Spec

\* Every page of a walk brings at least one record the client did not have and
\* none past the end of the log: no page is empty, none is asked for twice, and a
\* walk is over after at most as many pages as the log has records.
EachPageBringsMore ==
    [][Walk => Len(read) < Len(read') /\ Len(read') <= Records[peer]]_vars

THEOREM PagesMakeProgress ==
    ASSUME SumsStayInRange
    PROVE  Spec => EachPageBringsMore
  <1>1. ReadInv /\ [Next]_vars => ReadInv'
    BY ReadSteps
  <1>2. ReadInv => WalkReadsEachRecordOnce
    BY WalkedSoFar
  <1>3. ASSUME ReadInv, WalkReadsEachRecordOnce'
        PROVE  Walk => Len(read) < Len(read') /\ Len(read') <= Records[peer]
    <2> SUFFICES ASSUME Walk PROVE Len(read) < Len(read') /\ Len(read') <= Records[peer]
      OBVIOUS
    <2>1. Len(read) < Len(read')
      BY <1>3, WalkSteps
    <2>2. plan' # NoPlan /\ peer' = peer /\ request' # NoRequest
      <3>1. UNCHANGED <<peer, plan>> /\ plan # NoPlan /\ request' = [form |-> plan.form, ref |-> request'.ref, count |-> plan.count]
        BY DEF Walk, StartWalk, ContinueWalk, AskForPage
      <3>2. plan.form \in {"position", "sequence", "time"}
        BY <1>3, <3>1, PlanTypes DEF ReadInv
      <3>3. QED
        BY <3>1, <3>2 DEF NoRequest
    <2>3. Len(read') <= Records[peer']
      BY <1>3, <2>2 DEF WalkReadsEachRecordOnce
    <2>4. QED
      BY <2>1, <2>2, <2>3
  <1>4. QED
    BY InitRead, <1>1, <1>2, <1>3, PTL DEF Spec, EachPageBringsMore
=============================================================================
