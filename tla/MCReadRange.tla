---------------------------- MODULE MCReadRange ----------------------------
(* Instances of ReadRange for TLC: the logs have the size the adapters      *)
(* seed, and 7 bits stand for the 32 of a count.                            *)
EXTENDS ReadRange

SeededRecords == [p \in Peers |-> IF p = "sysio" THEN 4 ELSE 36]

\* Both sides of each end of both logs, and the largest unsigned value.
NearReferences == 0..38 \cup {127}

\* Every count; by time and of sysiobacnet, every count for which no sum with a
\* position of its log overflows; and the counts at the ends of the range.
AllCounts == MinInt..MaxInt
OrdinaryTimeCounts == [p \in Peers |-> IF p = "sysio" THEN MinInt..(MaxInt - 3) ELSE AllCounts]
ExtremeTimeCounts == [p \in Peers |-> {MinInt, MinInt + 1, MinInt + 2, MaxInt - 3, MaxInt - 2, MaxInt - 1, MaxInt}]
SomePages == 1..8 \cup {35, 36, 37}
=============================================================================
