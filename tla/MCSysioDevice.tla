--------------------------- MODULE MCSysioDevice ---------------------------
(* Small instances of SysioDevice for TLC: the fixtures the runs serve. *)
EXTENDS SysioDevice

CONSTANTS av1, bv1, tl1, c1, c2

OneAnalog  == [o \in {av1} |-> "av"]
AlarmAndLog == [o \in {av1, tl1} |-> IF o = av1 THEN "av" ELSE "tl"]
=============================================================================
