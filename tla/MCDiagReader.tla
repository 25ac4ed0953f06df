---------------------------- MODULE MCDiagReader ----------------------------
(* Counters and a timer that wrap at 3 stand for the 32-bit ones.  With    *)
(* three interrupts and durations 1 and 2, a timer that wraps inside an    *)
(* interrupt, a duration of UINT32_MAX and an event counter that is back   *)
(* at 0 are among the cases.                                               *)
EXTENDS TdmDiagReader

Pair(c, u) == [cb |-> c, user |-> u]

NoPairs   == {}
SomePairs == {Pair("process", "left"), Pair("process", "right")}
=============================================================================
