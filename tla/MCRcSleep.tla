----------------------------- MODULE MCRcSleep -----------------------------
(* RcSleep with an RC clock whose millisecond is 0.8 of one, so that sleep *)
(* values are larger than what was asked, and with intervals shorter and   *)
(* longer than a turn of the cycle counter.                                *)
EXTENDS RcSleep

SomeIntervals == {2, 7, 9}
AllDurations == 0..(MaxSleep + 1)
=============================================================================
