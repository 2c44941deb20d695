------------------------------- MODULE MCPdoa -------------------------------
(* Pdoa with the times of the two examples, but for the idle times, which  *)
(* are shorter, by the same difference.                                    *)
EXTENDS Pdoa

MCCycleTime == [initiator |-> 14, responder |-> 12]
MCSyncTimeout == [initiator |-> 2, responder |-> 4]
=============================================================================
