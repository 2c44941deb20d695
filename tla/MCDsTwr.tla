------------------------------ MODULE MCDsTwr -------------------------------
(* DsTwr with the times of the two examples scaled down.                   *)
EXTENDS DsTwr

MCCycleTime == [initiator |-> 6, responder |-> 5]

(* A lost frame and a late tick, a frame of another board, or a reset.     *)
MCBounds == {[lost |-> 1, foreign |-> 0, late |-> 1, reboots |-> 0],
             [lost |-> 0, foreign |-> 1, late |-> 0, reboots |-> 0],
             [lost |-> 0, foreign |-> 0, late |-> 0, reboots |-> 1]}

(* A lost frame and a frame of another board.                              *)
MCStuckBounds == {[lost |-> 1, foreign |-> 1, late |-> 0, reboots |-> 0]}
=============================================================================
