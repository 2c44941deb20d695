---------------------------- MODULE MCFrameParser ---------------------------
(* FrameParser with bytes of eight values and frames of one command: the   *)
(* shortest, one with a data byte, one whose data holds the marker value,  *)
(* and one that the receiver cannot hold.                                  *)
EXTENDS FrameParser

MCRequests == {[command |-> 1, data |-> <<>>],
               [command |-> 2, data |-> <<6>>],
               [command |-> 2, data |-> <<Marker, 4>>],
               [command |-> 1, data |-> <<1, 1, 1, 1>>]}
=============================================================================
