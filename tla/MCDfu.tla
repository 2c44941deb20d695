------------------------------- MODULE MCDfu --------------------------------
(* Dfu on banks of five cells in sectors of two.  As on the chip, where    *)
(* 0x3E800 is in the middle of sector 0x3E, the backup bank begins in the  *)
(* middle of a sector, half of which belongs to the application bank, and  *)
(* ends where a sector ends.                                               *)
EXTENDS Dfu, TLC

CONSTANTS v1, v2

MCImage == {v1, v2}
MCVersion == v1 :> 1 @@ v2 :> 2

(* The images leave the sector shared by the two banks alone...            *)
MCSize == v1 :> 2 @@ v2 :> 3
(* ... or one of them reaches the sector before it.                        *)
MCLargeSize == v1 :> 2 @@ v2 :> 4
=============================================================================
