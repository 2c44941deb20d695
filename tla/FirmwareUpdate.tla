--------------------------- MODULE FirmwareUpdate ---------------------------
(***************************************************************************)
(* What a firmware update promises: there is one image that the device     *)
(* would start if it were restarted now, an update the host has asked for  *)
(* replaces it in one step, and only that image is ever started.  Neither  *)
(* the erasing, copying and saving that an update consists of nor a power  *)
(* cut in the middle of it can be seen.                                    *)
(***************************************************************************)
CONSTANTS Image, NoImage

VARIABLES boots,  \* the image a restart would start
          runs,   \* the image that runs
          asked   \* the image whose installation is being requested

fuvars == <<boots, runs, asked>>

Init == /\ boots \in Image \cup {NoImage}
        /\ runs = NoImage
        /\ asked = NoImage

Ask(v) == /\ asked = NoImage
          /\ asked' = v
          /\ UNCHANGED <<boots, runs>>

Install == /\ asked # NoImage
           /\ boots' = asked
           /\ UNCHANGED <<runs, asked>>

(* The request is answered, the image being the one to boot.               *)
Answer == /\ boots = asked
          /\ asked' = NoImage
          /\ UNCHANGED <<boots, runs>>

Run == /\ boots # NoImage
       /\ runs' = boots
       /\ UNCHANGED <<boots, asked>>

(* A reset, or a power cut, which may fall on the moment when the request  *)
(* takes effect.                                                           *)
Stop == /\ runs' = NoImage
        /\ asked' = NoImage
        /\ boots' = boots \/ (asked # NoImage /\ boots' = asked)

Next == (\E v \in Image : Ask(v)) \/ Install \/ Answer \/ Run \/ Stop

Spec == Init /\ [][Next]_fuvars
=============================================================================
