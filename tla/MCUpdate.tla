------------------------------ MODULE MCUpdate ------------------------------
(***************************************************************************)
(* Dfu under two regimes: an orderly host and a power supply that fails,   *)
(* or a host that makes odd requests and a flash chip that fails.  What    *)
(* the first promises is more than the second.                             *)
(***************************************************************************)
EXTENDS MCDfu

VARIABLE regime

mcVars == <<regime, vars>>

Orderly == INSTANCE Dfu WITH MaxFaults <- 0, Lapses <- {}
Odd == INSTANCE Dfu WITH MaxCuts <- 0

OrderlyNext == regime = "orderly" /\ Orderly!Next /\ UNCHANGED regime
OddNext == regime = "odd" /\ Odd!Next /\ UNCHANGED regime

MCInit == regime \in {"orderly", "odd"} /\ Init

MCSpec ==
    /\ MCInit
    /\ [][OrderlyNext \/ OddNext]_mcVars
    /\ WF_mcVars(regime = "orderly" /\ Orderly!Device /\ UNCHANGED regime)

FWU == INSTANCE FirmwareUpdate
          WITH NoImage <- None,
               boots <- IF regime = "orderly" THEN Boots ELSE None,
               runs <- IF regime = "orderly" /\ run = "app" THEN ram ELSE None,
               asked <- IF regime = "orderly" /\ Updating
                          THEN info.backup.crc ELSE None

(* ImplementsFirmwareUpdate of Dfu, for the orderly host: from the save in *)
(* dfu_upgrade_verify on the device boots the new image, before it the old *)
(* one, never none, wherever in saving and copying the power fails.        *)
OrderlyImplementsFirmwareUpdate == FWU!Spec

(* InstallsOnReset of Dfu, for the orderly host: from dfu_boot_startup on, *)
(* an intact image that is waiting, or else the application, runs in the   *)
(* end, even if the supply fails on the way.                               *)
OrderlyInstallsOnReset ==
    \A v \in Image :
        regime = "orderly" /\ pc \in {"off", "startup"} /\ Boots = v
            ~> run = "app" /\ ram = v
=============================================================================
