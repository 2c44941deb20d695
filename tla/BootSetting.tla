---------------------------- MODULE BootSetting ----------------------------
(***************************************************************************)
(* The boot settings of dfu_handler.c: one record kept in two flash        *)
(* sectors, BOOTSETTING_ADDR_A and BOOTSETTING_ADDR_B, each guarded by its *)
(* own CRC.  dfu_bootsetting_read takes A, else B, else defaults that it   *)
(* writes back; dfu_bootsetting_write erases and programs B, then A.       *)
(*                                                                         *)
(* The two sectors are one variable each.  A power cut can fall between    *)
(* any two flash operations or inside one; a flash operation can also fail *)
(* and report it, and dfu_bootsetting_write goes on regardless.            *)
(***************************************************************************)
EXTENDS Naturals

CONSTANTS
    Setting,    \* the records the code above saves
    Default,    \* the record dfu_bootsetting_read makes up, all zeros
    Blank,      \* an erased sector
    Torn,       \* a sector whose CRC does not match
    None,       \* no save in progress
    MaxCuts,    \* bound on power cuts
    MaxFaults   \* bound on failing flash operations

ASSUME SettingAssumption ==
    /\ Default \in Setting
    /\ {Blank, Torn, None} \cap Setting = {}
    /\ Blank # Torn
    /\ MaxCuts \in Nat
    /\ MaxFaults \in Nat

VARIABLES
    copyA,      \* sector BOOTSETTING_ADDR_A
    copyB,      \* sector BOOTSETTING_ADDR_B
    step,       \* the flash operation dfu_bootsetting_write does next
    p_info,     \* the record being written
    cuts,       \* power cuts so far
    faults      \* flash operations that have failed so far

bsvars == <<copyA, copyB, step, p_info, cuts, faults>>

Copy == Setting \cup {Blank, Torn}

Valid(copy) == copy \in Setting

(* dfu_bootsetting_read, as a function of the two sectors.                 *)
Stored == IF Valid(copyA) THEN copyA
          ELSE IF Valid(copyB) THEN copyB
          ELSE Default

Readable == Valid(copyA) \/ Valid(copyB)

(* Programming can only clear bits: on a sector that is not erased it      *)
(* leaves the record already there or a mixture that fails the CRC.        *)
Program(copy, s) == IF copy \in {Blank, s} THEN s ELSE Torn

TypeOK == /\ copyA \in Copy
          /\ copyB \in Copy
          /\ step \in {"idle", "eraseB", "writeB", "eraseA", "writeA"}
          /\ p_info \in Setting \cup {None}
          /\ cuts \in 0..MaxCuts
          /\ faults \in 0..MaxFaults
          /\ (step = "idle") <=> (p_info = None)

(* A device fresh from production (both sectors erased) or one that was    *)
(* switched off after a complete save.                                     *)
Init == /\ \/ copyA = Blank /\ copyB = Blank
           \/ \E s \in Setting : copyA = s /\ copyB = s
        /\ step = "idle"
        /\ p_info = None
        /\ cuts = 0
        /\ faults = 0
-----------------------------------------------------------------------------
(* A variant of BeginWrite with a bug: sector B is skipped.                *)
BeginWriteSkipsB(s) == /\ step = "idle"
                       /\ step' = "eraseA"
                       /\ p_info' = s
                       /\ UNCHANGED <<copyA, copyB, cuts, faults>>

(* dfu_bootsetting_write(s) is called.                                     *)
BeginWrite(s) == /\ step = "idle"
                 /\ step' = "eraseB"
                 /\ p_info' = s
                 /\ UNCHANGED <<copyA, copyB, cuts, faults>>

(* dfu_bootsetting_read finds no valid copy: it makes up the defaults and  *)
(* writes them.  With a valid copy it changes nothing.                     *)
ReadDefault == ~Readable /\ BeginWrite(Default)

(* One flash operation moves dfu_bootsetting_write on.                     *)
EraseB == /\ step = "eraseB"
          /\ step' = "writeB"
          /\ copyB' = Blank
          /\ UNCHANGED <<copyA, p_info, cuts, faults>>

WriteB == /\ step = "writeB"
          /\ step' = "eraseA"
          /\ copyB' = Program(copyB, p_info)
          /\ UNCHANGED <<copyA, p_info, cuts, faults>>

EraseA == /\ step = "eraseA"
          /\ step' = "writeA"
          /\ copyA' = Blank
          /\ UNCHANGED <<copyB, p_info, cuts, faults>>

WriteA == /\ step = "writeA"
          /\ step' = "idle"
          /\ copyA' = Program(copyA, p_info)
          /\ p_info' = None
          /\ UNCHANGED <<copyB, cuts, faults>>

(* What the operation in progress leaves when it does not run to its end:  *)
(* its sector as it was, or torn.                                          *)
Partial == \/ UNCHANGED <<copyA, copyB>>
           \/ step \in {"eraseB", "writeB"} /\ copyB' = Torn /\ UNCHANGED copyA
           \/ step \in {"eraseA", "writeA"} /\ copyA' = Torn /\ UNCHANGED copyB

(* The operation fails: its status is or-ed into rt, which no caller looks *)
(* at, and the next operation is done all the same.                        *)
Fault == /\ step # "idle"
         /\ faults < MaxFaults
         /\ faults' = faults + 1
         /\ Partial
         /\ step' = CASE step = "eraseB" -> "writeB"
                      [] step = "writeB" -> "eraseA"
                      [] step = "eraseA" -> "writeA"
                      [] step = "writeA" -> "idle"
         /\ p_info' = IF step = "writeA" THEN None ELSE p_info
         /\ UNCHANGED cuts

WriteStep == EraseB \/ WriteB \/ EraseA \/ WriteA \/ Fault

(* A variant of PowerCut with a bug: the save is still thought to go on.   *)
PowerCutKeepsSaving == /\ cuts < MaxCuts
                       /\ cuts' = cuts + 1
                       /\ Partial
                       /\ step' = "idle"
                       /\ UNCHANGED <<p_info, faults>>

(* The supply fails: the rest of a save in progress never happens.         *)
PowerCut == /\ cuts < MaxCuts
            /\ cuts' = cuts + 1
            /\ Partial
            /\ step' = "idle"
            /\ p_info' = None
            /\ UNCHANGED faults

Next == \/ \E s \in Setting : BeginWrite(s)
        \/ ReadDefault
        \/ WriteStep
        \/ PowerCut

Spec == Init /\ [][Next]_bsvars
-----------------------------------------------------------------------------
(* Sector B is fit to hold the record while sector A is rewritten.         *)
Spare == /\ step = "writeB" => copyB \in {Blank, p_info}
         /\ step \in {"eraseA", "writeA"} => copyB = p_info

DR == INSTANCE DurableRecord
          WITH Value <- Setting, NoSave <- None, MayFail <- MaxFaults > 0,
               rec <- Stored, safe <- Valid(copyA) /\ Spare,
               saving <- p_info

(* The two sectors keep the promise of DurableRecord: a power cut at any   *)
(* point of dfu_bootsetting_write leaves the old settings or the new ones, *)
(* unless sector A was already invalid when the write began, or one of its *)
(* flash operations on sector B had failed unnoticed.                      *)
ImplementsDurableRecord == DR!Spec

(* One failing flash operation, in whatever place of                       *)
(* dfu_bootsetting_write, does not lose the record being saved: when the   *)
(* call returns, a load finds it.                                          *)
SavedWhenWriteReturns ==
    [][step = "writeA" /\ step' = "idle" /\ cuts' = cuts
            => Stored' = p_info]_bsvars
=============================================================================
