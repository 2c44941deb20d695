------------------------------- MODULE CalNvm -------------------------------
(***************************************************************************)
(* The calibration store of ftm_cal_nvm.c: g_cal_nv_data, a page of        *)
(* calibration fields in RAM, kept in a main and a backup flash page with  *)
(* a CRC each.  Writing a field changes the RAM copy and calls             *)
(* ftm_cal_nvm_storage_update, which saves the whole page to the backup    *)
(* page, reads it back, and goes on to the main page only if its CRC fits. *)
(***************************************************************************)
EXTENDS Naturals

CONSTANTS
    Field,      \* frequency offset, power code, TOF, role...
    Value,      \* the values of a field
    Unset,      \* a field whose cal_mark bit is 0
    Blank,      \* an erased page
    Torn,       \* a page whose CRC does not match
    None,       \* no save in progress
    MaxCuts,    \* bound on power cuts
    MaxFaults   \* bound on failing flash operations

Record == [Field -> Value \cup {Unset}]
Zero == [f \in Field |-> Unset]

VARIABLES
    main, backup,    \* the pages DEF_CAL_NVM_PAGE_NUM, DEF_BACKUP_PAGE_NUM
    g_cal_nv_data,   \* the fields in RAM
    step,            \* what ftm_cal_nvm_storage_update does next
    result,          \* what the last call returned
    cuts, faults

pages == <<main, backup>>
vars == <<main, backup, g_cal_nv_data, step, result, cuts, faults>>

Page == Record \cup {Blank, Torn}

Valid(page) == page \in Record

(* A variant of Loaded with a bug: a main page with a bad CRC is taken.    *)
LoadedUnchecked == IF main # Blank THEN main
                   ELSE IF Valid(backup) THEN backup
                   ELSE Zero

(* What ftm_cal_nvm_load_data finds.                                       *)
Loaded == IF Valid(main) THEN main
          ELSE IF Valid(backup) THEN backup
          ELSE Zero

(* Programming only clears bits.                                           *)
Program(page, r) == IF page \in {Blank, r} THEN r ELSE Torn

Steps == <<"eraseB", "writeB", "checkB", "eraseM", "writeM", "checkM">>
StepSet == {Steps[i] : i \in 1..6}
After(s) == Steps[1 + CHOOSE i \in 1..5 : Steps[i] = s]

TypeOK == /\ main \in Page
          /\ backup \in Page
          /\ g_cal_nv_data \in Record
          /\ step \in StepSet \cup {"off", "idle"}
          /\ result \in {"ok", "failed"}
          /\ cuts \in 0..MaxCuts
          /\ faults \in 0..MaxFaults

Init == /\ \/ main = Blank /\ backup = Blank
           \/ \E r \in Record : main = r /\ backup = r
        /\ g_cal_nv_data = Zero
        /\ step = "off"
        /\ result = "failed"
        /\ cuts = 0
        /\ faults = 0
-----------------------------------------------------------------------------
(* A variant of Update with a bug: the main page need only be valid.       *)
UpdateIfInvalid(r) ==
    /\ g_cal_nv_data' = r
    /\ IF Valid(main) THEN step' = "idle" /\ result' = "ok"
                      ELSE step' = "eraseB" /\ UNCHANGED result
    /\ UNCHANGED <<pages, cuts, faults>>

(* The call of ftm_cal_nvm_storage_update with r in RAM: a main page that  *)
(* already holds r is left alone.                                          *)
Update(r) == /\ g_cal_nv_data' = r
             /\ IF main = r THEN step' = "idle" /\ result' = "ok"
                            ELSE step' = "eraseB" /\ UNCHANGED result
             /\ UNCHANGED <<pages, cuts, faults>>

(* ftm_cal_nvm_write_...(x)                                                *)
Write(f, x) == step = "idle" /\ Update([g_cal_nv_data EXCEPT ![f] = x])

(* ftm_cal_nvm_load_data, by ftm_cal_nvm_init at power-up or later.  With  *)
(* no valid page it zeroes the fields and saves that; a main page that is  *)
(* invalid while the backup is not stays as it is.                         *)
Load == /\ step \in {"off", "idle"}
        /\ IF Valid(main) \/ Valid(backup)
             THEN /\ g_cal_nv_data' = Loaded
                  /\ step' = "idle"
                  /\ result' = "ok"
                  /\ UNCHANGED <<pages, cuts, faults>>
             ELSE Update(Zero)

Erase == /\ \/ step = "eraseB" /\ backup' = Blank /\ UNCHANGED main
            \/ step = "eraseM" /\ main' = Blank /\ UNCHANGED backup
         /\ step' = After(step)
         /\ UNCHANGED <<g_cal_nv_data, result, cuts, faults>>

WritePage == /\ \/ /\ step = "writeB"
                   /\ backup' = Program(backup, g_cal_nv_data)
                   /\ UNCHANGED main
                \/ /\ step = "writeM"
                   /\ main' = Program(main, g_cal_nv_data)
                   /\ UNCHANGED backup
             /\ step' = After(step)
             /\ UNCHANGED <<g_cal_nv_data, result, cuts, faults>>

(* A variant of CheckBackup with a bug: the CRC is not checked.            *)
CheckNothing == /\ step = "checkB"
                /\ step' = "eraseM"
                /\ UNCHANGED <<pages, g_cal_nv_data, result, cuts, faults>>

(* The page is read back and its CRC is checked, not its content.          *)
CheckBackup == /\ step = "checkB"
               /\ IF Valid(backup)
                    THEN step' = "eraseM" /\ UNCHANGED result
                    ELSE step' = "idle" /\ result' = "failed"
               /\ UNCHANGED <<pages, g_cal_nv_data, cuts, faults>>

CheckMain == /\ step = "checkM"
             /\ step' = "idle"
             /\ result' = IF Valid(main) THEN "ok" ELSE "failed"
             /\ UNCHANGED <<pages, g_cal_nv_data, cuts, faults>>

(* What an erase or a write that does not run to its end leaves.           *)
Partial == \/ UNCHANGED pages
           \/ /\ step \in {"eraseB", "writeB"}
              /\ backup' = Torn
              /\ UNCHANGED main
           \/ /\ step \in {"eraseM", "writeM"}
              /\ main' = Torn
              /\ UNCHANGED backup

(* CAL_NVM_ERASE_PORT and CAL_NVM_WRITE_PORT drop the status of the driver. *)
Fault == /\ step \in {"eraseB", "writeB", "eraseM", "writeM"}
         /\ faults < MaxFaults
         /\ faults' = faults + 1
         /\ Partial
         /\ step' = After(step)
         /\ UNCHANGED <<g_cal_nv_data, result, cuts>>

PowerCut == /\ step # "off"
            /\ cuts < MaxCuts
            /\ cuts' = cuts + 1
            /\ Partial
            /\ step' = "off"
            /\ g_cal_nv_data' = Zero
            /\ result' = "failed"
            /\ UNCHANGED faults

Next == \/ \E f \in Field, x \in Value : Write(f, x)
        \/ Load
        \/ Erase
        \/ WritePage
        \/ CheckBackup
        \/ CheckMain
        \/ Fault
        \/ PowerCut

Spec == Init /\ [][Next]_vars
-----------------------------------------------------------------------------
(* The save is over, well or badly, when the main page is written; the     *)
(* check after it changes only what is returned.                           *)
Saving == step \in StepSet \ {"checkM"}

DR == INSTANCE DurableRecord
          WITH Value <- Record, Default <- Zero, NoSave <- None, MayFail <- FALSE,
               rec <- Loaded, safe <- Valid(main),
               saving <- IF Saving THEN g_cal_nv_data ELSE None

(* The two pages keep the promise of DurableRecord through any power cut   *)
(* of ftm_cal_nvm_storage_update and, unlike the boot settings, also when  *)
(* a flash operation fails: the main page is touched only after the backup *)
(* has been read back.                                                     *)
ImplementsDurableRecord == DR!Spec

(* "Returns EN_CAL_OK if the calibration data is successfully updated":    *)
(* after a call that returned it, the flash holds the fields in RAM.       *)
OkMeansSaved == step = "idle" /\ result = "ok" => Loaded = g_cal_nv_data
=============================================================================
