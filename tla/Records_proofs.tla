--------------------------- MODULE Records_proofs ---------------------------
(***************************************************************************)
(* Proofs about the two stores of MCRecords, for every set of records and  *)
(* any number of power cuts: the boot settings and the calibration store   *)
(* keep their types and implement DurableRecord, and with one failing      *)
(* flash operation at most neither reports or loses what it should not.    *)
(***************************************************************************)
EXTENDS MCRecords, TLAPS

(* No step of the settings leaves their type; a record is being written    *)
(* exactly during a save.                                                  *)
LEMMA TypeStep == TypeOK /\ [Next]_bsvars => TypeOK'
<1> USE SettingAssumption
<1> SUFFICES ASSUME TypeOK, [Next]_bsvars PROVE TypeOK'
  OBVIOUS
<1> USE DEF TypeOK, Copy
<1>1. ASSUME NEW s \in Setting, BeginWrite(s) PROVE TypeOK'
  BY <1>1 DEF BeginWrite
<1>2. CASE ReadDefault
  BY <1>2 DEF ReadDefault, BeginWrite
<1>3. CASE EraseB
  BY <1>3 DEF EraseB
<1>4. CASE WriteB
  BY <1>4 DEF WriteB, Program
<1>5. CASE EraseA
  BY <1>5 DEF EraseA
<1>6. CASE WriteA
  BY <1>6 DEF WriteA, Program
<1>7. CASE Fault
  <2>1. copyA' \in Copy /\ copyB' \in Copy
    BY <1>7 DEF Fault, Partial
  <2>2. faults' \in 0..MaxFaults /\ cuts' \in 0..MaxCuts
    BY <1>7 DEF Fault
  <2>3. /\ step' \in {"idle", "eraseB", "writeB", "eraseA", "writeA"}
        /\ p_info' \in Setting \cup {None}
        /\ (step' = "idle") <=> (p_info' = None)
    BY <1>7 DEF Fault
  <2> QED
    BY <2>1, <2>2, <2>3
<1>8. CASE PowerCut
  <2>1. copyA' \in Copy /\ copyB' \in Copy
    BY <1>8 DEF PowerCut, Partial
  <2>2. faults' \in 0..MaxFaults /\ cuts' \in 0..MaxCuts
    BY <1>8 DEF PowerCut
  <2> QED
    BY <1>8, <2>1, <2>2 DEF PowerCut
<1>9. CASE UNCHANGED bsvars
  BY <1>9 DEF bsvars
<1> QED
  BY <1>1, <1>2, <1>3, <1>4, <1>5, <1>6, <1>7, <1>8, <1>9
  DEF Next, WriteStep

(* Every reachable state of dfu_bootsetting_read and dfu_bootsetting_write *)
(* is of its type.                                                         *)
THEOREM TypeCorrect == Spec => []TypeOK
<1>1. Init => TypeOK
  BY SettingAssumption DEF Init, TypeOK, Copy
<1> QED
  BY <1>1, TypeStep, PTL DEF Spec
-----------------------------------------------------------------------------
(* Where a save is, when none of its flash operations has failed.          *)
OnCourse == /\ step = "writeB" => copyB = Blank
            /\ step \in {"eraseA", "writeA"} => copyB = p_info
            /\ step = "writeA" => copyA = Blank

(* A save none of whose operations has failed is on course.                *)
LEMMA OnCourseInvariant == Spec => [](faults = 0 => OnCourse)
<1> USE SettingAssumption
<1>1. Init => (faults = 0 => OnCourse)
  BY DEF Init, OnCourse
<1>2. TypeOK /\ (faults = 0 => OnCourse) /\ [Next]_bsvars
        => (faults = 0 => OnCourse)'
  <2> SUFFICES ASSUME TypeOK, faults = 0 => OnCourse, [Next]_bsvars,
                      faults' = 0
               PROVE  OnCourse'
    OBVIOUS
  <2>1. CASE faults = 0
    BY <2>1 DEF TypeOK, OnCourse, Next, BeginWrite, ReadDefault, WriteStep,
                EraseB, WriteB, EraseA, WriteA, Fault, PowerCut, Program,
                bsvars
  <2>2. CASE faults # 0
    <3>1. faults' = faults \/ faults' = faults + 1
      BY DEF Next, BeginWrite, ReadDefault, WriteStep, EraseB, WriteB, EraseA,
             WriteA, Fault, PowerCut, bsvars
    <3> QED
      BY <2>2, <3>1 DEF TypeOK
  <2> QED
    BY <2>1, <2>2
<1> QED
  BY <1>1, <1>2, TypeCorrect, PTL DEF Spec
-----------------------------------------------------------------------------
(* After one failure, one of the two sectors will still hold the record    *)
(* being saved, and sector B holds that record or none.                    *)
Recovers == /\ faults = 0 => OnCourse
            /\ step \in {"eraseA", "writeA"} => copyB \in {p_info, Blank, Torn}
            /\ step = "writeA" => copyB = p_info \/ copyA = Blank

(* With one fault at most, sector B holds the record being saved once      *)
(* sector A is erased for it, or sector A is still blank.                  *)
LEMMA RecoversInvariant == ASSUME MaxFaults <= 1
                           PROVE  Spec => []Recovers
<1> USE SettingAssumption
<1>1. Init => Recovers
  BY DEF Init, Recovers, OnCourse
<1>2. TypeOK /\ Recovers /\ (faults = 0 => OnCourse)' /\ [Next]_bsvars
        => Recovers'
  <2> SUFFICES ASSUME TypeOK, Recovers, [Next]_bsvars
               PROVE  /\ step' \in {"eraseA", "writeA"}
                            => copyB' \in {p_info', Blank, Torn}
                      /\ step' = "writeA" => copyB' = p_info' \/ copyA' = Blank
    BY DEF Recovers
  <2>1. CASE Fault
    <3>1. OnCourse /\ step # "idle"
      BY <2>1 DEF Fault, Recovers, TypeOK
    <3>2. step' = "writeA" => step = "eraseA"
      BY <2>1 DEF Fault, TypeOK
    <3>3. step' = "eraseA" => step = "writeB"
      BY <2>1 DEF Fault, TypeOK
    <3>4. step \in {"eraseA", "writeB"} => p_info' = p_info
      BY <2>1 DEF Fault
    <3> QED
      BY <2>1, <3>1, <3>2, <3>3, <3>4 DEF Fault, Partial, OnCourse
  <2>2. CASE EraseA
    BY <2>2 DEF EraseA, Recovers
  <2>3. CASE WriteB
    BY <2>3 DEF WriteB, Program
  <2>4. CASE UNCHANGED bsvars
    BY <2>4 DEF bsvars, Recovers
  <2> QED
    BY <2>1, <2>2, <2>3, <2>4
    DEF Next, BeginWrite, ReadDefault, WriteStep, EraseB, WriteA, PowerCut
<1> QED
  BY <1>1, <1>2, TypeCorrect, OnCourseInvariant, PTL DEF Spec
-----------------------------------------------------------------------------
(* The two sectors keep the promise of DurableRecord if one flash          *)
(* operation fails at most, and a strict one (MayFail is FALSE) if none    *)
(* does: a power cut at any point of dfu_bootsetting_write leaves the old  *)
(* settings or the new ones, unless the write was not safe.                *)
THEOREM Refinement == ASSUME MaxFaults <= 1
                      PROVE  Spec => ImplementsDurableRecord
<1> DEFINE safe == Valid(copyA) /\ Spare
<1> USE SettingAssumption
<1>1. Init => DR!Init
  BY DEF Init, DR!Init, Stored, Valid
<1>2. TypeOK /\ Recovers /\ [Next]_bsvars
        => [DR!Next]_<<Stored, safe, p_info>>
  <2> SUFFICES ASSUME TypeOK, Recovers, [Next]_bsvars
               PROVE  [DR!Next]_<<Stored, safe, p_info>>
    OBVIOUS
  <2> USE DEF Stored, Valid, TypeOK, Copy, Spare
  <2>1. ASSUME NEW s \in Setting, BeginWrite(s)
        PROVE  DR!Begin(s)
    BY <2>1 DEF BeginWrite, DR!Begin
  <2>2. CASE ReadDefault
    BY <2>2 DEF ReadDefault, BeginWrite, DR!Begin, DR!Next
  <2>3. CASE EraseB
    <3>1. CASE copyA \in Setting
      BY <2>3, <3>1 DEF EraseB
    <3>2. CASE copyA \notin Setting
      BY <2>3, <3>2 DEF EraseB, DR!Next, DR!Expose
    <3> QED
      BY <3>1, <3>2
  <2>4. CASE WriteB
    <3>1. /\ copyA' = copyA /\ p_info' = p_info /\ p_info \in Setting
          /\ step = "writeB" /\ step' = "eraseA"
      BY <2>4 DEF WriteB
    <3>2. IF copyB \in {Blank, p_info} THEN copyB' = p_info ELSE copyB' = Torn
      BY <2>4 DEF WriteB, Program
    <3>3. safe' = safe
      BY <3>1, <3>2
    <3>4. CASE copyA \in Setting
      BY <3>1, <3>3, <3>4
    <3>5. CASE copyA \notin Setting /\ copyB \in {Blank, p_info}
      BY <3>1, <3>2, <3>5 DEF DR!Next, DR!Commit
    <3>6. CASE copyA \notin Setting /\ copyB \notin {Blank, p_info}
      BY <3>1, <3>2, <3>6 DEF DR!Next, DR!Expose
    <3> QED
      BY <3>4, <3>5, <3>6
  <2>5. CASE EraseA
    <3>1. /\ copyB' = copyB /\ copyA' = Blank /\ p_info' = p_info
          /\ p_info \in Setting /\ step = "eraseA"
      BY <2>5 DEF EraseA
    <3>2. CASE copyB = p_info
      BY <3>1, <3>2 DEF DR!Next, DR!Commit
    <3>3. CASE copyB # p_info
      BY <3>1, <3>3 DEF Recovers, DR!Next, DR!Expose
    <3> QED
      BY <3>2, <3>3
  <2>6. CASE WriteA
    <3>1. /\ copyB' = copyB /\ p_info' = None /\ p_info \in Setting
          /\ step = "writeA" /\ step' = "idle" /\ faults' = faults
      BY <2>6 DEF WriteA
    <3>2. CASE copyA \in {Blank, p_info}
      <4>1. copyA' = p_info
        BY <2>6, <3>2 DEF WriteA, Program
      <4>2. CASE faults = 0
        BY <3>1, <4>1, <4>2 DEF Recovers, OnCourse, DR!Next, DR!Complete
      <4>3. CASE faults # 0
        BY <3>1, <4>1, <4>3 DEF DR!Next, DR!Complete
      <4> QED
        BY <4>2, <4>3
    <3>3. CASE copyA \notin {Blank, p_info}
      BY <2>6, <3>1, <3>3 DEF WriteA, Program, Recovers, DR!Next, DR!Abandon
    <3> QED
      BY <3>2, <3>3
  <2>7. CASE Fault
    <3>1. faults = 0 /\ MaxFaults > 0 /\ OnCourse /\ step # "idle"
      BY <2>7 DEF Fault, Recovers
    <3>2. Partial
      BY <2>7 DEF Fault
    <3>3. p_info \in Setting /\ (step # "writeA" => p_info' = p_info)
      BY <2>7, <3>1 DEF Fault
    <3>4. CASE step = "eraseB"
      <4>1. step' = "writeB" /\ copyA' = copyA
        BY <2>7, <3>2, <3>4 DEF Fault, Partial
      <4>2. CASE copyA \in Setting
        BY <3>1, <3>3, <3>4, <4>1, <4>2 DEF DR!Next, DR!Damage
      <4>3. CASE copyA \notin Setting
        BY <3>2, <3>3, <3>4, <4>1, <4>3 DEF Partial, DR!Next, DR!Expose
      <4> QED
        BY <4>2, <4>3
    <3>5. CASE step = "writeB"
      <4>1. step' = "eraseA" /\ copyA' = copyA
        BY <2>7, <3>2, <3>5 DEF Fault, Partial
      <4>2. copyB \notin Setting /\ copyB' \notin Setting
        BY <3>1, <3>2, <3>5 DEF OnCourse, Partial
      <4>3. CASE copyA \in Setting
        BY <3>1, <3>3, <3>5, <4>1, <4>2, <4>3 DEF DR!Next, DR!Damage
      <4>4. CASE copyA \notin Setting
        BY <3>3, <3>5, <4>1, <4>2, <4>4
      <4> QED
        BY <4>3, <4>4
    <3>6. CASE step = "eraseA"
      <4>1. step' = "writeA" /\ copyB' = copyB /\ copyB = p_info
        BY <2>7, <3>1, <3>2, <3>6 DEF Fault, Partial, OnCourse
      <4>2. CASE copyA' = copyA
        BY <3>3, <3>6, <4>1, <4>2
      <4>3. CASE copyA' = Torn
        BY <3>3, <3>6, <4>1, <4>3 DEF DR!Next, DR!Commit
      <4> QED
        BY <3>2, <3>6, <4>2, <4>3 DEF Partial
    <3>7. CASE step = "writeA"
      <4>1. /\ step' = "idle" /\ copyB' = copyB /\ copyB = p_info
            /\ copyA = Blank /\ copyA' \in {Blank, Torn} /\ p_info' = None
        BY <2>7, <3>1, <3>2, <3>7 DEF Fault, Partial, OnCourse
      <4> QED
        BY <3>3, <4>1 DEF DR!Next, DR!Abandon
    <3> QED
      BY <3>1, <3>4, <3>5, <3>6, <3>7
  <2>8. CASE PowerCut
    <3>1. Partial /\ step' = "idle" /\ p_info' = None
      BY <2>8 DEF PowerCut
    <3>2. CASE step = "idle"
      BY <3>1, <3>2 DEF Partial
    <3>3. CASE step = "eraseB"
      BY <3>1, <3>3 DEF Partial, DR!Next, DR!Abandon
    <3>4. CASE step = "writeB"
      <4>1. copyA' = copyA /\ p_info \in Setting
        BY <3>1, <3>4 DEF Partial
      <4>2. CASE copyA \in Setting /\ ~Spare
        <5>1. faults # 0 /\ MaxFaults > 0
          BY <3>4, <4>2 DEF Recovers, OnCourse
        <5> QED
          BY <3>1, <4>1, <4>2, <5>1 DEF DR!Next, DR!Abandon
      <4>3. CASE copyA \in Setting /\ Spare
        BY <3>1, <4>1, <4>3 DEF DR!Next, DR!Abandon
      <4>4. CASE copyA \notin Setting
        BY <3>1, <3>4, <4>1, <4>4 DEF Partial, DR!Next, DR!Abandon
      <4> QED
        BY <4>2, <4>3, <4>4
    <3>5. CASE step \in {"eraseA", "writeA"}
      <4>1. copyB' = copyB /\ p_info \in Setting
        BY <3>1, <3>5 DEF Partial
      <4>2. CASE copyA' = copyA /\ copyA \in Setting /\ ~Spare
        <5>1. faults # 0 /\ MaxFaults > 0
          BY <3>5, <4>2 DEF Recovers, OnCourse
        <5> QED
          BY <3>1, <4>1, <4>2, <5>1 DEF DR!Next, DR!Abandon
      <4>3. CASE copyA' = copyA /\ ~(copyA \in Setting /\ ~Spare)
        BY <3>1, <4>1, <4>3 DEF DR!Next, DR!Abandon
      <4>4. CASE copyA' = Torn /\ copyB = p_info
        BY <3>1, <4>1, <4>4 DEF DR!Next, DR!Abandon
      <4>5. CASE copyA' = Torn /\ copyB # p_info
        BY <3>1, <3>5, <4>1, <4>5 DEF Recovers, DR!Next, DR!Abandon
      <4> QED
        BY <3>1, <3>5, <4>2, <4>3, <4>4, <4>5 DEF Partial
    <3> QED
      BY <3>2, <3>3, <3>4, <3>5
  <2>9. CASE UNCHANGED bsvars
    BY <2>9 DEF bsvars
  <2> QED
    BY <2>1, <2>2, <2>3, <2>4, <2>5, <2>6, <2>7, <2>8, <2>9
    DEF Next, WriteStep, DR!Next
<1> QED
  BY <1>1, <1>2, TypeCorrect, RecoversInvariant, PTL
  DEF Spec, ImplementsDurableRecord, DR!Spec, DR!drvars
-----------------------------------------------------------------------------
(* One failing flash operation in dfu_bootsetting_write, whose status is   *)
(* ignored, does not lose the record being saved.                          *)
THEOREM OneFaultLosesNothing == ASSUME MaxFaults <= 1
                                PROVE  Spec => SavedWhenWriteReturns
<1> USE SettingAssumption
<1>1. TypeOK /\ Recovers /\ [Next]_bsvars
        => [step = "writeA" /\ step' = "idle" /\ cuts' = cuts
              => Stored' = p_info]_bsvars
  <2> SUFFICES ASSUME TypeOK, Recovers, Next,
                      step = "writeA", step' = "idle", cuts' = cuts
               PROVE  Stored' = p_info
    BY DEF bsvars
  <2> USE DEF TypeOK, Recovers, Stored, Valid
  <2>1. CASE WriteA
    BY <2>1 DEF WriteA, Program
  <2>2. CASE Fault
    BY <2>2 DEF Fault, Partial, OnCourse
  <2>3. ~PowerCut
    BY DEF PowerCut
  <2> QED
    BY <2>1, <2>2, <2>3
    DEF Next, BeginWrite, ReadDefault, WriteStep, EraseB, WriteB, EraseA
<1> QED
  BY <1>1, TypeCorrect, RecoversInvariant, PTL
  DEF Spec, SavedWhenWriteReturns
-----------------------------------------------------------------------------
(* The calibration store.  Whatever is in a page, it is of its type.       *)
LEMMA CalPageTypes ==
    /\ Cal!Zero \in Cal!Record
    /\ Cal!Record \subseteq Cal!Page /\ Blank \in Cal!Page /\ Torn \in Cal!Page
    /\ \A page \in Cal!Page, r \in Cal!Record : Cal!Program(page, r) \in Cal!Page
    /\ \A r \in Cal!Record, f \in Field, x \in Value :
          [r EXCEPT ![f] = x] \in Cal!Record
    /\ Blank \notin Cal!Record /\ Torn \notin Cal!Record /\ None \notin Cal!Record
    /\ Blank # Torn
BY SettingAssumption, RecordAssumption
DEF Cal!Zero, Cal!Record, Cal!Page, Cal!Program

LEMMA CalAfter ==
    /\ Cal!After("eraseB") = "writeB" /\ Cal!After("writeB") = "checkB"
    /\ Cal!After("eraseM") = "writeM" /\ Cal!After("writeM") = "checkM"
    /\ Cal!StepSet = {"eraseB", "writeB", "checkB", "eraseM", "writeM", "checkM"}
<1>1. /\ Cal!Steps = <<"eraseB", "writeB", "checkB", "eraseM", "writeM", "checkM">>
      /\ 1..5 = {1, 2, 3, 4, 5} /\ 1..6 = {1, 2, 3, 4, 5, 6}
  BY DEF Cal!Steps
<1>2. Cal!StepSet = {"eraseB", "writeB", "checkB", "eraseM", "writeM", "checkM"}
  BY <1>1 DEF Cal!StepSet
<1>3. ASSUME NEW i \in {1, 2, 3, 4, 5},
             \A k \in {1, 2, 3, 4, 5} : Cal!Steps[k] = Cal!Steps[i] => k = i
      PROVE  Cal!After(Cal!Steps[i]) = Cal!Steps[1 + i]
  <2> DEFINE c == CHOOSE k \in 1..5 : Cal!Steps[k] = Cal!Steps[i]
  <2>1. c \in 1..5 /\ Cal!Steps[c] = Cal!Steps[i]
    BY <1>1
  <2>2. c = i
    BY <1>1, <1>3, <2>1
  <2>3. Cal!After(Cal!Steps[i]) = Cal!Steps[1 + c]
    BY DEF Cal!After
  <2>4. 1 + c = 1 + i
    BY <2>2
  <2> HIDE DEF c
  <2> QED
    BY <2>3, <2>4
<1> QED
  BY <1>1, <1>2, <1>3

LEMMA CalTypeStep == Cal!TypeOK /\ [Cal!Next]_calVars => Cal!TypeOK'
<1> USE SettingAssumption DEF Cal!TypeOK
<1> SUFFICES ASSUME Cal!TypeOK, [Cal!Next]_calVars PROVE Cal!TypeOK'
  OBVIOUS
<1>1. ASSUME NEW r \in Cal!Record, Cal!Update(r) PROVE Cal!TypeOK'
  BY <1>1, CalAfter DEF Cal!Update, Cal!pages
<1>2. ASSUME NEW f \in Field, NEW x \in Value, Cal!Write(f, x)
      PROVE  Cal!TypeOK'
  BY <1>1, <1>2, CalPageTypes DEF Cal!Write
<1>3. CASE Cal!Load
  <2>1. Cal!Loaded \in Cal!Record
    BY CalPageTypes DEF Cal!Loaded, Cal!Valid
  <2> QED
    BY <1>1, <1>3, <2>1, CalPageTypes DEF Cal!Load, Cal!pages
<1>4. CASE Cal!Erase
  BY <1>4, CalPageTypes, CalAfter DEF Cal!Erase
<1>5. CASE Cal!WritePage
  BY <1>5, CalPageTypes, CalAfter DEF Cal!WritePage
<1>6. CASE Cal!CheckBackup \/ Cal!CheckMain
  BY <1>6, CalAfter DEF Cal!CheckBackup, Cal!CheckMain, Cal!pages
<1>7. CASE Cal!Fault \/ Cal!PowerCut
  <2>1. main' \in Cal!Page /\ backup' \in Cal!Page
    BY <1>7, CalPageTypes DEF Cal!Fault, Cal!PowerCut, Cal!Partial, Cal!pages
  <2>2. calStep' \in Cal!StepSet \cup {"off", "idle"}
    BY <1>7, CalAfter DEF Cal!Fault, Cal!PowerCut
  <2>3. calCuts' \in 0..MaxCuts /\ calFaults' \in 0..MaxFaults
    BY <1>7 DEF Cal!Fault, Cal!PowerCut
  <2> QED
    BY <1>7, <2>1, <2>2, <2>3, CalPageTypes DEF Cal!Fault, Cal!PowerCut
<1>8. CASE UNCHANGED calVars
  BY <1>8 DEF calVars
<1> QED
  BY <1>2, <1>3, <1>4, <1>5, <1>6, <1>7, <1>8 DEF Cal!Next

(* Where ftm_cal_nvm_storage_update is, with one failing operation at      *)
(* most: the main page is touched only when the backup holds the record,   *)
(* and what a check finds valid is the record.                             *)
CalOnCourse ==
    /\ calStep = "writeB" => calFaults > 0 \/ backup = Blank
    /\ calStep = "checkB" => backup = g_cal_nv_data \/ ~Cal!Valid(backup)
    /\ calStep \in {"eraseM", "writeM", "checkM"} => backup = g_cal_nv_data
    /\ calStep = "writeM" => calFaults > 0 \/ main = Blank
    /\ calStep = "checkM" => main = g_cal_nv_data \/ ~Cal!Valid(main)
    /\ Cal!OkMeansSaved

CalInv == Cal!TypeOK /\ CalOnCourse

LEMMA CalInitInv == Cal!Init => CalInv
BY CalPageTypes, SettingAssumption
DEF Cal!Init, CalInv, Cal!TypeOK, CalOnCourse, Cal!OkMeansSaved

LEMMA CalNextInv ==
    ASSUME MaxFaults <= 1, CalInv, [Cal!Next]_calVars
    PROVE  CalInv'
<1>0. Cal!TypeOK /\ CalOnCourse /\ Cal!TypeOK'
  BY CalTypeStep DEF CalInv
<1> SUFFICES CalOnCourse'
  BY <1>0 DEF CalInv
<1> USE CalPageTypes
    DEF CalOnCourse, Cal!OkMeansSaved, Cal!Valid, Cal!Loaded, Cal!pages
<1>1. ASSUME NEW r, calStep \in {"idle", "off"}, Cal!Update(r)
      PROVE  CalOnCourse'
  BY <1>0, <1>1 DEF Cal!Update, Cal!TypeOK
<1>2. ASSUME NEW f, NEW x, Cal!Write(f, x) PROVE CalOnCourse'
  BY <1>1, <1>2 DEF Cal!Write
<1>3. CASE Cal!Load
  BY <1>0, <1>1, <1>3 DEF Cal!Load
<1>4. CASE Cal!Erase
  BY <1>0, <1>4, CalAfter DEF Cal!Erase
<1>5. CASE Cal!WritePage
  BY <1>0, <1>5, CalAfter DEF Cal!WritePage, Cal!Program
<1>6. CASE Cal!CheckBackup
  BY <1>0, <1>6 DEF Cal!CheckBackup
<1>7. CASE Cal!CheckMain
  BY <1>0, <1>7 DEF Cal!CheckMain
<1>8. CASE Cal!Fault
  <2>1. calFaults = 0 /\ calFaults' = 1
    BY <1>0, <1>8, SettingAssumption DEF Cal!Fault, Cal!TypeOK
  <2>2. CASE calStep = "eraseB"
    BY <1>0, <1>8, <2>1, <2>2, CalAfter DEF Cal!Fault, Cal!Partial
  <2>3. CASE calStep = "writeB"
    BY <1>0, <1>8, <2>1, <2>3, CalAfter DEF Cal!Fault, Cal!Partial
  <2>4. CASE calStep = "eraseM"
    BY <1>0, <1>8, <2>1, <2>4, CalAfter DEF Cal!Fault, Cal!Partial
  <2>5. CASE calStep = "writeM"
    BY <1>0, <1>8, <2>1, <2>5, CalAfter DEF Cal!Fault, Cal!Partial
  <2> QED
    BY <1>8, <2>2, <2>3, <2>4, <2>5 DEF Cal!Fault
<1>9. CASE Cal!PowerCut
  BY <1>9 DEF Cal!PowerCut
<1>10. CASE UNCHANGED calVars
  BY <1>0, <1>10 DEF calVars
<1> QED
  BY <1>2, <1>3, <1>4, <1>5, <1>6, <1>7, <1>8, <1>9, <1>10 DEF Cal!Next

(* The calibration store is of its type whatever fails.                    *)
LEMMA CalTypes == Cal!Spec => []Cal!TypeOK
<1>1. Cal!Init => Cal!TypeOK
  BY CalInitInv DEF CalInv
<1> QED
  BY <1>1, CalTypeStep, PTL DEF Cal!Spec, Cal!vars, calVars

(* With one failing operation at most, what is in RAM after an EN_CAL_OK   *)
(* is what a load finds.                                                   *)
LEMMA CalOkMeansSaved == ASSUME MaxFaults <= 1
                         PROVE  Cal!Spec => []Cal!OkMeansSaved
<1>1. CalInv => Cal!OkMeansSaved
  BY DEF CalInv, CalOnCourse
<1>2. CalInv /\ [Cal!Next]_calVars => CalInv'
  BY CalNextInv
<1> QED
  BY <1>1, <1>2, CalInitInv, PTL DEF Cal!Spec, Cal!vars, calVars

(* Each operation on the two pages is a step of the durable record, or     *)
(* none.                                                                   *)
LEMMA CalRefinement == ASSUME MaxFaults <= 1
                       PROVE  Cal!Spec => Cal!ImplementsDurableRecord
<1> DEFINE saving == IF Cal!Saving THEN g_cal_nv_data ELSE None
           drvars == <<Cal!Loaded, Cal!Valid(main), saving>>
<1>1. Cal!Init => Cal!DR!Init
  BY CalPageTypes, CalAfter
  DEF Cal!Init, Cal!DR!Init, Cal!Loaded, Cal!Valid, Cal!Saving
<1>2. CalInv /\ [Cal!Next]_calVars => [Cal!DR!Next]_drvars
  <2> SUFFICES ASSUME CalInv, [Cal!Next]_calVars
               PROVE  [Cal!DR!Next]_drvars
    OBVIOUS
  <2> USE CalPageTypes, CalAfter
      DEF CalInv, CalOnCourse, Cal!Valid, Cal!Loaded, Cal!Saving, Cal!pages
  <2>1. ASSUME NEW r \in Cal!Record, calStep \in {"idle", "off"}, Cal!Update(r)
        PROVE  [Cal!DR!Next]_drvars
    <3>1. saving = None /\ main' = main /\ backup' = backup
      BY <2>1 DEF Cal!Update
    <3>2. CASE main = r
      BY <2>1, <3>1, <3>2 DEF Cal!Update
    <3>3. CASE main # r
      <4>1. saving' = r
        BY <2>1, <3>3 DEF Cal!Update
      <4> QED
        BY <3>1, <4>1 DEF Cal!DR!Next, Cal!DR!Begin
    <3> QED
      BY <3>2, <3>3
  <2>2. ASSUME NEW f \in Field, NEW x \in Value, Cal!Write(f, x)
        PROVE  [Cal!DR!Next]_drvars
    BY <2>1, <2>2 DEF Cal!Write, Cal!TypeOK
  <2>3. CASE Cal!Load
    <3>1. CASE Cal!Valid(main) \/ Cal!Valid(backup)
      BY <2>3, <3>1 DEF Cal!Load
    <3>2. CASE ~(Cal!Valid(main) \/ Cal!Valid(backup))
      BY <2>1, <2>3, <3>2 DEF Cal!Load
    <3> QED
      BY <3>1, <3>2
  <2>4. CASE Cal!Erase
    <3>1. saving = g_cal_nv_data /\ saving' = saving /\ g_cal_nv_data \in Cal!Record
      BY <2>4 DEF Cal!Erase, Cal!TypeOK
    <3>2. CASE calStep = "eraseB"
      <4>1. main' = main /\ backup' = Blank
        BY <2>4, <3>2 DEF Cal!Erase
      <4>2. CASE main \in Cal!Record
        BY <3>1, <4>1, <4>2
      <4>3. CASE main \notin Cal!Record
        BY <3>1, <4>1, <4>3 DEF Cal!DR!Next, Cal!DR!Expose
      <4> QED
        BY <4>2, <4>3
    <3>3. CASE calStep = "eraseM"
      <4>1. main' = Blank /\ backup' = g_cal_nv_data
        BY <2>4, <3>3 DEF Cal!Erase
      <4> QED
        BY <3>1, <4>1 DEF Cal!DR!Next, Cal!DR!Commit
    <3> QED
      BY <2>4, <3>2, <3>3 DEF Cal!Erase
  <2>5. CASE Cal!WritePage
    <3>0. saving = g_cal_nv_data /\ g_cal_nv_data \in Cal!Record
      BY <2>5 DEF Cal!WritePage, Cal!TypeOK
    <3>1. CASE calStep = "writeB"
      <4>1. main' = main /\ saving' = saving /\ backup' \in {g_cal_nv_data, Torn}
        BY <2>5, <3>1 DEF Cal!WritePage, Cal!Program
      <4>2. CASE main \in Cal!Record
        BY <4>1, <4>2
      <4>3. CASE main \notin Cal!Record /\ backup' = g_cal_nv_data
        BY <3>0, <4>1, <4>3 DEF Cal!DR!Next, Cal!DR!Commit
      <4>4. CASE main \notin Cal!Record /\ backup' = Torn
        BY <3>0, <4>1, <4>4 DEF Cal!DR!Next, Cal!DR!Expose
      <4> QED
        BY <4>1, <4>2, <4>3, <4>4
    <3>2. CASE calStep = "writeM"
      <4>1. backup' = backup /\ saving' = None /\ backup = g_cal_nv_data
        BY <2>5, <3>2 DEF Cal!WritePage
      <4>2. CASE main \in {Blank, g_cal_nv_data}
        <5>1. main' = g_cal_nv_data
          BY <2>5, <3>2, <4>2 DEF Cal!WritePage, Cal!Program
        <5> QED
          BY <3>0, <4>1, <4>2, <5>1 DEF Cal!DR!Next, Cal!DR!Complete
      <4>3. CASE main \notin {Blank, g_cal_nv_data}
        <5>1. main' = Torn
          BY <2>5, <3>2, <4>3 DEF Cal!WritePage, Cal!Program
        <5> QED
          BY <3>0, <4>1, <5>1 DEF Cal!DR!Next, Cal!DR!Abandon
      <4> QED
        BY <4>2, <4>3
    <3> QED
      BY <2>5, <3>1, <3>2 DEF Cal!WritePage
  <2>6. CASE Cal!CheckBackup
    BY <2>6 DEF Cal!CheckBackup, Cal!TypeOK, Cal!DR!Next, Cal!DR!Abandon
  <2>7. CASE Cal!CheckMain
    BY <2>7 DEF Cal!CheckMain
  <2>8. CASE Cal!Fault
    <3>0. saving = g_cal_nv_data /\ g_cal_nv_data \in Cal!Record
      BY <2>8 DEF Cal!Fault, Cal!TypeOK
    <3>1. CASE calStep \in {"eraseB", "writeB"}
      <4>1. main' = main /\ saving' = saving /\ backup' \in {backup, Torn}
        BY <2>8, <3>1 DEF Cal!Fault, Cal!Partial
      <4>2. CASE main \in Cal!Record \/ backup' = backup
        BY <4>1, <4>2
      <4>3. CASE main \notin Cal!Record /\ backup' = Torn
        BY <3>0, <4>1, <4>3 DEF Cal!DR!Next, Cal!DR!Expose
      <4> QED
        BY <4>1, <4>2, <4>3
    <3>2. CASE calStep = "eraseM"
      <4>1. /\ backup' = backup /\ saving' = saving /\ main' \in {main, Torn}
            /\ backup = g_cal_nv_data
        BY <2>8, <3>2 DEF Cal!Fault, Cal!Partial
      <4>2. CASE main' = main
        BY <4>1, <4>2
      <4>3. CASE main' = Torn
        BY <3>0, <4>1, <4>3 DEF Cal!DR!Next, Cal!DR!Commit
      <4> QED
        BY <4>1, <4>2, <4>3
    <3>3. CASE calStep = "writeM"
      <4>1. /\ backup' = backup /\ saving' = None /\ main' \in {main, Torn}
            /\ backup = g_cal_nv_data
        BY <2>8, <3>3 DEF Cal!Fault, Cal!Partial
      <4> QED
        BY <3>0, <4>1 DEF Cal!DR!Next, Cal!DR!Abandon
    <3> QED
      BY <2>8, <3>1, <3>2, <3>3 DEF Cal!Fault
  <2>9. CASE Cal!PowerCut
    <3>0. saving' = None /\ Cal!Partial
      BY <2>9 DEF Cal!PowerCut
    <3>1. CASE ~Cal!Saving
      BY <3>0, <3>1 DEF Cal!Partial
    <3>2. CASE Cal!Saving
      <4>1. saving = g_cal_nv_data /\ g_cal_nv_data \in Cal!Record
        BY <3>2 DEF Cal!TypeOK
      <4>2. CASE main' = main /\ backup' = backup
        BY <3>0, <4>1, <4>2 DEF Cal!DR!Next, Cal!DR!Abandon
      <4>3. CASE main' = main /\ backup' = Torn
        BY <3>0, <4>1, <4>3 DEF Cal!DR!Next, Cal!DR!Abandon
      <4>4. CASE /\ main' = Torn /\ backup' = backup
                 /\ calStep \in {"eraseM", "writeM"}
        BY <3>0, <4>1, <4>4 DEF Cal!DR!Next, Cal!DR!Abandon
      <4> QED
        BY <3>0, <4>2, <4>3, <4>4 DEF Cal!Partial
    <3> QED
      BY <3>1, <3>2
  <2>10. CASE UNCHANGED calVars
    BY <2>10 DEF calVars
  <2> QED
    BY <2>2, <2>3, <2>4, <2>5, <2>6, <2>7, <2>8, <2>9, <2>10 DEF Cal!Next
<1>3. CalInv /\ [Cal!Next]_calVars => CalInv'
  BY CalNextInv
<1> QED
  BY <1>1, <1>2, <1>3, CalInitInv, PTL
  DEF Cal!Spec, Cal!vars, calVars, Cal!ImplementsDurableRecord,
      Cal!DR!Spec, Cal!DR!drvars
-----------------------------------------------------------------------------
(* A behaviour of the two stores is one of each.                           *)
LEMMA BothStores == MCSpec => Spec /\ Cal!Spec
<1>1. MCInit => Init /\ Cal!Init
  BY DEF MCInit
<1>2. [SettingsNext \/ CalibrationNext]_mcVars
        => [Next]_bsvars /\ [Cal!Next]_calVars
  BY DEF SettingsNext, CalibrationNext, mcVars
<1> QED
  BY <1>1, <1>2, PTL DEF MCSpec, Spec, Cal!Spec, Cal!vars, calVars

(* Both stores are of their types whatever fails.                          *)
THEOREM StoreTypes == MCSpec => []TypesOK
<1>1. TypeOK /\ Cal!TypeOK => TypesOK
  BY DEF TypesOK
<1> QED
  BY <1>1, BothStores, TypeCorrect, CalTypes, PTL

(* "Returns EN_CAL_OK if the calibration data is successfully updated":    *)
(* with one failing operation of the driver at most, whose status          *)
(* ftm_cal_nvm_storage_update does not see, and any number of power cuts.  *)
THEOREM OkMeansSavedAlways == ASSUME MaxFaults <= 1
                              PROVE  MCSpec => []OkMeansSaved
BY BothStores, CalOkMeansSaved, PTL DEF OkMeansSaved

(* A power cut at any point of ftm_cal_nvm_storage_update, with one        *)
(* failing operation at most, leaves the old record or the new one, unless *)
(* the main page was already invalid when the save began.                  *)
THEOREM CalKeepsItsRecord == ASSUME MaxFaults <= 1
                             PROVE  MCSpec => CalImplementsDurableRecord
BY BothStores, CalRefinement, PTL DEF CalImplementsDurableRecord
=============================================================================
