----------------------------- MODULE Dfu_proofs -----------------------------
(***************************************************************************)
(* Proofs about Dfu, for any number of images, any bank and sector sizes,  *)
(* any number of power cuts and flash faults, and every host lapse; and,   *)
(* for the orderly host of MCUpdate and a supply that fails once at most,  *)
(* that an update is atomic.                                               *)
(***************************************************************************)
EXTENDS MCUpdate, TLAPS

(* The values that the actions build from the constants are of their       *)
(* types.                                                                  *)
LEMMA ConstantTypes ==
    /\ BankCells \in Nat /\ AppBank \in Nat /\ BackupBank \in Nat
    /\ Default \in Setting
    /\ \A v \in Image : Of(v, TRUE) \in Bank /\ Of(v, FALSE) \in Bank
    /\ \A v \in Image : FwSize[v] \in 1..BankCells
    /\ \A v \in Image : Installed(v) \in Setting
  BY FlashAssumption
  DEF Default, NoBank, Setting, Bank, Of, Installed

(* The sectors that an erase visits are numbers, in the order of their     *)
(* banks.                                                                  *)
LEMMA SectorTypes ==
    ASSUME NEW b \in Nat, NEW c \in Nat
    PROVE  /\ FirstSector(b) \in Nat
           /\ LastSector(b, c) \in Nat
           /\ FirstSector(b) <= LastSector(b, c)
           /\ b <= c => FirstSector(b) <= FirstSector(c)
  BY FlashAssumption DEF FirstSector, LastSector

(* What a program leaves in a cell, and the cells of an image, are cells.  *)
LEMMA CellTypes ==
    /\ Erased \in Cell
    /\ \A old, new \in Cell : Program(old, new) \in Cell
    /\ \A i \in 0..(BankCells - 1) : BackupBank + i \in Cells
    /\ \A v \in Image : \A i \in 0..(BankCells - 1) : <<v, i>> \in Cell
  BY FlashAssumption DEF Cell, Cells, Program

(* Erasing a sector, programming a cell or disturbing cells leaves a       *)
(* flash.                                                                  *)
LEMMA FlashTypes ==
    ASSUME NEW fl \in [Cells -> Cell]
    PROVE  /\ \A s \in Nat : EraseSector(fl, s) \in [Cells -> Cell]
           /\ \A c : \A new \in Cell :
                 ProgramCell(fl, c, new) \in [Cells -> Cell]
           /\ \A cs \in SUBSET Cells :
                 Disturbed(fl, cs) \subseteq [Cells -> Cell]
<1>1. \A s \in Nat : EraseSector(fl, s) \in [Cells -> Cell]
  BY CellTypes DEF EraseSector
<1>2. ASSUME NEW c, NEW new \in Cell
      PROVE  ProgramCell(fl, c, new) \in [Cells -> Cell]
  BY CellTypes DEF ProgramCell
<1>3. ASSUME NEW cs \in SUBSET Cells
      PROVE  Disturbed(fl, cs) \subseteq [Cells -> Cell]
  BY DEF Disturbed
<1> QED
  BY <1>1, <1>2, <1>3

(* The settings keep their type, as in BootSetting_proofs.                 *)
LEMMA SettingsStep ==
    ASSUME BS!TypeOK,
           \/ \E s \in Setting : BS!BeginWrite(s)
           \/ BS!ReadDefault
           \/ BS!WriteStep
           \/ BS!PowerCut
    PROVE  BS!TypeOK'
<1> USE DfuAssumption, ConstantTypes DEF BS!TypeOK, BS!Copy
<1>1. ASSUME NEW s \in Setting, BS!BeginWrite(s) PROVE BS!TypeOK'
  BY <1>1 DEF BS!BeginWrite
<1>2. CASE BS!ReadDefault
  BY <1>2 DEF BS!ReadDefault, BS!BeginWrite
<1>3. CASE BS!EraseB \/ BS!EraseA
  BY <1>3 DEF BS!EraseB, BS!EraseA
<1>4. CASE BS!WriteB \/ BS!WriteA
  BY <1>4 DEF BS!WriteB, BS!WriteA, BS!Program
<1>5. CASE BS!Fault
  <2>1. copyA' \in BS!Copy /\ copyB' \in BS!Copy
    BY <1>5 DEF BS!Fault, BS!Partial
  <2>2. faults' \in 0..MaxFaults /\ cuts' \in 0..MaxCuts
    BY <1>5 DEF BS!Fault
  <2>3. /\ step' \in {"idle", "eraseB", "writeB", "eraseA", "writeA"}
        /\ p_info' \in Setting \cup {None}
        /\ (step' = "idle") <=> (p_info' = None)
    BY <1>5 DEF BS!Fault
  <2> QED
    BY <2>1, <2>2, <2>3
<1>6. CASE BS!PowerCut
  <2>1. copyA' \in BS!Copy /\ copyB' \in BS!Copy
    BY <1>6 DEF BS!PowerCut, BS!Partial
  <2>2. faults' \in 0..MaxFaults /\ cuts' \in 0..MaxCuts
    BY <1>6 DEF BS!PowerCut
  <2> QED
    BY <1>6, <2>1, <2>2 DEF BS!PowerCut
<1> QED
  BY <1>1, <1>2, <1>3, <1>4, <1>5, <1>6 DEF BS!WriteStep

(* What dfu_bootsetting_read returns is a record of settings.              *)
LEMMA StoredType == BS!TypeOK => Stored \in Setting
  BY ConstantTypes DEF Stored, BS!Stored, BS!Valid, BS!TypeOK, BS!Copy

(* A step that leaves the two sectors alone keeps the type of the          *)
(* settings.                                                               *)
LEMMA SettingsStutter ==
    BS!TypeOK /\ UNCHANGED <<settings, cuts, faults>> => BS!TypeOK'
  BY DEF BS!TypeOK, BS!Copy, settings
-----------------------------------------------------------------------------
(* What the locals and globals are set to where the code relies on it.     *)
Shape == /\ pc \in CopyPcs \cup {"copySave", "update"} => info \in Setting
         /\ pc = "copyWrite" => at <= info.backup.size
         /\ pc \in {"packErase", "packWrite"} => offset < BankCells

IInv == TypeOK /\ Shape

(* An operation in progress touches cells of the flash only.               *)
LEMMA TouchedType == IInv => Touched \subseteq Cells
  BY FlashAssumption
  DEF IInv, TypeOK, Shape, Touched, CopyPcs, Cells, Sector, Setting, Bank

(* The inductive invariant holds at power-on.                              *)
LEMMA InitIInv == Init => IInv
<1> SUFFICES ASSUME Init PROVE IInv
  OBVIOUS
<1>1. flash \in [Cells -> Cell]
  <2>1. CASE flash = [c \in Cells |-> Erased]
    BY <2>1, CellTypes
  <2>2. ASSUME NEW v \in Image,
               flash = [c \in Cells |->
                  IF c \in AppBank..(AppBank + FwSize[v] - 1)
                    THEN <<v, c - AppBank>>
                  ELSE IF c \in BackupBank..(BackupBank + FwSize[v] - 1)
                    THEN <<v, c - BackupBank>>
                  ELSE Erased]
        PROVE  flash \in [Cells -> Cell]
    <3>1. ASSUME NEW c \in AppBank..(AppBank + FwSize[v] - 1)
          PROVE  <<v, c - AppBank>> \in Cell
      <4>1. c - AppBank \in 0..(BankCells - 1)
        BY ConstantTypes
      <4> QED
        BY <4>1, CellTypes
    <3>2. ASSUME NEW c \in BackupBank..(BackupBank + FwSize[v] - 1)
          PROVE  <<v, c - BackupBank>> \in Cell
      <4>1. c - BackupBank \in 0..(BankCells - 1)
        BY ConstantTypes
      <4> QED
        BY <4>1, CellTypes
    <3> QED
      BY <2>2, <3>1, <3>2, CellTypes
  <2> QED
    BY <2>1, <2>2 DEF Init
<1>2. BS!TypeOK
  BY ConstantTypes, DfuAssumption DEF Init, BS!TypeOK, BS!Copy
<1> QED
  <2>1. active \in BOOLEAN
    BY DEF Init
  <2>2. 0 \in 0..BankCells
    BY ConstantTypes
  <2> QED
    BY <1>1, <1>2, <2>1, <2>2
    DEF Init, IInv, TypeOK, Shape, CopyPcs

(* Every step preserves it: one step of the proof per action.              *)
LEMMA NextIInv == IInv /\ [Next]_vars => IInv'
<1> SUFFICES ASSUME IInv, [Next]_vars PROVE IInv'
  OBVIOUS
<1> USE DEF IInv, TypeOK, Shape, CopyPcs, SavePcs
<1>a. BankCells \in Nat /\ FirstSector(AppBank) \in Nat
      /\ FirstSector(BackupBank) \in Nat
  BY ConstantTypes, SectorTypes
<1>b. Stored \in Setting
  BY StoredType
<1>c. UNCHANGED <<settings, cuts, faults>> => BS!TypeOK'
  BY SettingsStutter
<1>d. ASSUME NEW v PROVE ~(v \in Loads(flash)) \/ v \in Image \cup {None}
  BY DEF Loads
<1>e. ASSUME ClearVolatile
      PROVE  /\ info' = None /\ copy_repeat' \in 0..2 /\ at' \in Nat
             /\ active' \in BOOLEAN /\ offset' \in 0..BankCells
             /\ pend' \in Cell \cup {None}
  <2>1. active' \in BOOLEAN
    BY <1>e DEF ClearVolatile
  <2> QED
    BY <1>a, <1>e, <2>1 DEF ClearVolatile
<1>1. CASE Restart /\ ram' \in Image \cup {None}
  BY <1>1, <1>c, <1>e DEF Restart
<1>2. CASE PowerOn \/ Reset \/ CopyReload
  BY <1>1, <1>2, <1>d DEF PowerOn, Reset, CopyReload
<1>3. CASE Enter
  BY <1>3, <1>c, <1>e DEF Enter
<1>4. CASE StartDefaults
  BY <1>4, SettingsStep DEF StartDefaults, volatile
<1>5. CASE StartMove
  BY <1>5, <1>a, <1>b, <1>c DEF StartMove
<1>6. CASE StayInBoot
  BY <1>6, <1>c DEF StayInBoot, volatile
<1>7. CASE CopyErase
  <2>1. flash' \in [Cells -> Cell]
    BY <1>7, FlashTypes DEF CopyErase
  <2>2. info.backup.size \in Nat
    BY <1>7, <1>a DEF CopyErase, Setting, Bank
  <2> QED
    BY <1>7, <1>c, <2>1, <2>2 DEF CopyErase
<1>8. CASE CopyWrite
  <2>1. info.backup.size \in 0..BankCells
    BY <1>8 DEF CopyWrite, Setting, Bank
  <2>2. flash[BackupBank + at] \in Cell
    BY <1>8, <1>a, <2>1, CellTypes DEF CopyWrite
  <2>3. flash' \in [Cells -> Cell]
    BY <1>8, <2>2, FlashTypes DEF CopyWrite
  <2> QED
    BY <1>8, <1>a, <1>c, <2>1, <2>3 DEF CopyWrite
<1>9. CASE CopyAccept
  <2>1. [info EXCEPT !.app = info.backup, !.backup.active = FALSE,
                     !.boot_mode = FALSE] \in Setting
    BY <1>9 DEF CopyAccept, CopyDone, Setting, Bank
  <2>2. BS!TypeOK'
    BY <1>9, <2>1, SettingsStep DEF CopyAccept
  <2> QED
    BY <1>9, <2>2 DEF CopyAccept, CopyDone, volatile
<1>10. CASE CopyAgain
  BY <1>10, <1>a, <1>c DEF CopyAgain, CopyDone
<1>11. CASE CopyGiveUp
  BY <1>11, <1>c DEF CopyGiveUp, CopyDone
<1>12. CASE Save
  BY <1>12, SettingsStep DEF Save, volatile
<1>13. CASE DefaultsSaved
  <2>1. BS!TypeOK'
    BY <1>13, <1>c, SettingsStep DEF DefaultsSaved
  <2> QED
    BY <1>13, <2>1 DEF DefaultsSaved, volatile
<1>14. CASE UpdateSaved
  BY <1>14, <1>c DEF UpdateSaved
<1>15. ASSUME NEW s \in Setting, Update(s),
              UNCHANGED <<flash, ram, run, copy_repeat, at, active, offset,
                          pend>>
       PROVE  IInv'
  <2>1. BS!TypeOK'
    BY <1>15, SettingsStep DEF Update
  <2> QED
    BY <1>15, <2>1 DEF Update
<1>16. CASE SoftwareEnterBootmode
  <2>1. [Stored EXCEPT !.boot_mode = FALSE] \in Setting
    BY <1>b DEF Setting
  <2> QED
    BY <1>15, <1>16, <2>1 DEF SoftwareEnterBootmode
<1>17. ASSUME NEW v \in Image, Start(FwVersion[v]) PROVE IInv'
  BY <1>17, <1>a, <1>c DEF Start
<1>18. ASSUME NEW off \in 0..(BankCells - 1),
              NEW data \in {<<v, off>> : v \in {w \in Image : off < FwSize[w]}}
                              \cup {None},
              Pack(off, data)
       PROVE  IInv'
  <2>1. data \in Cell \cup {None}
    BY CellTypes
  <2> QED
    BY <1>18, <1>a, <1>c, <2>1 DEF Pack
<1>19. CASE PackErase
  <2>1. flash' \in [Cells -> Cell]
    BY <1>19, FlashTypes DEF PackErase
  <2> QED
    BY <1>19, <1>c, <2>1 DEF PackErase
<1>20. CASE PackWrite
  <2>1. flash' \in [Cells -> Cell]
    BY <1>20, FlashTypes DEF PackWrite
  <2> QED
    BY <1>20, <1>a, <1>c, <2>1 DEF PackWrite
<1>21. ASSUME NEW crc \in Image \cup {NoCrc}, Verify(crc) PROVE IInv'
  <2>1. [Stored EXCEPT !.boot_mode = FALSE,
            !.backup = [size |-> offset, crc |-> crc, active |-> TRUE]]
          \in Setting
    BY <1>b DEF Setting, Bank
  <2> QED
    BY <1>15, <1>21, <2>1 DEF Verify
<1>22. CASE Finish
  BY <1>22, <1>c DEF Finish
<1>23. CASE PowerCut
  <2>1. BS!TypeOK'
    BY <1>23, SettingsStep DEF PowerCut
  <2>2. flash' \in [Cells -> Cell]
    BY <1>23, TouchedType, FlashTypes DEF PowerCut
  <2> QED
    BY <1>23, <1>e, <2>1, <2>2 DEF PowerCut
<1>24. CASE BankFault
  <2>1. BS!TypeOK'
    BY <1>24, DfuAssumption DEF BankFault, BS!TypeOK, BS!Copy, settings
  <2>2. flash' \in [Cells -> Cell]
    BY <1>24, TouchedType, FlashTypes DEF BankFault
  <2>3. pc \in {"copyErase", "packErase", "copyWrite", "packWrite"}
    BY <1>24 DEF BankFault, Touched
  <2>4. pc = "copyWrite" => at < info.backup.size
    BY <1>24 DEF BankFault, Touched
  <2>5. pc \in CopyPcs => info.backup.size \in 0..BankCells
    BY DEF Setting, Bank
  <2>6. CASE pc = "copyErase"
    <3>1. /\ pc' = "copyWrite" /\ at' = 0
          /\ UNCHANGED <<ram, run, info, copy_repeat, active, offset, pend>>
      BY <1>24, <2>6 DEF BankFault
    <3> QED
      BY <2>1, <2>2, <2>5, <2>6, <3>1
  <2>9. CASE pc = "copyWrite"
    <3>1. /\ at' = at + 1
          /\ UNCHANGED <<ram, run, pc, info, copy_repeat, active, offset, pend>>
      BY <1>24, <2>9 DEF BankFault
    <3> QED
      BY <2>1, <2>2, <2>4, <2>5, <2>9, <3>1
  <2>7. CASE pc = "packErase"
    BY <1>24, <2>1, <2>2, <2>7 DEF BankFault
  <2>8. CASE pc = "packWrite"
    BY <1>24, <1>a, <2>1, <2>2, <2>8 DEF BankFault
  <2> QED
    BY <2>3, <2>6, <2>7, <2>8, <2>9
<1>25. CASE UNCHANGED vars
  BY <1>25, <1>c DEF vars, volatile
<1> QED
  BY <1>2, <1>3, <1>4, <1>5, <1>6, <1>7, <1>8, <1>9, <1>10, <1>11, <1>12,
     <1>13, <1>14, <1>16, <1>17, <1>18, <1>19, <1>20, <1>21, <1>22, <1>23,
     <1>24, <1>25
  DEF Next, Device, Startup, Move, Host, StartApp, Jump

(* So it holds in every reachable state.                                   *)
LEMMA IInvInvariant == Spec => []IInv
  BY InitIInv, NextIInv, PTL DEF Spec

(* Type correctness of the whole update, settings included.                *)
THEOREM TypeCorrect == Spec => []TypeOK
<1>1. IInv => TypeOK
  BY DEF IInv
<1> QED
  BY <1>1, IInvInvariant, PTL
-----------------------------------------------------------------------------
(* Copying an image erases no sector of the backup bank: what the addresses *)
(* of dfu_handler.c guarantee for images of up to 0x38FFF bytes.           *)
ImagesFit == \A v \in Image :
                /\ LastSector(AppBank, FwSize[v]) < FirstSector(BackupBank)
                /\ AppBank + FwSize[v] <= BackupBank

(* The copy never leaves the application bank's sectors.                   *)
CopyInv == /\ CopyNeedsGoodBackup
           /\ pc = "copyErase" => at <= LastSector(AppBank, info.backup.size)

(* A flash that is the same from the backup bank on has the same backup.   *)
LEMMA BackupSpared ==
    ASSUME NEW fl, NEW fl2, NEW size, NEW crc,
           \A c \in Cells : c >= BackupBank => fl2[c] = fl[c],
           CrcMatches(fl, BackupBank, size, crc)
    PROVE  CrcMatches(fl2, BackupBank, size, crc)
<1>1. CASE size = 0 /\ crc = NoCrc
  BY <1>1 DEF CrcMatches
<1>2. CASE crc \in Image /\ size = FwSize[crc] /\ Holds(fl, BackupBank, crc)
  <2>1. ASSUME NEW i \in 0..(FwSize[crc] - 1)
        PROVE  fl2[BackupBank + i] = <<crc, i>>
    <3>1. BackupBank + i \in Cells /\ BackupBank + i >= BackupBank
      BY <1>2, ConstantTypes DEF Cells
    <3> QED
      BY <1>2, <3>1 DEF Holds
  <2> QED
    BY <1>2, <2>1 DEF CrcMatches, Holds
<1> QED
  BY <1>1, <1>2 DEF CrcMatches

(* Neither erasing nor programming by boot_copy_firmware reaches it.       *)
LEMMA CopySparesBackup ==
    ASSUME ImagesFit, IInv, CopyInv
    PROVE  /\ pc = "copyErase" => CrcMatches(EraseSector(flash, at),
                 BackupBank, info.backup.size, info.backup.crc)
           /\ pc \in CopyPcs => \A fl2 \in Disturbed(flash, Touched) :
                 CrcMatches(fl2, BackupBank, info.backup.size, info.backup.crc)
           /\ pc = "copyWrite" /\ at < info.backup.size => \A new :
                 CrcMatches(ProgramCell(flash, AppBank + at, new),
                            BackupBank, info.backup.size, info.backup.crc)
<1> DEFINE size == info.backup.size
           crc == info.backup.crc
<1> SUFFICES ASSUME pc \in CopyPcs,
                    CrcMatches(flash, BackupBank, size, crc)
             PROVE  /\ pc = "copyErase" =>
                          CrcMatches(EraseSector(flash, at), BackupBank,
                                     size, crc)
                    /\ \A fl2 \in Disturbed(flash, Touched) :
                          CrcMatches(fl2, BackupBank, size, crc)
                    /\ pc = "copyWrite" /\ at < size => \A new :
                          CrcMatches(ProgramCell(flash, AppBank + at, new),
                                     BackupBank, size, crc)
  BY DEF CopyInv, CopyNeedsGoodBackup, CopyPcs
<1>1. CASE size = 0 /\ crc = NoCrc
  BY <1>1 DEF CrcMatches
<1>2. CASE crc \in Image /\ size = FwSize[crc]
  <2>0. flash \in [Cells -> Cell] /\ at \in Nat
    BY DEF IInv, TypeOK
  <2>1. ASSUME NEW c \in Cells, c >= BackupBank, pc = "copyErase"
        PROVE  c \notin Sector(at)
    <3>1. FirstSector(BackupBank) <= FirstSector(c)
      BY <2>1, SectorTypes, FlashAssumption DEF Cells
    <3>2. LastSector(AppBank, size) < FirstSector(BackupBank)
      BY <1>2 DEF ImagesFit
    <3>3. at <= LastSector(AppBank, size)
      BY <2>1 DEF CopyInv
    <3>4. /\ LastSector(AppBank, size) \in Nat
          /\ FirstSector(BackupBank) \in Nat
          /\ FirstSector(c) \in Nat
      <4>1. size \in Nat /\ c \in Nat
        BY <1>2, ConstantTypes DEF Cells
      <4> QED
        BY <4>1, ConstantTypes, SectorTypes
    <3>5. at < FirstSector(c)
      BY <2>0, <3>1, <3>2, <3>3, <3>4
    <3> QED
      BY <2>0, <3>4, <3>5 DEF Sector, FirstSector
  <2>2. at < size => AppBank + at < BackupBank
    BY <1>2, <2>0, ConstantTypes DEF ImagesFit
  <2>3. ASSUME pc = "copyErase"
        PROVE  CrcMatches(EraseSector(flash, at), BackupBank, size, crc)
    <3>1. \A c \in Cells : c >= BackupBank
             => EraseSector(flash, at)[c] = flash[c]
      BY <2>1, <2>3 DEF EraseSector
    <3> QED
      BY <3>1, BackupSpared
  <2>4. ASSUME NEW c \in Cells, c >= BackupBank PROVE c \notin Touched
    <3>1. CASE pc = "copyErase"
      BY <2>1, <2>4, <3>1 DEF Touched
    <3>2. CASE pc = "copyWrite"
      <4>1. c \in Nat /\ BackupBank \in Nat /\ AppBank + at \in Nat
        BY <2>0, ConstantTypes DEF Cells
      <4> QED
        BY <2>2, <2>4, <3>2, <4>1 DEF Touched
    <3> QED
      BY <3>1, <3>2 DEF CopyPcs
  <2>5. ASSUME NEW fl2 \in Disturbed(flash, Touched)
        PROVE  CrcMatches(fl2, BackupBank, size, crc)
    <3>1. \A c \in Cells : c >= BackupBank => fl2[c] = flash[c]
      BY <2>4, <2>5 DEF Disturbed
    <3> QED
      BY <3>1, BackupSpared
  <2>6. ASSUME NEW new, at < size
        PROVE  CrcMatches(ProgramCell(flash, AppBank + at, new),
                          BackupBank, size, crc)
    <3>1. \A c \in Cells : c >= BackupBank
             => ProgramCell(flash, AppBank + at, new)[c] = flash[c]
      BY <2>0, <2>2, <2>6, ConstantTypes DEF ProgramCell, Cells
    <3> QED
      BY <3>1, BackupSpared
  <2> QED
    BY <2>3, <2>5, <2>6
<1> QED
  BY <1>1, <1>2 DEF CrcMatches

(* No copy is in progress at power-on.                                     *)
LEMMA InitCopyInv == Init => CopyInv
  BY DEF Init, CopyInv, CopyNeedsGoodBackup, CopyPcs

(* Every step keeps the backup good while the copy needs it.               *)
LEMMA NextCopyInv == ASSUME ImagesFit
                     PROVE  IInv /\ CopyInv /\ [Next]_vars => CopyInv'
<1> SUFFICES ASSUME IInv, CopyInv, [Next]_vars PROVE CopyInv'
  OBVIOUS
<1> USE DEF CopyInv, CopyNeedsGoodBackup, CopyPcs
<1>1. ASSUME pc' \notin CopyPcs \cup {"copySave"} PROVE CopyInv'
  BY <1>1
<1>2. CASE StartMove
  <2>1. BackupIntact(Stored) /\ info' = Stored /\ flash' = flash
    BY <1>2 DEF StartMove, TakesBackup
  <2>2. /\ FirstSector(AppBank)
             <= LastSector(AppBank, Stored.backup.size)
    BY StoredType, ConstantTypes, SectorTypes
    DEF IInv, TypeOK, Setting, Bank
  <2> QED
    BY <1>2, <2>1, <2>2 DEF StartMove, BackupIntact
<1>3. CASE CopyErase
  <2>1. CrcMatches(flash', BackupBank, info.backup.size, info.backup.crc)
    BY <1>3, CopySparesBackup DEF CopyErase
  <2>2. at # LastSector(AppBank, info.backup.size)
          => at + 1 <= LastSector(AppBank, info.backup.size)
    <3>1. info.backup.size \in Nat
      BY <1>3, ConstantTypes DEF CopyErase, IInv, Shape, Setting, Bank
    <3>2. LastSector(AppBank, info.backup.size) \in Nat /\ at \in Nat
      BY <3>1, ConstantTypes, SectorTypes DEF IInv, TypeOK
    <3>3. at <= LastSector(AppBank, info.backup.size)
      BY <1>3 DEF CopyErase
    <3> QED
      BY <3>2, <3>3
  <2> QED
    BY <1>3, <2>1, <2>2 DEF CopyErase
<1>4. CASE CopyWrite
  <2>1. CrcMatches(flash', BackupBank, info.backup.size, info.backup.crc)
    BY <1>4, CopySparesBackup DEF CopyWrite
  <2> QED
    BY <1>4, <2>1 DEF CopyWrite
<1>5. CASE CopyAccept
  BY <1>5 DEF CopyAccept, CopyDone, volatile
<1>6. CASE CopyAgain
  <2>1. info.backup.size \in Nat
    BY <1>6, ConstantTypes DEF CopyAgain, CopyDone, IInv, Shape, Setting, Bank
  <2>2. FirstSector(AppBank) <= LastSector(AppBank, info.backup.size)
    BY <2>1, ConstantTypes, SectorTypes
  <2> QED
    BY <1>6, <2>2 DEF CopyAgain, CopyDone
<1>7. CASE Save
  BY <1>7 DEF Save, SavePcs, volatile
<1>8. CASE BankFault
  <2>1. CASE pc \in CopyPcs
    <3>1. CrcMatches(flash', BackupBank, info.backup.size, info.backup.crc)
      BY <1>8, <2>1, CopySparesBackup DEF BankFault
    <3>2. pc' # "copyErase" /\ info' = info
      BY <1>8, <2>1 DEF BankFault
    <3> QED
      BY <2>1, <3>1, <3>2
  <2>2. CASE pc \in {"packErase", "packWrite"}
    BY <1>1, <1>8, <2>2 DEF BankFault
  <2> QED
    BY <1>8, <2>1, <2>2 DEF BankFault, Touched
<1>9. CASE UNCHANGED vars
  BY <1>9 DEF vars, volatile
<1>10. CASE PowerOn \/ Reset \/ CopyReload
  BY <1>10 DEF PowerOn, Reset, CopyReload, Restart
<1>11. CASE StartApp \/ Jump
  BY <1>11 DEF StartApp, Jump, Enter
<1>12. CASE StartDefaults \/ StayInBoot \/ CopyGiveUp
  BY <1>12 DEF StartDefaults, StayInBoot, CopyGiveUp
<1>13. CASE DefaultsSaved \/ UpdateSaved
  BY <1>13 DEF DefaultsSaved, UpdateSaved
<1>14. CASE PackErase \/ PackWrite
  BY <1>14 DEF PackErase, PackWrite
<1>15. CASE Host
  BY <1>10, <1>11, <1>15
  DEF Host, SoftwareEnterBootmode, Update, Start, Pack, Verify, Finish
<1>16. CASE PowerCut
  BY <1>16 DEF PowerCut
<1> QED
  BY <1>2, <1>3, <1>4, <1>5, <1>6, <1>7, <1>8, <1>9, <1>10, <1>11, <1>12,
     <1>13, <1>14, <1>15, <1>16
  DEF Next, Device, Startup, Move

(* So the copy has a good backup in every reachable state.                 *)
LEMMA CopyInvInvariant == ASSUME ImagesFit PROVE Spec => []CopyInv
  BY InitCopyInv, NextCopyInv, IInvInvariant, PTL DEF Spec

(* While boot_copy_firmware erases and reprograms the application bank,    *)
(* and until the settings that say so are saved, the backup bank holds the *)
(* image, whatever fails and whenever the supply does.                     *)
THEOREM CopyIsSafe == ASSUME ImagesFit PROVE Spec => []CopyNeedsGoodBackup
<1>1. CopyInv => CopyNeedsGoodBackup
  BY DEF CopyInv
<1> QED
  BY <1>1, CopyInvInvariant, PTL
-----------------------------------------------------------------------------
CopyingPcs == CopyPcs \cup {"copySave"}

(* An intact image in the application bank is the one in RAM, except that  *)
(* boot_move_backup_to_app puts one there that will be loaded later.       *)
RamInv == /\ pc = "startup" => run = "boot"
          /\ pc # "off" =>
               \A v \in Image :
                  Holds(flash, AppBank, v)
                    => ram = v \/ (pc \in CopyingPcs /\ v = info.backup.crc)

(* Loading finds the image that the bank holds: it holds one at most.      *)
LEMMA LoadsHeld ==
    ASSUME NEW fl, NEW r \in Loads(fl), NEW v \in Image,
           Holds(fl, AppBank, v)
    PROVE  r = v
<1>1. r \in Image /\ Holds(fl, AppBank, r)
  BY DEF Loads
<1>2. 0 \in 0..(FwSize[r] - 1) /\ 0 \in 0..(FwSize[v] - 1)
  BY <1>1, ConstantTypes
<1>3. fl[AppBank + 0] = <<r, 0>> /\ fl[AppBank + 0] = <<v, 0>>
  BY <1>1, <1>2 DEF Holds
<1> QED
  BY <1>3

(* An operation cut short, or an erasure, completes no image.              *)
LEMMA HeldBefore ==
    ASSUME NEW fl, NEW fl2, NEW v \in Image,
           \A c \in Cells : fl2[c] \in {fl[c], Erased, Garbage},
           Holds(fl2, AppBank, v)
    PROVE  Holds(fl, AppBank, v)
<1>1. ASSUME NEW i \in 0..(FwSize[v] - 1)
      PROVE  fl[AppBank + i] = <<v, i>>
  <2>1. AppBank + i \in Cells
    BY ConstantTypes, FlashAssumption DEF Cells
  <2>2. <<v, i>> \in Image \X Nat
    BY ConstantTypes
  <2>3. <<v, i>> # Erased /\ <<v, i>> # Garbage
    BY <2>2, FlashAssumption
  <2> QED
    BY <2>1, <2>3 DEF Holds
<1> QED
  BY <1>1 DEF Holds

(* Writing to the backup bank touches no image in the application bank.    *)
LEMMA AppSpared ==
    ASSUME ImagesFit, NEW fl, NEW k \in Nat, NEW new, NEW v \in Image,
           fl \in [Cells -> Cell],
           Holds(ProgramCell(fl, BackupBank + k, new), AppBank, v)
    PROVE  Holds(fl, AppBank, v)
<1>1. ASSUME NEW i \in 0..(FwSize[v] - 1)
      PROVE  fl[AppBank + i] = <<v, i>>
  <2>1. AppBank + i \in Cells /\ AppBank + i # BackupBank + k
    BY ConstantTypes, FlashAssumption DEF Cells, ImagesFit
  <2> QED
    BY <2>1 DEF Holds, ProgramCell
<1> QED
  BY <1>1 DEF Holds

(* Copying cell k of image w completes no other image.                     *)
LEMMA CopyCompletes ==
    ASSUME NEW fl \in [Cells -> Cell], NEW w \in Image, NEW k \in Nat,
           k < FwSize[w], NEW v \in Image,
           Holds(ProgramCell(fl, AppBank + k, <<w, k>>), AppBank, v)
    PROVE  v = w \/ Holds(fl, AppBank, v)
<1> DEFINE fl2 == ProgramCell(fl, AppBank + k, <<w, k>>)
<1>1. CASE k < FwSize[v]
  <2>1. k \in 0..(FwSize[v] - 1) /\ AppBank + k \in Cells
    BY <1>1, ConstantTypes, FlashAssumption DEF Cells
  <2>2. fl2[AppBank + k] = <<v, k>>
    BY <2>1 DEF Holds
  <2>3. fl2[AppBank + k] = Program(fl[AppBank + k], <<w, k>>)
    BY <2>1 DEF ProgramCell
  <2>4. <<w, k>> \in Image \X Nat /\ <<v, k>> \in Image \X Nat
    OBVIOUS
  <2>5. <<w, k>> # Erased /\ <<v, k>> # Garbage
    BY <2>4, FlashAssumption
  <2>6. Program(fl[AppBank + k], <<w, k>>) \in {<<w, k>>, Garbage}
    BY <2>5 DEF Program
  <2>7. <<v, k>> = <<w, k>>
    BY <2>2, <2>3, <2>5, <2>6
  <2> QED
    BY <2>7
<1>2. CASE ~(k < FwSize[v])
  <2>1. ASSUME NEW i \in 0..(FwSize[v] - 1)
        PROVE  fl[AppBank + i] = <<v, i>>
    <3>1. AppBank + i \in Cells /\ AppBank + i # AppBank + k
      BY <1>2, ConstantTypes, FlashAssumption DEF Cells
    <3> QED
      BY <3>1 DEF Holds, ProgramCell
  <2> QED
    BY <2>1 DEF Holds
<1> QED
  BY <1>1, <1>2

(* Every step keeps the image in RAM the one that the application bank     *)
(* holds.                                                                  *)
LEMMA NextRamInv ==
    ASSUME ImagesFit
    PROVE  IInv /\ CopyInv /\ RamInv /\ [Next]_vars => RamInv'
<1> SUFFICES ASSUME IInv, CopyInv, RamInv, [Next]_vars PROVE RamInv'
  OBVIOUS
<1> USE DEF RamInv, CopyingPcs, CopyPcs
<1>a. flash \in [Cells -> Cell] /\ at \in Nat /\ offset \in Nat
  BY ConstantTypes DEF IInv, TypeOK
<1>1. ASSUME ram' \in Loads(flash), flash' = flash, run' = "boot" PROVE RamInv'
  BY <1>1, LoadsHeld
<1>2. ASSUME UNCHANGED <<flash, ram>>, pc \notin CopyingPcs \cup {"off"},
             pc' = "startup" => run' = "boot"
      PROVE  RamInv'
  BY <1>2
<1>3. ASSUME \A c \in Cells : flash'[c] \in {flash[c], Erased, Garbage},
             ram' = ram, pc # "off", pc' # "startup",
             pc \in CopyingPcs => pc' \in CopyingPcs /\ info' = info
      PROVE  RamInv'
  <2>1. \A v \in Image : Holds(flash', AppBank, v) => Holds(flash, AppBank, v)
    BY <1>3, HeldBefore
  <2> QED
    BY <1>3, <2>1
<1>4. CASE PowerOn \/ CopyReload
  BY <1>1, <1>4 DEF PowerOn, CopyReload, Restart
<1>5. CASE Reset
  BY <1>1, <1>2, <1>5 DEF Reset, Restart
<1>6. CASE StartApp \/ Jump
  BY <1>2, <1>6 DEF StartApp, Jump, Enter
<1>7. CASE StartDefaults \/ StartMove \/ StayInBoot
  BY <1>2, <1>7 DEF StartDefaults, StartMove, StayInBoot
<1>8. CASE DefaultsSaved \/ UpdateSaved
  BY <1>2, <1>8 DEF DefaultsSaved, UpdateSaved
<1>9. CASE Save
  BY <1>9 DEF Save, SavePcs, volatile
<1>10. CASE Host
  BY <1>2, <1>5, <1>6, <1>10
  DEF Host, SoftwareEnterBootmode, Update, Start, Pack, Verify, Finish
<1>11. CASE CopyErase
  BY <1>3, <1>a, <1>11 DEF CopyErase, EraseSector
<1>12. CASE PackErase
  BY <1>3, <1>a, <1>12 DEF PackErase, EraseSector
<1>13. CASE CopyWrite
  <2>1. info.backup.crc \in Image /\ info.backup.size = FwSize[info.backup.crc]
        /\ Holds(flash, BackupBank, info.backup.crc)
    BY <1>a, <1>13 DEF CopyWrite, CopyInv, CopyNeedsGoodBackup, CrcMatches
  <2>2. flash[BackupBank + at] = <<info.backup.crc, at>>
    BY <1>a, <1>13, <2>1, ConstantTypes DEF CopyWrite, Holds
  <2>3. ASSUME NEW v \in Image, Holds(flash', AppBank, v)
        PROVE  v = info.backup.crc \/ Holds(flash, AppBank, v)
    BY <1>a, <1>13, <2>1, <2>2, <2>3, CopyCompletes DEF CopyWrite
  <2> QED
    BY <1>13, <2>3 DEF CopyWrite
<1>14. CASE CopyAccept
  BY <1>14 DEF CopyAccept, CopyDone, volatile
<1>15. CASE CopyAgain
  BY <1>15 DEF CopyAgain, CopyDone
<1>16. CASE CopyGiveUp
  <2>1. ASSUME NEW v \in Image, Holds(flash, AppBank, v)
        PROVE  v # info.backup.crc
    <3>1. CopyNeedsGoodBackup /\ info.backup.crc = v
             => info.backup.size = FwSize[v]
      BY <1>16, FlashAssumption
      DEF CopyGiveUp, CopyDone, CopyNeedsGoodBackup, CrcMatches
    <3> QED
      BY <1>16, <2>1, <3>1 DEF CopyGiveUp, Copied, CrcMatches, CopyInv
  <2> QED
    BY <1>16, <2>1 DEF CopyGiveUp, CopyDone
<1>17. CASE PackWrite
  <2>1. CASE flash' = flash
    BY <1>2, <1>17, <2>1 DEF PackWrite
  <2>2. CASE flash' = ProgramCell(flash, BackupBank + offset, pend)
    <3>1. \A v \in Image : Holds(flash', AppBank, v)
                             => Holds(flash, AppBank, v)
      BY <1>a, <2>2, AppSpared
    <3> QED
      BY <1>17, <3>1 DEF PackWrite
  <2> QED
    BY <1>17, <2>1, <2>2 DEF PackWrite
<1>18. CASE BankFault
  <2>1. \A c \in Cells : flash'[c] \in {flash[c], Erased, Garbage}
    BY <1>18 DEF BankFault, Disturbed
  <2>2. pc \in {"copyErase", "packErase", "copyWrite", "packWrite"}
    BY <1>18 DEF BankFault, Touched
  <2>3. pc' # "startup" /\ (pc \in CopyPcs => pc' \in CopyPcs)
    BY <1>18, <2>2 DEF BankFault
  <2> QED
    BY <1>3, <1>18, <2>1, <2>2, <2>3 DEF BankFault
<1>19. CASE PowerCut
  BY <1>19 DEF PowerCut
<1>20. CASE UNCHANGED vars
  BY <1>20 DEF vars, volatile
<1> QED
  BY <1>4, <1>6, <1>7, <1>8, <1>9, <1>10, <1>11, <1>12, <1>13, <1>14, <1>15,
     <1>16, <1>17, <1>18, <1>19, <1>20
  DEF Next, Device, Startup, Move

(* So RAM and the application bank agree in every reachable state.         *)
LEMMA RamInvInvariant == ASSUME ImagesFit PROVE Spec => []RamInv
<1>1. Init => RamInv
  BY DEF Init, RamInv
<1> QED
  BY <1>1, NextRamInv, IInvInvariant, CopyInvInvariant, PTL DEF Spec

(* dfu_boot_startup checks the application in flash and jumps to the one   *)
(* in RAM: they are the same, however often the supply or the flash fails. *)
THEOREM OnlyVerifiedRuns == ASSUME ImagesFit PROVE Spec => JumpOnlyVerified
<1>1. RamInv /\ [Next]_vars
        => [pc = "startup" /\ run' = "app" => ram = Stored.app.crc]_vars
  <2> SUFFICES ASSUME RamInv, Next, pc = "startup", run' = "app"
               PROVE  ram = Stored.app.crc
    BY DEF vars
  <2>1. StartApp
    BY DEF RamInv, Next, Device, PowerOn, Startup, StartDefaults, StartMove,
           StayInBoot, Move, CopyErase, CopyWrite, CopyAccept, CopyAgain,
           CopyGiveUp, CopyReload, CopyDone, Restart, Save, SavePcs,
           DefaultsSaved, UpdateSaved, PackErase, PackWrite, Host, Reset,
           Jump, SoftwareEnterBootmode, Start, Pack, Verify, Finish,
           PowerCut, BankFault
  <2>2. Stored.app.crc \in Image /\ Holds(flash, AppBank, Stored.app.crc)
    BY <2>1 DEF StartApp, TakesApp, AppIntact, CrcMatches
  <2> QED
    BY <2>2 DEF RamInv, CopyingPcs, CopyPcs
<1> QED
  BY <1>1, RamInvInvariant, PTL DEF Spec, JumpOnlyVerified
-----------------------------------------------------------------------------
(* An update is atomic for an orderly host.  Orderly is Dfu with other     *)
(* constants: its actions are those of Dfu that need neither a fault nor a *)
(* lapse.                                                                  *)
OrderlyHost ==
    \/ Reset
    \/ Jump /\ (run = "app" \/ ~Stored.backup.active)
    \/ /\ \E v \in Image : Start(FwVersion[v])
       /\ ~(Stored.backup.active /\ BackupIntact(Stored))
    \/ \E off \in 0..(BankCells - 1) :
          \E data \in {<<v, off>> : v \in {w \in Image : off < FwSize[w]}}
                     \cup {None} : Pack(off, data)
    \/ \E crc \in Image \cup {NoCrc} : Verify(crc) /\ offset # 0
    \/ Finish

(* The steps of a device with such a host whose flash does not fail.       *)
OrderlyStep == (Device \/ OrderlyHost \/ PowerCut) /\ faults' = faults

(* The operators of the two instances agree.                               *)
LEMMA OrderlyFlash ==
    /\ Orderly!settings = settings /\ Orderly!volatile = volatile
    /\ \A fl, s : Orderly!EraseSector(fl, s) = EraseSector(fl, s)
    /\ \A fl, c, new :
          Orderly!ProgramCell(fl, c, new) = ProgramCell(fl, c, new)
    /\ \A fl, cs : Orderly!Disturbed(fl, cs) = Disturbed(fl, cs)
    /\ \A fl : Orderly!Loads(fl) = Loads(fl)
    /\ \A b : Orderly!FirstSector(b) = FirstSector(b)
    /\ \A b, n : Orderly!LastSector(b, n) = LastSector(b, n)
    /\ \A fl, b, n, c :
          Orderly!CrcMatches(fl, b, n, c) <=> CrcMatches(fl, b, n, c)
    /\ Orderly!Touched = Touched
  BY DEF Orderly!settings, settings, Orderly!volatile, volatile,
     Orderly!EraseSector, EraseSector, Orderly!ProgramCell, ProgramCell,
     Orderly!Program, Program, Orderly!Disturbed, Disturbed, Orderly!Loads,
     Loads, Orderly!FirstSector, FirstSector, Orderly!LastSector, LastSector,
     Orderly!CrcMatches, CrcMatches, Orderly!Holds, Holds, Orderly!Sector,
     Sector, Orderly!Cells, Cells, Orderly!Cell, Cell, Orderly!Touched, Touched

(* So do the settings: no operation of a save is a failing one.            *)
LEMMA OrderlySettings ==
    /\ Orderly!Setting = Setting /\ Orderly!Default = Default
    /\ Orderly!BS!Stored = BS!Stored /\ Orderly!Stored = Stored
    /\ Orderly!BS!Readable <=> BS!Readable
    /\ \A s : Orderly!BS!BeginWrite(s) <=> BS!BeginWrite(s)
    /\ Orderly!BS!ReadDefault <=> BS!ReadDefault
    /\ Orderly!BS!PowerCut <=> BS!PowerCut
    /\ Orderly!BS!EraseB \/ Orderly!BS!WriteB \/ Orderly!BS!EraseA
          \/ Orderly!BS!WriteA => BS!WriteStep /\ faults' = faults
  BY DEF Orderly!Setting, Setting, Orderly!Default, Default, Orderly!NoBank,
     NoBank, Orderly!Bank, Bank, Orderly!Stored, Stored, Orderly!BS!Stored,
     BS!Stored, Orderly!BS!Valid, BS!Valid, Orderly!BS!Readable, BS!Readable,
     Orderly!BS!BeginWrite, BS!BeginWrite, Orderly!BS!ReadDefault,
     BS!ReadDefault, Orderly!BS!PowerCut, BS!PowerCut, Orderly!BS!Partial,
     BS!Partial, Orderly!BS!EraseB, BS!EraseB, Orderly!BS!WriteB, BS!WriteB,
     Orderly!BS!EraseA, BS!EraseA, Orderly!BS!WriteA, BS!WriteA,
     Orderly!BS!Program, BS!Program, BS!WriteStep

(* And the boot loader's checks.                                           *)
LEMMA OrderlyTakes ==
    /\ \A s : Orderly!BackupIntact(s) <=> BackupIntact(s)
    /\ \A s : Orderly!TakesApp(s) <=> TakesApp(s)
    /\ \A s : Orderly!TakesBackup(s) <=> TakesBackup(s)
    /\ Orderly!Copied <=> Copied
    /\ Orderly!CurrentVersion = CurrentVersion
  BY OrderlyFlash
  DEF Orderly!BackupIntact, BackupIntact, Orderly!AppIntact, AppIntact,
      Orderly!TakesApp, TakesApp, Orderly!TakesBackup, TakesBackup,
      Orderly!Copied, Copied, Orderly!CurrentVersion, CurrentVersion

(* Without a fault and without a lapse, its steps are those above.         *)
LEMMA OrderlyNextIsStep ==
    ASSUME BS!TypeOK, Orderly!Next PROVE OrderlyStep
<1> USE OrderlyFlash, OrderlySettings, OrderlyTakes
    DEF Orderly!settings, settings, Orderly!volatile, volatile
<1>0. faults \in Nat
  BY DfuAssumption DEF BS!TypeOK
<1>1. Orderly!PowerOn => PowerOn /\ faults' = faults
  BY DEF Orderly!PowerOn, PowerOn, Orderly!Restart, Restart,
         Orderly!ClearVolatile, ClearVolatile
<1>2. Orderly!Startup => Startup /\ faults' = faults
  BY DEF Orderly!Startup, Startup, Orderly!StartDefaults, StartDefaults,
         Orderly!StartApp, StartApp, Orderly!StartMove, StartMove,
         Orderly!StayInBoot, StayInBoot, Orderly!Enter, Enter,
         Orderly!ClearVolatile, ClearVolatile, BS!ReadDefault, BS!BeginWrite
<1>3. Orderly!Move => Move /\ faults' = faults
  BY DEF Orderly!Move, Move, Orderly!CopyErase, CopyErase, Orderly!CopyWrite,
         CopyWrite, Orderly!CopyAccept, CopyAccept, Orderly!CopyAgain,
         CopyAgain, Orderly!CopyGiveUp, CopyGiveUp, Orderly!CopyReload,
         CopyReload, Orderly!CopyDone, CopyDone, Orderly!Restart, Restart,
         Orderly!ClearVolatile, ClearVolatile, BS!BeginWrite
<1>4. Orderly!Save => Save /\ faults' = faults
  BY <1>0 DEF Orderly!Save, Save, Orderly!SavePcs, SavePcs,
         Orderly!BS!WriteStep, Orderly!BS!Fault
<1>5. Orderly!DefaultsSaved \/ Orderly!UpdateSaved
        => (DefaultsSaved \/ UpdateSaved) /\ faults' = faults
  BY DEF Orderly!DefaultsSaved, DefaultsSaved, Orderly!UpdateSaved,
         UpdateSaved, BS!BeginWrite
<1>6. Orderly!PackErase \/ Orderly!PackWrite
        => (PackErase \/ PackWrite) /\ faults' = faults
  BY DEF Orderly!PackErase, PackErase, Orderly!PackWrite, PackWrite
<1>7. Orderly!Host => OrderlyHost /\ faults' = faults
  <2>1. Orderly!Reset => Reset /\ faults' = faults
    BY DEF Orderly!Reset, Reset, Orderly!Restart, Restart,
           Orderly!ClearVolatile, ClearVolatile
  <2>2. Orderly!Jump => Jump /\ (run = "app" \/ ~Stored.backup.active)
                             /\ faults' = faults
    BY DEF Orderly!Jump, Jump, Orderly!Enter, Enter, Orderly!ClearVolatile,
           ClearVolatile
  <2>3. ~Orderly!SoftwareEnterBootmode
    BY DEF Orderly!SoftwareEnterBootmode
  <2>4. ASSUME NEW v \in Image, Orderly!Start(FwVersion[v])
        PROVE  /\ Start(FwVersion[v]) /\ faults' = faults
               /\ ~(Stored.backup.active /\ BackupIntact(Stored))
    BY <2>4 DEF Orderly!Start, Start
  <2>5. ASSUME NEW off, NEW data, Orderly!Pack(off, data)
        PROVE  Pack(off, data) /\ faults' = faults
    BY <2>5 DEF Orderly!Pack, Pack
  <2>6. ASSUME NEW crc, Orderly!Verify(crc)
        PROVE  Verify(crc) /\ offset # 0 /\ faults' = faults
    BY <2>6 DEF Orderly!Verify, Verify, Orderly!Update, Update,
                BS!ReadDefault, BS!BeginWrite
  <2>7. Orderly!Finish => Finish /\ faults' = faults
    BY DEF Orderly!Finish, Finish
  <2> QED
    BY <2>1, <2>2, <2>3, <2>4, <2>5, <2>6, <2>7 DEF Orderly!Host, OrderlyHost
<1>8. Orderly!PowerCut => PowerCut /\ faults' = faults
  BY DEF Orderly!PowerCut, PowerCut, Orderly!ClearVolatile, ClearVolatile,
         BS!PowerCut
<1>9. ~Orderly!BankFault
  <2>1. Orderly!BankFault => faults < 0
    BY ONLY TRUE DEF Orderly!BankFault
  <2> QED
    BY ONLY <1>0, <2>1
<1>10. Orderly!Device => Device /\ faults' = faults
  BY ONLY <1>1, <1>2, <1>3, <1>4, <1>5, <1>6 DEF Orderly!Device, Device
<1> QED
  BY ONLY Orderly!Next, <1>7, <1>8, <1>9, <1>10 DEF Orderly!Next, OrderlyStep

(* They are steps of Dfu.                                                  *)
LEMMA OrderlyStepIsNext == OrderlyStep => Next
  BY DEF OrderlyStep, OrderlyHost, Next, Host
-----------------------------------------------------------------------------
(* How far a save has got: what the sector before the one at hand holds.   *)
Course == /\ step = "writeB" => copyB = Blank
          /\ step \in {"eraseA", "writeA"} => copyB = p_info
          /\ step = "writeA" => copyA = Blank
          /\ pc \notin SavePcs => step = "idle"
          /\ pc \notin {"off", "startup"} /\ step = "idle" => BS!Readable
          /\ pc = "startup" => info = None

(* The record that boot_move_backup_to_app saves at the end.               *)
Moved(s) == [s EXCEPT !.app = s.backup, !.backup.active = FALSE,
                      !.boot_mode = FALSE]

(* What is being saved, and why.                                           *)
Purpose ==
    /\ pc = "default" =>
          /\ info = None
          /\ Coming = Default
          /\ step # "idle" => p_info = Default /\ ~BS!Valid(copyA)
          /\ step = "eraseB" => ~BS!Valid(copyB)
    /\ pc = "update" =>
          /\ info.backup.active
          /\ IF step = "idle" THEN Coming = info ELSE p_info = info
    /\ pc = "copySave" =>
          /\ info.backup.active /\ info.backup.size # 0
          /\ Coming \in {info, Moved(info)}
          /\ step # "idle" => p_info = Moved(info)
    /\ pc \in CopyPcs => Coming = info /\ info.backup.active

(* Before the supply has failed, sector A is valid when a save begins.     *)
FirstCut ==
    cuts = 0 =>
       /\ step = "idle" /\ BS!Readable => BS!Valid(copyA)
       /\ pc \in {"update", "copySave"} /\ step \in {"eraseB", "writeB"}
             => BS!Valid(copyA)

(* A first pack erases the backup bank of an upload that has just begun.   *)
FirstPack == /\ pc \in {"packErase", "packWrite"} => active
             /\ pc = "packErase" => /\ offset = 0
                                    /\ at >= FirstSector(BackupBank)

(* A record an orderly host leaves asks for no boot mode, the upload it    *)
(* marks active is intact and no longer being written, and if it marks     *)
(* none, the application it names is intact; it names none only as long as *)
(* there has never been one.                                               *)
SoundIn(fl, r, act, off, s) ==
    /\ ~s.boot_mode
    /\ s.backup.active =>
          /\ s.backup.size # 0
          /\ CrcMatches(fl, BackupBank, s.backup.size, s.backup.crc)
          /\ act => off >= s.backup.size
    /\ ~s.backup.active /\ s.app.size # 0
          => CrcMatches(fl, AppBank, s.app.size, s.app.crc)
    /\ ~s.backup.active /\ s.app.size = 0 =>
          /\ s.backup.size = 0
          /\ r = None
          /\ \A v \in Image : ~Holds(fl, AppBank, v)

(* The record is sound as things are.                                      *)
Sound(s) == SoundIn(flash, ram, active, offset, s)

(* The state of the settings, whatever they say.                           *)
SaveInv == Course /\ Purpose /\ FirstCut /\ FirstPack

(* Both records a restart may find are sound.                              *)
SoundInv == Sound(Coming) /\ (p_info # None => Sound(p_info))

(* The inductive invariant of the orderly host.                            *)
OrderlyInv == IInv /\ CopyInv /\ RamInv /\ SaveInv /\ SoundInv

(* An erased or torn sector holds no record.                               *)
LEMMA NotValid == ~BS!Valid(Blank) /\ ~BS!Valid(Torn) /\ ~BS!Valid(None)
  BY DfuAssumption DEF BS!Valid

LEMMA DefaultFits == Default \in Setting /\ Default # None
  BY ConstantTypes, DfuAssumption

(* An operation of a save leaves the record that the boot loader will find *)
(* as it was, or makes it the one being saved.                             *)
LEMMA SaveEffect ==
    ASSUME IInv, SaveInv, Save, faults' = faults
    PROVE  /\ Coming' = Coming \/ Coming' = p_info
           /\ p_info # None /\ p_info' \in {p_info, None}
           /\ Course' /\ Purpose' /\ FirstCut'
<1> USE NotValid, DefaultFits
    DEF SaveInv, Coming, Stored, BS!Stored, BS!Readable
<1>0. /\ faults \in Nat /\ ~BS!Fault /\ BS!TypeOK
      /\ UNCHANGED <<pc, info>> /\ pc \in SavePcs
  <2>1. faults \in Nat /\ BS!TypeOK
    BY DfuAssumption DEF IInv, TypeOK, BS!TypeOK
  <2>2. ~BS!Fault
    BY <2>1 DEF BS!Fault
  <2> QED
    BY <2>1, <2>2 DEF Save, volatile
<1>1. CASE BS!EraseB
  <2>1. /\ step = "eraseB" /\ step' = "writeB" /\ copyB' = Blank
        /\ copyA' = copyA /\ p_info' = p_info /\ cuts' = cuts
    BY <1>1 DEF BS!EraseB
  <2>2. p_info # None
    BY <1>0, <2>1 DEF BS!TypeOK
  <2>3. Coming' = Coming \/ Coming' = p_info
    BY <2>1, <2>2
  <2>4. Course'
    BY <1>0, <2>1 DEF Course, SavePcs
  <2>5. Purpose'
    BY <1>0, <2>1, <2>2, <2>3 DEF Purpose, CopyPcs, SavePcs
  <2>6. FirstCut'
    BY <1>0, <2>1 DEF FirstCut
  <2> QED
    BY <2>1, <2>2, <2>3, <2>4, <2>5, <2>6
<1>2. CASE BS!WriteB
  <2>1. /\ step = "writeB" /\ step' = "eraseA" /\ copyB' = p_info
        /\ copyA' = copyA /\ p_info' = p_info /\ cuts' = cuts
    BY <1>2 DEF BS!WriteB, BS!Program, Course
  <2>2. p_info # None /\ BS!Valid(p_info) /\ copyB = Blank
    BY <1>0, <2>1 DEF BS!TypeOK, BS!Valid, Course
  <2>3. Coming' = Coming \/ Coming' = p_info
    BY <2>1, <2>2
  <2>4. Course'
    BY <1>0, <2>1 DEF Course, SavePcs
  <2>5. Purpose'
    BY <1>0, <2>1, <2>2, <2>3 DEF Purpose, CopyPcs, SavePcs
  <2>6. FirstCut'
    BY <1>0, <2>1 DEF FirstCut
  <2> QED
    BY <2>1, <2>2, <2>3, <2>4, <2>5, <2>6
<1>3. CASE BS!EraseA
  <2>1. /\ step = "eraseA" /\ step' = "writeA" /\ copyA' = Blank
        /\ copyB' = copyB /\ p_info' = p_info /\ cuts' = cuts
    BY <1>3 DEF BS!EraseA
  <2>2. p_info # None /\ BS!Valid(p_info) /\ copyB = p_info
    BY <1>0, <2>1 DEF BS!TypeOK, BS!Valid, Course
  <2>3. Coming' = p_info
    BY <2>1, <2>2
  <2>4. Course'
    BY <1>0, <2>1, <2>2 DEF Course, SavePcs
  <2>5. Purpose'
    BY <1>0, <2>1, <2>2, <2>3 DEF Purpose, CopyPcs, SavePcs
  <2>6. FirstCut'
    BY <1>0, <2>1 DEF FirstCut
  <2> QED
    BY <2>1, <2>2, <2>3, <2>4, <2>5, <2>6
<1>4. CASE BS!WriteA
  <2>1. /\ step = "writeA" /\ step' = "idle" /\ copyA' = p_info
        /\ copyB' = copyB /\ p_info' = None /\ cuts' = cuts
    BY <1>4 DEF BS!WriteA, BS!Program, Course
  <2>2. p_info # None /\ BS!Valid(p_info)
    BY <1>0, <2>1 DEF BS!TypeOK, BS!Valid
  <2>3. Coming' = p_info
    BY <2>1, <2>2
  <2>4. Course'
    BY <1>0, <2>1, <2>2 DEF Course, SavePcs
  <2>5. Purpose'
    BY <1>0, <2>1, <2>2, <2>3 DEF Purpose, CopyPcs, SavePcs
  <2>6. FirstCut'
    BY <1>0, <2>1, <2>2 DEF FirstCut
  <2> QED
    BY <2>1, <2>2, <2>3, <2>4, <2>5, <2>6
<1> QED
  BY <1>0, <1>1, <1>2, <1>3, <1>4 DEF Save, BS!WriteStep

(* So does the first power cut.                                            *)
LEMMA CutEffect ==
    ASSUME MaxCuts <= 1, IInv, SaveInv, PowerCut
    PROVE  /\ Coming' = Coming \/ (p_info # None /\ Coming' = p_info)
           /\ p_info' = None
           /\ Course' /\ Purpose' /\ FirstCut'
<1> USE NotValid, DefaultFits
    DEF SaveInv, Coming, Stored, BS!Stored, BS!Readable
<1>0. /\ cuts = 0 /\ cuts' = 1 /\ BS!TypeOK /\ BS!Partial
      /\ step' = "idle" /\ p_info' = None /\ pc' = "off"
  <2>1. cuts \in 0..MaxCuts /\ MaxCuts \in Nat /\ BS!TypeOK
    BY DfuAssumption DEF IInv, TypeOK, BS!TypeOK
  <2> QED
    BY <2>1 DEF PowerCut, BS!PowerCut
<1>1. Course' /\ Purpose' /\ FirstCut'
  BY <1>0 DEF Course, Purpose, FirstCut, SavePcs, CopyPcs
<1> SUFFICES Coming' = Coming \/ (p_info # None /\ Coming' = p_info)
  BY <1>0, <1>1
<1>2. CASE step = "idle"
  BY <1>0, <1>2 DEF BS!Partial, BS!TypeOK
<1>3. CASE step \in {"eraseB", "writeB"}
  <2>1. copyA' = copyA /\ copyB' \in {copyB, Torn} /\ p_info # None
    BY <1>0, <1>3 DEF BS!Partial, BS!TypeOK
  <2>2. CASE BS!Valid(copyA)
    BY <1>0, <2>1, <2>2
  <2>3. CASE ~BS!Valid(copyA)
    <3>1. pc = "default"
      BY <1>0, <1>3, <2>3 DEF Course, FirstCut, SavePcs
    <3>2. ~BS!Valid(copyB) /\ p_info = Default
      BY <1>3, <3>1 DEF Purpose, Course
    <3> QED
      BY <1>0, <2>1, <2>3, <3>2
  <2> QED
    BY <2>2, <2>3
<1>4. CASE step \in {"eraseA", "writeA"}
  <2>1. copyB' = copyB /\ copyA' \in {copyA, Torn} /\ p_info # None
        /\ copyB = p_info /\ BS!Valid(p_info)
    BY <1>0, <1>4 DEF BS!Partial, BS!TypeOK, BS!Valid, Course
  <2> QED
    BY <1>0, <2>1
<1> QED
  BY <1>0, <1>2, <1>3, <1>4 DEF BS!TypeOK

(* What the steps between two saves do to the settings: nothing.           *)
Quiet == /\ UNCHANGED <<copyA, copyB, step, p_info, cuts>>
         /\ step = "idle"
         /\ pc' \notin SavePcs \cup {"off"}
         /\ pc' # "startup" => BS!Readable
         /\ pc' = "startup" => info' = None
         /\ pc' \in CopyPcs =>
               \/ pc \in CopyPcs /\ info' = info
               \/ info' = Stored /\ TakesBackup(Stored)

(* A quiet step keeps the record that the boot loader will find.           *)
LEMMA QuietEffect ==
    ASSUME IInv, SaveInv, SoundInv, Quiet
    PROVE  /\ Coming' = Coming /\ Coming = Stored
           /\ p_info = None /\ p_info' = None
           /\ Course' /\ Purpose' /\ FirstCut'
<1> USE DEF SaveInv, Coming, Stored, BS!Stored, BS!Readable
<1>1. p_info = None /\ p_info' = None
  BY DEF IInv, TypeOK, BS!TypeOK, Quiet
<1>2. Coming' = Coming /\ Coming = Stored
  BY <1>1 DEF Quiet
<1>3. Course'
  BY DEF Course, Quiet
<1>4. Purpose'
  <2>1. ASSUME pc' \in CopyPcs PROVE Coming = info' /\ info'.backup.active
    <3>1. CASE pc \in CopyPcs /\ info' = info
      BY <3>1 DEF Purpose
    <3>2. CASE info' = Stored /\ TakesBackup(Stored)
      <4>1. Sound(Stored)
        BY <1>2 DEF SoundInv
      <4>2. Stored.backup.active
        BY <3>2, <4>1, FlashAssumption
        DEF Sound, SoundIn, TakesBackup, AppIntact
      <4> QED
        BY <1>2, <3>2, <4>2
    <3> QED
      BY <2>1, <3>1, <3>2 DEF Quiet
  <2> QED
    BY <1>2, <2>1 DEF Purpose, Quiet, SavePcs, CopyPcs
<1>5. FirstCut'
  BY DEF FirstCut, Quiet
<1> QED
  BY <1>1, <1>2, <1>3, <1>4, <1>5

(* dfu_bootsetting_write is called: what a restart finds has not changed.  *)
LEMMA BeginEffect ==
    ASSUME IInv, SaveInv, NEW s \in Setting, BS!Readable, step = "idle",
           BS!BeginWrite(s), info'.backup.active,
           \/ pc' = "update" /\ info' = s
           \/ /\ pc' = "copySave" /\ Coming = info' /\ s = Moved(info')
              /\ info'.backup.size # 0
    PROVE  /\ Coming' = Coming /\ Coming = Stored
           /\ p_info = None /\ p_info' = s
           /\ Course' /\ Purpose' /\ FirstCut'
<1> USE DEF SaveInv, Coming, Stored, BS!Stored, BS!Readable, BS!BeginWrite
<1>1. p_info = None /\ p_info' = s /\ Coming' = Coming /\ Coming = Stored
  BY DEF IInv, TypeOK, BS!TypeOK
<1>2. Course'
  BY DEF Course, SavePcs
<1>3. Purpose'
  BY <1>1 DEF Purpose, CopyPcs
<1>4. FirstCut'
  BY DEF FirstCut
<1> QED
  BY <1>1, <1>2, <1>3, <1>4

(* dfu_bootsetting_read finds no record: the defaults it writes are what   *)
(* it returned.                                                            *)
LEMMA DefaultsEffect ==
    ASSUME IInv, SaveInv, StartDefaults
    PROVE  /\ Coming' = Coming /\ Coming = Stored
           /\ p_info' = Default /\ p_info' = Coming
           /\ Course' /\ Purpose' /\ FirstCut'
<1> USE DEF SaveInv, Coming, Stored, BS!Stored, BS!Readable, BS!BeginWrite
<1>1. /\ pc = "startup" /\ pc' = "default" /\ info' = info /\ cuts' = cuts
      /\ ~BS!Readable /\ step = "idle" /\ step' = "eraseB"
      /\ p_info' = Default /\ UNCHANGED <<copyA, copyB>>
  BY DEF StartDefaults, BS!ReadDefault, volatile
<1>2. p_info = None /\ Coming' = Coming /\ Coming = Default /\ Coming = Stored
  BY <1>1 DEF IInv, TypeOK, BS!TypeOK
<1>3. Course' /\ FirstCut'
  BY <1>1 DEF Course, FirstCut, SavePcs
<1>4. Purpose'
  BY <1>1, <1>2 DEF Purpose, Course, CopyPcs
<1> QED
  BY <1>1, <1>2, <1>3, <1>4

(* Every step with an orderly host is a step of a save or quiet.           *)
LEMMA StepCases ==
    ASSUME IInv, SaveInv, OrderlyStep
    PROVE  \/ Save \/ PowerCut \/ StartDefaults \/ CopyAccept
           \/ \E crc \in Image \cup {NoCrc} : Verify(crc) /\ offset # 0
           \/ Quiet
<1> USE DEF SaveInv, Course, Purpose, settings, volatile, SavePcs, CopyPcs
<1>1. PowerOn \/ Reset \/ CopyReload => Quiet
  BY DEF PowerOn, Reset, CopyReload, Restart, ClearVolatile, Quiet
<1>2. StartApp \/ Jump => Quiet
  BY DEF StartApp, Jump, Enter, ClearVolatile, Quiet
<1>3. StartMove \/ StayInBoot => Quiet
  BY DEF StartMove, StayInBoot, Quiet
<1>4. CopyErase \/ CopyWrite => Quiet
  BY DEF CopyErase, CopyWrite, Quiet
<1>5. CopyAgain \/ CopyGiveUp => Quiet
  BY DEF CopyAgain, CopyGiveUp, CopyDone, Quiet
<1>6. DefaultsSaved \/ UpdateSaved => Quiet
  BY DEF DefaultsSaved, UpdateSaved, Quiet
<1>7. PackErase \/ PackWrite => Quiet
  BY DEF PackErase, PackWrite, Quiet
<1>8. ASSUME NEW v, Start(v) PROVE Quiet
  BY <1>8 DEF Start, Quiet
<1>9. ASSUME NEW off, NEW data, Pack(off, data) PROVE Quiet
  BY <1>9 DEF Pack, Quiet
<1>10. Finish => Quiet
  BY DEF Finish, Quiet
<1> QED
  BY ONLY OrderlyStep, <1>1, <1>2, <1>3, <1>4, <1>5, <1>6, <1>7, <1>8, <1>9,
     <1>10
  DEF OrderlyStep, OrderlyHost, Device, Startup, Move

(* APP_BANK_ADDRESS is where a sector begins.                              *)
AppAligned == AppBank % SectorCells = 0

(* Division with remainder.                                                *)
LEMMA DivMod ==
    ASSUME NEW n \in Nat, NEW m \in Nat \ {0}
    PROVE  /\ n \div m \in Nat /\ n % m \in 0..(m - 1)
           /\ (n \div m) * m + (n % m) = n
  BY Z3

(* The sectors after the last one of an image hold no cell of it.          *)
LEMMA PastImage ==
    ASSUME AppAligned, NEW n \in Nat, NEW c \in Nat,
           FirstSector(c) > LastSector(AppBank, n)
    PROVE  c >= AppBank + n
<1> DEFINE k == AppBank \div SectorCells
           q == n \div SectorCells
           d == c \div SectorCells
           rn == n % SectorCells
           rc == c % SectorCells
<1>1. SectorCells \in Nat /\ SectorCells # 0 /\ AppBank \in Nat
  BY FlashAssumption
<1>2. k \in Nat /\ k * SectorCells + 0 = AppBank
  BY <1>1, DivMod DEF AppAligned
<1>3. q \in Nat /\ rn \in Nat /\ rn < SectorCells
      /\ q * SectorCells + rn = n
  <2>1. q \in Nat /\ rn \in 0..(SectorCells - 1) /\ q * SectorCells + rn = n
    BY <1>1, DivMod, Zenon
  <2> HIDE DEF q, rn
  <2> QED
    BY <1>1, <2>1
<1>4. d \in Nat /\ rc \in Nat /\ d * SectorCells + rc = c
  <2>1. d \in Nat /\ rc \in 0..(SectorCells - 1) /\ d * SectorCells + rc = c
    BY <1>1, DivMod, Zenon
  <2> HIDE DEF d, rc
  <2> QED
    BY <1>1, <2>1
<1>5. d >= k + q + 1
  BY <1>2, <1>3, <1>4 DEF FirstSector, LastSector
<1> HIDE DEF k, q, d, rn, rc
<1>6. d * SectorCells >= (k + q + 1) * SectorCells
  BY ONLY <1>1, <1>2, <1>3, <1>4, <1>5, Z3
<1>7. (k + q + 1) * SectorCells
        = k * SectorCells + q * SectorCells + SectorCells
  BY ONLY <1>1, <1>2, <1>3, Z3
<1> QED
  BY ONLY <1>1, <1>2, <1>3, <1>4, <1>6, <1>7, Z3

(* Writing an upload touches no image in the application bank.             *)
LEMMA PackSparesApp ==
    ASSUME ImagesFit, AppAligned, IInv, FirstPack,
           NEW v \in Image, NEW i \in 0..(FwSize[v] - 1)
    PROVE  /\ AppBank + i \in Cells
           /\ pc = "packErase" => AppBank + i \notin Sector(at)
           /\ AppBank + i # BackupBank + offset
<1>1. /\ FwSize[v] \in Nat /\ FwSize[v] \in 1..BankCells /\ i \in Nat
      /\ i < FwSize[v] /\ offset \in Nat /\ at \in Nat
      /\ AppBank \in Nat /\ BackupBank \in Nat /\ BankCells \in Nat
  BY ConstantTypes DEF IInv, TypeOK
<1>2. AppBank + i < BackupBank
  BY <1>1 DEF ImagesFit
<1>3. AppBank + i \in Cells
  BY <1>1, <1>2 DEF Cells
<1>4. ASSUME pc = "packErase", AppBank + i \in Sector(at) PROVE FALSE
  <2>1. FirstSector(AppBank + i) = at
    BY <1>4 DEF Sector, FirstSector
  <2>2. /\ FirstSector(AppBank + i) \in Nat /\ FirstSector(BackupBank) \in Nat
        /\ LastSector(AppBank, FwSize[v]) \in Nat
    <3>1. AppBank + i \in Nat
      BY <1>1
    <3> QED
      BY ONLY <1>1, <3>1, SectorTypes, Zenon
  <2>3. at > LastSector(AppBank, FwSize[v])
    BY <1>1, <1>4, <2>2 DEF FirstPack, ImagesFit
  <2>4. AppBank + i >= AppBank + FwSize[v]
    BY <1>1, <2>1, <2>3, PastImage
  <2> QED
    BY <1>1, <2>4
<1> QED
  BY <1>1, <1>2, <1>3, <1>4

(* The bank holds the same images when their cells are the same.           *)
LEMMA HoldsSame ==
    ASSUME NEW fl, NEW fl2, NEW b, NEW v \in Image,
           \A i \in 0..(FwSize[v] - 1) : fl2[b + i] = fl[b + i]
    PROVE  Holds(fl2, b, v) <=> Holds(fl, b, v)
  BY DEF Holds

(* What keeps a record sound.                                              *)
LEMMA SoundKept ==
    ASSUME NEW s, NEW fl, NEW fl2, NEW r, NEW r2, NEW act, NEW act2,
           NEW off, NEW off2, SoundIn(fl, r, act, off, s),
           s.backup.active
              => CrcMatches(fl2, BackupBank, s.backup.size, s.backup.crc),
           s.backup.active /\ act2 => off2 >= s.backup.size,
           ~s.backup.active => \A v \in Image :
              Holds(fl2, AppBank, v) <=> Holds(fl, AppBank, v),
           r2 \in {r, None} \cup Loads(fl)
    PROVE  SoundIn(fl2, r2, act2, off2, s)
<1>1. ASSUME ~s.backup.active, s.app.size # 0
      PROVE  CrcMatches(fl2, AppBank, s.app.size, s.app.crc)
  BY <1>1 DEF SoundIn, CrcMatches
<1>2. ASSUME ~s.backup.active, s.app.size = 0
      PROVE  r2 = None
  BY <1>2 DEF SoundIn, Loads
<1> QED
  BY <1>1, <1>2 DEF SoundIn

(* A step that leaves the flash alone and starts no upload is such a step. *)
LEMMA SoundSameFlash ==
    ASSUME NEW s, Sound(s), flash' = flash,
           ram' \in {ram, None} \cup Loads(flash),
           active' => active /\ offset' = offset
    PROVE  SoundIn(flash', ram', active', offset', s)
  BY SoundKept DEF Sound, SoundIn

(* What the boot loader will find, and what is being saved, are records.   *)
LEMMA ComingType == IInv => Coming \in Setting /\ p_info \in Setting \cup {None}
  BY StoredType DEF IInv, TypeOK, BS!TypeOK, Coming

(* dfu_upgrade_pack may erase or write what it likes of its sector or its  *)
(* cell.                                                                   *)
LEMMA PackKeepsSound ==
    ASSUME ImagesFit, AppAligned, OrderlyInv, pc \in {"packErase", "packWrite"},
           NEW fl2, NEW r2 \in {ram, None}, NEW act2, NEW off2,
           \A c \in Cells :
              \/ fl2[c] = flash[c]
              \/ pc = "packErase" /\ c \in Sector(at)
              \/ pc = "packWrite" /\ c = BackupBank + offset,
           act2 => off2 \in Nat /\ off2 >= offset
    PROVE  SoundIn(fl2, r2, act2, off2, Coming)
<1> DEFINE size == Coming.backup.size
           crc == Coming.backup.crc
<1>1. /\ Sound(Coming) /\ FirstPack /\ active /\ IInv
      /\ offset \in Nat /\ BackupBank \in Nat /\ BankCells \in Nat
      /\ size \in 0..BankCells
  BY ComingType, ConstantTypes
  DEF OrderlyInv, SoundInv, SaveInv, FirstPack, IInv, TypeOK, Setting, Bank
<1>2. ASSUME NEW v \in Image
      PROVE  Holds(fl2, AppBank, v) <=> Holds(flash, AppBank, v)
  <2>1. ASSUME NEW i \in 0..(FwSize[v] - 1)
        PROVE  fl2[AppBank + i] = flash[AppBank + i]
    BY <1>1, PackSparesApp
  <2> QED
    BY <2>1, HoldsSame
<1>3. ASSUME Coming.backup.active
      PROVE  /\ CrcMatches(fl2, BackupBank, size, crc)
             /\ act2 => off2 >= size
  <2>1. /\ size # 0 /\ offset >= size
        /\ CrcMatches(flash, BackupBank, size, crc)
    BY <1>1, <1>3 DEF Sound, SoundIn
  <2>2. pc = "packWrite"
    BY <1>1, <2>1 DEF FirstPack
  <2>3. crc \in Image /\ size = FwSize[crc] /\ Holds(flash, BackupBank, crc)
    BY <2>1 DEF CrcMatches
  <2>4. ASSUME NEW i \in 0..(FwSize[crc] - 1)
        PROVE  fl2[BackupBank + i] = flash[BackupBank + i]
    <3>1. BackupBank + i \in Cells /\ BackupBank + i # BackupBank + offset
      BY <1>1, <2>1, <2>3 DEF Cells
    <3> QED
      BY <2>2, <3>1
  <2>5. Holds(fl2, BackupBank, crc)
    BY <2>3, <2>4, HoldsSame
  <2>6. act2 => off2 >= size
    BY <1>1, <2>1
  <2> QED
    BY <2>3, <2>5, <2>6 DEF CrcMatches
<1> HIDE DEF size, crc
<1> QED
  BY <1>1, <1>2, <1>3, SoundKept DEF Sound, size, crc

(* A power cut leaves the record as sound as it was.                       *)
LEMMA CutKeepsSound ==
    ASSUME ImagesFit, AppAligned, OrderlyInv, PowerCut, NEW s,
           Sound(s), s = Coming \/ pc \in SavePcs
    PROVE  SoundIn(flash', ram', active', offset', s)
<1>1. /\ flash' \in Disturbed(flash, Touched) /\ ram' = None
      /\ active' = FALSE /\ flash \in [Cells -> Cell]
  BY DEF PowerCut, ClearVolatile, OrderlyInv, IInv, TypeOK
<1>2. CASE Touched = {}
  <2>1. flash' = flash
    BY <1>1, <1>2 DEF Disturbed
  <2> QED
    BY <1>1, <2>1, SoundSameFlash
<1>3. CASE pc \in CopyPcs
  <2>1. s = info /\ info.backup.active
    BY <1>3 DEF OrderlyInv, SaveInv, Purpose, CopyPcs, SavePcs
  <2>2. CrcMatches(flash', BackupBank, info.backup.size, info.backup.crc)
    BY <1>1, <1>3, CopySparesBackup DEF OrderlyInv
  <2> QED
    BY <1>1, <2>1, <2>2, SoundKept DEF Sound
<1>4. CASE pc \in {"packErase", "packWrite"}
  <2>1. s = Coming
    BY <1>4 DEF SavePcs
  <2>2. \A c \in Cells :
           \/ flash'[c] = flash[c]
           \/ pc = "packErase" /\ c \in Sector(at)
           \/ pc = "packWrite" /\ c = BackupBank + offset
    BY <1>1, <1>4 DEF Disturbed, Touched
  <2> QED
    BY <1>1, <1>4, <2>1, <2>2, PackKeepsSound
<1> QED
  BY <1>2, <1>3, <1>4 DEF Touched, CopyPcs

(* So does every quiet step: copying and packing as above, the start of an *)
(* upload because no other is waiting, the rest because they leave the     *)
(* flash alone.                                                            *)
LEMMA QuietKeepsSound ==
    ASSUME ImagesFit, AppAligned, OrderlyInv, OrderlyStep, CopyInv', FirstPack',
           Quiet
    PROVE  SoundIn(flash', ram', active', offset', Coming)
<1>1. /\ Sound(Coming) /\ Coming = Stored /\ step = "idle" /\ Coming \in Setting
      /\ flash \in [Cells -> Cell] /\ active \in BOOLEAN /\ offset \in Nat
  BY QuietEffect, ComingType, ConstantTypes
  DEF OrderlyInv, SoundInv, IInv, TypeOK, Quiet
<1>2. ASSUME flash' = flash, ram' \in {ram, None} \cup Loads(flash),
             active' => active /\ offset' = offset
      PROVE  SoundIn(flash', ram', active', offset', Coming)
  BY <1>1, <1>2, SoundSameFlash
<1>3. CASE PowerOn \/ Reset \/ CopyReload
  BY <1>2, <1>3 DEF PowerOn, Reset, CopyReload, Restart, ClearVolatile
<1>4. CASE StartApp \/ Jump
  BY <1>2, <1>4 DEF StartApp, Jump, Enter, ClearVolatile
<1>5. CASE StartMove \/ StayInBoot
  BY <1>2, <1>5 DEF StartMove, StayInBoot, volatile
<1>6. CASE CopyAgain \/ CopyGiveUp
  BY <1>2, <1>6 DEF CopyAgain, CopyGiveUp
<1>7. CASE DefaultsSaved \/ UpdateSaved
  BY <1>2, <1>7 DEF DefaultsSaved, UpdateSaved, volatile
<1>8. CASE Finish
  BY <1>2, <1>8 DEF Finish
<1>9. ASSUME NEW off, NEW data, Pack(off, data)
      PROVE  SoundIn(flash', ram', active', offset', Coming)
  BY <1>2, <1>9 DEF Pack
<1>10. ASSUME NEW v, Start(v), ~(Stored.backup.active /\ BackupIntact(Stored))
       PROVE  SoundIn(flash', ram', active', offset', Coming)
  <2>1. ~Coming.backup.active
    BY <1>1, <1>10 DEF Sound, SoundIn, BackupIntact
  <2>2. flash' = flash /\ ram' = ram
    BY <1>10 DEF Start
  <2> QED
    BY <1>1, <2>1, <2>2, SoundKept DEF Sound
<1>11. CASE CopyErase \/ CopyWrite
  <2>1. pc \in CopyPcs /\ pc' \in CopyPcs /\ info' = info /\ ram' = ram
        /\ active' = active /\ offset' = offset
    BY <1>11 DEF CopyErase, CopyWrite, CopyPcs
  <2>2. Coming = info /\ info.backup.active
    BY <2>1 DEF OrderlyInv, SaveInv, Purpose
  <2>3. CrcMatches(flash', BackupBank, info.backup.size, info.backup.crc)
    BY <2>1 DEF CopyInv, CopyNeedsGoodBackup
  <2>4. Coming.backup.active /\ active' => offset' >= Coming.backup.size
    BY <1>1, <2>1 DEF Sound, SoundIn
  <2> QED
    BY <1>1, <2>1, <2>2, <2>3, <2>4, SoundKept DEF Sound
<1>12. CASE PackErase
  <2>1. \A c \in Cells : flash'[c] = flash[c] \/ c \in Sector(at)
    BY <1>1, <1>12 DEF PackErase, EraseSector
  <2>2. pc = "packErase" /\ ram' = ram /\ offset' = offset
    BY <1>12 DEF PackErase
  <2>3. offset >= offset
    BY <1>1
  <2> QED
    BY <1>1, <2>1, <2>2, <2>3, PackKeepsSound
<1>13. CASE PackWrite
  <2>1. pc = "packWrite" /\ ram' = ram
    BY <1>13 DEF PackWrite
  <2>2. \A c \in Cells : flash'[c] = flash[c] \/ c = BackupBank + offset
    BY <1>1, <1>13 DEF PackWrite, ProgramCell
  <2>3. offset' \in Nat /\ offset' >= offset
    BY <1>1, <1>13 DEF PackWrite
  <2> QED
    BY <1>1, <2>1, <2>2, <2>3, PackKeepsSound
<1>14. ~StartDefaults /\ ~CopyAccept /\ ~PowerCut /\ ~Save
  BY DEF Quiet, StartDefaults, CopyAccept, PowerCut, Save, SavePcs
<1>15. ASSUME NEW crc, Verify(crc) PROVE FALSE
  BY <1>15 DEF Verify, Update, Quiet, SavePcs
<1> QED
  BY ONLY OrderlyStep, <1>3, <1>4, <1>5, <1>6, <1>7, <1>8, <1>9, <1>10,
     <1>11, <1>12, <1>13, <1>14, <1>15
  DEF OrderlyStep, OrderlyHost, Device, Startup, Move

(* Every step keeps the first pack from overtaking.                        *)
LEMMA NextFirstPack ==
    ASSUME IInv, FirstPack, OrderlyStep PROVE FirstPack'
<1>1. /\ at \in Nat /\ FirstSector(BackupBank) \in Nat
  BY ConstantTypes, SectorTypes DEF IInv, TypeOK
<1>2. ASSUME pc' \notin {"packErase", "packWrite"} PROVE FirstPack'
  BY <1>2 DEF FirstPack
<1>3. ASSUME NEW off, NEW data, Pack(off, data) PROVE FirstPack'
  BY <1>1, <1>3 DEF FirstPack, Pack
<1>4. PackErase \/ PackWrite => FirstPack'
  BY <1>1 DEF FirstPack, PackErase, PackWrite
<1>5. PowerOn \/ Reset \/ CopyReload => FirstPack'
  BY <1>2 DEF PowerOn, Reset, CopyReload, Restart
<1>6. StartApp \/ Jump => FirstPack'
  BY <1>2 DEF StartApp, Jump, Enter
<1>7. StartDefaults \/ StartMove \/ StayInBoot => FirstPack'
  BY <1>2 DEF StartDefaults, StartMove, StayInBoot
<1>8. CopyErase \/ CopyWrite \/ CopyAccept \/ CopyAgain \/ CopyGiveUp
        => FirstPack'
  BY <1>2 DEF CopyErase, CopyWrite, CopyAccept, CopyAgain, CopyGiveUp, CopyDone
<1>9. Save \/ DefaultsSaved \/ UpdateSaved => FirstPack'
  BY <1>2 DEF Save, SavePcs, DefaultsSaved, UpdateSaved
<1>10. Finish \/ PowerCut => FirstPack'
  BY <1>2 DEF Finish, PowerCut
<1>11. ASSUME NEW v, Start(v) PROVE FirstPack'
  BY <1>2, <1>11 DEF Start
<1>12. ASSUME NEW crc, Verify(crc) PROVE FirstPack'
  BY <1>2, <1>12 DEF Verify, Update
<1> QED
  BY ONLY OrderlyStep, <1>3, <1>4, <1>5, <1>6, <1>7, <1>8, <1>9, <1>10,
     <1>11, <1>12
  DEF OrderlyStep, OrderlyHost, Device, Startup, Move

(* A copy that passes its check is entered in the settings.                *)
LEMMA AcceptEffect ==
    ASSUME OrderlyInv, CopyAccept
    PROVE  /\ Coming' = Coming /\ Coming = info /\ p_info' = Moved(info)
           /\ info.backup.active /\ Sound(Moved(info))
           /\ UNCHANGED <<flash, ram, active, offset, info>>
           /\ Course' /\ Purpose' /\ FirstCut'
<1>1. /\ pc = "copyWrite" /\ Copied /\ pc' = "copySave"
      /\ BS!BeginWrite(Moved(info))
      /\ UNCHANGED <<flash, ram, active, offset, info>>
  BY DEF CopyAccept, CopyDone, Moved, volatile
<1>2. /\ Coming = info /\ info.backup.active /\ info \in Setting
      /\ step = "idle" /\ BS!Readable /\ Sound(info)
  BY <1>1, ComingType
  DEF OrderlyInv, SoundInv, SaveInv, Purpose, Course, CopyPcs, SavePcs
<1>3. Moved(info) \in Setting
  BY <1>2 DEF Moved, Setting, Bank
<1>4. /\ Moved(info).app = info.backup /\ ~Moved(info).backup.active
      /\ ~Moved(info).boot_mode
  BY <1>2 DEF Moved, Setting, Bank
<1>5. Sound(Moved(info))
  BY <1>1, <1>2, <1>4 DEF Sound, SoundIn, Copied
<1>6. info.backup.size # 0
  BY <1>2 DEF Sound, SoundIn
<1>7. /\ Coming' = Coming /\ p_info' = Moved(info)
      /\ Course' /\ Purpose' /\ FirstCut'
  BY <1>1, <1>2, <1>3, <1>6, BeginEffect DEF OrderlyInv
<1> QED
  BY <1>1, <1>2, <1>5, <1>7

(* A verified upload is entered in the settings.                           *)
LEMMA VerifyEffect ==
    ASSUME OrderlyInv, NEW crc \in Image \cup {NoCrc}, Verify(crc), offset # 0
    PROVE  /\ Coming' = Coming /\ p_info' = info' /\ Sound(info')
           /\ pc = "idle" /\ pc' = "update"
           /\ info'.backup.crc = crc /\ crc \in Image
           /\ UNCHANGED <<flash, ram, run, active, offset>>
           /\ Course' /\ Purpose' /\ FirstCut'
<1> DEFINE s == [Stored EXCEPT
                   !.boot_mode = FALSE,
                   !.backup = [size |-> offset, crc |-> crc, active |-> TRUE]]
<1>1. /\ pc = "idle" /\ CrcMatches(flash, BackupBank, offset, crc)
      /\ Update(s) /\ UNCHANGED <<flash, ram, run, active, offset>>
  BY DEF Verify
<1>2. /\ Stored \in Setting /\ offset \in 0..BankCells
      /\ step = "idle" /\ BS!Readable
  BY <1>1, StoredType DEF OrderlyInv, IInv, TypeOK, SaveInv, Course, SavePcs
<1>3. s \in Setting
  BY <1>2 DEF Setting, Bank
<1>4. /\ ~s.boot_mode
      /\ s.backup = [size |-> offset, crc |-> crc, active |-> TRUE]
  BY <1>2 DEF Setting, Bank
<1> HIDE DEF s
<1>5. BS!BeginWrite(s) /\ pc' = "update" /\ info' = s
  BY <1>1, <1>2 DEF Update
<1>6. crc \in Image
  BY <1>1 DEF CrcMatches
<1>7. Sound(s)
  <2>1. offset >= offset
    BY <1>2
  <2> QED
    BY <1>1, <1>4, <2>1 DEF Sound, SoundIn
<1>8. /\ Coming' = Coming /\ p_info' = s
      /\ Course' /\ Purpose' /\ FirstCut'
  BY <1>2, <1>3, <1>4, <1>5, BeginEffect DEF OrderlyInv
<1> QED
  BY <1>1, <1>4, <1>5, <1>6, <1>7, <1>8

(* The invariant is inductive, as long as the supply fails once at most.   *)
LEMMA NextOrderlyInv ==
    ASSUME ImagesFit, AppAligned, MaxCuts <= 1, OrderlyInv, OrderlyStep
    PROVE  OrderlyInv'
<1>1. IInv' /\ CopyInv' /\ RamInv' /\ FirstPack'
  BY OrderlyStepIsNext, NextIInv, NextCopyInv, NextRamInv, NextFirstPack
  DEF OrderlyInv, SaveInv
<1>2. ASSUME NEW s, Sound(s), UNCHANGED <<flash, ram, active, offset>>
      PROVE  SoundIn(flash', ram', active', offset', s)
  BY <1>2 DEF Sound
<1>3. faults' = faults
  BY DEF OrderlyStep
<1> SUFFICES Course' /\ Purpose' /\ FirstCut' /\ SoundInv'
  BY <1>1 DEF OrderlyInv, SaveInv
<1> USE DEF OrderlyInv, SoundInv, Sound
<1>4. CASE Save
  <2>1. /\ Coming' = Coming \/ Coming' = p_info
        /\ p_info # None /\ p_info' \in {p_info, None}
        /\ Course' /\ Purpose' /\ FirstCut'
    BY <1>3, <1>4, SaveEffect
  <2>2. UNCHANGED <<flash, ram, active, offset>>
    BY <1>4 DEF Save, volatile
  <2> QED
    BY <1>2, <2>1, <2>2
<1>5. CASE PowerCut
  <2>1. /\ Coming' = Coming \/ (p_info # None /\ Coming' = p_info)
        /\ p_info' = None
        /\ Course' /\ Purpose' /\ FirstCut'
    BY <1>5, CutEffect
  <2>2. p_info # None => pc \in SavePcs
    BY DEF SaveInv, Course, IInv, TypeOK, BS!TypeOK
  <2> QED
    BY <1>5, <2>1, <2>2, CutKeepsSound
<1>6. CASE StartDefaults
  <2>1. UNCHANGED <<flash, ram, active, offset>>
    BY <1>6 DEF StartDefaults, volatile
  <2> QED
    BY <1>2, <1>6, <2>1, DefaultsEffect
<1>7. CASE CopyAccept
  BY <1>2, <1>7, AcceptEffect
<1>8. ASSUME NEW crc \in Image \cup {NoCrc}, Verify(crc), offset # 0
      PROVE  Course' /\ Purpose' /\ FirstCut' /\ SoundInv'
  BY <1>2, <1>8, VerifyEffect
<1>9. CASE Quiet
  BY <1>1, <1>9, QuietEffect, QuietKeepsSound
<1> QED
  BY <1>4, <1>5, <1>6, <1>7, <1>8, <1>9, StepCases

(* A device fresh from production, or switched off with an application     *)
(* installed, starts with sound settings.                                  *)
LEMMA InitOrderlyInv == ASSUME ImagesFit, Init PROVE OrderlyInv
<1>1. IInv /\ CopyInv /\ RamInv
  BY InitIInv, InitCopyInv DEF Init, RamInv
<1>2. Course /\ Purpose /\ FirstPack
  BY DEF Init, Course, Purpose, FirstPack, SavePcs, CopyPcs
<1>3. p_info = None /\ Coming = Stored
  BY DEF Init, Coming
<1>4. CASE copyA = Blank /\ copyB = Blank /\ flash = [c \in Cells |-> Erased]
  <2>1. ~BS!Readable /\ Stored = Default
    BY <1>4, NotValid DEF BS!Readable, Stored, BS!Stored
  <2>2. ASSUME NEW v \in Image PROVE ~Holds(flash, AppBank, v)
    <3>1. 0 \in 0..(FwSize[v] - 1) /\ AppBank + 0 \in Cells
      BY ConstantTypes, FlashAssumption DEF Cells
    <3>2. <<v, 0>> \in Image \X Nat
      OBVIOUS
    <3>3. <<v, 0>> # Erased
      BY <3>2, FlashAssumption
    <3> QED
      BY <1>4, <3>1, <3>3 DEF Holds
  <2>3. Sound(Default)
    BY <2>2 DEF Init, Sound, SoundIn, Default, NoBank
  <2>4. FirstCut
    BY <2>1 DEF Init, FirstCut
  <2> QED
    BY <1>1, <1>2, <1>3, <2>1, <2>3, <2>4 DEF OrderlyInv, SaveInv, SoundInv
<1>5. ASSUME NEW v \in Image, copyA = Installed(v),
             flash = [c \in Cells |->
                IF c \in AppBank..(AppBank + FwSize[v] - 1)
                  THEN <<v, c - AppBank>>
                ELSE IF c \in BackupBank..(BackupBank + FwSize[v] - 1)
                  THEN <<v, c - BackupBank>>
                ELSE Erased]
      PROVE  OrderlyInv
  <2>1. BS!Valid(copyA) /\ Stored = Installed(v)
    BY <1>5, ConstantTypes DEF BS!Valid, Stored, BS!Stored
  <2>2. ASSUME NEW i \in 0..(FwSize[v] - 1)
        PROVE  flash[AppBank + i] = <<v, i>>
    <3>1. /\ AppBank + i \in AppBank..(AppBank + FwSize[v] - 1)
          /\ AppBank + i \in Cells /\ (AppBank + i) - AppBank = i
      BY ConstantTypes, FlashAssumption DEF Cells
    <3> QED
      BY <1>5, <3>1
  <2>3. CrcMatches(flash, AppBank, FwSize[v], v)
    BY <2>2 DEF CrcMatches, Holds
  <2>4. FwSize[v] # 0
    BY ConstantTypes
  <2>5. Sound(Installed(v))
    BY <2>3, <2>4 DEF Sound, SoundIn, Installed, Of
  <2>6. FirstCut
    BY <2>1 DEF Init, FirstCut
  <2> QED
    BY <1>1, <1>2, <1>3, <2>1, <2>5, <2>6 DEF OrderlyInv, SaveInv, SoundInv
<1> QED
  BY <1>4, <1>5 DEF Init
-----------------------------------------------------------------------------
(* The image that the boot loader starts by sound settings.                *)
BootsBy(s) == IF s.backup.active THEN s.backup.crc
              ELSE IF s.app.size # 0 THEN s.app.crc
              ELSE None

(* With sound settings every record names what boots: no check can fail.   *)
LEMMA BootsOfSound ==
    OrderlyInv => Boots = BootsBy(Coming) /\ Boots \in Image \cup {None}
<1> SUFFICES ASSUME OrderlyInv
             PROVE  Boots = BootsBy(Coming) /\ Boots \in Image \cup {None}
  OBVIOUS
<1> DEFINE s == Coming
<1>1. Sound(s) /\ s.backup.active \in BOOLEAN
  BY ComingType DEF OrderlyInv, SoundInv, Setting, Bank
<1> HIDE DEF s
<1>2. ~s.boot_mode
  BY <1>1 DEF Sound, SoundIn
<1>3. CASE s.backup.active
  <2>1. s.backup.crc \in Image
    BY <1>1, <1>3 DEF Sound, SoundIn, CrcMatches
  <2>2. ~TakesApp(s) /\ TakesBackup(s)
    BY <1>1, <1>3 DEF Sound, SoundIn, TakesApp, TakesBackup, BackupIntact
  <2> QED
    BY <1>3, <2>1, <2>2 DEF Boots, BootsBy, s
<1>4. CASE ~s.backup.active /\ s.app.size # 0
  <2>1. s.app.crc \in Image
    BY <1>1, <1>4 DEF Sound, SoundIn, CrcMatches
  <2>2. TakesApp(s) /\ ~TakesBackup(s)
    BY <1>1, <1>4 DEF Sound, SoundIn, TakesApp, AppIntact, TakesBackup
  <2> QED
    BY <1>4, <2>1, <2>2 DEF Boots, BootsBy, s
<1>5. CASE ~s.backup.active /\ s.app.size = 0
  <2>1. ~TakesApp(s) /\ ~TakesBackup(s)
    BY <1>1, <1>5
    DEF Sound, SoundIn, TakesApp, AppIntact, TakesBackup
  <2> QED
    BY <1>5, <2>1 DEF Boots, BootsBy, s
<1> QED
  BY <1>3, <1>4, <1>5

(* The same after a step.                                                  *)
LEMMA BootsOfSoundNext ==
    OrderlyInv' => /\ Boots' = BootsBy(Coming')
                   /\ Boots' \in Image \cup {None}
<1>1. (OrderlyInv => Boots = BootsBy(Coming) /\ Boots \in Image \cup {None})'
  BY BootsOfSound, PTL
<1> QED
  BY <1>1 DEF BootsBy

(* What FirmwareUpdate sees of the program and of the request.             *)
Running == IF run = "app" THEN ram ELSE None
Asked == IF Updating THEN info.backup.crc ELSE None

(* Saving makes the new image the one that boots in one of its steps.      *)
LEMMA SavedBoots ==
    ASSUME OrderlyInv, OrderlyInv', pc \in SavePcs, step # "idle",
           Coming' = Coming \/ (p_info # None /\ Coming' = p_info),
           pc' = "default" => Coming' = Default
    PROVE  \/ Boots' = Boots
           \/ pc = "update" /\ Boots' = Asked /\ Asked # None
<1>1. /\ Boots = BootsBy(Coming) /\ Boots' = BootsBy(Coming')
      /\ Boots' \in Image \cup {None}
  BY BootsOfSound, BootsOfSoundNext
<1>2. Purpose /\ info \in Setting \cup {None}
  BY DEF OrderlyInv, SaveInv, IInv, TypeOK
<1>3. CASE Coming' = Coming
  BY <1>1, <1>3
<1>4. CASE p_info # None /\ Coming' = p_info
  <2>1. CASE pc = "default"
    BY <1>1, <1>2, <1>4, <2>1 DEF Purpose
  <2>2. CASE pc = "update"
    <3>1. p_info = info /\ info.backup.active
      BY <1>2, <2>2 DEF Purpose
    <3>2. Boots' = info.backup.crc /\ Asked = info.backup.crc
      BY <1>1, <1>4, <2>2, <3>1 DEF BootsBy, Asked, Updating
    <3>3. Sound(info)
      BY <1>4, <3>1 DEF OrderlyInv, SoundInv
    <3>4. info.backup.crc \in Image
      BY <3>1, <3>3 DEF Sound, SoundIn, CrcMatches
    <3> QED
      BY <2>2, <3>2, <3>4, DfuAssumption
  <2>3. CASE pc = "copySave"
    <3>1. /\ p_info = Moved(info) /\ Coming \in {info, Moved(info)}
          /\ info.backup.active /\ info.backup.size # 0 /\ info \in Setting
      BY <1>2, <2>3 DEF Purpose, OrderlyInv, IInv, Shape
    <3>2. /\ Moved(info).app = info.backup /\ ~Moved(info).backup.active
      BY <3>1 DEF Moved, Setting, Bank
    <3>3. BootsBy(Moved(info)) = BootsBy(info)
      BY <3>1, <3>2 DEF BootsBy
    <3> QED
      BY <1>1, <1>4, <3>1, <3>3
  <2> QED
    BY <2>1, <2>2, <2>3 DEF SavePcs
<1> QED
  BY <1>3, <1>4

(* Where no record waits, an image in RAM is the one that boots.           *)
LEMMA RamBoots ==
    ASSUME OrderlyInv, pc \in {"startup", "idle"}, ~Coming.backup.active,
           ram # None \/ AppIntact(Coming)
    PROVE  ram = Boots /\ Boots # None
<1>1. Sound(Coming) /\ RamInv /\ Boots = BootsBy(Coming)
  BY BootsOfSound DEF OrderlyInv, SoundInv
<1>2. Coming.app.size # 0
  BY <1>1 DEF Sound, SoundIn, AppIntact
<1>3. CrcMatches(flash, AppBank, Coming.app.size, Coming.app.crc)
  BY <1>1, <1>2 DEF Sound, SoundIn
<1>4. /\ Coming.app.crc \in Image
      /\ Holds(flash, AppBank, Coming.app.crc)
  BY <1>2, <1>3 DEF CrcMatches
<1>5. ram = Coming.app.crc
  BY <1>1, <1>4 DEF RamInv, CopyingPcs, CopyPcs
<1> QED
  BY <1>1, <1>2, <1>4, <1>5, DfuAssumption DEF BootsBy

(* A quiet step runs that image, stops, answers the host or changes        *)
(* nothing that can be seen.                                               *)
LEMMA QuietMaps ==
    ASSUME OrderlyInv, OrderlyInv', OrderlyStep, Quiet
    PROVE  /\ Boots' = Boots
           /\ \/ Running' = Running /\ Asked' = Asked
              \/ Running' = None /\ Asked' = None
              \/ Boots # None /\ Running' = Boots /\ Asked' = Asked
              \/ Boots = Asked /\ Asked' = None /\ Running' = Running
<1>1. Coming' = Coming /\ Coming = Stored /\ p_info = None
  BY QuietEffect DEF OrderlyInv
<1>2. Boots' = Boots
  BY <1>1, BootsOfSound, BootsOfSoundNext
<1>3. /\ pc = "default" => info = None
      /\ pc' = "default" => FALSE
      /\ pc' # "update" /\ step = "idle"
  BY DEF OrderlyInv, SaveInv, Purpose, Quiet, SavePcs
<1>a. Asked' = None
  BY <1>3 DEF Asked, Updating
<1> SUFFICES \/ Running' = Running /\ Asked = None
             \/ Running' = None
             \/ Boots # None /\ Running' = Boots /\ Asked = None
             \/ Boots = Asked /\ Running' = Running
  BY <1>2, <1>a
<1>4. ASSUME UNCHANGED <<run, ram>>, pc # "update"
      PROVE  Running' = Running /\ Asked = None
  BY <1>3, <1>4 DEF Running, Asked, Updating
<1>5. ASSUME run' = "boot" PROVE Running' = None
  BY <1>5 DEF Running
<1>6. PowerOn \/ Reset \/ CopyReload => Running' = None
  BY <1>5 DEF PowerOn, Reset, CopyReload, Restart
<1>7. StartApp => Boots # None /\ Running' = Boots /\ Asked = None
  <2>1. SUFFICES ASSUME StartApp
                 PROVE  Boots # None /\ Running' = Boots /\ Asked = None
    OBVIOUS
  <2>2. /\ pc = "startup" /\ ~Coming.backup.active /\ AppIntact(Coming)
        /\ run' = "app" /\ ram' = ram
    BY <1>1, <2>1 DEF StartApp, TakesApp, Enter
  <2> QED
    BY <2>2, RamBoots DEF Running, Asked, Updating
<1>8. ASSUME Jump, run = "app" \/ ~Stored.backup.active
      PROVE  \/ Running' = Running /\ Asked = None
             \/ Boots # None /\ Running' = Boots /\ Asked = None
  <2>1. /\ pc = "idle" /\ ram # None /\ run' = "app" /\ ram' = ram
    BY <1>8 DEF Jump, Enter
  <2>2. Asked = None
    BY <2>1 DEF Asked, Updating
  <2>3. CASE run = "app"
    BY <2>1, <2>2, <2>3 DEF Running
  <2>4. CASE ~Stored.backup.active
    BY <1>1, <2>1, <2>2, <2>4, RamBoots DEF Running
  <2> QED
    BY <1>8, <2>3, <2>4
<1>9. UpdateSaved => Boots = Asked /\ Running' = Running
  <2>1. SUFFICES ASSUME UpdateSaved
                 PROVE  Boots = Asked /\ Running' = Running
    OBVIOUS
  <2>2. pc = "update" /\ step = "idle" /\ UNCHANGED <<run, ram>>
    BY <2>1 DEF UpdateSaved
  <2>3. Coming = info /\ info.backup.active
    BY <2>2 DEF OrderlyInv, SaveInv, Purpose
  <2>4. Boots = info.backup.crc
    BY <2>3, BootsOfSound DEF BootsBy
  <2> QED
    BY <2>2, <2>4 DEF Asked, Updating, Running
<1>10. StartMove \/ StayInBoot \/ DefaultsSaved
         => Running' = Running /\ Asked = None
  BY <1>4 DEF StartMove, StayInBoot, DefaultsSaved
<1>11. CopyErase \/ CopyWrite \/ CopyAgain \/ CopyGiveUp
         => Running' = Running /\ Asked = None
  BY <1>4 DEF CopyErase, CopyWrite, CopyAgain, CopyGiveUp, CopyDone
<1>12. PackErase \/ PackWrite \/ Finish
         => Running' = Running /\ Asked = None
  BY <1>4 DEF PackErase, PackWrite, Finish
<1>13. ASSUME NEW off, NEW data, Pack(off, data)
       PROVE  Running' = Running /\ Asked = None
  BY <1>4, <1>13 DEF Pack
<1>14. ASSUME NEW v, Start(v) PROVE Running' = Running /\ Asked = None
  BY <1>4, <1>14 DEF Start
<1>15. ~StartDefaults /\ ~CopyAccept /\ ~PowerCut /\ ~Save
  BY DEF Quiet, StartDefaults, CopyAccept, PowerCut, Save, SavePcs
<1>16. ASSUME NEW crc, Verify(crc) PROVE FALSE
  BY <1>16 DEF Verify, Update, Quiet, SavePcs
<1> QED
  BY ONLY OrderlyStep, <1>6, <1>7, <1>8, <1>9, <1>10, <1>11, <1>12, <1>13,
     <1>14, <1>15, <1>16
  DEF OrderlyStep, OrderlyHost, Device, Startup, Move

(* Every step of the device is one that FirmwareUpdate allows, or none.    *)
LEMMA StepMaps ==
    ASSUME MaxCuts <= 1, OrderlyInv, OrderlyInv', OrderlyStep
    PROVE  \/ FU!Next
           \/ Boots' = Boots /\ Running' = Running /\ Asked' = Asked
<1> USE DEF FU!Next, FU!Ask, FU!Install, FU!Answer, FU!Run, FU!Stop
<1>1. CASE Save
  <2>1. /\ Coming' = Coming \/ Coming' = p_info
        /\ p_info # None
    BY <1>1, SaveEffect DEF OrderlyInv, OrderlyStep
  <2>2. UNCHANGED <<run, ram, pc, info>> /\ pc \in SavePcs /\ step # "idle"
    BY <1>1, <2>1 DEF Save, volatile, OrderlyInv, IInv, TypeOK, BS!TypeOK
  <2>3. Running' = Running /\ Asked' = Asked
    BY <2>2 DEF Running, Asked, Updating
  <2>4. \/ Boots' = Boots
        \/ pc = "update" /\ Boots' = Asked /\ Asked # None
    <3>1. pc' = "default" => Coming' = Default
      BY DEF OrderlyInv, SaveInv, Purpose
    <3> QED
      BY <2>1, <2>2, <3>1, SavedBoots
  <2> QED
    BY <2>3, <2>4 DEF Running, Asked
<1>2. CASE PowerCut
  <2>1. /\ Coming' = Coming \/ (p_info # None /\ Coming' = p_info)
        /\ p_info' = None
    BY <1>2, CutEffect DEF OrderlyInv
  <2>2. Running' = None /\ Asked' = None
    BY <1>2 DEF PowerCut, Running, Asked, Updating
  <2>3. \/ Boots' = Boots
        \/ Boots' = Asked /\ Asked # None
    <3>1. CASE p_info = None
      BY <2>1, <3>1, BootsOfSound, BootsOfSoundNext
    <3>2. CASE p_info # None
      <4>1. pc \in SavePcs /\ step # "idle"
        BY <3>2 DEF OrderlyInv, SaveInv, Course, IInv, TypeOK, BS!TypeOK
      <4>2. pc' # "default"
        BY <1>2 DEF PowerCut
      <4> QED
        BY <2>1, <4>1, <4>2, SavedBoots
    <3> QED
      BY <3>1, <3>2
  <2> QED
    BY <2>2, <2>3 DEF Running, Asked
<1>3. CASE StartDefaults
  <2>1. /\ Coming' = Coming /\ UNCHANGED <<run, ram, info>>
        /\ pc = "startup" /\ pc' = "default" /\ info = None
    BY <1>3, DefaultsEffect
    DEF StartDefaults, volatile, OrderlyInv, SaveInv, Course
  <2>2. Boots' = Boots
    BY <2>1, BootsOfSound, BootsOfSoundNext
  <2> QED
    BY <2>1, <2>2 DEF Running, Asked, Updating
<1>4. CASE CopyAccept
  <2>1. /\ Coming' = Coming /\ UNCHANGED <<run, ram>>
        /\ pc = "copyWrite" /\ pc' = "copySave"
    BY <1>4, AcceptEffect DEF CopyAccept, CopyDone
  <2>2. Boots' = Boots
    BY <2>1, BootsOfSound, BootsOfSoundNext
  <2> QED
    BY <2>1, <2>2 DEF Running, Asked, Updating
<1>5. ASSUME NEW crc \in Image \cup {NoCrc}, Verify(crc), offset # 0
      PROVE  FU!Next
  <2>1. /\ Coming' = Coming /\ UNCHANGED <<run, ram>>
        /\ pc = "idle" /\ pc' = "update"
        /\ info'.backup.crc = crc /\ crc \in Image
    BY <1>5, VerifyEffect
  <2>2. Boots' = Boots
    BY <2>1, BootsOfSound, BootsOfSoundNext
  <2>3. Running' = Running /\ Asked = None /\ Asked' = crc
    BY <2>1 DEF Running, Asked, Updating
  <2> QED
    BY <2>1, <2>2, <2>3 DEF Running, Asked
<1>6. CASE Quiet
  <2>1. /\ Boots' = Boots
        /\ \/ Running' = Running /\ Asked' = Asked
           \/ Running' = None /\ Asked' = None
           \/ Boots # None /\ Running' = Boots /\ Asked' = Asked
           \/ Boots = Asked /\ Asked' = None /\ Running' = Running
    BY <1>6, QuietMaps
  <2> QED
    BY <2>1 DEF Running, Asked
<1> QED
  BY <1>1, <1>2, <1>3, <1>4, <1>5, <1>6, StepCases DEF OrderlyInv
-----------------------------------------------------------------------------
(* The other regime promises none of this.                                 *)
MCInv == regime = "orderly" => OrderlyInv

(* A step that changes nothing keeps the invariant.                        *)
LEMMA OrderlyStutter ==
    ASSUME ImagesFit, OrderlyInv, UNCHANGED vars PROVE OrderlyInv'
<1>1. IInv' /\ CopyInv' /\ RamInv'
  BY NextIInv, NextCopyInv, NextRamInv DEF OrderlyInv
<1>2. UNCHANGED <<copyA, copyB, step, p_info, cuts, pc, info, active, offset,
                  at, flash, ram>>
  BY DEF vars, settings, volatile
<1>3. Coming' = Coming /\ BS!Readable' = BS!Readable
  BY <1>2 DEF Coming, Stored, BS!Stored, BS!Readable
<1>4. Course' /\ FirstCut' /\ FirstPack' /\ SoundInv'
  BY <1>2, <1>3
  DEF OrderlyInv, SaveInv, Course, FirstCut, FirstPack, SoundInv, Sound
<1>5. Purpose'
  BY <1>2, <1>3 DEF OrderlyInv, SaveInv, Purpose
<1> QED
  BY <1>1, <1>4, <1>5 DEF OrderlyInv, SaveInv

(* The invariant holds throughout for the orderly host.                    *)
LEMMA NextMCInv ==
    ASSUME ImagesFit, AppAligned, MaxCuts <= 1
    PROVE  MCInv /\ [OrderlyNext \/ OddNext]_mcVars => MCInv'
<1> SUFFICES ASSUME MCInv, [OrderlyNext \/ OddNext]_mcVars,
                    regime' = "orderly"
             PROVE  OrderlyInv'
  BY DEF MCInv
<1>1. CASE OrderlyNext
  <2>1. OrderlyInv /\ Orderly!Next
    BY <1>1 DEF MCInv, OrderlyNext
  <2>2. OrderlyStep
    BY <2>1, OrderlyNextIsStep DEF OrderlyInv, IInv, TypeOK
  <2> QED
    BY <2>1, <2>2, NextOrderlyInv
<1>2. CASE OddNext
  BY <1>2 DEF OddNext
<1>3. CASE UNCHANGED mcVars
  BY <1>3, OrderlyStutter DEF MCInv, mcVars
<1> QED
  BY <1>1, <1>2, <1>3

(* Firmware updates are atomic: for an orderly host, and a supply that     *)
(* fails once at most, dfu_upgrade_verify, the saving of the settings and  *)
(* boot_move_backup_to_app can be seen from outside as one step from the   *)
(* old image to the new one.                                               *)
THEOREM UpdateIsAtomic ==
    ASSUME ImagesFit, AppAligned, MaxCuts <= 1
    PROVE  MCSpec => OrderlyImplementsFirmwareUpdate
<1>1. MCInit => MCInv /\ FWU!Init
  <2> SUFFICES ASSUME MCInit PROVE MCInv /\ FWU!Init
    OBVIOUS
  <2>1. OrderlyInv
    BY InitOrderlyInv DEF MCInit
  <2>2. Boots \in Image \cup {None}
    BY <2>1, BootsOfSound
  <2>3. run = "boot" /\ pc = "off"
    BY DEF MCInit, Init
  <2> QED
    BY <2>1, <2>2, <2>3 DEF MCInv, FWU!Init, Updating
<1>2. MCInv /\ MCInv' /\ [OrderlyNext \/ OddNext]_mcVars
        => [FWU!Next]_FWU!fuvars
  <2> SUFFICES ASSUME MCInv, MCInv', [OrderlyNext \/ OddNext]_mcVars
               PROVE  [FWU!Next]_FWU!fuvars
    OBVIOUS
  <2>1. CASE OrderlyNext
    <3>1. /\ OrderlyInv /\ OrderlyInv' /\ Orderly!Next
          /\ regime = "orderly" /\ regime' = "orderly"
      BY <2>1 DEF MCInv, OrderlyNext
    <3>2. OrderlyStep
      BY <3>1, OrderlyNextIsStep DEF OrderlyInv, IInv, TypeOK
    <3>3. \/ FU!Next
          \/ Boots' = Boots /\ Running' = Running /\ Asked' = Asked
      BY <3>1, <3>2, StepMaps
    <3> QED
      BY <3>1, <3>3
      DEF Running, Asked, FU!Next, FU!Ask, FU!Install, FU!Answer, FU!Run,
          FU!Stop, FWU!Next, FWU!Ask, FWU!Install, FWU!Answer, FWU!Run,
          FWU!Stop, FWU!fuvars
  <2>2. CASE OddNext
    BY <2>2 DEF OddNext, FWU!fuvars
  <2>3. CASE UNCHANGED mcVars
    <3>1. UNCHANGED <<regime, Boots, run, ram, pc, info>>
      <4>1. UNCHANGED <<copyA, copyB, p_info, flash, regime, run, ram, pc,
                        info>>
        BY <2>3 DEF mcVars, vars, settings, volatile
      <4> QED
        BY <4>1
        DEF Boots, Coming, Stored, BS!Stored, BS!Readable, TakesApp,
            TakesBackup, AppIntact, BackupIntact
    <3> QED
      BY <3>1 DEF FWU!fuvars, Updating
  <2> QED
    BY <2>1, <2>2, <2>3
<1> QED
  BY <1>1, <1>2, NextMCInv, PTL
  DEF MCSpec, OrderlyImplementsFirmwareUpdate, FWU!Spec
=============================================================================
