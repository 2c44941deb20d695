-------------------------------- MODULE Dfu --------------------------------
(***************************************************************************)
(* Firmware update over the DFU commands of dfu_handler.c, and the boot    *)
(* loader's dfu_boot_startup.  A host uploads an image into the backup     *)
(* bank (start, pack, verify); verify marks it active in the boot          *)
(* settings; after a reset the boot loader copies it to the application    *)
(* bank, updates the settings and restarts into it.                        *)
(*                                                                         *)
(* The processor executes a copy of the application bank that the chip     *)
(* loads into RAM when it powers up or leaves deep sleep: ram is the image *)
(* in that copy.  The settings are those of module BootSetting.            *)
(***************************************************************************)
EXTENDS DfuFlash

CONSTANTS
    FwVersion,    \* the version of each image
    BootVersion,  \* BOOT_VERSION
    None,         \* no image, no record, nothing to program
    Blank, Torn,  \* as in BootSetting
    MaxCuts,      \* bound on power cuts
    MaxFaults,    \* bound on failing flash operations
    Lapses        \* which of the odd requests named below come in

VARIABLES
    flash,        \* the two banks
    copyA, copyB, step, p_info,  \* the settings, as in BootSetting
    ram,          \* the image in RAM
    run,          \* which program runs: "boot" or "app"
    pc,           \* where it is; "idle" between two commands
    info,         \* the settings that startup or update works on
    copy_repeat,  \* attempts left in boot_move_backup_to_app
    at,           \* the sector or cell the operation in progress has reached
    active,       \* dfu_active_flag
    offset,       \* dfu_addr_offset
    pend,         \* what dfu_upgrade_pack is about to program
    cuts, faults

settings == <<copyA, copyB, step, p_info>>
volatile == <<info, copy_repeat, at, active, offset, pend>>
vars == <<flash, settings, ram, run, pc, volatile, cuts, faults>>

Bank == [size : 0..BankCells, crc : Image \cup {NoCrc}, active : BOOLEAN]
NoBank == [size |-> 0, crc |-> NoCrc, active |-> FALSE]

(* bootsetting_info_t.  fw_start_addr and fw_load_addr are the constants   *)
(* AppBank and BackupBank in every record saved, 0 or AppBank in Default,  *)
(* so the code's test fw_start_addr >= 0x1000 adds nothing to size # 0;    *)
(* see StartMove for the one place where size is not tested.               *)
Setting == [boot_mode : BOOLEAN, app : Bank, backup : Bank]
Default == [boot_mode |-> FALSE, app |-> NoBank, backup |-> NoBank]

ASSUME DfuAssumption ==
    /\ FwVersion \in [Image -> Nat]
    /\ BootVersion \in Nat
    /\ None \notin Image
    /\ None \notin Cell
    /\ {Blank, Torn, None} \cap Setting = {}
    /\ Blank # Torn
    /\ MaxCuts \in Nat
    /\ MaxFaults \in Nat
    /\ Lapses \subseteq {"restart", "empty", "jump", "bootmode"}

BS == INSTANCE BootSetting

Stored == BS!Stored

CopyPcs == {"copyErase", "copyWrite"}
SavePcs == {"default", "update", "copySave"}

TypeOK == /\ flash \in [Cells -> Cell]
          /\ BS!TypeOK
          /\ ram \in Image \cup {None}
          /\ run \in {"boot", "app"}
          /\ pc \in {"off", "startup", "idle", "packErase", "packWrite"}
                    \cup CopyPcs \cup SavePcs
          /\ info \in Setting \cup {None}
          /\ copy_repeat \in 0..2
          /\ at \in Nat
          /\ active \in BOOLEAN
          /\ offset \in 0..BankCells
          /\ pend \in Cell \cup {None}

(* The images the chip can find when it loads the application bank.        *)
Loads(fl) == LET held == {v \in Image : Holds(fl, AppBank, v)}
             IN  IF held = {} THEN {None} ELSE held

(* A program starts: zero-initialised globals, locals of no call.          *)
ClearVolatile == /\ info' = None
                 /\ copy_repeat' = 0
                 /\ at' = 0
                 /\ active' = FALSE
                 /\ offset' = 0
                 /\ pend' = None

Of(v, act) == [size |-> FwSize[v], crc |-> v, active |-> act]
Installed(v) == [boot_mode |-> FALSE, app |-> Of(v, TRUE),
                 backup |-> Of(v, FALSE)]

(* A device fresh from production, or one that was switched off some time  *)
(* after v was installed.                                                  *)
Init == /\ \/ /\ flash = [c \in Cells |-> Erased]
              /\ copyA = Blank /\ copyB = Blank
           \/ \E v \in Image :
                 /\ flash = [c \in Cells |->
                       IF c \in AppBank..(AppBank + FwSize[v] - 1)
                         THEN <<v, c - AppBank>>
                       ELSE IF c \in BackupBank..(BackupBank + FwSize[v] - 1)
                         THEN <<v, c - BackupBank>>
                       ELSE Erased]
                 /\ copyA = Installed(v) /\ copyB = Installed(v)
        /\ step = "idle" /\ p_info = None
        /\ ram = None
        /\ run = "boot"
        /\ pc = "off"
        /\ info = None /\ copy_repeat = 0 /\ at = 0
        /\ active = FALSE /\ offset = 0 /\ pend = None
        /\ cuts = 0 /\ faults = 0
-----------------------------------------------------------------------------
(* Restarting.                                                             *)

Restart == /\ run' = "boot"
           /\ pc' = "startup"
           /\ ClearVolatile
           /\ UNCHANGED <<flash, settings, cuts, faults>>

PowerOn == /\ pc = "off"
           /\ ram' \in Loads(flash)
           /\ Restart

(* boot_jumpAddress: the image in RAM starts, with its own globals.        *)
Enter == /\ run' = "app"
         /\ pc' = "idle"
         /\ ClearVolatile
         /\ UNCHANGED <<flash, settings, ram, cuts, faults>>

(* dfu_reset_chip: NVIC_SystemReset.  Whether the chip reloads RAM then is *)
(* up to the boot ROM.                                                     *)
Reset == /\ pc = "idle"
         /\ ram' \in Loads(flash) \cup {ram}
         /\ Restart

(* dfu_jump_application, once there is an image to jump to.                *)
Jump == /\ pc = "idle"
        /\ ram # None
        /\ "jump" \in Lapses \/ run = "app" \/ ~Stored.backup.active
        /\ Enter
-----------------------------------------------------------------------------
(* dfu_boot_startup.                                                       *)

AppIntact(s) == /\ s.app.size # 0
                /\ CrcMatches(flash, AppBank, s.app.size, s.app.crc)

(* A variant of BackupIntact with a bug: the CRC is not checked.           *)
BackupAlwaysIntact(s) == s.backup.size \in Nat

BackupIntact(s) == CrcMatches(flash, BackupBank, s.backup.size, s.backup.crc)

(* The application is jumped to only when no upload is to be installed.    *)
TakesApp(s) == ~s.boot_mode /\ ~s.backup.active /\ AppIntact(s)

(* The backup bank is copied over it; an active one of size 0 as well.     *)
TakesBackup(s) == /\ ~s.boot_mode
                  /\ s.backup.active \/ (~AppIntact(s) /\ s.backup.size # 0)
                  /\ BackupIntact(s)

StartDefaults == /\ pc = "startup"
                 /\ BS!ReadDefault
                 /\ pc' = "default"
                 /\ UNCHANGED <<flash, ram, run, volatile>>

StartApp == /\ pc = "startup"
            /\ BS!Readable
            /\ TakesApp(Stored)
            /\ Enter

(* A variant of StartMove with a bug: one attempt too many.                *)
StartMoveThrice == /\ pc = "startup"
                   /\ BS!Readable
                   /\ TakesBackup(Stored)
                   /\ pc' = "copyErase"
                   /\ info' = Stored
                   /\ copy_repeat' = 3
                   /\ at' = FirstSector(AppBank)
                   /\ UNCHANGED <<flash, settings, ram, run, active, offset,
                                  pend, cuts, faults>>

StartMove == /\ pc = "startup"
             /\ BS!Readable
             /\ TakesBackup(Stored)
             /\ pc' = "copyErase"
             /\ info' = Stored
             /\ copy_repeat' = 2
             /\ at' = FirstSector(AppBank)
             /\ UNCHANGED <<flash, settings, ram, run, active, offset, pend,
                            cuts, faults>>

(* Otherwise the boot loader stays, and waits for commands.                *)
StayInBoot == /\ pc = "startup"
              /\ BS!Readable
              /\ ~TakesApp(Stored)
              /\ ~TakesBackup(Stored)
              /\ pc' = "idle"
              /\ UNCHANGED <<flash, settings, ram, run, volatile, cuts, faults>>
-----------------------------------------------------------------------------
(* boot_move_backup_to_app and boot_copy_firmware.                         *)

CopyErase == /\ pc = "copyErase"
             /\ flash' = EraseSector(flash, at)
             /\ IF at = LastSector(AppBank, info.backup.size)
                  THEN pc' = "copyWrite" /\ at' = 0
                  ELSE pc' = pc /\ at' = at + 1
             /\ UNCHANGED <<settings, ram, run, info, copy_repeat, active,
                            offset, pend, cuts, faults>>

CopyWrite == /\ pc = "copyWrite"
             /\ at < info.backup.size
             /\ flash' = ProgramCell(flash, AppBank + at,
                                     flash[BackupBank + at])
             /\ at' = at + 1
             /\ UNCHANGED <<settings, ram, run, pc, info, copy_repeat, active,
                            offset, pend, cuts, faults>>

CopyDone == /\ pc = "copyWrite"
            /\ at = info.backup.size

Copied == CrcMatches(flash, AppBank, info.backup.size, info.backup.crc)

(* A variant of CopyAccept with a bug: the upload stays active.            *)
CopyAcceptStaysActive ==
    /\ CopyDone
    /\ Copied
    /\ BS!BeginWrite([info EXCEPT !.app = info.backup, !.boot_mode = FALSE])
    /\ pc' = "copySave"
    /\ UNCHANGED <<flash, ram, run, volatile>>

CopyAccept == /\ CopyDone
              /\ Copied
              /\ BS!BeginWrite([info EXCEPT !.app = info.backup,
                                            !.backup.active = FALSE,
                                            !.boot_mode = FALSE])
              /\ pc' = "copySave"
              /\ UNCHANGED <<flash, ram, run, volatile>>

CopyAgain == /\ CopyDone
             /\ ~Copied
             /\ copy_repeat > 1
             /\ copy_repeat' = copy_repeat - 1
             /\ pc' = "copyErase"
             /\ at' = FirstSector(AppBank)
             /\ UNCHANGED <<flash, settings, ram, run, info, active, offset,
                            pend, cuts, faults>>

CopyGiveUp == /\ CopyDone
              /\ ~Copied
              /\ copy_repeat = 1
              /\ pc' = "idle"
              /\ info' = None
              /\ copy_repeat' = 0
              /\ at' = 0
              /\ UNCHANGED <<flash, settings, ram, run, active, offset, pend,
                             cuts, faults>>

(* A variant of CopyReload with a bug: a reset that does not reload RAM.   *)
CopyReset == /\ pc = "copySave"
             /\ step = "idle"
             /\ ram' = ram
             /\ Restart

(* cb_deep_sleep_control(10): reload from flash and reset.                 *)
CopyReload == /\ pc = "copySave"
              /\ step = "idle"
              /\ ram' \in Loads(flash)
              /\ Restart
-----------------------------------------------------------------------------
(* Saving settings: dfu_bootsetting_write, one flash operation a step.     *)

Save == /\ pc \in SavePcs
        /\ BS!WriteStep
        /\ UNCHANGED <<flash, ram, run, pc, volatile>>

(* dfu_bootsetting_read, then dfu_bootsetting_write of the changed record. *)
Update(s) == /\ info' = s
             /\ IF BS!Readable THEN BS!BeginWrite(s) /\ pc' = "update"
                               ELSE BS!ReadDefault /\ pc' = "default"

(* The defaults are written: startup ends, an update goes on.              *)
DefaultsSaved == /\ pc = "default"
                 /\ step = "idle"
                 /\ IF info = None
                      THEN pc' = "idle" /\ UNCHANGED <<settings, cuts, faults>>
                      ELSE pc' = "update" /\ BS!BeginWrite(info)
                 /\ UNCHANGED <<flash, ram, run, volatile>>

UpdateSaved == /\ pc = "update"
               /\ step = "idle"
               /\ pc' = "idle"
               /\ info' = None
               /\ UNCHANGED <<flash, settings, ram, run, copy_repeat, at,
                              active, offset, pend, cuts, faults>>

(* dfu_software_enter_bootmode, which an application may call.             *)
SoftwareEnterBootmode ==
    /\ pc = "idle"
    /\ run = "app"
    /\ "bootmode" \in Lapses
    /\ Update([Stored EXCEPT !.boot_mode = FALSE])
    /\ UNCHANGED <<flash, ram, run, copy_repeat, at, active, offset, pend>>
-----------------------------------------------------------------------------
(* The upload commands.  A command whose checks fail changes nothing, but  *)
(* for the erasing that a refused first pack does.                         *)

CurrentVersion == IF run = "boot" THEN BootVersion
                  ELSE IF ram = None THEN 0 ELSE FwVersion[ram]

(* dfu_upgrade_start.  A host without the lapse "restart" does not begin a *)
(* new upload while a verified one waits to be installed.                  *)
Start(version) == /\ pc = "idle"
                  /\ \/ "restart" \in Lapses
                     \/ ~(Stored.backup.active /\ BackupIntact(Stored))
                  /\ version >= CurrentVersion
                  /\ active' = TRUE
                  /\ offset' = 0
                  /\ UNCHANGED <<flash, settings, ram, run, pc, info,
                                 copy_repeat, at, pend, cuts, faults>>

(* dfu_upgrade_pack: data for cell `off' of the bank, or a pack refused    *)
(* for its length or its CRC (data = None).  Packs beyond the bank, which  *)
(* the code does not refuse, are left out: offset < BankCells.             *)
Pack(off, data) == /\ pc = "idle"
                   /\ active
                   /\ offset < BankCells
                   /\ pend' = IF off = offset THEN data ELSE None
                   /\ IF offset = 0
                        THEN pc' = "packErase" /\ at' = FirstSector(BackupBank)
                        ELSE pc' = "packWrite" /\ at' = 0
                   /\ UNCHANGED <<flash, settings, ram, run, info, copy_repeat,
                                  active, offset, cuts, faults>>

PackErase == /\ pc = "packErase"
             /\ flash' = EraseSector(flash, at)
             /\ IF at = LastSector(BackupBank, BankCells)
                  THEN pc' = "packWrite" /\ at' = 0
                  ELSE pc' = pc /\ at' = at + 1
             /\ UNCHANGED <<settings, ram, run, info, copy_repeat, active,
                            offset, pend, cuts, faults>>

PackWrite == /\ pc = "packWrite"
             /\ IF pend = None
                  THEN UNCHANGED <<flash, offset>>
                  ELSE /\ flash' = ProgramCell(flash, BackupBank + offset, pend)
                       /\ offset' = offset + 1
             /\ pend' = None
             /\ pc' = "idle"
             /\ UNCHANGED <<settings, ram, run, info, copy_repeat, at, active,
                            cuts, faults>>

(* dfu_upgrade_verify: when the CRC of what was uploaded is the host's,    *)
(* dfu_bootsetting_update.                                                 *)
Verify(crc) ==
    /\ pc = "idle"
    /\ active
    /\ CrcMatches(flash, BackupBank, offset, crc)
    /\ offset # 0 \/ "empty" \in Lapses
    /\ Update([Stored EXCEPT
                  !.boot_mode = FALSE,
                  !.backup = [size |-> offset, crc |-> crc, active |-> TRUE]])
    /\ UNCHANGED <<flash, ram, run, copy_repeat, at, active, offset, pend>>

(* dfu_upgrade_finish.                                                     *)
Finish == /\ pc = "idle"
          /\ active
          /\ active' = FALSE
          /\ UNCHANGED <<flash, settings, ram, run, pc, info, copy_repeat, at,
                         offset, pend, cuts, faults>>
-----------------------------------------------------------------------------
(* What the flash operation in progress, if any, leaves of the two banks   *)
(* when it does not run to its end.                                        *)
Touched == CASE pc \in {"copyErase", "packErase"} -> Sector(at)
             [] pc = "copyWrite" /\ at < info.backup.size -> {AppBank + at}
             [] pc = "packWrite" /\ pend # None -> {BackupBank + offset}
             [] OTHER -> {}

PowerCut == /\ pc # "off"
            /\ BS!PowerCut
            /\ flash' \in Disturbed(flash, Touched)
            /\ ram' = None
            /\ run' = "boot"
            /\ pc' = "off"
            /\ ClearVolatile

(* A flash operation on a bank fails.  dfu_flash_erase_port then gives up  *)
(* the sectors that follow; its callers, and those of                      *)
(* dfu_flash_write_port, go on.                                            *)
BankFault ==
    /\ Touched # {}
    /\ faults < MaxFaults
    /\ faults' = faults + 1
    /\ flash' \in Disturbed(flash, Touched)
    /\ CASE pc = "copyErase" -> /\ pc' = "copyWrite"
                                /\ at' = 0
                                /\ UNCHANGED <<offset, pend>>
         [] pc = "packErase" -> /\ pc' = "packWrite"
                                /\ at' = 0
                                /\ UNCHANGED <<offset, pend>>
         [] pc = "copyWrite" -> /\ at' = at + 1
                                /\ UNCHANGED <<pc, offset, pend>>
         [] pc = "packWrite" -> /\ pc' = "idle"
                                /\ offset' = offset + 1
                                /\ pend' = None
                                /\ UNCHANGED at
    /\ UNCHANGED <<settings, ram, run, info, copy_repeat, active, cuts>>
-----------------------------------------------------------------------------
Startup == StartDefaults \/ StartApp \/ StartMove \/ StayInBoot

Move == \/ CopyErase \/ CopyWrite
        \/ CopyAccept \/ CopyAgain \/ CopyGiveUp \/ CopyReload

Device == \/ PowerOn
          \/ Startup
          \/ Move
          \/ Save \/ DefaultsSaved \/ UpdateSaved
          \/ PackErase \/ PackWrite

Host == \/ Reset
        \/ Jump
        \/ SoftwareEnterBootmode
        \/ \E v \in Image : Start(FwVersion[v])
        \/ \E off \in 0..(BankCells - 1) :
              \E data \in {<<v, off>> : v \in {w \in Image : off < FwSize[w]}}
                         \cup {None} : Pack(off, data)
        \/ \E crc \in Image \cup {NoCrc} : Verify(crc)
        \/ Finish

Next == Device \/ Host \/ PowerCut \/ BankFault

Spec == Init /\ [][Next]_vars

(* The device runs on while it has power, and power always comes back; the *)
(* host owes nothing.                                                      *)
FairSpec == Spec /\ WF_vars(Device)
-----------------------------------------------------------------------------
(* The image the boot loader would start if the device were restarted now, *)
(* or, while the only valid copy of the settings is being rewritten, once  *)
(* that is done.  Default settings start none.                             *)
Coming == IF BS!Readable \/ p_info = None THEN Stored ELSE p_info

Boots == CASE TakesApp(Coming)    -> Coming.app.crc
           [] TakesBackup(Coming) -> Coming.backup.crc
           [] OTHER               -> None

Updating == pc = "update" \/ (pc = "default" /\ info # None)

FU == INSTANCE FirmwareUpdate
          WITH NoImage <- None, boots <- Boots,
               runs <- IF run = "app" THEN ram ELSE None,
               asked <- IF Updating THEN info.backup.crc ELSE None

(* An update is atomic (dfu_boot_startup, boot_move_backup_to_app,         *)
(* dfu_bootsetting_write): from the save in dfu_upgrade_verify on the      *)
(* device boots the new image, before it the old one, never none, whatever *)
(* the power does in between, and the program in RAM is that image.        *)
ImplementsFirmwareUpdate == FU!Spec

(* dfu_boot_startup jumps to the program in RAM having checked the one in  *)
(* flash: when it jumps, they are the same.                                *)
JumpOnlyVerified ==
    [][pc = "startup" /\ run' = "app" => ram = Stored.app.crc]_vars

(* boot_copy_firmware erases and reprograms the application bank out of    *)
(* the only intact copy of the image: the backup bank keeps it throughout. *)
CopyNeedsGoodBackup ==
    pc \in CopyPcs \/ pc = "copySave" =>
        CrcMatches(flash, BackupBank, info.backup.size, info.backup.crc)

(* When the boot loader starts with an intact image waiting, or with an    *)
(* intact application, that image runs in the end with no help from the    *)
(* host, even if the supply fails on the way.                              *)
InstallsOnReset ==
    \A v \in Image :
        pc \in {"off", "startup"} /\ Boots = v ~> run = "app" /\ ram = v
=============================================================================
