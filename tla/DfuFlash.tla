------------------------------ MODULE DfuFlash ------------------------------
(***************************************************************************)
(* The flash of a device with dfu_handler.c: the application bank at       *)
(* APP_BANK_ADDRESS and the backup bank at BACKUP_BANK_ADDRESS, in cells   *)
(* of one firmware pack.  A cell holds what a program operation can leave  *)
(* there: nothing, one cell of some firmware image, or neither.            *)
(*                                                                         *)
(* A CRC is abstracted to the image it is the CRC of: no two images, and   *)
(* no image and anything else, have the same CRC.                          *)
(***************************************************************************)
EXTENDS Integers

CONSTANTS
    Image,        \* the firmware images
    FwSize,       \* their sizes, in cells
    Erased,       \* the content of an erased cell
    Garbage,      \* a cell with some other content
    NoCrc,        \* the CRC of no data, 0
    SectorCells,  \* FLASH_SECTOR_SIZE
    AppBank,      \* APP_BANK_ADDRESS
    BackupBank,   \* BACKUP_BANK_ADDRESS
    BankCells     \* FIRMWARE_BANK_SIZE

ASSUME FlashAssumption ==
    /\ SectorCells \in Nat \ {0}
    /\ BankCells \in Nat \ {0}
    /\ AppBank \in Nat
    /\ BackupBank \in Nat
    /\ AppBank <= BackupBank
    /\ FwSize \in [Image -> 1..BankCells]
    /\ NoCrc \notin Image
    /\ {Erased, Garbage} \cap (Image \X Nat) = {}
    /\ Erased # Garbage

Cells == 0..(BackupBank + BankCells - 1)

Cell == {Erased, Garbage} \cup (Image \X (0..(BankCells - 1)))

(* The bank holds image v.                                                 *)
Holds(flash, bank, v) ==
    \A i \in 0..(FwSize[v] - 1) : flash[bank + i] = <<v, i>>

(* dfu_firmware_crc_check(bank, size) = crc.                               *)
CrcMatches(flash, bank, size, crc) ==
    \/ size = 0 /\ crc = NoCrc
    \/ crc \in Image /\ size = FwSize[crc] /\ Holds(flash, bank, crc)

(* The sectors that dfu_flash_erase_port(bank, size) erases, in order.  It *)
(* counts size/FLASH_SECTOR_SIZE + 1 sectors from the one bank lies in,    *)
(* also when bank is in the middle of a sector.                            *)
FirstSector(bank) == bank \div SectorCells

(* A variant of LastSector with a bug: one sector too many.                *)
LastSectorTooFar(bank, size) == FirstSector(bank) + size \div SectorCells + 1

LastSector(bank, size) == FirstSector(bank) + size \div SectorCells

Sector(s) == {c \in Cells : c \div SectorCells = s}

(* Programming clears bits only: over other data it leaves a mixture.      *)
Program(old, new) == CASE old = Erased -> new
                       [] old = new    -> new
                       [] new = Erased -> old
                       [] OTHER        -> Garbage

EraseSector(flash, s) ==
    [c \in Cells |-> IF c \in Sector(s) THEN Erased ELSE flash[c]]

ProgramCell(flash, c, new) == [flash EXCEPT ![c] = Program(@, new)]

(* The flash after an operation on these cells has begun but not ended.    *)
Disturbed(flash, cells) ==
    {[c \in Cells |-> IF c \in cells THEN d[c] ELSE flash[c]] :
        d \in {e \in [cells -> Cell] :
                   \A c \in cells : e[c] \in {flash[c], Erased, Garbage}}}
=============================================================================
