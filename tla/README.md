# Formal model of the CBU5000V210 SDK

TLA+ specifications of the parts of the SDK whose correctness depends on what
happens between two statements: power cuts in the middle of a flash update,
failing flash operations, interrupts that write what the main loop is about to
write, a bus that stops answering, a command frame with a byte missing, two
boards that have lost each other. Every definition is translated
from the C source; `PROJECT.json` ("map") names the lines.

## 1. The system

The SDK is firmware for a Cortex-M33 with a UWB transceiver: drivers and
middleware in `src/Components`, and example applications in `src/Examples` that
are the only callers of most of it. The processor executes from RAM; the boot
ROM loads a program from flash into RAM at power-up. There is one core; what is
concurrent is interrupts, FreeRTOS tasks, other boards on the air, and the
power supply.

| Component | State it keeps | Operations | Talks to | Hard behaviour | Correct when |
|---|---|---|---|---|---|
| Firmware update, `Midlayer/Dfu/dfu_handler.c` | two settings sectors, two firmware banks, `g_dfu_cfg`, `dfu_addr_offset`, `dfu_active_flag` | `dfu_boot_startup`, `dfu_upgrade_start/pack/verify/finish`, `dfu_jump_application`, `dfu_reset_chip`, `dfu_software_enter_bootmode` | flash driver; commands from UART or BLE | power cuts, failing flash, erase granularity, RAM copy of flash | an update is atomic; only a verified image runs |
| Calibration store, `Midlayer/Ftm/ftm_cal_nvm.c` | main and backup page, RAM copy | init, load, write of each field | flash driver; `ftm_handler` | power cuts, dropped status of flash operations | no record lost; OK means saved |
| Ranging examples, `uwb_ds_twr_initiator`, `uwb_ds_twr_responder` | main-loop state, interrupt flags, timer, time stamps | one case per state, 3 interrupts | each other over the air; radio framework | lost and foreign frames, timer against main loop, resets | distance from one exchange; neither board gets stuck |
| Phase-difference examples, `uwb_pdoa_initiator`, `uwb_pdoa_responder` | main-loop state, interrupt flags, count and container of impulse responses, started ports | one case per state, interrupts of radio and timer | each other over the air; radio framework | lost frames that carry no number, three ports of one receiver, a timer that breaks a series off | angles from one complete series; angles keep coming |
| Sleep, `SleepDeepSleep/CB_SleepDeepSleep.c`, and RC calibration, `System/CB_system.c` | calibration mode, ratio of the clocks, interrupt setting of the watchdog | start and stop a calibration, sleep, deep sleep | watchdog, whose interrupt is not maskable | the interrupt at any point of a sleep, counters that wrap, rounding | calibration survives a sleep; sleeps as long as asked |
| Command parser, `Cmdparser/cmd_parser_uart.c`, and DFU transport, `dfu_uart.c` | parser state, expected length, copy of the frame | poll, dispatch, respond, restart the receiver | UART receiver, `dfu_handler`, `ftm_handler`; a host that retries | lost and damaged bytes, an 8-bit counter, a receiver that is off while a command runs | runs the frame that was sent, once for a transmission; answers in the end; copies within its buffer |
| DFU transport over BLE, `dfu_blesvc.c` | none of its own | dispatch, respond | BLE library, `dfu_handler` | two tasks, one handler | - |
| Flash driver, `Midlayer/Flash/CB_flash.c` | identity and limits of the chip, timeout counters | init, elevate, erase and program in several sizes, read, lock, unlock | QSPI controller, chip | transfers that are not answered, nested timeouts, page wrap-around, protection left half-way | nothing outside the request changes; success means done; every call returns |
| Interrupt callback lists, `Application/AppSysIrqCallback.c` | linked list per interrupt, nodes on the heap | register, deregister, walk | every interrupt | list changed while it is walked, no memory | behaves as a set of callbacks; no node is lost |
| CLI example, `uwb_CLI` | execute flags of tasks, running flags of roles, interrupt flags | start and suspend commands, the task loop | callback lists, radio | commands and interrupts at any moment, late interrupts | no task meets callbacks or flags of another; every started task gets its turn |
| Factory commands, `ftm_handler.c`, `ftm_uwb_cal.c` | none of their own | measurements | radio, calibration store | - | - |
| Shared helpers, `NonLIB_sharedUtils.c` | a tick counter | delays, elapsed time, byte order | - | - | - |
| Radio framework and driver | registers, containers of time stamps and impulse responses | tx/rx start and end | interrupts | order of register accesses | - |
| Peripheral drivers, RTOS set-up, boards, peripheral examples | registers | register access | - | - | - |
| FreeRTOS, BLE host, CMSIS, libraries, tools | third-party or binary | | | | |

All but the last five rows and the BLE transport are modelled; of the radio
framework, what the ranging and phase-difference examples use of it is in their
models. `PROJECT.json` lists all of them, and under
"hazards" the lines at which this code can go wrong in a way a test would
hardly find.

## 2. The modules

### DurableRecord - what a record in two flash copies promises

An abstract specification. `rec` is what a load would return, `saving` the record
a save is writing, `safe` whether the copy that a load reads is a different one
from the copy that the next save destroys first. A save commits in one step; an
interrupted save leaves the old or the new record; a record can only be lost by
a save that goes on while `safe` is FALSE. The boot settings and the
calibration store are both shown to implement it, for their two different
write orders.

### BootSetting - the boot settings (`dfu_bootsetting_read`, `dfu_bootsetting_write`)

`copyA`, `copyB` are the sectors at BOOTSETTING_ADDR_A and _B, each holding a
record, nothing (`Blank`) or something whose CRC does not match (`Torn`).
`BeginWrite` is the call; `EraseB`, `WriteB`, `EraseA`, `WriteA` the four flash
operations in the order of the code; `PowerCut` ends the call between or inside
any of them; `Fault` makes one have no or half an effect while the code goes on,
as it does: it ors the statuses together and looks at none of them.
`ReadDefault` is the branch of the read that writes defaults back. The
refinement maps `rec` to what `dfu_bootsetting_read` would return, and `safe` to
"sector A is valid and sector B, once written, holds the record": sector B is
erased first, so a save that begins while only B is valid (after an earlier cut;
the read does not repair A) is not safe, and neither is one whose operation on B
failed unnoticed.

### DfuFlash, Dfu - firmware update and boot loader

`DfuFlash` has the banks, in cells of one pack, and `dfu_flash_erase_port`'s
arithmetic: `size/FLASH_SECTOR_SIZE + 1` sectors from the one the bank begins
in. The real backup bank begins in the middle of a sector (0x3E800), so the
banks share one; the model has the same layout. A CRC is the image it is the
CRC of.

`Dfu` composes the banks with `BootSetting` (by INSTANCE, over the same
variables) and follows `dfu_handler.c` one flash operation at a time:

| Actions | Code |
|---|---|
| PowerOn, Reset, Jump, Enter | boot ROM, `dfu_reset_chip`, `dfu_jump_application`, `boot_jumpAddress` |
| StartDefaults, StartApp, StartMove, StayInBoot | the branches of `dfu_boot_startup` |
| CopyErase, CopyWrite, CopyAccept, CopyAgain, CopyGiveUp, CopyReload | `boot_move_backup_to_app`, `boot_copy_firmware`, two attempts |
| Save, DefaultsSaved, UpdateSaved | the writes inside `dfu_bootsetting_read` and `_update` |
| Start, Pack, PackErase, PackWrite, Verify, Finish | the upload commands |
| SoftwareEnterBootmode | `dfu_software_enter_bootmode` |
| PowerCut, BankFault | supply and flash chip |

`ram` is the image in the RAM copy; `Reset` may or may not reload it (that is up
to the boot ROM), `cb_deep_sleep_control` does. `Lapses` says which of four odd
requests the host makes: a new upload over a verified one, a verify of nothing,
a jump while an upload waits, and the boot mode request.

`FirmwareUpdate` is the abstract specification: one image that a restart would
start, replaced in one step, and only that image ever runs.

### CalNvm - the calibration store

`main`, `backup`, `g_cal_nv_data` and the six steps of
`ftm_cal_nvm_storage_update`: erase, program and read back the backup page, then
the main page only if the backup's CRC is right. `Load` includes its fallback
(backup, else zeros that are saved). It implements `DurableRecord` with `safe`
being "the main page is valid".

### DsTwr - double-sided two-way ranging on two boards

The two programs are the same state machine with the roles of sender and
receiver exchanged, and the model is written that way: the state of a board is
`<<"start", m>>` or `<<"wait", m>>` for one of the six messages m, or Idle or
Terminate (EN_APP_STATE_DSTWR_RECEIVE_POLL of the responder and
EN_APP_STATE_DSTWR_TRANSMIT_POLL of the initiator are both `<<"start", "POLL">>`).

A case of the main loop takes two steps: test and effects, then `EndCase`, which
ends the transmission or reception and assigns the next state. Between them the
timer interrupt (`TimerIrq`) and frames can come; that is what the interrupt
writing `s_enAppDstwrState` is about. (The variable is not volatile; each
iteration is taken to read it anew. A compiler that kept it in a register would
never see the timeout.)

A time stamp is the identity of the frame it is the time of, so that "the
distance is right" becomes "both boards' stamps are of the same three frames".
The radio has states: scheduled (the absolute timer will start it; it may have
been missed), sending preamble, sending the rest, receiving. A receiver that is
on when the preamble ends receives the frame. A case of the main loop is short
compared with a preamble and with a scheduled delay (`Settled`); interrupts and
cases that fall into the same instant interleave freely. Time is in ticks of
each board's own, one at most apart; at `late` ticks a board is late with its
work. `Bounds` says which disturbances may come together.

### Pdoa - phase difference of arrival on two boards

The initiator sends SYNC until an ACK comes, waits 4 ms and sends six PDOA
frames; the responder takes the impulse response of five of them at each of
three antennas. State names are those of the code; cases take two steps and time
passes as in DsTwr.

| Actions | Code |
|---|---|
| SyncTransmit, SyncTransmitted, SyncReceive, SyncReceived, SyncTimedOut, IdleOver | the synchronization, the same on both boards with the roles exchanged |
| ResponderAwaited, PdoaTransmit, PdoaTransmitted, InitiatorTerminate | the initiator's series; the absolute timer starts the repetitions |
| PdoaPrepare, PdoaReceive, PdoaReceived, PdoaPostingProcessing, ResponderTerminate | the responder's series; `Reset` is app_pdoa_reset |
| TimerIrq | cb_timer_0_app_irq_callback, which ends a series after 10 ms |
| Scheduled, FrameBegins, SfdDetected, FrameSent, FrameDamaged, FrameMissed | the radio; the callbacks of SFD and end of frame |

`slots` is the container of impulse responses: which frame each was taken from.
`cir` is what a port of the receiver holds, `ports` which are started and not
ended, `sfdIrq` whose SFD interrupt is enabled. A frame carries a label (cycle,
and even or odd) that the code does not see. A frame comes to all ports that
listen or to none. Whether a port that was not ended takes part when the
receiver is switched on for another is not documented; `RunOn` is that choice.
The main loops keep up with the frames (`Settled`); `MaxLate` is 0 in the run.

### RcSleep - sleep on the RC clock, and its calibration

The sleep timer and the watchdog run on an RC clock. A calibration sets the
watchdog to an interval; its interrupt compares it with the cycle counter and
keeps the ratio if it is plausible. A sleep computes how many RC milliseconds to
set, disables the watchdog's interrupt, sleeps, and enables it again.

| Actions | Code |
|---|---|
| Start, Stop | `cb_system_rc_calibration`, `cb_system_start_periodic_rc_calibration`, `cb_system_stop_rc_calibration` |
| NMI | `NMI_Handler`, with `cb_rc_calibration_callback_handler` (`Calibrate`) |
| Sleep, AskRunning, SaveIrq, SetTime, WakeUp, ResumeIrq | `cb_sleep_control`, one access to the watchdog a step |
| DeepSleep, WakeFromDeep | `cb_deep_sleep_control`; the processor restarts |
| Tick | a millisecond of the RC clock (external) |

The interrupt is not maskable, so it comes before the next step of the program
when it is pending and enabled at the watchdog (`At`). A ratio is a pair of a
numerator and a denominator: the rounding of floats is left out. Watchdog and
cycle counter stand still in a sleep (`WdtRunInSleep` is 0).

### FrameParser - command frames over a UART

`cmd_parser_uart.c` and `dfu_uart.c` hold the same parser twice; the model is one.
A frame is marker, command, type, length, data and checksum. The receiver (DMA
into `uart_rxbuf`, at most `uartRxMaxBytes`) is `buf` and `rxOn`; the parser asks
how many bytes it has, copies `expected` of them and looks, and the only way it
can drop a byte is `cb_uart_rx_restart`, which drops all.

| Actions | Code |
|---|---|
| NothingReceived, MarkerMatches, NoMarker, ReadHeader, Accept, Reject | one round of the loop of `*_pooling_cmd`, by state |
| RunCommand, NotARequest | `*_process_buffer`, with the handler and its answer |
| Rearm | the end of `dfu_uart_polling`; in `ftm_uwb_cal.c` the caller does it |
| Send, Retry; Arrive, LoseByte, DamageByte | host and line (external) |

`inStep` and `fresh` are history: the receiver holds the current frame from its
first byte on; a first byte was sent since the last command. A damaged marker
or length byte is a lost frame as far as `inStep` goes.

### CallbackSet, IrqCallbacks, CliTasks - interrupts and the tasks of uwb_CLI

`IrqCallbacks` has the nodes of `AppSysIrqCallback.c` on a heap of a few, one write
of the main loop a step (`NewNode`, `LinkNext`, `LinkHead`; `Unlink`, `Free`), and an
interrupt that walks a list between any two. A freed node holds `Garbage`.
`CallbackSet` is the abstract specification: register adds to a set, deregister
removes, an interrupt runs the set. The refinement maps the set to what a walk
from the head would meet.

`CliTasks` uses sets for lists. `TaskHandler` goes through the tasks in `Order`; the
places of a task are its registration, the setting of its running flag (before
or after, by `FlagFirst`: `AppUwbRngAoa.c` differs from the others), its loop, the
removal of its callbacks, its reset and the switching off of the radio. Commands
arrive in the UART interrupt and interrupts of the radio once for every start of
it, between any two steps. `MCInterrupts` checks both modules in one run; they
share nothing, so a behaviour is one of the lists or one of the tasks.

### FlashDriver - erase, program and block protection

One transfer on the QSPI bus is a step. Every call unlocks the flash, works, and
locks it again (`phase`: unlock, work, lock, or abort for the lock of a failed
call); `pc` is the transfer that comes next.

| Actions | Code |
|---|---|
| Begin | the checks at the head of `cb_flash_erase_*`, `cb_flash_program_*` |
| Enable | `cb_flash_write_enable`, whose result no caller looks at |
| ReadStatus, WriteStatus | `cb_flash_read_status_reg1`, `cb_flash_block_protect` |
| SendProgram, SendErase | the command with its retries; `Chunk` is the cut at page boundaries |
| Poll | `cb_flash_wait_for_wip_clear` around `cb_flash_check_wip` |
| Supported, LockParams, ErasesPages | what `cb_flash_init` accepts, `cb_flash_block_protect_init`, the vendors with a page erase |
| ProtectionRight | the comparison under `bp_mask` in `cb_flash_block_protect` |
| InitDriver, Elevate | `cb_flash_init`, `cb_flash_enter_elevation`, `cb_flash_exit_elevation` |

A transfer can be heard by the chip and yet not answered. The unit of time is
one unanswered transfer, the 500 ms of `CB_qspi.c:30`: `Timeout` = 2 of them are
more than the 1000 ms of `CB_flash.c:23`. `waited` is the time of the loop that
runs; `opElapsed` is FLASH_timeoutElapsedCPUCycles, which two loops test without
writing it. The chip (write enable latch, busy, protection, wrap-around inside a
page) is modelled from how such chips behave. `mem` holds for each byte Erased,
Other, or the address the byte was meant for.

`id` is the chip on the board, its vendor and capacity. The driver accepts eight
combinations and has lock parameters for six of them (`LockParams`). For BOYA with
512 KB and PUYA with 1 MB `flash_bp_param` stays 0: under the mask 0 the
protection bits are always found right, so that unlock and lock return
EN_FLASH_SUCCESS and write nothing. Such a chip keeps the protection it came with
(`protected`, all or none, is any at the start), and one that is protected ignores
every erase and program of calls that return success. Nor does the lock of a failed
call poll it, as the write of the bits would, so the next call can begin
while an erase that was given up still goes on (`overtook`). `SuccessMeansDone` says
what success means for each kind of chip.

Above it, `DfuFlash` and `CalNvm` take a flash operation as one step that works,
fails (whether the caller sees it or not) or is cut short; that is what
`OthersUntouched` and `SuccessMeansDone` say of the driver on a chip with
lock parameters or without protection. On a protected chip without parameters every
operation fails unseen, more often than the faults that those modules count, and on
chips without a page erase so do the erases of the calibration store (items 20 and 21
of section 5).

## 3. What the runs check

| Run | Shows | Bounds |
|---|---|---|
| Records | types; both stores implement DurableRecord; a settings save in which one flash operation fails still leaves its record to be found; OK means that calibration data was saved | 3 settings, 4 calibration records (2 fields), 1 fault, 3 cuts: a cut, a cut in the write that follows, and one more |
| Dfu | with an orderly host: an update is atomic (refinement of FirmwareUpdate), an intact image waiting is installed and runs in the end. With odd requests and failing flash: types; the copy never destroys the backup; only a verified image is jumped to | 2 images of 2 and 3 cells, banks of 5 cells in sectors of 2; 1 cut, or 2 faults - as many as copying attempts - and all odd requests |
| DfuLargeImage (violation) | an image that reaches the sector before the shared one erases the backup | image of 4 cells |
| DsTwr | types; no start before the last end; boards that are alone measure the distance by the same exchange, and return to synchronization for ever | 1 loss or damage with 1 late tick, or 1 foreign frame, or 1 reset |
| DsTwrStuck (violation) | a frame arriving as the timer expires leaves the initiator waiting for ever | 1 loss, 1 foreign frame |
| Pdoa | types; angles come from one complete series of one cycle unless a board was reset, and from PDOA frames unless an ACK or a second PDOA frame was lost; one lost frame is made up for; the gain is automatic in the synchronization; angles from PDOA frames come for ever | 4 frames sent, 3 wanted; 2 losses or damages in all, of whichever frames, and 1 reset; ports that are not ended run on |
| RcSleep | types; the calibration goes on after a sleep exactly if it did before; the ratio is that of the clocks; a sleep within the timer is as long as asked | durations of 0 to 16, a timer that goes to 15; intervals of 2, 7 and 9 where the cycle counter wraps in 8; an RC clock whose millisecond is 0.8 of one |
| RcSleepLong (violation) | a sleep too long for the timer is masked to a short one when its value is rounded up | the same |
| FrameParser | types; what is copied fits; at most one command per transmission; a damaged frame seen from its beginning is not run; a request is answered in the end | bytes of 8 values, limit 7, 1 fault; frames without data, with one byte, with the marker value inside, and too long for the receiver |
| Interrupts | types; lists behave as sets under interrupts and no node is lost; no callback or flag passes from task to task; one run per start; every started task gets its turn | 2 interrupts, 2 callbacks, 2 nodes, 1 failed allocation; 4 tasks of 3 roles: of one packet, two of one role, and one that sets its flag before it registers |
| FlashDriver | types; nothing outside the request changes; what success means: done and protected on a chip with lock parameters; on one without, done if it is not protected and was not overtaken, and nothing if it is protected; old or new bytes if a write enable was given up on; every call returns | pages of 2 bytes, sectors of 2 pages, 3 sectors; 4 chips: with lock parameters, with and without a page erase, without lock parameters, and not known; 6 requests; 2 unanswered transfers in a row, any number in all |
| FlashHang (violation) | a call during whose polling the bus stops answering never returns | bus may fail for ever |

Bounds. Flash content matters only as "this record, another one, nothing,
torn", so two or three records and images suffice, and both sectors can be in
every combination. Bank and sector sizes are the smallest with the real layout:
an image that ends inside a sector, one that fills it, and a shared sector in
the middle. Two cuts are enough for a cut that meets the damage of another; the
third in Records leaves a cut for the recovery of that. Of the frame
parser the real sizes are 256 values, a buffer of 256 and a limit of 200; what
matters is their order (limit below buffer, a length byte that can announce more
than either). One fault on the line reaches each of its exceptions, since the
host goes on to send whole frames; a fault in a later frame meets the parser in
the states it has been in already. Two nodes are fewer than two callbacks in two
lists need, so the heap runs out as well as being returned. The requests of the
flash run start and end inside a page, cross pages and sectors, and leave the
chip's range; with three unanswered transfers in a row and slower erases the
calls still keep TypeOK and OthersUntouched, and with the former also SuccessMeansDone,
which is proved (section 4). The four chips are one of each kind that
`LockParams`, `ErasesPages` and `Supported` tell apart, but for one: no chip without lock
parameters lacks the page erase. The ranging
times keep the order of the real ones (10 ms for the acknowledgement and for the
whole exchange, 4 ms for the responder's restart, 500 and 498 ms per cycle,
1 ms waits): 5 and 5, 2, 6 and 5, 1. `cycle` is kept modulo 2 and tells a frame
from one of the cycle before or after. The times of Pdoa are those of the code
except for the idle times, 14 and 12 ms instead of 500 and 498; one frame more
is sent than is wanted, as in the code (6 and 5), so that one loss is made up for
and a reset in the series is not. Two losses are enough for
the timer to break off a series, and for a repeated SYNC after a lost ACK; the theorems
of section 4 hold for any number. The counters of RcSleep have the code's
order: the shortest count that is looked at is less than an interval, one interval
wraps the cycle counter, and the timer (4 bits for 20) is shorter than the longest
sleep on the fast clock, and longer than most.

Three runs hold two systems or two sets of bounds that share no step (`part` in
MCRecords and MCInterrupts, `regime` in MCUpdate): a behaviour is one or the
other, chosen at the start.

Fairness. `Dfu`: WF on the device's own steps - the processor executes while it
has power, power returns - and none on the host. `DsTwr`: WF on each board's main
loop (a bare `while(1)`), on its timer interrupt, on its radio and on time; none
on losses, resets or foreign frames. `Pdoa`: the same. `FrameParser`: WF on the parser's rounds and on
what follows them (the main loop of the boot loader, `dfu_uart_polling`), on the
bytes of the line and on the retry of the host, which is what a host that waits
for an answer does; none on faults, nor on new requests. `MCInterrupts`: WF on the main
loop, on each interrupt the radio was started for, and on the suspension of a
running role: without a user who suspends it, a role runs for ever and no other
task does. `FlashDriver`: WF on the driver's steps; a call runs to its end. Re-synchronization in bounded time is not
claimed: two boards whose timers keep coinciding unfavourably can exchange SYNC
frames that the other takes for POLL and FINAL for ever, a schedule that drifting
clocks break in practice and no fairness condition excludes. `SyncsAgainAlone` also
fails with a late tick and two disturbances (a loss and a reset, or two losses),
for the same reason as in DsTwrStuck: the frame that comes when the timer expires
is then a repeated SYNC, and 10 ms after the one before it is when the
responder's 10 ms timer expires.

Deadlock is checked in every run.

## 4. What is proved

TLAPS proves, for all values of the constants that satisfy the named
assumptions (`SettingAssumption`, `RecordAssumption`, `FlashAssumption`,
`DfuAssumption`, `WidthAssumption` and its neighbours in FrameParser,
`TasksAssumption`, `ListsAssumption`, `DriverAssumption`, `DsTwrAssumption`,
`NoneAssumption`, `PdoaAssumption`, `RcAssumption`, checked by TLC in the runs).
A theorem that needs more says so in its own ASSUME, and the text below says why.

*Records_proofs* (the two stores, as the run Records composes them)
- `StoreTypes`: MCSpec => []TypesOK, from `TypeCorrect` for the settings and the
  same for the calibration store.
- `Refinement`: with MaxFaults <= 1, Spec => ImplementsDurableRecord, for any
  number of cuts. The invariant is `OnCourse`: as long as no operation has
  failed, sector B is blank when it is programmed, holds the new record from
  then on, and sector A is blank when it is programmed. Each operation, and each
  failure of one, maps to a step of DurableRecord or a stutter.
- `OneFaultLosesNothing`: with MaxFaults <= 1, a write that returns has saved its
  record. The invariant `Recovers` adds to OnCourse that before the last
  operation B holds the record or A is ready for it.
- `OkMeansSavedAlways` and `CalKeepsItsRecord`: with MaxFaults <= 1, EN_CAL_OK means
  saved, and the calibration store implements DurableRecord. `CalOnCourse` says for
  each of the six steps what the page it is about to touch holds: a page is
  programmed blank unless an erase failed, what a check finds valid is the new
  record, and the main page is touched only when the backup holds it. With two
  faults the first theorem fails (item 7 of section 5).

*Dfu_proofs*
- `TypeCorrect`: Spec => []TypeOK. TypeOK is not inductive (a copy reads
  `info.backup.size`, a pack programs at `offset`); `IInv` adds `Shape`, where
  `info` is a record and how far `at` and `offset` can be.
- `CopyIsSafe`: Spec => []CopyNeedsGoodBackup, if every image's sectors end before
  the backup bank's first (`ImagesFit`; on the chip, images up to 0x38FFF bytes.
  DfuLargeImage shows that it is needed). `CopyInv` adds that the erasing never
  passes the last sector of the image; `BackupSpared` is the lemma that a flash
  unchanged from the backup bank on has the same backup.
- `OnlyVerifiedRuns`: Spec => JumpOnlyVerified. `RamInv`: an image intact in the
  application bank is the one in RAM, except the one that is being copied.
  It rests on an interrupted operation never completing an image.
- `UpdateIsAtomic`: MCSpec => OrderlyImplementsFirmwareUpdate, if besides `ImagesFit`
  the application bank begins where a sector does (`AppAligned`; APP_BANK_ADDRESS is
  0x5000) and MaxCuts <= 1, for any images, banks and records. `OrderlyInv` has two new
  parts. `SaveInv`: how far a save has got, which record it saves and why, and that
  until the supply has failed sector A is valid whenever B is erased. `SoundInv`: the
  record a restart would find, and the one being saved, are `Sound`, that is, an
  upload marked active is intact and the packs that still come lie behind it, and if
  none is, the application named is intact. `StepMaps` then sends each step to one of
  FirmwareUpdate or to none: Install is the erasing of sector A (of B, if A is
  not valid), Ask is dfu_upgrade_verify, Answer its return; the whole of
  boot_move_backup_to_app is a stutter. With a second cut it is false (item 5 of
  section 5).

*FrameParser_proofs*
- `ParserTypes`: Spec => []TypeOK, and `CopyAlwaysFits`: Spec => []CopyFits. The
  invariant adds to the types that the buffer keeps to the receiver's limit and that
  `expected` is 1 and the header size in the first two states. Only the
  length byte makes `expected` larger, and then ParserBusy needs as many bytes.
- `OneDamageDetected`: with MaxFaults <= 1, Spec => DamageDetected, for every width of
  a byte and all frames. `Held` is the invariant: in step, the buffer is a prefix of the
  frame as long as what the line has carried (or as the receiver stores), with at
  most one byte damaged, neither marker nor length. That a checksum shows one
  damaged byte is `OneByteShows`, about all partial sums of two sequences; the sums are
  a recursive function, and the induction over them takes the least index at
  which they would be wrong. Two damaged bytes can cancel out.
- `OneRunPerSend`: Spec /\ [][DamageMakesNoMarker]_vars => RunsOncePerSend, if no frame
  holds the marker value but in front. Bytes and answers may be lost, bytes
  damaged (not into a marker) and frames repeated without limit. `MarkerFree`: from
  the moment a command was run until a first byte is sent, the buffer holds no
  marker. Without the two conditions the rest of a frame can be a
  frame itself: then the property depends on the requests, and holds for those of the run.

*Interrupts_proofs* (the lists and the tasks, as the run Interrupts composes them)
- `TaskTypes`, `NoForeignCallback` (Spec => []OnlyOwnCallbacks), `NoStaleFlag`
  (Spec => []FlagsClearAtStart), `OneRunPerStart` (Spec => RunsOncePerStart), for any
  list of tasks. `TasksInv` has three parts: `Registrations`, what is registered is
  in the task's own list and, while it removes, still to be removed; `Flags`,
  whose flags may be set and when the radio may still set one; `Started`, an
  execute flag that TaskHandler has yet to look at was set after the task's
  last start.
- `InterruptTypes` (MCSpec => []TypesOK), `NothingLeaks` (MCSpec => []HeapBalanced) and
  `ListsImplementSets` (MCSpec => ListsAreSets, the refinement of CallbackSet), for any
  finite heap. The invariant `ListsInv`: the list of each entry is a sequence of
  distinct nodes that ends in Null (`IsList`), lists share no node, a node in no list
  is unused or in hand, and the node in hand links to the list it will be the head
  of. `LinksPast` is what unlinking does to a list; a walk of as many steps as there
  are nodes meets exactly the nodes of the sequence, by induction over the steps.

*DsTwr_proofs*
- `DsTwrTypes` (Spec => []TypeOK), for all times, bounds and disturbances.
- `EndsBeforeItStarts` (Spec => []RadioEnded). `Loc` says for each board what its radio
  may do in the state that its main loop is in or will be in after the case in progress:
  when it is ended, sends, or listens. The timer interrupt, which changes the state
  between two steps, leads to a state in which each of them is allowed.
- `DistanceIsOfOneExchange` (Spec => []DistanceFromOneExchange). `ExchangeInv` follows
  the exchange: for each stage of the initiator (`ToPoll`, `ToResponse`, `ToFinal`,
  `ToResult`, `HasResult`) it says which of its stages the responder can be in and
  which stamps are then of this exchange, as long as no foreign frame was taken.

*FlashDriver_proofs*
- `DriverTypes` (Spec => []TypeOK) and `OthersStayUntouched` (Spec => []OthersUntouched),
  for every chip, page size and request, whatever the bus loses (MayFailOn
  included). `DriverInv` adds `Running`: a call that runs was within the chip and has
  work left. `ChunkInPage` shows that a chunk ends in its page, so that the
  wrap-around of the chip never happens.
- `SuccessIsTrue` (Spec => []SuccessMeansDone) if the chip's longest operation is over
  within two unanswered transfers and within the driver's timeout (`ShortErases`;
  item 9 of section 5 is what happens otherwise), for any set of chips and any number of
  unanswered transfers. `DriverInv` has `OldOrNew`, that every byte is at all times as it
  was before the call or as it should be after it. `SuccessInv`: the chip is busy only
  while it is polled, or with an erase that a failing call leaves behind, unprotected,
  or, without lock parameters, for the next call to overtake (`Works`); a chip without
  parameters is never sent protection bits (`Bare`), so that whether it ignores what it
  is sent does not change (`Ignores`); and unless a write enable was given up on or the
  chip was overtaken, the flash holds the first `done` bytes of the request, or what it
  held before if it ignores them (`Expected`), and the latch is set when a command is
  sent.

*Pdoa_proofs*
- `PdoaTypes` (Spec => []TypeOK) and `GainIsAutomatic` (Spec => []AutomaticInSync),
  for all times, numbers of frames and disturbances. `PdoaInv` adds to the types
  `HasFrame`, a board that transmits has a frame to send, and `Fixed`, the
  gain is fixed only from the preparation of a series to its end, in the state and in
  the one that the case in progress will assign.
- The other three need main loops that keep up with the frames (MaxLate = 0: a
  millisecond passes only when both boards are at rest and no frame is on the air), and
  say so in their ASSUME. They rest on lemmas of one form: an *effect lemma* for each action
  (`SentEffect`, `EndCaseEffect`, ...) says for each board what the action
  reads and leaves, and each conjunct of an invariant has a lemma with one case per
  action (`NextHeard`, `NextSeriesInStep`, ...) that cites those. `Rules` is what both
  invariants use, as long as no board was reset: the moves each main loop makes
  (`MovesI`, `MovesR`), when a transmitter is on and with which frame (`TxRule`,
  `KindRule`), which ports listen (`RxRule`), where the initiator can be between SYNC
  and the responder's readiness (`AckRule`), and when the overall timer runs
  (`TimerRule`).
- `AnglesFromOneCycle` (Spec => []FromOneCycle), whatever is lost or damaged, for an
  initiator that idles for longer than the responder's timer runs
  (OverallTimeout + 1 < CycleTime["initiator"]: 10 and 500 ms in the code).
  `OneCycle` follows the impulse responses: `Heard` from the SYNC into the ports,
  `AnswerCir` through the ACK, and `SeriesCir` through the series, which has a
  cycle `c` that is the initiator's or, if that has ended, `Rests`: the initiator has
  idled for no longer than the timer of the responder has run, so the
  timer ends the series before a frame of the next cycle comes. `PortRule` is
  needed since only a frame that all three ports heard counts.
- `SeriesHasSpareFrame` (Spec => []FrameToSpare) and `AnglesFromPdoaFrames` (Spec =>
  []FromPdoaFrames), if there are as many repetitions as frames wanted
  (NumOfPackage <= RepeatedTx) and the wait before the first is shorter than the
  timer (TxStartWait + 1 < OverallTimeout: 4 and 10 ms). While no ACK and at most one
  PDOA frame is lost (`Undisturbed`) the boards stay `InStep`: an ACK on the air is
  received by an initiator that waits for it (`AckInStep`), the responder's ports are
  clean outside of a series and started in it (`PortsInStep`), the initiator
  is in its wait or its series while the responder is in its own (`OnSchedule`), and
  the frames counted and those lost are together at least those that have begun
  (`Gathered`), so that the last one wanted comes before the series ends and
  the timer never expires; `PdoaSlots` then says that each slot is of a PDOA frame.
  Without the exceptions TLC finds FromPdoaFrames violated by a lost ACK and by two
  lost PDOA frames (items 15 and 16 of section 5), and FromOneCycle by a reset of
  the initiator in its series.

*RcSleep_proofs*
- `CalibrationSurvivesSleep` (Spec => []CalibrationGoesOn), for all intervals, durations
  and clocks, whenever the interrupt comes. `IrqInv` says for each step of a sleep
  what the interrupt setting is and what `irqTemp` has of it.
- `NearestValue`: the value computed for the timer is the nearest there is, for every
  duration and ratio, if before rounding it is from 1 to the longest sleep. The
  last condition is what RcSleepLong shows to be missing in the code.
- `SleepTypes` (Spec => []TypeOK), for all constants.
- `RatioOfTheClocks` (Spec => []RatioIsTrue) and `SleepLastsAsAsked` (Spec =>
  []SleepsAsAsked) on an RC clock that is too fast by less than a third and not too
  slow, with ignored counts shorter than a quarter of the cycle counter (`FastClock`).
  `CountInv`: the cycle counter is what it was at the last interrupt, plus
  the time since, less its wraps, plus a carry of counts too short to be used. What
  other clocks do is item 19 of section 5.

Only model-checked: liveness (OrderlyInstallsOnReset, SyncsAgainAlone, AnglesForEver,
Answered, EveryTaskGetsItsTurn, CallReturns), which needs fairness and is beyond this
prover. Every invariant that a passing run checks is also the conclusion of a theorem.

## 5. Where the code and its documents disagree

Shown by a run:

1. `dfu_handler.c:202` - installing an image of 0x39000 bytes or more erases the
   start of the backup it is copied from (DfuLargeImage); APP_DFU.html:906 gives
   the application 230K.
2. initiator `AppUwbDstwr.c:346` - a timeout overwritten by the main loop; the cycle
   does not repeat (DsTwrStuck, APP_DSTWR.html:318).
3. `CB_flash.c:1470` - the loop of `cb_flash_check_wip` measures one counter and tests
   another; when the bus stops answering it does not end (FlashHang), while the
   comment at 344-347 promises a timeout.
4. `CB_SleepDeepSleep.c:147` - the value for the sleep timer is brought into range only
   if it is not rounded up; the mask at 170 keeps its low 20 bits. With a ratio of
   0.95 a sleep of 1000000 ms lasts about 4 s (RcSleepLong; ApiReference.html:1709
   says "for the specified duration").

Seen while modelling, without a run of their own:

5. `dfu_handler.c:355` - a settings write erases sector B even when it is the only
   valid copy; a cut, a write and a second cut lose both (that is why `safe` is
   needed in DurableRecord). APP_DFU.html:864 calls B the backup.
6. `dfu_handler.c:385` - the boot mode request saves 0, the value of a normal boot;
   APP_DFU.html:931 says 1 is "Stay at boot mode only".
7. `ftm_cal_nvm.c:157` - when erasing and programming the main page both fail
   silently, the CRC of the old record passes and EN_CAL_OK is returned though
   nothing was saved (line 122). With one fault OkMeansSaved holds.
8. A write enable that is given up on after its timeout is ignored by every caller,
   so a call can return EN_FLASH_SUCCESS with nothing programmed or the flash
   unprotected; the comment at `CB_flash.c:1485` says that the operation is
   confirmed "by checking the Write Enable Latch", which it is not.
   `SuccessMeansDone` has the exception.
9. An erase that takes longer than the timeout, with unanswered transfers while
   the failed call locks the flash, leaves the chip busy and unprotected. The
   next call finds it unprotected, its program is ignored by the busy chip, and it
   returns success. MaxBusy = 2 excludes it on a chip with lock parameters; with
   MaxBusy = 3 and MaxRun = 2 SuccessMeansDone fails there. On a chip without, MaxBusy = 2
   is enough, because the lock of the failed call does not wait for it;
   SuccessMeansDone has the exception (`overtook`).
10. A frame that announces more data than the receiver stores (200 bytes with
   header and checksum) stops the parser until a reset. APP_DFU.html:966 says
   "Max 256 Byte", the same table "MAX 128Byte" of data.
11. A frame that holds the marker value in its data and lost its beginning can be
   taken up at the inner marker; if the sizes agree unfavourably, every retry
   is dropped the same way. Answered excludes such frames.
12. A start command that comes while its task runs is dropped when the task
   returns (`TaskHandler.c:97`), and a suspend between the registration of a task
   and `AppUwbPdoa.c:237` is overwritten.
13. `AppUwbRngAoa.c:1217` registers the callbacks of RX1 and RX2 for the interrupt of
   RX0, unlike `AppUwbPdoa.c:675`.
14. The responder's timer interrupt does not note the state it interrupts, so its
   log names no stage (APP_DSTWR.html:317).
15. The responder of the phase-difference example waits for the SFD of any frame. When
   its ACK is lost the initiator repeats SYNC every 2 ms, five times within the
   10 ms of the series, and the angles are computed from those; APP_PDOA.html:298
   says "Receive the PDOA packets". FromPdoaFrames has the exception.
16. After a timeout app_pdoa_reset (responder `AppUwbPdoa.c:331`, "ensure propoer RX end
   upon abnormal condition") ends port 0 of three; ports 1 and 2 stay started. If they
   run on, the SYNC of the next cycle sets the flags of all three, and the first slot
   of the next series is filled from it. FromPdoaFrames has the exception of a
   second lost PDOA frame, which is what it takes for a timeout.
17. The same function clears the interrupt flags (327) before it ends the reception: an
   SFD in between leaves them set, and the first slot of the next series is filled
   without a frame.
18. The frames of the ranging example carry no address, so that a frame of other
   boards can be taken for POLL, RESPONSE or FINAL and its time goes into the distance
   (DistanceFromOneExchange has the exception).
19. On an RC clock that is slower than it should be by a factor r > 1, calibration
   intervals from 1/(r - 0.5) to 2/r turns of the cycle counter give a ratio that is
   wrong and yet plausible (`CB_system.c:998`, 1005). With intervals up to 10 ms a
   count can be too short to be looked at, and the next one spans two intervals; on
   a clock that is fast by more than a quarter the doubled ratio is kept.
20. `CB_flash.c:1658`, 1667 - `cb_flash_init` accepts a BOYA chip of 512 KB and a PUYA
   chip of 1 MB (416-438) and sets no lock parameters for them. Unlock and lock then
   compare 0 with 0 (1757) and return EN_FLASH_SUCCESS, "set/reset successful" in
   the comments at 1718 and 1815, with nothing written: a chip that is protected stays so
   and ignores every erase and program, all of which return success; one that is not
   is never protected. SuccessMeansDone says so of these chips.
   A calibration save over a valid record on a protected one reads that record back
   twice and returns EN_CAL_OK, as in item 7.
21. `ftm_cal_nvm.c:111` - the calibration store erases pages, which the driver refuses
   on MACRONIX and WINBOND chips (`CB_flash.c:88`, 104, 618); the store drops the result and
   programs over the old record. Its CRC then fails, the save returns EN_CAL_FAILED, and
   the backup page is lost.

## 6. What is not modelled, and why

- Contents of responses, logs, formatting; the values of CRCs (no two images
  have the same one) and of time stamps and distances.
- In the modelled parts: packs beyond the end of the bank, which the code does
  not refuse (`dfu_handler.c:600`) and which would need the settings in the same
  flash map; `dfu_jump_application` with an address that is not the application
  bank; two command channels at once, of which the BLE one is driven by a closed
  library; flash reads and the burst read mode, which change no content; the
  set-up of UART pins and baud rate.
- The state machine of the ranging and angle example (`AppUwbRngAoa.c`): the ranging
  exchange of DsTwr and the series of Pdoa one after the other. Its registration,
  suspension and reset are in CliTasks.
- Float rounding in the sleep and calibration arithmetic.
- Register-level drivers, signal processing and analogue measurements: no state
  of their own beyond the registers.
- Third-party code and binaries. Of the 206 thousand lines of source, the BLE host,
  FreeRTOS, CMSIS and the register definitions of the device are the greater part;
  the project models the vendor's own logic, so the share of all lines it
  covers stays small.

## 7. Plan

Order: what can destroy a device first (settings, update, flash driver), then
what can stop one (ranging, interrupts and tasks), then the channels that feed
them (frames). All of these are done. Next:

1. Proofs: the series of Pdoa with late main loops (MaxLate > 0), which need a bound on
   how far behind a board can be.
2. `DfuTasks`: UART and BLE tasks running `dfu_handler` at once: one responder, one
   offset, one active flag; composed with an abstract `Dfu`.
3. Packs beyond the bank: `DfuFlash` with the settings sectors in the same map.
4. `Elapsed`: time over a wrapping tick counter (pure operator, checked against
   integers).
5. The exchange of `AppUwbRngAoa.c`, out of the parts of DsTwr and Pdoa.
