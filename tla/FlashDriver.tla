---------------------------- MODULE FlashDriver -----------------------------
(***************************************************************************)
(* The flash driver, Midlayer/Flash/CB_flash.c, one transfer on the QSPI   *)
(* bus at a time, with the flash chip and the bus it talks to.             *)
(*                                                                         *)
(* Every call that erases or programs has the same frame: take the block   *)
(* protection away, do the work in one or several chip operations, put the *)
(* protection back.  phase says which part runs ("abort" is the lock of a  *)
(* call that has failed), pc the transfer in it that is made next.         *)
(*                                                                         *)
(* Time is counted in transfers that the bus does not answer: each takes   *)
(* the 500 ms of DEF_QSPI_TIMEOUT_MS and a little more, and so, as an      *)
(* abstraction, does a poll that finds the chip busy.  Timeout of them are *)
(* more than DEF_FLASH_TIMEOUT_MS.  What a timeout counter holds beyond    *)
(* Timeout makes no difference and is not kept.                            *)
(***************************************************************************)
EXTENDS Integers

CONSTANTS
    PageSize,     \* DEF_FLASH_PAGE_SIZE, in bytes
    SectorSize,   \* DEF_FLASH_SECTOR_SIZE, also DEF_MAX_PROGRAM_SIZE
    Sectors,      \* the sectors of the chip
    Chips,        \* vendor and capacity of the chips that may be on the board
    Erased,       \* the content of an erased byte
    Other,        \* any other content than the byte meant for the address
    Timeout,      \* unanswered transfers in DEF_FLASH_TIMEOUT_MS
    MaxBusy,      \* bound: how long the chip erases; other operations take less
    MaxRun,       \* bound: transfers in a row that the bus does not answer
    MayFailOn,    \* whether it may fail for longer than that, even for ever
    Requests      \* the calls that are made

Addresses == 0..(Sectors * SectorSize - 1)

ASSUME DriverAssumption ==
    /\ PageSize \in Nat \ {0}
    /\ SectorSize \in Nat \ {0} /\ SectorSize % PageSize = 0
    /\ Sectors \in Nat \ {0}
    /\ Chips \subseteq STRING \X STRING
    /\ Timeout \in Nat \ {0}
    /\ MaxBusy \in Nat \ {0}
    /\ MaxRun \in Nat
    /\ MayFailOn \in BOOLEAN
    /\ {Erased, Other} \cap Nat = {}
    /\ Erased # Other
    /\ Requests \subseteq
         [op : {"by_addr", "page", "sector", "erase"}, addr : Nat, len : Nat]
    /\ \A r \in Requests :  \* the others are asked for by their number
          /\ r.op = "page" => r.addr % PageSize = 0
          /\ r.op = "sector" => r.addr % SectorSize = 0
          /\ r.op = "erase" => r.len > 0 /\ r.addr % r.len = 0

VARIABLES
    id,          \* the chip: its vendor and capacity, which never change
    mem,         \* the chip: Erased, Other or the address a byte is meant for
    wel,         \* the chip's write enable latch
    busy,        \* how much longer the chip reports write-in-progress
    protected,   \* the chip's block protection bits: all set, or none
    fails,       \* the transfers in a row that were not answered
    ready,       \* flashVendorID and flashCapacity are known
    elevated,    \* the lower limits are those of cb_flash_enter_elevation
    request,     \* the call that runs or that returned last
    result,      \* what it returned
    phase, pc,   \* where it is
    done,        \* bytesProgrammed
    waited,      \* time since the loop that runs was entered
    opElapsed,   \* FLASH_timeoutElapsedCPUCycles, which outlives its loop
    before,      \* history: mem when the call began
    gaveUp,      \* history: this call gave up on a write enable
    overtook     \* history: this call began while the chip was busy

chip == <<id, mem, wel, protected>>
place == <<phase, pc, result, done>>
past == <<before, gaveUp, overtook>>
vars == <<chip, busy, fails, ready, elevated, request, place, waited,
          opElapsed, past>>

-----------------------------------------------------------------------------
(* The chips.  Vendor and capacity are looked up one without the other.    *)
Supported ==
    {"BOYA", "PUYA", "MACRONIX", "WINBOND"} \X {"512KB", "1MB"}

(* The chips for which cb_flash_block_protect_init sets the mask and the   *)
(* values of the protection bits.  For the others the mask stays 0.        *)
LockParams == Supported \ {<<"BOYA", "512KB">>, <<"PUYA", "1MB">>}

(* The vendors with a command to erase a page.                             *)
ErasesPages == {"BOYA", "PUYA"}

-----------------------------------------------------------------------------
(* What the calls are asked for.                                           *)

(* The lower limits for a page or a byte.  Sectors and blocks start at 1   *)
(* with or without elevation.                                              *)
LowestByte == IF elevated THEN PageSize ELSE SectorSize

(* The limit checks.  program_by_addr lets a program end at the last byte. *)
Allowed(r) ==
    /\ ready
    /\ r.len > 0
    /\ r.addr + r.len - 1 \in Addresses
    /\ CASE r.op = "by_addr" -> r.addr >= LowestByte /\ r.len <= SectorSize
         [] r.op = "page"    -> r.addr >= LowestByte /\ r.len <= PageSize
         [] r.op = "sector"  -> r.addr >= SectorSize /\ r.len <= SectorSize
         [] r.op = "erase"   ->
              IF r.len = PageSize
              THEN r.addr >= LowestByte /\ id[1] \in ErasesPages
              ELSE r.addr >= r.len

RequestCells == request.addr..(request.addr + request.len - 1)

(* A variant of Chunk with a bug: a page from wherever it starts.          *)
ChunkAcrossPages(addr, left) == IF left > PageSize THEN PageSize ELSE left

(* The bytes of the next chip operation: up to the end of the page.        *)
Chunk(addr, left) ==
    LET inPage == PageSize - (addr % PageSize)
    IN  IF left > inPage THEN inPage ELSE left

OpAddr == request.addr + done
OpLen == IF request.op = "erase" THEN request.len
                                 ELSE Chunk(OpAddr, request.len - done)

(* program_by_addr makes all its chip operations under one unlock;         *)
(* program_sector calls program_page, which unlocks and locks each time.   *)
MoreInThisSession(n) == request.op = "by_addr" /\ n < request.len
MoreSessions(n) == request.op = "sector" /\ n < request.len

-----------------------------------------------------------------------------
(* The chip and the bus, neither of them in the repository.                *)

(* A transfer is heard by the chip, and answered by the QSPI controller's  *)
(* done flag, or not; the driver sees the flag.  Beyond MaxRun failures    *)
(* are not counted, only told one from the next.                           *)
Transfer(heard, answered) ==
    /\ answered => heard
    /\ ~answered => fails < MaxRun \/ MayFailOn
    /\ fails' = IF answered THEN 0 ELSE IF fails <= MaxRun THEN fails + 1 ELSE MaxRun

Less(n) == IF n > 0 THEN n - 1 ELSE 0

BusyAfter(answered) == busy' = IF answered THEN busy ELSE Less(busy)

(* A chip that is busy hears nothing but a read of its status.             *)
Latches(heard) == wel' = (wel \/ (heard /\ busy = 0))

Executes(heard) == heard /\ wel /\ busy = 0

(* An operation has begun.  The transfer that began it took its time too.  *)
Starts(most, answered) ==
    /\ wel' = FALSE
    /\ \E b \in 0..most : busy' = IF answered THEN b ELSE Less(b)

(* Programming clears bits.  Its data, a page at most, wraps round inside  *)
(* the page.                                                               *)
Programmed(old, new) == IF old \in {Erased, new} THEN new ELSE Other

WrappedTo(addr, i) == IF (addr % PageSize) + i < PageSize
                      THEN addr + i
                      ELSE addr + i - PageSize

AfterProgram(sent) ==
    [a \in Addresses |->
        IF \E i \in sent : WrappedTo(OpAddr, i) = a
        THEN LET i == CHOOSE i \in sent : WrappedTo(OpAddr, i) = a
             IN  Programmed(mem[a], OpAddr + i)
        ELSE mem[a]]

AfterErase ==
    [a \in Addresses |-> IF a \in RequestCells THEN Erased ELSE mem[a]]

-----------------------------------------------------------------------------
(* Where a call goes on.                                                   *)

TimedOut(t) == t >= Timeout

Later(t) == IF t < Timeout THEN t + 1 ELSE t

Goto(ph, c) == phase' = ph /\ pc' = c /\ UNCHANGED <<result, done>>

Return(r) == phase' = "none" /\ pc' = "idle" /\ result' = r /\ UNCHANGED done

(* cb_flash_block_protect returns, in cb_flash_unlock or cb_flash_lock.    *)
ProtectReturns(good) ==
    \/ /\ phase = "abort" \/ ~good
       /\ Return("failed")
    \/ /\ phase = "unlock" /\ good
       /\ Goto("work", "enable")
    \/ /\ phase = "lock" /\ good
       /\ IF MoreSessions(done) THEN Goto("unlock", "enable")
                              ELSE Return("success")

(* Variants of Counted with a bug: the length of a page whatever was sent, *)
(* and nothing.                                                            *)
CountedByPages == done + PageSize
CountedNot == done

(* bytesProgrammed after the chip operation that is being waited for.      *)
Counted == done + OpLen

(* A variant of WorkDone with a bug: the write enable outside the loop.    *)
WorkDoneEnabledOnce ==
    /\ done' = Counted
    /\ phase' = IF MoreInThisSession(done') THEN "work" ELSE "lock"
    /\ pc' = IF MoreInThisSession(done') THEN "send" ELSE "enable"
    /\ UNCHANGED result

(* The wait for write-in-progress is over.                                 *)
WorkDone ==
    /\ done' = Counted
    /\ phase' = IF MoreInThisSession(done') THEN "work" ELSE "lock"
    /\ pc' = "enable"
    /\ UNCHANGED result

WaitReturns(good) ==
    \/ phase # "work" /\ ProtectReturns(good)
    \/ phase = "work" /\ good /\ WorkDone
    \/ phase = "work" /\ ~good /\ Goto("abort", "enable")

(* The retry loops that measure and test FLASH_timeoutElapsedCPUCycles.    *)
Retry(answered, Passed, GivenUp) ==
    IF answered
    THEN Passed /\ waited' = 0 /\ UNCHANGED opElapsed
    ELSE /\ opElapsed' = Later(waited)
         /\ IF TimedOut(Later(waited))
            THEN GivenUp /\ waited' = 0
            ELSE waited' = Later(waited) /\ UNCHANGED place

-----------------------------------------------------------------------------
(* The transfers.                                                          *)

(* cb_flash_write_enable.  No caller looks at what it returns.             *)
Enable ==
    /\ pc = "enable"
    /\ \E heard, answered \in BOOLEAN :
          LET next == Goto(phase, IF phase = "work" THEN "send" ELSE "status")
          IN  /\ Transfer(heard, answered)
              /\ Latches(heard)
              /\ BusyAfter(answered)
              /\ Retry(answered, next, next)
              /\ gaveUp' = (gaveUp \/ (~answered /\ pc' # "enable"))
    /\ UNCHANGED <<id, mem, protected, ready, elevated, request, before,
                   overtook>>

(* The comparison of the protection bits with the value they should have,  *)
(* both under the mask: with the mask 0 there is nothing to be changed.    *)
ProtectionRight == id \in LockParams => protected = (phase # "unlock")

(* cb_flash_read_status_reg1, and what its caller makes of the bits.       *)
(* Its loop tests opElapsed, which it does not write.                      *)
ReadStatus ==
    /\ pc = "status"
    /\ \E answered \in BOOLEAN :
          /\ Transfer(answered, answered)
          /\ BusyAfter(answered)
          /\ IF answered
             THEN IF ProtectionRight
                  THEN ProtectReturns(TRUE)
                  ELSE Goto(phase, "protect")
             ELSE IF TimedOut(opElapsed)
                  THEN ProtectReturns(FALSE)
                  ELSE UNCHANGED place
    /\ UNCHANGED <<chip, ready, elevated, request, waited, opElapsed, past>>

(* The write of the protection bits.                                       *)
WriteStatus ==
    /\ pc = "protect"
    /\ \E heard, answered \in BOOLEAN :
          /\ Transfer(heard, answered)
          /\ IF Executes(heard)
             THEN Starts(1, answered) /\ protected' = (phase # "unlock")
             ELSE BusyAfter(answered) /\ UNCHANGED <<wel, protected>>
          /\ Retry(answered, Goto(phase, "poll"), ProtectReturns(FALSE))
    /\ UNCHANGED <<id, mem, ready, elevated, request, past>>

(* The program command with its data: one attempt.  Of a transfer that is  *)
(* broken off the chip may program any part.                               *)
SendProgram ==
    /\ pc = "send"
    /\ request.op # "erase"
    /\ \E heard, answered \in BOOLEAN, sent \in SUBSET (0..(OpLen - 1)) :
          /\ Transfer(heard, answered)
          /\ answered => sent = 0..(OpLen - 1)
          /\ IF Executes(heard) /\ ~protected
             THEN Starts(1, answered) /\ mem' = AfterProgram(sent)
             ELSE BusyAfter(answered) /\ UNCHANGED <<mem, wel>>
          /\ IF answered THEN Goto("work", "poll") ELSE Goto("abort", "enable")
    /\ waited' = 0
    /\ UNCHANGED <<id, protected, ready, elevated, request, opElapsed, past>>

(* The erase command, retried until it is answered or timed out.           *)
SendErase ==
    /\ pc = "send"
    /\ request.op = "erase"
    /\ \E heard, answered \in BOOLEAN :
          /\ Transfer(heard, answered)
          /\ IF Executes(heard) /\ ~protected
             THEN Starts(MaxBusy, answered) /\ mem' = AfterErase
             ELSE BusyAfter(answered) /\ UNCHANGED <<mem, wel>>
          /\ Retry(answered, Goto("work", "poll"), Goto("abort", "enable"))
    /\ UNCHANGED <<id, protected, ready, elevated, request, past>>

(* cb_flash_wait_for_wip_clear around cb_flash_check_wip.  The outer loop  *)
(* measures and tests its own time, after each check_wip that returns; the *)
(* inner one measures its own time and tests opElapsed.                    *)
Poll ==
    /\ pc = "poll"
    /\ \E answered \in BOOLEAN :
          LET clear == answered /\ busy = 0
              now   == IF clear THEN waited ELSE Later(waited)
              checked == answered \/ TimedOut(opElapsed)
          IN  /\ Transfer(answered, answered)
              /\ busy' = IF clear THEN busy ELSE Less(busy)
              /\ IF checked /\ (clear \/ TimedOut(now))
                 THEN WaitReturns(~TimedOut(now)) /\ waited' = 0
                 ELSE UNCHANGED place /\ waited' = now
    /\ UNCHANGED <<chip, ready, elevated, request, opElapsed, past>>

-----------------------------------------------------------------------------
(* The calls.                                                              *)

(* A call that does not pass the checks returns without a transfer.        *)
Begin(r) ==
    /\ pc = "idle"
    /\ request' = r
    /\ before' = mem
    /\ gaveUp' = FALSE
    /\ overtook' = (busy # 0)
    /\ done' = 0
    /\ IF Allowed(r)
       THEN phase' = "unlock" /\ pc' = "enable" /\ result' = "none"
       ELSE result' = "rejected" /\ UNCHANGED <<phase, pc>>
    /\ UNCHANGED <<chip, busy, fails, ready, elevated, waited, opElapsed>>

(* cb_flash_init forgets the chip before it asks for its identity, and     *)
(* sets the limits back only for a chip that it knows.                     *)
InitDriver ==
    /\ pc = "idle"
    /\ \E answered \in BOOLEAN :
          /\ Transfer(answered, answered)
          /\ ready' = (answered /\ id \in Supported)
          /\ elevated' = (elevated /\ ~ready')
          /\ BusyAfter(answered)
    /\ UNCHANGED <<chip, request, place, waited, opElapsed, past>>

(* cb_flash_enter_elevation and cb_flash_exit_elevation.                   *)
Elevate ==
    /\ pc = "idle"
    /\ elevated' \in BOOLEAN
    /\ UNCHANGED <<chip, busy, fails, ready, request, place, waited,
                   opElapsed, past>>

Init ==
    /\ id \in Chips
    /\ mem = [a \in Addresses |-> Erased]
    /\ wel = FALSE
    /\ busy = 0
    /\ protected \in BOOLEAN
    /\ fails = 0
    /\ ready = FALSE
    /\ elevated = FALSE
    /\ request \in Requests
    /\ result = "none"
    /\ phase = "none"
    /\ pc = "idle"
    /\ done = 0
    /\ waited = 0
    /\ opElapsed = 0
    /\ before = mem
    /\ gaveUp = FALSE
    /\ overtook = FALSE

Step == Enable \/ ReadStatus \/ WriteStatus \/ SendProgram \/ SendErase \/ Poll

Next ==
    \/ Step
    \/ \E r \in Requests : Begin(r)
    \/ InitDriver
    \/ Elevate

Spec == Init /\ [][Next]_vars

(* A call runs to its end: the driver is not interrupted for ever.         *)
FairSpec == Spec /\ WF_vars(Step)

-----------------------------------------------------------------------------
Contents == {Erased, Other} \cup Addresses

(* Types and ranges.  done stays within the request.                       *)
TypeOK ==
    /\ id \in Chips
    /\ mem \in [Addresses -> Contents]
    /\ before \in [Addresses -> Contents]
    /\ {wel, protected, ready, elevated, gaveUp, overtook} \subseteq BOOLEAN
    /\ busy \in 0..MaxBusy
    /\ fails \in 0..(MaxRun + 1)
    /\ request \in Requests
    /\ result \in {"none", "success", "failed", "rejected"}
    /\ phase \in {"none", "unlock", "work", "lock", "abort"}
    /\ pc \in {"idle", "enable", "status", "protect", "send", "poll"}
    /\ done \in 0..request.len
    /\ {waited, opElapsed} \subseteq 0..Timeout

(* Whatever the bus loses, and whether a call succeeds, fails or is still  *)
(* running, no byte outside the request changes.                           *)
OthersUntouched ==
    \A a \in Addresses \ RequestCells : mem[a] = before[a]

Wanted ==
    [a \in Addresses |->
        IF a \notin RequestCells THEN before[a]
        ELSE IF request.op = "erase" THEN Erased
        ELSE Programmed(before[a], a)]

(* A byte is as it was before the call, or as it should be after it.       *)
OldOrNew == \A a \in Addresses : mem[a] \in {before[a], Wanted[a]}

(* A chip whose protection the driver can change has the whole request and *)
(* is protected again.  One whose protection it cannot change has done all *)
(* of it if it is not protected, and nothing if it is.                     *)
Done ==
    IF id \in LockParams
    THEN mem = Wanted /\ protected
    ELSE ~overtook => mem = IF protected THEN before ELSE Wanted

(* What EN_FLASH_SUCCESS means.  No byte is half-programmed.  Where the    *)
(* driver has the protection bits of the chip, the whole request is in the *)
(* flash and the flash is protected again.  Where it has none, that is so  *)
(* of an unprotected chip only, not protected afterwards, and only if the  *)
(* call did not begin before the chip had finished an erase that an        *)
(* earlier call gave up; a protected chip has done nothing.  A call that   *)
(* gave up on a write enable, whose result the driver does not look at,    *)
(* promises only old or new bytes.                                         *)
SuccessMeansDone ==
    result = "success" => OldOrNew /\ (~gaveUp => Done)

(* Every call returns.                                                     *)
CallReturns == pc # "idle" ~> pc = "idle"
=============================================================================
