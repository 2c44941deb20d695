------------------------- MODULE FlashDriver_proofs -------------------------
(***************************************************************************)
(* That the flash driver never erases or programs a byte that it was not   *)
(* asked to, whatever the bus loses and however long the chip works, for   *)
(* every chip and every set of calls; and what a call that returns success *)
(* has done, while the chip's operations are short.                        *)
(***************************************************************************)
EXTENDS FlashDriver, TLAPS

(* A call that runs was allowed, has something left to do until its work   *)
(* is done, and sends only while it works.                                 *)
Running ==
    pc # "idle" =>
        /\ request.len > 0
        /\ request.addr + request.len - 1 \in Addresses
        /\ pc = "send" => phase = "work"
        /\ phase \in {"unlock", "work"} => done < request.len
        /\ request.op = "erase" /\ phase \in {"unlock", "work"} => done = 0

(* The part of TypeOK that is about the place of a call.                   *)
PlaceOK ==
    /\ result \in {"none", "success", "failed", "rejected"}
    /\ phase \in {"none", "unlock", "work", "lock", "abort"}
    /\ pc \in {"idle", "enable", "status", "protect", "send", "poll"}
    /\ done \in 0..request.len

DriverInv == TypeOK /\ Running /\ OthersUntouched /\ OldOrNew

-----------------------------------------------------------------------------
(* What a request is.                                                      *)
LEMMA RequestType ==
    ASSUME request \in Requests
    PROVE  /\ request.op \in {"by_addr", "page", "sector", "erase"}
           /\ request.addr \in Nat
           /\ request.len \in Nat
  BY DriverAssumption

(* A chunk has at least one byte, at most those left, and ends in its page.*)
LEMMA ChunkInPage ==
    ASSUME NEW addr \in Nat, NEW left \in Nat, left > 0
    PROVE  /\ Chunk(addr, left) \in 1..left
           /\ (addr % PageSize) + Chunk(addr, left) <= PageSize
           /\ addr % PageSize \in Nat
  <1>1. addr % PageSize \in 0..(PageSize - 1)
    BY DriverAssumption
  <1>2. QED
    BY <1>1, DriverAssumption DEF Chunk

(* So does the chip operation of a call that works.                        *)
LEMMA OperationType ==
    ASSUME TypeOK, Running, pc # "idle", phase = "work"
    PROVE  /\ OpLen \in 1..(request.len - done)
           /\ Counted \in 1..request.len
           /\ OpAddr \in Nat
  <1>1. /\ request.addr \in Nat
        /\ request.len \in Nat
        /\ done \in Nat
        /\ done < request.len
        /\ request.op = "erase" => done = 0
    BY RequestType DEF TypeOK, Running
  <1>2. Chunk(OpAddr, request.len - done) \in 1..(request.len - done)
    <2>1. OpAddr \in Nat /\ request.len - done \in Nat /\ request.len - done > 0
      BY <1>1 DEF OpAddr
    <2>2. QED
      BY <2>1, ChunkInPage
  <1>3. OpLen \in 1..(request.len - done)
    BY <1>1, <1>2 DEF OpLen
  <1>4. QED
    BY <1>1, <1>3 DEF Counted, OpAddr

-----------------------------------------------------------------------------
(* What the operators that move a call on leave behind.                    *)
LEMMA GotoKeeps ==
    ASSUME TypeOK, Running, pc # "idle", request' = request,
           NEW ph \in {"unlock", "work", "lock", "abort"},
           NEW c \in {"enable", "status", "protect", "send", "poll"},
           c = "send" => ph = "work",
           ph \in {"unlock", "work"} =>
               done < request.len /\ (request.op = "erase" => done = 0),
           Goto(ph, c)
    PROVE  PlaceOK' /\ Running'
  BY DEF TypeOK, Running, PlaceOK, Goto

LEMMA ReturnKeeps ==
    ASSUME TypeOK, request' = request,
           NEW r \in {"success", "failed"}, Return(r)
    PROVE  PlaceOK' /\ Running'
  BY DEF TypeOK, Running, PlaceOK, Return

LEMMA ProtectKeeps ==
    ASSUME TypeOK, Running, pc # "idle", request' = request,
           NEW good \in BOOLEAN, ProtectReturns(good)
    PROVE  PlaceOK' /\ Running'
  <1>1. CASE Return("failed") \/ Return("success")
    BY <1>1, ReturnKeeps
  <1>2. CASE phase = "unlock" /\ Goto("work", "enable")
    BY <1>2, GotoKeeps DEF Running
  <1>3. CASE MoreSessions(done) /\ Goto("unlock", "enable")
    BY <1>3, GotoKeeps DEF MoreSessions
  <1>4. QED
    BY <1>1, <1>2, <1>3 DEF ProtectReturns

LEMMA WorkDoneKeeps ==
    ASSUME TypeOK, Running, pc # "idle", phase = "work", request' = request,
           WorkDone
    PROVE  PlaceOK' /\ Running'
  <1>1. Counted \in 1..request.len
    BY OperationType
  <1>2. request.len \in Nat
    BY RequestType DEF TypeOK
  <1>3. phase' = "work" => done' < request.len /\ request.op # "erase"
    BY <1>1 DEF WorkDone, MoreInThisSession
  <1>4. QED
    BY <1>1, <1>2, <1>3 DEF TypeOK, Running, PlaceOK, WorkDone

LEMMA WaitKeeps ==
    ASSUME TypeOK, Running, pc # "idle", request' = request,
           NEW good \in BOOLEAN, WaitReturns(good)
    PROVE  PlaceOK' /\ Running'
  <1>1. CASE phase # "work" /\ ProtectReturns(good)
    BY <1>1, ProtectKeeps
  <1>2. CASE phase = "work" /\ WorkDone
    BY <1>2, WorkDoneKeeps
  <1>3. CASE Goto("abort", "enable")
    BY <1>3, GotoKeeps
  <1>4. QED
    BY <1>1, <1>2, <1>3 DEF WaitReturns

LEMMA PlaceStays ==
    ASSUME TypeOK, Running, request' = request, UNCHANGED place
    PROVE  PlaceOK' /\ Running'
  BY DEF TypeOK, Running, PlaceOK, place

(* The place of a call after any step of it.                               *)
LEMMA StepPlace ==
    ASSUME TypeOK, Running, Step
    PROVE  PlaceOK' /\ Running'
  <1>0. request' = request /\ pc # "idle"
    BY DEF Step, Enable, ReadStatus, WriteStatus, SendProgram, SendErase, Poll
  <1>1. CASE Enable
    <2>1. \/ Goto(phase, IF phase = "work" THEN "send" ELSE "status")
          \/ UNCHANGED place
      BY <1>1 DEF Enable, Retry
    <2>2. CASE Goto(phase, IF phase = "work" THEN "send" ELSE "status")
      BY <1>0, <2>2, RequestType DEF TypeOK, Running, PlaceOK, Goto
    <2>3. QED
      BY <1>0, <2>1, <2>2, PlaceStays
  <1>2. CASE ReadStatus
    <2>1. \/ \E good \in BOOLEAN : ProtectReturns(good)
          \/ Goto(phase, "protect")
          \/ UNCHANGED place
      BY <1>2 DEF ReadStatus
    <2>2. CASE \E good \in BOOLEAN : ProtectReturns(good)
      BY <1>0, <2>2, ProtectKeeps
    <2>3. CASE Goto(phase, "protect")
      BY <1>0, <2>3, RequestType DEF TypeOK, Running, PlaceOK, Goto
    <2>4. CASE UNCHANGED place
      BY <1>0, <2>4, PlaceStays
    <2>5. QED
      BY <2>1, <2>2, <2>3, <2>4
  <1>3. CASE WriteStatus
    <2>1. Goto(phase, "poll") \/ ProtectReturns(FALSE) \/ UNCHANGED place
      BY <1>3 DEF WriteStatus, Retry
    <2>2. CASE Goto(phase, "poll")
      BY <1>0, <2>2, RequestType DEF TypeOK, Running, PlaceOK, Goto
    <2>3. CASE ProtectReturns(FALSE)
      BY <1>0, <2>3, ProtectKeeps
    <2>4. QED
      BY <1>0, <2>1, <2>2, <2>3, PlaceStays
  <1>4. ASSUME pc = "send",
               Goto("work", "poll") \/ Goto("abort", "enable")
        PROVE  PlaceOK' /\ Running'
    BY <1>0, <1>4, RequestType DEF TypeOK, Running, PlaceOK, Goto
  <1>5. CASE SendProgram
    BY <1>4, <1>5 DEF SendProgram
  <1>6. CASE SendErase
    <2>1. /\ pc = "send"
          /\ \/ Goto("work", "poll")
             \/ Goto("abort", "enable")
             \/ UNCHANGED place
      BY <1>6 DEF SendErase, Retry
    <2>2. QED
      BY <1>0, <1>4, <2>1, PlaceStays
  <1>7. CASE Poll
    <2>1. (\E good \in BOOLEAN : WaitReturns(good)) \/ UNCHANGED place
      BY <1>7 DEF Poll, TimedOut
    <2>2. QED
      BY <1>0, <2>1, WaitKeeps, PlaceStays
  <1>8. QED
    BY <1>1, <1>2, <1>3, <1>5, <1>6, <1>7 DEF Step

-----------------------------------------------------------------------------
(* The chip.  What a program operation writes, it writes to the addresses  *)
(* the bytes are meant for: a chunk does not reach the end of its page.    *)
LEMMA ProgramInRequest ==
    ASSUME TypeOK, Running, pc = "send", request.op # "erase",
           NEW sent \in SUBSET (0..(OpLen - 1))
    PROVE  /\ AfterProgram(sent) \in [Addresses -> Contents]
           /\ \A a \in Addresses \ RequestCells : AfterProgram(sent)[a] = mem[a]
           /\ \A a \in Addresses :
                 AfterProgram(sent)[a] \in {mem[a], Programmed(mem[a], a)}
  <1>1. /\ OpAddr = request.addr + done
        /\ OpAddr \in Nat
        /\ OpLen \in 1..(request.len - done)
        /\ OpLen = Chunk(OpAddr, request.len - done)
    BY OperationType DEF Running, OpAddr, OpLen
  <1>2. /\ request.addr \in Nat
        /\ request.len \in Nat
        /\ done \in 0..request.len
        /\ request.len - done > 0
        /\ request.addr + request.len - 1 \in Addresses
    BY RequestType DEF TypeOK, Running
  <1>3. (OpAddr % PageSize) + OpLen <= PageSize /\ OpAddr % PageSize \in Nat
    <2>1. request.len - done \in Nat
      BY <1>2
    <2>2. /\ (OpAddr % PageSize) + Chunk(OpAddr, request.len - done) <= PageSize
          /\ OpAddr % PageSize \in Nat
      BY <1>1, <1>2, <2>1, ChunkInPage
    <2>3. QED
      BY <1>1, <2>2
  <1>4. ASSUME NEW i \in sent
        PROVE  /\ WrappedTo(OpAddr, i) = OpAddr + i
               /\ OpAddr + i \in RequestCells
               /\ OpAddr + i \in Addresses
    <2>1. i \in Nat /\ i < OpLen
      BY <1>1, <1>2
    <2>2. WrappedTo(OpAddr, i) = OpAddr + i
      BY <1>1, <1>3, <2>1, DriverAssumption DEF WrappedTo
    <2>3. OpAddr + i \in RequestCells
      BY <1>1, <1>2, <2>1 DEF RequestCells
    <2>4. OpAddr + i \in Addresses
      BY <1>1, <1>2, <2>1, DriverAssumption DEF Addresses
    <2>5. QED
      BY <2>2, <2>3, <2>4
  <1>5. ASSUME NEW a \in Addresses
        PROVE  /\ AfterProgram(sent)[a] \in Contents
               /\ a \notin RequestCells => AfterProgram(sent)[a] = mem[a]
               /\ AfterProgram(sent)[a] \in {mem[a], Programmed(mem[a], a)}
    <2>1. CASE \E i \in sent : WrappedTo(OpAddr, i) = a
      <3>1. PICK i \in sent : i = CHOOSE j \in sent : WrappedTo(OpAddr, j) = a
        BY <2>1
      <3>2. WrappedTo(OpAddr, i) = a
        BY <2>1, <3>1
      <3>3. AfterProgram(sent)[a] = Programmed(mem[a], OpAddr + i)
        BY <2>1, <3>1 DEF AfterProgram
      <3>4. QED
        BY <1>4, <3>2, <3>3 DEF Programmed, Contents, TypeOK
    <2>2. CASE ~ \E i \in sent : WrappedTo(OpAddr, i) = a
      BY <2>2 DEF AfterProgram, TypeOK
    <2>3. QED
      BY <2>1, <2>2
  <1>6. AfterProgram(sent) = [a \in Addresses |-> AfterProgram(sent)[a]]
    BY DEF AfterProgram
  <1>7. QED
    BY <1>5, <1>6

(* An erase operation erases the unit that was asked for.                  *)
LEMMA EraseInRequest ==
    ASSUME TypeOK
    PROVE  /\ AfterErase \in [Addresses -> Contents]
           /\ \A a \in Addresses \ RequestCells : AfterErase[a] = mem[a]
  BY DEF AfterErase, TypeOK, Contents

(* To program or erase a byte again makes no difference.                   *)
LEMMA AgainIsOnce ==
    ASSUME NEW a \in Addresses, mem[a] \in {before[a], Wanted[a]}
    PROVE  /\ a \in RequestCells /\ request.op # "erase" =>
                 Programmed(mem[a], a) = Wanted[a]
           /\ AfterErase[a] \in {mem[a], Wanted[a]} \/ request.op # "erase"
  BY DriverAssumption DEF Programmed, Wanted, AfterErase

(* No step changes a byte that its call was not asked to, nor into         *)
(* anything that was not asked for.                                        *)
LEMMA StepMemory ==
    ASSUME DriverInv, Step
    PROVE  /\ mem' \in [Addresses -> Contents]
           /\ before' \in [Addresses -> Contents]
           /\ OthersUntouched'
           /\ OldOrNew'
  <1>1. /\ request' = request /\ before' = before
        /\ RequestCells' = RequestCells /\ Wanted' = Wanted
    BY DEF Step, Enable, ReadStatus, WriteStatus, SendProgram, SendErase, Poll,
           chip, past, RequestCells, Wanted
  <1>2. \/ mem' = mem
        \/ request.op = "erase" /\ mem' = AfterErase
        \/ /\ pc = "send"
           /\ request.op # "erase"
           /\ \E sent \in SUBSET (0..(OpLen - 1)) : mem' = AfterProgram(sent)
    BY DEF Step, Enable, ReadStatus, WriteStatus, SendProgram, SendErase, Poll,
           chip
  <1>3. /\ mem' \in [Addresses -> Contents]
        /\ \A a \in Addresses \ RequestCells : mem'[a] = mem[a]
    BY <1>2, ProgramInRequest, EraseInRequest DEF DriverInv, TypeOK
  <1>4. ASSUME NEW a \in Addresses
        PROVE  mem'[a] \in {before[a], Wanted[a]}
    <2>1. mem[a] \in {before[a], Wanted[a]}
      BY DEF DriverInv, OldOrNew
    <2>2. CASE mem'[a] = mem[a]
      BY <2>1, <2>2
    <2>3. CASE request.op = "erase" /\ mem' = AfterErase
      BY <2>1, <2>3, AgainIsOnce
    <2>4. CASE /\ pc = "send"
               /\ request.op # "erase"
               /\ \E sent \in SUBSET (0..(OpLen - 1)) : mem' = AfterProgram(sent)
      <3>1. mem'[a] \in {mem[a], Programmed(mem[a], a)}
        BY <2>4, ProgramInRequest DEF DriverInv
      <3>2. CASE a \in RequestCells
        BY <2>1, <2>4, <3>1, <3>2, AgainIsOnce
      <3>3. CASE a \notin RequestCells
        BY <1>3, <2>2, <3>3
      <3>4. QED
        BY <3>2, <3>3
    <2>5. QED
      BY <1>2, <2>2, <2>3, <2>4
  <1>5. QED
    BY <1>1, <1>3, <1>4 DEF DriverInv, TypeOK, OthersUntouched, OldOrNew

-----------------------------------------------------------------------------
(* The rest of TypeOK: the latches, the counters and the history.          *)
RestOK ==
    /\ id \in Chips
    /\ {wel, protected, ready, elevated, gaveUp, overtook} \subseteq BOOLEAN
    /\ busy \in 0..MaxBusy
    /\ fails \in 0..(MaxRun + 1)
    /\ request \in Requests
    /\ {waited, opElapsed} \subseteq 0..Timeout

LEMMA TransferKeeps ==
    ASSUME TypeOK, NEW heard, NEW answered, Transfer(heard, answered)
    PROVE  fails' \in 0..(MaxRun + 1)
  BY DriverAssumption DEF TypeOK, Transfer

LEMMA BusyKeeps ==
    ASSUME TypeOK, NEW answered,
           \/ BusyAfter(answered)
           \/ Starts(1, answered)
           \/ Starts(MaxBusy, answered)
           \/ busy' = busy
           \/ busy' = Less(busy)
    PROVE  busy' \in 0..MaxBusy
  BY DriverAssumption DEF TypeOK, BusyAfter, Starts, Less

LEMMA LaterType ==
    ASSUME TypeOK
    PROVE  Later(waited) \in 0..Timeout /\ 0 \in 0..Timeout
  BY DriverAssumption DEF TypeOK, Later

LEMMA StepRest ==
    ASSUME TypeOK, Step
    PROVE  RestOK'
  <1>1. /\ request' \in Requests
        /\ ready' \in BOOLEAN
        /\ elevated' \in BOOLEAN
    BY DEF Step, Enable, ReadStatus, WriteStatus, SendProgram, SendErase, Poll,
           TypeOK
  <1>2. gaveUp' \in BOOLEAN /\ overtook' \in BOOLEAN /\ id' \in Chips
    BY DEF Step, Enable, ReadStatus, WriteStatus, SendProgram, SendErase, Poll,
           TypeOK, chip, past
  <1>3. wel' \in BOOLEAN
    BY DEF Step, Enable, ReadStatus, WriteStatus, SendProgram, SendErase, Poll,
           TypeOK, Latches, Starts, chip
  <1>4. protected' \in BOOLEAN
    BY DEF Step, Enable, ReadStatus, WriteStatus, SendProgram, SendErase, Poll,
           TypeOK, chip
  <1>5. fails' \in 0..(MaxRun + 1)
    BY TransferKeeps
    DEF Step, Enable, ReadStatus, WriteStatus, SendProgram, SendErase, Poll
  <1>6. busy' \in 0..MaxBusy
    BY BusyKeeps
    DEF Step, Enable, ReadStatus, WriteStatus, SendProgram, SendErase, Poll
  <1>7. waited' \in 0..Timeout /\ opElapsed' \in 0..Timeout
    BY LaterType
    DEF Step, Enable, ReadStatus, WriteStatus, SendProgram, SendErase, Poll,
        TypeOK, Retry
  <1>8. QED
    BY <1>1, <1>2, <1>3, <1>4, <1>5, <1>6, <1>7 DEF RestOK

-----------------------------------------------------------------------------
(* The invariant.                                                          *)
LEMMA InitDriverInv == Init => DriverInv
  <1> SUFFICES ASSUME Init PROVE DriverInv
    OBVIOUS
  <1>1. request \in Requests /\ request.len \in Nat
    BY RequestType DEF Init
  <1>2. mem \in [Addresses -> Contents]
    BY DEF Init, Contents
  <1>3. PlaceOK
    BY <1>1 DEF Init, PlaceOK
  <1>4. RestOK
    <2>1. /\ {wel, protected, ready, elevated, gaveUp, overtook} \subseteq BOOLEAN
          /\ id \in Chips
      BY DEF Init
    <2>2. /\ busy \in 0..MaxBusy
          /\ fails \in 0..(MaxRun + 1)
          /\ waited \in 0..Timeout
          /\ opElapsed \in 0..Timeout
      BY DriverAssumption DEF Init
    <2>3. QED
      BY <1>1, <2>1, <2>2 DEF RestOK
  <1>5. TypeOK
    BY <1>2, <1>3, <1>4 DEF Init, TypeOK, PlaceOK, RestOK
  <1>6. QED
    BY <1>5 DEF Init, DriverInv, Running, OthersUntouched, OldOrNew

LEMMA StepDriverInv == DriverInv /\ Step => DriverInv'
  <1> SUFFICES ASSUME DriverInv, Step PROVE DriverInv'
    OBVIOUS
  <1>1. PlaceOK' /\ Running'
    BY StepPlace DEF DriverInv
  <1>2. RestOK'
    BY StepRest DEF DriverInv
  <1>3. QED
    BY <1>1, <1>2, StepMemory DEF DriverInv, TypeOK, PlaceOK, RestOK

LEMMA BeginDriverInv ==
    ASSUME DriverInv, NEW r \in Requests, Begin(r)
    PROVE  DriverInv'
  <1>1. r.len \in Nat
    BY DriverAssumption
  <1>2. PlaceOK' /\ Running'
    <2>1. request' = r /\ done' = 0 /\ 0 \in 0..r.len
      BY <1>1 DEF Begin
    <2>2. CASE Allowed(r)
      <3>1. /\ r.len > 0
            /\ r.addr + r.len - 1 \in Addresses
        BY <2>2 DEF Allowed
      <3>2. phase' = "unlock" /\ pc' = "enable" /\ result' = "none"
        BY <2>2 DEF Begin
      <3>3. QED
        BY <2>1, <3>1, <3>2 DEF PlaceOK, Running
    <2>3. CASE ~Allowed(r)
      <3>1. phase' = phase /\ pc' = "idle" /\ result' = "rejected"
        BY <2>3 DEF Begin
      <3>2. QED
        BY <2>1, <3>1 DEF DriverInv, TypeOK, PlaceOK, Running
    <2>4. QED
      BY <2>2, <2>3
  <1>3. /\ mem' \in [Addresses -> Contents]
        /\ before' \in [Addresses -> Contents]
        /\ OthersUntouched' /\ OldOrNew'
    BY DEF DriverInv, TypeOK, Begin, OthersUntouched, OldOrNew, chip
  <1>4. RestOK'
    BY DEF DriverInv, TypeOK, Begin, RestOK, chip
  <1>5. QED
    BY <1>2, <1>3, <1>4 DEF DriverInv, TypeOK, PlaceOK, RestOK

LEMMA OtherDriverInv ==
    ASSUME DriverInv, InitDriver \/ Elevate \/ UNCHANGED vars
    PROVE  DriverInv'
  <1>1. /\ UNCHANGED <<mem, before, request>>
        /\ UNCHANGED <<phase, pc, result, done, id, wel, protected, gaveUp>>
        /\ UNCHANGED <<waited, opElapsed, overtook>>
    BY DEF InitDriver, Elevate, vars, chip, place, past
  <1>2. RequestCells' = RequestCells /\ Wanted' = Wanted
    BY <1>1 DEF RequestCells, Wanted
  <1>3. ready' \in BOOLEAN /\ elevated' \in BOOLEAN
    BY DEF DriverInv, TypeOK, InitDriver, Elevate, vars
  <1>4. fails' \in 0..(MaxRun + 1)
    BY TransferKeeps DEF DriverInv, TypeOK, InitDriver, Elevate, vars
  <1>5. busy' \in 0..MaxBusy
    BY BusyKeeps DEF DriverInv, InitDriver, Elevate, vars
  <1>6. TypeOK'
    BY <1>1, <1>3, <1>4, <1>5 DEF DriverInv, TypeOK
  <1>7. QED
    BY <1>1, <1>2, <1>6 DEF DriverInv, Running, OthersUntouched, OldOrNew

LEMMA NextDriverInv == DriverInv /\ [Next]_vars => DriverInv'
  BY StepDriverInv, BeginDriverInv, OtherDriverInv DEF Next

LEMMA DriverInvariant == Spec => []DriverInv
  BY InitDriverInv, NextDriverInv, PTL DEF Spec

(* The driver's counters and its progress stay in their ranges.            *)
THEOREM DriverTypes == Spec => []TypeOK
  BY DriverInvariant, PTL DEF DriverInv

(* No call of cb_flash_program_... or cb_flash_erase_... changes a byte    *)
(* outside its request, whatever fails on the way.                         *)
THEOREM OthersStayUntouched == Spec => []OthersUntouched
  BY DriverInvariant, PTL DEF DriverInv

-----------------------------------------------------------------------------
(* What success means.                                                     *)

(* The chip's longest operation is over within two transfers that are not  *)
(* answered, which is within the driver's own timeout.  One that takes     *)
(* longer can outlast the call that began it.                              *)
ShortErases == MaxBusy <= 2 /\ MaxBusy <= Timeout

(* The chip works only while the driver polls it, and otherwise on an      *)
(* erase that is retried or was given up: then it is not protected, so     *)
(* that the lock of the failed call goes on to poll it.  The lock of a     *)
(* chip without lock parameters does not, and the next call can begin.     *)
Works ==
    /\ id \in LockParams => ~overtook
    /\ IF pc = "poll" THEN busy <= Timeout - waited
       ELSE /\ busy <= 1
            /\ busy # 0 =>
                  \/ /\ id \notin LockParams
                     /\ phase \in {"none", "abort"} \/ overtook
                  \/ ~protected /\ phase = "abort"
                  \/ ~protected /\ phase = "work" /\ pc = "send"
                     /\ request.op = "erase"

(* Such a chip is never sent protection bits, and none are waited for.     *)
Bare ==
    id \notin LockParams =>
        pc # "protect" /\ (pc = "poll" => phase = "work")

(* A chip whose protection bits nobody takes away ignores what it is sent. *)
Ignores == protected /\ id \notin LockParams

(* The flash when the first n bytes of the request are done.               *)
DoneTo(n) ==
    [a \in Addresses |->
        IF a \notin request.addr..(request.addr + n - 1) THEN before[a]
        ELSE IF request.op = "erase" THEN Erased
        ELSE Programmed(before[a], a)]

(* The flash then, if the chip may ignore it.                              *)
Expected(n) == IF Ignores THEN before ELSE DoneTo(n)

(* Shown is what success means, for a chip that was not overtaken.         *)
Shown ==
    result = "success" =>
        mem = Expected(request.len) /\ (id \in LockParams => protected)

(* While a call unlocks or locks the flash, what it has counted is done,   *)
(* and the protection is right before it is waited for.                    *)
Session ==
    phase \in {"unlock", "lock"} =>
        /\ mem = Expected(done)
        /\ pc = "status" => wel
        /\ pc = "protect" => wel \/ ProtectionRight
        /\ pc = "poll" => ProtectionRight
        /\ phase = "lock" => request.op = "sector" \/ done = request.len

(* While it works, the flash is open and the latch is set for what it      *)
(* sends; an erase that is sent again may have been heard before.          *)
Work ==
    phase = "work" =>
        /\ protected => Ignores
        /\ pc \in {"enable", "send", "poll"}
        /\ pc = "enable" => mem = Expected(done)
        /\ pc = "send" =>
              \/ wel /\ busy = 0 /\ mem = Expected(done)
              \/ request.op = "erase" /\ mem = Expected(request.len)
        /\ pc = "poll" => mem = Expected(Counted)

Progress == Session /\ Work /\ Shown

(* A call that runs has no result yet; cb_flash_program_page sends a page  *)
(* or less, at once.                                                       *)
Whole ==
    pc # "idle" =>
        /\ result = "none"
        /\ request.op = "page" =>
              /\ request.len <= PageSize
              /\ phase \in {"unlock", "work"} => done = 0

SuccessInv ==
    /\ DriverInv
    /\ Whole
    /\ phase = "none" <=> pc = "idle"
    /\ Works
    /\ Bare
    /\ ~gaveUp /\ ~overtook => Progress

(* The chip after each step, whether the call gave up on something or not. *)
LEMMA StepWorks ==
    ASSUME ShortErases, SuccessInv, Step
    PROVE  Works' /\ (phase = "none" <=> pc = "idle")'
  <1>1. /\ busy \in Nat /\ waited \in 0..Timeout /\ Timeout \in Nat \ {0}
        /\ MaxBusy \in Nat /\ MaxBusy <= 2 /\ MaxBusy <= Timeout
        /\ busy <= MaxBusy
        /\ protected \in BOOLEAN
    BY DriverAssumption DEF SuccessInv, DriverInv, TypeOK, ShortErases
  <1>2. /\ Works /\ (phase = "none" <=> pc = "idle") /\ request' = request
        /\ pc # "idle" /\ (pc = "send" => phase = "work")
        /\ id' = id /\ overtook' = overtook
    BY DEF SuccessInv, DriverInv, Running, chip, past,
           Step, Enable, ReadStatus, WriteStatus, SendProgram, SendErase, Poll
  <1> USE DEF Works, BusyAfter, Starts, Less, Goto, Return, Later, TimedOut
  <1>3. CASE Enable
    <2>1. /\ pc = "enable" /\ protected' = protected
          /\ busy' = busy \/ busy' = Less(busy)
      BY <1>3 DEF Enable
    <2>2. \/ Goto(phase, IF phase = "work" THEN "send" ELSE "status")
          \/ UNCHANGED place
      BY <1>3 DEF Enable, Retry
    <2>3. QED
      BY <1>1, <1>2, <2>1, <2>2 DEF place
  <1>4. CASE ReadStatus
    <2>1. \/ Goto(phase, "protect")
          \/ UNCHANGED place
          \/ ProtectReturns(TRUE) /\ ProtectionRight /\ busy' = busy
          \/ ProtectReturns(FALSE) /\ busy' = Less(busy)
      BY <1>4 DEF ReadStatus, ProtectionRight
    <2>2. busy' \in {busy, Less(busy)} /\ protected' = protected /\ pc = "status"
      BY <1>4 DEF ReadStatus, chip
    <2>3. QED
      BY <1>1, <1>2, <2>1, <2>2 DEF ProtectReturns, place, ProtectionRight
  <1>5. CASE WriteStatus
    <2>1. PICK heard, answered \in BOOLEAN :
            /\ IF Executes(heard)
               THEN Starts(1, answered) /\ protected' = (phase # "unlock")
               ELSE BusyAfter(answered) /\ UNCHANGED <<wel, protected>>
            /\ Retry(answered, Goto(phase, "poll"), ProtectReturns(FALSE))
      BY <1>5 DEF WriteStatus
    <2>2. pc = "protect" /\ id \in LockParams
      BY <1>5 DEF WriteStatus, SuccessInv, Bare
    <2>3. CASE answered
      <3>1. Goto(phase, "poll") /\ waited' = 0 /\ busy' <= 1 /\ busy' \in Nat
        BY <1>1, <1>2, <2>1, <2>2, <2>3 DEF Retry
      <3>2. QED
        <4>1. phase # "none"
          BY <1>2, <2>2
        <4>2. phase' = phase /\ pc' = "poll"
          BY <3>1
        <4>4. busy' <= Timeout - waited'
          BY <1>1, <3>1
        <4>3. QED
          BY <1>2, <4>1, <4>2, <4>4
    <2>4. CASE ~answered
      <3>1. busy' = 0
        BY <1>1, <1>2, <2>1, <2>2, <2>4
      <3>2. Return("failed") \/ UNCHANGED place
        BY <2>1, <2>2, <2>4 DEF Retry, ProtectReturns
      <3>3. QED
        BY <1>1, <1>2, <3>1, <3>2, <2>2 DEF place
    <2>5. QED
      BY <2>3, <2>4
  <1>6. CASE SendProgram
    <2>1. PICK heard, answered \in BOOLEAN :
            /\ \/ Executes(heard) /\ ~protected /\ Starts(1, answered)
               \/ BusyAfter(answered)
            /\ IF answered THEN Goto("work", "poll") ELSE Goto("abort", "enable")
      BY <1>6 DEF SendProgram
    <2>2. /\ pc = "send" /\ waited' = 0 /\ protected' = protected
          /\ request.op # "erase"
      BY <1>6 DEF SendProgram
    <2>3. busy <= 1 /\ (busy # 0 => id \notin LockParams /\ overtook)
      BY <1>1, <1>2, <2>2
    <2>4. QED
      BY <1>1, <1>2, <2>1, <2>2, <2>3
  <1>7. CASE SendErase
    <2>1. PICK heard, answered \in BOOLEAN :
            /\ IF Executes(heard) /\ ~protected
               THEN Starts(MaxBusy, answered)
               ELSE BusyAfter(answered)
            /\ Retry(answered, Goto("work", "poll"), Goto("abort", "enable"))
      BY <1>7 DEF SendErase
    <2>2. /\ pc = "send" /\ protected' = protected
          /\ request.op = "erase" /\ phase = "work"
      BY <1>2, <1>7 DEF SendErase
    <2>3. CASE answered
      <3>1. Goto("work", "poll") /\ waited' = 0 /\ busy' <= Timeout
        BY <1>1, <1>2, <2>1, <2>2, <2>3 DEF Retry
      <3>2. QED
        BY <1>1, <1>2, <3>1, <2>2
    <2>4. CASE ~answered
      <3>1. /\ busy' <= 1
            /\ busy' # 0 => ~protected \/ (id \notin LockParams /\ overtook)
        BY <1>1, <1>2, <2>1, <2>2, <2>4
      <3>2. Goto("abort", "enable") \/ UNCHANGED place
        BY <2>1, <2>2, <2>4 DEF Retry
      <3>3. QED
        BY <1>2, <3>1, <3>2, <2>2 DEF place
    <2>5. QED
      BY <2>3, <2>4
  <1>8. CASE Poll
    <2>1. PICK answered \in BOOLEAN :
          LET clear == answered /\ busy = 0
              now   == IF clear THEN waited ELSE Later(waited)
              checked == answered \/ TimedOut(opElapsed)
          IN  /\ busy' = IF clear THEN busy ELSE Less(busy)
              /\ IF checked /\ (clear \/ TimedOut(now))
                 THEN WaitReturns(~TimedOut(now)) /\ waited' = 0
                 ELSE UNCHANGED place /\ waited' = now
      BY <1>8 DEF Poll
    <2>2. pc = "poll" /\ busy <= Timeout - waited /\ protected' = protected
      BY <1>2, <1>8 DEF Poll, chip
    <2>3. CASE UNCHANGED place
      BY <1>1, <1>2, <2>1, <2>2, <2>3 DEF place
    <2>4. ASSUME NEW good \in BOOLEAN, WaitReturns(good)
          PROVE  pc' # "poll" /\ (phase' = "none" <=> pc' = "idle")
      BY <1>2, <2>2, <2>4 DEF WaitReturns, ProtectReturns, WorkDone
    <2>5. CASE busy' = 0 /\ \E good \in BOOLEAN : WaitReturns(good)
      BY <1>2, <2>4, <2>5
    <2>6. CASE answered /\ busy = 0
      BY <1>1, <2>1, <2>3, <2>5, <2>6
    <2>7. CASE ~(answered /\ busy = 0)
      <3>1. \/ UNCHANGED place
            \/ Later(waited) >= Timeout /\ \E good \in BOOLEAN : WaitReturns(good)
        BY <2>1, <2>7
      <3>2. busy' = Less(busy)
        BY <2>1, <2>7
      <3>3. Later(waited) >= Timeout => busy' = 0
        BY <1>1, <2>2, <3>2
      <3>4. QED
        BY <2>3, <2>5, <3>1, <3>3
    <2>8. QED
      BY <2>6, <2>7
  <1>9. QED
    BY <1>3, <1>4, <1>5, <1>6, <1>7, <1>8 DEF Step

(* What is not known of a chip without lock parameters is left alone.      *)
LEMMA StepBare ==
    ASSUME Running, Bare, Step
    PROVE  Bare' /\ id' = id /\ overtook' = overtook
  <1>1. id' = id /\ overtook' = overtook
    BY DEF Step, Enable, ReadStatus, WriteStatus, SendProgram, SendErase, Poll,
           chip, past
  <1>2. ASSUME NEW good \in BOOLEAN, WaitReturns(good) \/ ProtectReturns(good)
        PROVE  pc' \in {"enable", "idle"}
    BY <1>2 DEF WaitReturns, ProtectReturns, WorkDone, Goto, Return
  <1>3. ASSUME id \notin LockParams
        PROVE  pc' # "protect" /\ (pc' = "poll" => phase' = "work")
    <2>1. pc # "protect" /\ (pc = "poll" => phase = "work")
      BY <1>3 DEF Bare
    <2>2. UNCHANGED place => phase' = phase /\ pc' = pc
      BY DEF place
    <2>3. CASE Enable
      BY <2>1, <2>2, <2>3 DEF Enable, Retry, Goto
    <2>4. CASE ReadStatus
      BY <1>2, <1>3, <2>1, <2>2, <2>4 DEF ReadStatus, ProtectionRight
    <2>5. CASE WriteStatus
      BY <2>1, <2>5 DEF WriteStatus
    <2>6. CASE SendProgram
      BY <2>6 DEF SendProgram, Goto
    <2>7. CASE SendErase
      BY <2>1, <2>2, <2>7 DEF SendErase, Retry, Goto
    <2>8. CASE Poll
      BY <1>2, <2>1, <2>2, <2>8 DEF Poll, TimedOut
    <2>9. QED
      BY <2>3, <2>4, <2>5, <2>6, <2>7, <2>8 DEF Step
  <1>4. QED
    BY <1>1, <1>3 DEF Bare

-----------------------------------------------------------------------------
(* What a chip operation adds to what is done.                             *)
LEMMA ProgramAdds ==
    ASSUME TypeOK, Running, pc = "send", request.op # "erase",
           mem = DoneTo(done)
    PROVE  AfterProgram(0..(OpLen - 1)) = DoneTo(Counted)
  <1>1. /\ OpAddr = request.addr + done
        /\ OpAddr \in Nat
        /\ OpLen \in 1..(request.len - done)
        /\ OpLen = Chunk(OpAddr, request.len - done)
        /\ Counted = done + OpLen
    BY OperationType DEF Running, OpAddr, OpLen, Counted
  <1>2. /\ request.addr \in Nat
        /\ request.len \in Nat
        /\ done \in 0..request.len
        /\ request.len - done \in Nat
        /\ request.len - done > 0
    BY RequestType DEF TypeOK, Running
  <1>3. (OpAddr % PageSize) + OpLen <= PageSize /\ OpAddr % PageSize \in Nat
    <2>1. /\ (OpAddr % PageSize) + Chunk(OpAddr, request.len - done) <= PageSize
          /\ OpAddr % PageSize \in Nat
      BY <1>1, <1>2, ChunkInPage
    <2>2. QED
      BY <1>1, <2>1
  <1>4. ASSUME NEW i \in 0..(OpLen - 1)
        PROVE  WrappedTo(OpAddr, i) = OpAddr + i
    <2>1. i \in Nat /\ i < OpLen
      BY <1>1, <1>2
    <2>2. QED
      BY <1>1, <1>3, <2>1, DriverAssumption DEF WrappedTo
  <1>5. ASSUME NEW a \in Addresses
        PROVE  AfterProgram(0..(OpLen - 1))[a] = DoneTo(Counted)[a]
    <2>0. a \in Nat /\ mem[a] = DoneTo(done)[a] /\ OpLen \in Nat /\ done \in Nat
      BY <1>1, <1>2 DEF Addresses
    <2>1. CASE a \in OpAddr..(OpAddr + OpLen - 1)
      <3>1. a - OpAddr \in 0..(OpLen - 1)
        BY <1>1, <2>0, <2>1
      <3>2. WrappedTo(OpAddr, a - OpAddr) = a
        BY <1>1, <1>4, <2>0, <3>1
      <3>3. PICK i \in 0..(OpLen - 1) :
              /\ i = CHOOSE j \in 0..(OpLen - 1) : WrappedTo(OpAddr, j) = a
              /\ WrappedTo(OpAddr, i) = a
        BY <3>1, <3>2
      <3>4. OpAddr + i = a
        BY <1>4, <3>3
      <3>5. AfterProgram(0..(OpLen - 1))[a] = Programmed(mem[a], a)
        BY <3>3, <3>4 DEF AfterProgram
      <3>6. mem[a] = before[a]
        BY <1>1, <1>2, <2>0, <2>1 DEF DoneTo
      <3>7. a \in request.addr..(request.addr + Counted - 1)
        BY <1>1, <1>2, <2>0, <2>1
      <3>8. QED
        BY <3>5, <3>6, <3>7 DEF DoneTo
    <2>2. CASE a \notin OpAddr..(OpAddr + OpLen - 1)
      <3>1. \A i \in 0..(OpLen - 1) : WrappedTo(OpAddr, i) # a
        BY <1>1, <1>4, <2>0, <2>2
      <3>2. AfterProgram(0..(OpLen - 1))[a] = mem[a]
        BY <3>1 DEF AfterProgram
      <3>3. a \in request.addr..(request.addr + Counted - 1)
              <=> a \in request.addr..(request.addr + done - 1)
        BY <1>1, <1>2, <2>0, <2>2
      <3>4. QED
        BY <2>0, <3>2, <3>3 DEF DoneTo
    <2>3. QED
      BY <2>1, <2>2
  <1>6. QED
    BY <1>5 DEF AfterProgram, DoneTo

LEMMA EraseDoes ==
    ASSUME TypeOK, Running, pc = "send", request.op = "erase",
           mem = DoneTo(done) \/ mem = DoneTo(request.len)
    PROVE  AfterErase = DoneTo(request.len)
  <1>1. done = 0 /\ request.addr \in Nat /\ request.len \in Nat
    BY RequestType DEF TypeOK, Running
  <1>2. ASSUME NEW a \in Addresses, a \notin RequestCells
        PROVE  DoneTo(done)[a] = before[a] /\ DoneTo(request.len)[a] = before[a]
    BY <1>1, <1>2 DEF DoneTo, RequestCells, Addresses
  <1>3. ASSUME NEW a \in Addresses
        PROVE  AfterErase[a] = DoneTo(request.len)[a]
    BY <1>2 DEF AfterErase, DoneTo, RequestCells
  <1>4. QED
    BY <1>3 DEF AfterErase, DoneTo

(* When the last chip operation of a session is counted.                   *)
LEMMA SessionEnds ==
    ASSUME TypeOK, Running, Whole, pc # "idle", phase = "work",
           ~MoreInThisSession(Counted)
    PROVE  request.op = "sector" \/ Counted = request.len
  <1>1. /\ request \in Requests
        /\ request.addr \in Nat /\ request.len \in Nat /\ request.len > 0
        /\ done \in 0..request.len
        /\ request.op \in {"by_addr", "page", "sector", "erase"}
        /\ Counted \in 1..request.len
        /\ request.op = "erase" => done = 0
    BY RequestType, OperationType DEF TypeOK, Running
  <1>2. CASE request.op = "by_addr"
    BY <1>1, <1>2 DEF MoreInThisSession
  <1>3. CASE request.op = "erase"
    BY <1>1, <1>3 DEF Counted, OpLen
  <1>4. CASE request.op = "page"
    <2>1. done = 0 /\ request.len <= PageSize /\ request.addr % PageSize = 0
      BY <1>1, <1>4, DriverAssumption DEF Whole
    <2>2. OpLen = Chunk(request.addr, request.len)
      BY <1>1, <1>4, <2>1 DEF OpLen, OpAddr
    <2>3. Chunk(request.addr, request.len) = request.len
      BY <1>1, <2>1, DriverAssumption DEF Chunk
    <2>4. QED
      BY <1>1, <2>1, <2>2, <2>3 DEF Counted
  <1>5. QED
    BY <1>1, <1>2, <1>3, <1>4

LEMMA StepWhole ==
    ASSUME Running, Whole, Step
    PROVE  Whole'
  <1>1. request' = request /\ pc # "idle" /\ (pc = "send" => phase = "work")
    BY DEF Step, Enable, ReadStatus, WriteStatus, SendProgram, SendErase, Poll,
           Running
  <1>2. result' = result \/ pc' = "idle"
    BY DEF Step, Enable, ReadStatus, WriteStatus, SendProgram, SendErase, Poll,
           WaitReturns, ProtectReturns, WorkDone, Goto, Return, Retry, place
  <1>3. CASE request.op = "page"
    <2> DEFINE Moved ==
          \/ done' = done /\ (phase' = phase \/ phase' \notin {"unlock", "work"})
          \/ done' = done /\ phase \in {"unlock", "work"} /\ phase' = "work"
          \/ phase' \notin {"unlock", "work"}
    <2>1. ASSUME NEW good \in BOOLEAN, WaitReturns(good) \/ ProtectReturns(good)
          PROVE  Moved
      BY <1>3, <2>1 DEF WaitReturns, ProtectReturns, WorkDone, MoreSessions,
         MoreInThisSession, Goto, Return
    <2>2. Moved
      BY <1>1, <2>1
      DEF Step, Enable, ReadStatus, WriteStatus, SendProgram, SendErase, Poll,
          Goto, Retry, place, TimedOut
    <2>3. QED
      BY <1>1, <1>2, <1>3, <2>2 DEF Whole
  <1>4. QED
    BY <1>1, <1>2, <1>3 DEF Whole

-----------------------------------------------------------------------------
(* What is done stays done while the call goes on.                         *)
LEMMA SameDone ==
    ASSUME request' = request, before' = before, done' = done,
           Ignores' = Ignores
    PROVE  /\ Expected(done)' = Expected(done)
           /\ Expected(request.len)' = Expected(request.len)
           /\ Expected(Counted)' = Expected(Counted)
  BY DEF Expected, DoneTo, Counted, OpLen, OpAddr

LEMMA CountedDone ==
    ASSUME request' = request, before' = before, done' = Counted,
           Ignores' = Ignores
    PROVE  Expected(done)' = Expected(Counted)
  BY DEF Expected, DoneTo

LEMMA FailedProgress ==
    ASSUME phase' \in {"none", "abort"}, result' # "success"
    PROVE  Progress'
  BY DEF Progress, Session, Work, Shown

LEMMA StaysProgress ==
    ASSUME SuccessInv, Progress, UNCHANGED <<id, mem, wel, protected>>,
           UNCHANGED place, pc # "send", request' = request, before' = before
    PROVE  Progress'
  <1>1. /\ id' = id /\ mem' = mem /\ wel' = wel /\ protected' = protected
        /\ Ignores' = Ignores
        /\ phase' = phase /\ pc' = pc /\ result' = result /\ done' = done
    BY DEF place, Ignores
  <1>2. Session'
    BY <1>1, SameDone DEF Progress, Session, ProtectionRight
  <1>3. Work'
    BY <1>1, SameDone DEF Progress, Work
  <1>4. Shown'
    BY <1>1, SameDone DEF Progress, Shown
  <1>5. QED
    BY <1>2, <1>3, <1>4 DEF Progress

(* cb_flash_block_protect returns: unlocked, or locked, or not.            *)
LEMMA ProtectProgress ==
    ASSUME SuccessInv, Progress, pc # "idle", phase # "work",
           request' = request, before' = before,
           id' = id, Ignores' = Ignores,
           NEW good \in BOOLEAN, ProtectReturns(good),
           good => mem' = mem /\ protected' = protected /\ ProtectionRight
    PROVE  Progress'
  <1>1. CASE Return("failed")
    BY <1>1, FailedProgress DEF Return
  <1>2. CASE good /\ phase = "unlock" /\ Goto("work", "enable")
    <2>1. /\ mem' = mem /\ protected' = protected /\ done' = done
          /\ phase' = "work" /\ pc' = "enable" /\ result' = result
          /\ mem = Expected(done)
      BY <1>2 DEF Goto, Progress, Session
    <2>2. protected' => Ignores'
      BY <1>2 DEF ProtectionRight, Ignores, SuccessInv, DriverInv, TypeOK
    <2>3. result # "success"
      BY DEF SuccessInv, Whole
    <2>4. QED
      BY <2>1, <2>2, <2>3, SameDone DEF Progress, Session, Work, Shown
  <1>3. CASE good /\ phase = "lock" /\ Goto("unlock", "enable")
    <2>1. /\ mem' = mem /\ done' = done
          /\ phase' = "unlock" /\ pc' = "enable" /\ result' = result
          /\ mem = Expected(done)
      BY <1>3 DEF Goto, Progress, Session
    <2>2. result # "success"
      BY DEF SuccessInv, Whole
    <2>3. QED
      BY <2>1, <2>2, SameDone DEF Progress, Session, Work, Shown
  <1>4. CASE good /\ phase = "lock" /\ ~MoreSessions(done) /\ Return("success")
    <2>1. /\ mem' = mem /\ protected' = protected /\ done' = done
          /\ phase' = "none" /\ (id \in LockParams => protected)
          /\ mem = Expected(done)
          /\ request.op = "sector" \/ done = request.len
      BY <1>4 DEF Return, ProtectionRight, Progress, Session
    <2>2. done = request.len
      BY <1>4, <2>1, RequestType DEF SuccessInv, DriverInv, TypeOK, MoreSessions
    <2>3. QED
      BY <2>1, <2>2, SameDone DEF Progress, Session, Work, Shown
  <1>5. QED
    BY <1>1, <1>2, <1>3, <1>4 DEF ProtectReturns

(* An answered write enable sets the latch: the chip is not busy.          *)
LEMMA EnableProgress ==
    ASSUME SuccessInv, Enable, ~gaveUp', ~overtook
    PROVE  Progress'
  <1>1. PICK heard, answered \in BOOLEAN :
          LET next == Goto(phase, IF phase = "work" THEN "send" ELSE "status")
          IN  /\ Transfer(heard, answered)
              /\ Latches(heard)
              /\ BusyAfter(answered)
              /\ Retry(answered, next, next)
              /\ gaveUp' = (gaveUp \/ (~answered /\ pc' # "enable"))
    BY DEF Enable
  <1>2. /\ pc = "enable" /\ mem' = mem /\ protected' = protected
        /\ request' = request /\ before' = before
        /\ id' = id /\ Ignores' = Ignores
    BY DEF Enable, Ignores
  <1>3. ~gaveUp /\ (answered \/ pc' = "enable")
    BY <1>1
  <1>4. /\ Progress /\ phase # "none" /\ result = "none"
        /\ busy # 0 => phase = "abort"
    BY <1>2, <1>3 DEF SuccessInv, Whole, Works
  <1>5. result' = result /\ done' = done /\ phase' = phase
    BY <1>1 DEF Retry, Goto, place
  <1>6. CASE phase = "abort"
    BY <1>4, <1>5, <1>6, FailedProgress
  <1>7. CASE phase # "abort" /\ ~answered
    <2>1. pc' = "enable"
      BY <1>3, <1>7
    <2>2. QED
      BY <1>2, <1>4, <1>5, <2>1, SameDone
      DEF Progress, Session, Work, Shown
  <1>8. CASE phase # "abort" /\ answered
    <2>1. pc' = IF phase = "work" THEN "send" ELSE "status"
      BY <1>1, <1>8 DEF Retry, Goto
    <2>2. heard /\ busy = 0
      BY <1>1, <1>4, <1>8 DEF Transfer
    <2>3. wel' /\ busy' = 0
      BY <1>1, <1>8, <2>2 DEF Latches, BusyAfter
    <2>4. QED
      BY <1>2, <1>4, <1>5, <2>1, <2>3, SameDone
      DEF Progress, Session, Work, Shown
  <1>9. QED
    BY <1>6, <1>7, <1>8

LEMMA ReadStatusProgress ==
    ASSUME SuccessInv, Progress, ReadStatus
    PROVE  Progress'
  <1>1. /\ pc = "status" /\ request' = request /\ before' = before
        /\ UNCHANGED <<id, mem, wel, protected>> /\ Ignores' = Ignores
        /\ phase # "work"
        /\ result = "none"
    BY DEF ReadStatus, chip, past, Progress, Work, SuccessInv, Whole, Ignores
  <1>2. \/ ProtectionRight /\ ProtectReturns(TRUE)
        \/ Goto(phase, "protect")
        \/ ProtectReturns(FALSE)
        \/ UNCHANGED place
    BY DEF ReadStatus, ProtectionRight
  <1>3. CASE ProtectionRight /\ ProtectReturns(TRUE)
    BY <1>1, <1>3, ProtectProgress
  <1>4. CASE ProtectReturns(FALSE)
    BY <1>1, <1>4, ProtectProgress
  <1>5. CASE UNCHANGED place
    BY <1>1, <1>5, StaysProgress
  <1>6. CASE Goto(phase, "protect")
    <2>1. /\ mem' = mem /\ wel' = wel /\ phase' = phase /\ pc' = "protect"
          /\ done' = done /\ result' = "none"
      BY <1>1, <1>6 DEF Goto
    <2>2. QED
      BY <1>1, <2>1, SameDone DEF Progress, Session, Work, Shown
  <1>7. QED
    BY <1>2, <1>3, <1>4, <1>5, <1>6

(* An answered write of the status leaves the right protection.            *)
LEMMA WriteStatusProgress ==
    ASSUME SuccessInv, Progress, ~overtook, WriteStatus
    PROVE  Progress'
  <1>1. PICK heard, answered \in BOOLEAN :
          /\ Transfer(heard, answered)
          /\ IF Executes(heard)
             THEN Starts(1, answered) /\ protected' = (phase # "unlock")
             ELSE BusyAfter(answered) /\ UNCHANGED <<wel, protected>>
          /\ Retry(answered, Goto(phase, "poll"), ProtectReturns(FALSE))
    BY DEF WriteStatus
  <1>2. /\ pc = "protect" /\ request' = request /\ before' = before
        /\ mem' = mem /\ phase \in {"unlock", "lock", "abort"}
        /\ result = "none"
        /\ busy # 0 => phase = "abort"
        /\ id \in LockParams /\ id' = id /\ Ignores' = Ignores
    BY DEF WriteStatus, past, Progress, Work, SuccessInv, DriverInv, TypeOK,
           Whole, Works, Bare, Ignores
  <1>3. \/ ProtectReturns(FALSE)
        \/ ~answered /\ UNCHANGED place
        \/ answered /\ Goto(phase, "poll")
    BY <1>1 DEF Retry
  <1>4. CASE ProtectReturns(FALSE)
    BY <1>2, <1>4, ProtectProgress
  <1>5. CASE phase = "abort"
    BY <1>2, <1>3, <1>4, <1>5, FailedProgress DEF Goto, place
  <1>6. CASE phase # "abort" /\ (UNCHANGED place \/ (answered /\ Goto(phase, "poll")))
    <2>1. /\ mem = Expected(done) /\ (wel \/ ProtectionRight) /\ busy = 0
          /\ phase = "lock" => request.op = "sector" \/ done = request.len
      BY <1>2, <1>6 DEF Progress, Session
    <2>0. phase' = phase
      BY <1>6 DEF Goto, place
    <2>2. wel' \/ ProtectionRight'
      BY <1>1, <1>2, <2>0, <2>1 DEF ProtectionRight
    <2>3. answered => ProtectionRight'
      BY <1>1, <1>2, <2>0, <2>1 DEF ProtectionRight, Transfer, Executes
    <2>4. /\ phase' = phase /\ done' = done /\ result' = "none"
          /\ pc' = "protect" \/ (pc' = "poll" /\ answered)
      BY <1>2, <1>6 DEF Goto, place
    <2>5. Session'
      <3>1. mem' = Expected(done)'
        BY <1>2, <2>1, <2>4, SameDone
      <3>2. phase' = "lock" => request'.op = "sector" \/ done' = request'.len
        BY <1>2, <2>1, <2>4
      <3>3. pc' # "status" /\ (pc' = "poll" => ProtectionRight')
        BY <2>3, <2>4
      <3>4. QED
        BY <2>2, <3>1, <3>2, <3>3 DEF Session
    <2>6. phase' # "work" /\ result' # "success"
      BY <1>2, <2>4
    <2>7. Work'
      BY <2>6 DEF Work
    <2>8. Shown'
      BY <2>6 DEF Shown
    <2>9. QED
      BY <2>5, <2>7, <2>8 DEF Progress
  <1>7. QED
    BY <1>3, <1>4, <1>5, <1>6

LEMMA SendProgramProgress ==
    ASSUME SuccessInv, Progress, ~overtook, SendProgram
    PROVE  Progress'
  <1>1. PICK heard, answered \in BOOLEAN, sent \in SUBSET (0..(OpLen - 1)) :
          /\ Transfer(heard, answered)
          /\ answered => sent = 0..(OpLen - 1)
          /\ IF Executes(heard) /\ ~protected
             THEN Starts(1, answered) /\ mem' = AfterProgram(sent)
             ELSE BusyAfter(answered) /\ UNCHANGED <<mem, wel>>
          /\ IF answered THEN Goto("work", "poll") ELSE Goto("abort", "enable")
    BY DEF SendProgram
  <1>2. /\ pc = "send" /\ phase = "work" /\ request.op # "erase"
        /\ request' = request /\ before' = before /\ protected' = protected
        /\ id' = id /\ Ignores' = Ignores
        /\ result = "none" /\ busy = 0
    BY DEF SendProgram, past, SuccessInv, DriverInv, Running, Whole, Works, Ignores
  <1>3. wel /\ (protected => Ignores) /\ mem = Expected(done)
    BY <1>2 DEF Progress, Work
  <1>4. CASE ~answered
    BY <1>1, <1>2, <1>4, FailedProgress DEF Goto
  <1>5. CASE answered
    <2>1. mem' = IF Ignores THEN mem ELSE AfterProgram(0..(OpLen - 1))
      BY <1>1, <1>2, <1>3, <1>5 DEF Transfer, Executes, Ignores
    <2>2. mem' = Expected(Counted)
      BY <1>2, <1>3, <2>1, ProgramAdds DEF SuccessInv, DriverInv, Expected
    <2>3. /\ phase' = "work" /\ pc' = "poll" /\ done' = done
          /\ result' = "none"
      BY <1>1, <1>2, <1>5 DEF Goto
    <2>4. QED
      BY <1>2, <1>3, <2>2, <2>3, SameDone
      DEF Progress, Session, Work, Shown
  <1>6. QED
    BY <1>4, <1>5

(* However often an erase is sent, it is done once it has been heard.      *)
LEMMA SendEraseProgress ==
    ASSUME SuccessInv, Progress, SendErase
    PROVE  Progress'
  <1>1. PICK heard, answered \in BOOLEAN :
          /\ Transfer(heard, answered)
          /\ IF Executes(heard) /\ ~protected
             THEN Starts(MaxBusy, answered) /\ mem' = AfterErase
             ELSE BusyAfter(answered) /\ UNCHANGED <<mem, wel>>
          /\ Retry(answered, Goto("work", "poll"), Goto("abort", "enable"))
    BY DEF SendErase
  <1>2. /\ pc = "send" /\ phase = "work" /\ request.op = "erase"
        /\ request' = request /\ before' = before /\ protected' = protected
        /\ id' = id /\ Ignores' = Ignores
        /\ result = "none"
    BY DEF SendErase, past, SuccessInv, DriverInv, Running, Whole, Works, Ignores
  <1>3. /\ protected => Ignores
        /\ \/ wel /\ busy = 0 /\ mem = Expected(done)
           \/ mem = Expected(request.len)
    BY <1>2 DEF Progress, Work
  <1>4. \/ ~protected /\ AfterErase = Expected(request.len)
        \/ protected /\ Expected(done) = Expected(request.len)
    BY <1>2, <1>3, EraseDoes DEF SuccessInv, DriverInv, Expected, Ignores
  <1>5. /\ \/ wel' /\ busy' = 0 /\ mem' = Expected(done)
           \/ mem' = Expected(request.len)
        /\ answered => mem' = Expected(request.len)
    BY <1>1, <1>3, <1>4 DEF Transfer, Executes, BusyAfter, Less
  <1>6. CASE Goto("abort", "enable")
    BY <1>2, <1>6, FailedProgress DEF Goto
  <1>7. CASE UNCHANGED place
    <2>1. phase' = "work" /\ pc' = "send" /\ done' = done /\ result' = "none"
      BY <1>2, <1>7 DEF place
    <2>2. QED
      BY <1>2, <1>3, <1>5, <2>1, SameDone
      DEF Progress, Session, Work, Shown
  <1>8. CASE answered /\ Goto("work", "poll")
    <2>1. /\ phase' = "work" /\ pc' = "poll" /\ done' = done /\ result' = "none"
          /\ mem' = Expected(request.len)
      BY <1>2, <1>5, <1>8 DEF Goto
    <2>2. Counted = request.len
      BY <1>2, RequestType
      DEF SuccessInv, DriverInv, TypeOK, Running, Counted, OpLen
    <2>3. QED
      BY <1>2, <1>3, <2>1, <2>2, SameDone
      DEF Progress, Session, Work, Shown
  <1>9. QED
    BY <1>1, <1>6, <1>7, <1>8 DEF Retry

(* The wait is over: the work is counted, or the protection is right.      *)
LEMMA PollProgress ==
    ASSUME SuccessInv, Progress, Poll
    PROVE  Progress'
  <1>1. /\ pc = "poll" /\ request' = request /\ before' = before
        /\ UNCHANGED <<id, mem, wel, protected>> /\ Ignores' = Ignores
        /\ result = "none"
    BY DEF Poll, chip, past, SuccessInv, Whole, Ignores
  <1>2. UNCHANGED place \/ \E good \in BOOLEAN : WaitReturns(good)
    BY DEF Poll, TimedOut
  <1>3. CASE UNCHANGED place
    BY <1>1, <1>3, StaysProgress
  <1>4. ASSUME NEW good \in BOOLEAN, WaitReturns(good), phase # "work"
        PROVE  Progress'
    <2>1. ProtectReturns(good)
      BY <1>4 DEF WaitReturns
    <2>2. CASE phase \in {"unlock", "lock"}
      <3>1. ProtectionRight
        BY <1>1, <2>2 DEF Progress, Session
      <3>2. QED
        BY <1>1, <1>4, <2>1, <3>1, ProtectProgress
    <2>3. CASE phase \notin {"unlock", "lock"}
      <3>1. Return("failed")
        BY <1>4, <2>1, <2>3 DEF ProtectReturns
      <3>2. QED
        BY <3>1, FailedProgress DEF Return
    <2>4. QED
      BY <2>2, <2>3
  <1>5. CASE phase = "work" /\ Goto("abort", "enable")
    BY <1>1, <1>5, FailedProgress DEF Goto
  <1>6. CASE phase = "work" /\ WorkDone
    <2>1. /\ mem = Expected(Counted) /\ (protected' => Ignores')
          /\ done' = Counted /\ pc' = "enable" /\ result' = "none"
          /\ mem' = mem
      BY <1>1, <1>6 DEF Progress, Work, WorkDone
    <2>2. mem' = Expected(done)'
      BY <1>1, <2>1, CountedDone
    <2>3. CASE MoreInThisSession(Counted)
      <3>1. phase' = "work"
        BY <1>6, <2>1, <2>3 DEF WorkDone
      <3>2. QED
        BY <2>1, <2>2, <3>1 DEF Progress, Session, Work, Shown
    <2>4. CASE ~MoreInThisSession(Counted)
      <3>1. phase' = "lock"
        BY <1>6, <2>1, <2>4 DEF WorkDone
      <3>2. request'.op = "sector" \/ done' = request'.len
        BY <1>1, <1>6, <2>1, <2>4, SessionEnds DEF SuccessInv, DriverInv
      <3>3. QED
        BY <2>1, <2>2, <3>1, <3>2 DEF Progress, Session, Work, Shown
    <2>5. QED
      BY <2>3, <2>4
  <1>7. QED
    BY <1>2, <1>3, <1>4, <1>5, <1>6 DEF WaitReturns

(* A call begins with a chip that has nothing to do, or overtakes it.      *)
LEMMA BeginSuccess ==
    ASSUME SuccessInv, NEW r \in Requests, Begin(r)
    PROVE  SuccessInv'
  <1>1. /\ pc = "idle" /\ phase = "none"
        /\ busy # 0 => id \notin LockParams
        /\ busy <= 1
        /\ id' = id /\ overtook' = (busy # 0)
        /\ request' = r /\ before' = mem /\ mem' = mem /\ busy' = busy
        /\ done' = 0 /\ r.len \in Nat /\ r.addr \in Nat
        /\ mem \in [Addresses -> Contents]
    BY DriverAssumption
    DEF Begin, SuccessInv, Works, chip, DriverInv, TypeOK
  <1>2. DriverInv'
    BY BeginDriverInv DEF SuccessInv
  <1>3. mem' = Expected(done)'
    <2>1. \A a \in Addresses : a \notin r.addr..(r.addr + 0 - 1)
      BY <1>1 DEF Addresses
    <2>2. QED
      BY <1>1, <2>1 DEF Expected, DoneTo
  <1>4. CASE Allowed(r)
    <2>1. phase' = "unlock" /\ pc' = "enable" /\ result' = "none"
      BY <1>4 DEF Begin
    <2>2. r.op = "page" => r.len <= PageSize
      BY <1>4 DEF Allowed
    <2>3. Whole' /\ Works' /\ Bare'
      BY <1>1, <2>1, <2>2 DEF Whole, Works, Bare
    <2>4. Progress'
      BY <1>3, <2>1 DEF Progress, Session, Work, Shown
    <2>5. QED
      BY <1>2, <2>1, <2>3, <2>4 DEF SuccessInv
  <1>5. CASE ~Allowed(r)
    <2>1. phase' = "none" /\ pc' = "idle" /\ result' = "rejected"
      BY <1>1, <1>5 DEF Begin
    <2>2. Whole' /\ Works' /\ Bare'
      BY <1>1, <2>1 DEF Whole, Works, Bare
    <2>3. Progress'
      BY <2>1, FailedProgress
    <2>4. QED
      BY <1>2, <2>1, <2>2, <2>3 DEF SuccessInv
  <1>6. QED
    BY <1>4, <1>5

(* Between two calls nothing that has been done is lost.                   *)
LEMMA OtherSuccess ==
    ASSUME SuccessInv, InitDriver \/ Elevate \/ UNCHANGED vars
    PROVE  SuccessInv'
  <1>1. /\ UNCHANGED <<mem, before, request>>
        /\ UNCHANGED <<phase, pc, result, done, id, wel, protected>>
        /\ UNCHANGED <<gaveUp, overtook, waited>>
        /\ Ignores' = Ignores
    BY DEF InitDriver, Elevate, vars, chip, place, past, Ignores
  <1>2. busy' = busy \/ (pc = "idle" /\ busy' = Less(busy))
    <2>1. CASE InitDriver
      BY <2>1 DEF InitDriver, BusyAfter
    <2>2. CASE Elevate
      BY <2>2 DEF Elevate
    <2>3. CASE UNCHANGED vars
      BY <2>3 DEF vars
    <2>4. QED
      BY <2>1, <2>2, <2>3
  <1>3. DriverInv'
    BY OtherDriverInv DEF SuccessInv
  <1>4. Whole' /\ Bare'
    BY <1>1 DEF SuccessInv, Whole, Bare
  <1>5. busy' = busy \/ phase \in {"none", "abort"}
    BY <1>2 DEF SuccessInv
  <1>6. Works'
    BY <1>1, <1>2 DEF SuccessInv, DriverInv, TypeOK, Works, Less
  <1>7. ASSUME ~gaveUp', ~overtook' PROVE Progress'
    <2>1. Progress
      BY <1>1, <1>7 DEF SuccessInv
    <2>2. Session'
      BY <1>1, <2>1, SameDone DEF Progress, Session, ProtectionRight
    <2>3. Work'
      BY <1>1, <1>5, <2>1, SameDone DEF Progress, Work
    <2>4. Shown'
      BY <1>1, <2>1, SameDone DEF Progress, Shown
    <2>5. QED
      BY <2>2, <2>3, <2>4 DEF Progress
  <1>8. QED
    BY <1>1, <1>3, <1>4, <1>6, <1>7 DEF SuccessInv

LEMMA StepSuccess ==
    ASSUME ShortErases, SuccessInv, Step
    PROVE  SuccessInv'
  <1>0. /\ DriverInv /\ Running /\ Whole /\ Bare
        /\ ~gaveUp /\ ~overtook => Progress
    BY DEF SuccessInv, DriverInv
  <1>1. /\ DriverInv' /\ Whole' /\ Works' /\ Bare'
        /\ (phase = "none" <=> pc = "idle")'
        /\ overtook' = overtook
    BY <1>0, StepDriverInv, StepWhole, StepWorks, StepBare
  <1>2. ASSUME ~gaveUp', ~overtook PROVE Progress'
    <2>1. ~Enable => gaveUp' = gaveUp
      BY DEF past, Step, Enable, ReadStatus, WriteStatus, SendProgram,
             SendErase, Poll
    <2>2. CASE Enable
      BY <1>2, <2>2, EnableProgress
    <2>3. CASE ~Enable
      <3>1. Progress
        BY <1>0, <1>2, <2>1, <2>3
      <3>2. QED
        BY <1>2, <2>3, <3>1, ReadStatusProgress, WriteStatusProgress,
           SendProgramProgress, SendEraseProgress, PollProgress DEF Step
    <2>4. QED
      BY <2>2, <2>3
  <1>3. QED
    BY <1>1, <1>2 DEF SuccessInv

LEMMA InitSuccess == Init => SuccessInv
  <1> SUFFICES ASSUME Init PROVE SuccessInv
    OBVIOUS
  <1>1. DriverInv
    BY InitDriverInv
  <1>2. QED
    BY <1>1 DEF Init, SuccessInv, Whole, Works, Bare, Progress, Session, Work,
       Shown

(* EN_FLASH_SUCCESS means that what was asked for is in the flash, and the *)
(* flash protected again, whatever the bus lost on the way, on the chips   *)
(* whose protection the driver can change; on the others what is said of   *)
(* them in SuccessMeansDone.  A call that gave up on a write enable (whose *)
(* result no caller looks at) leaves old and new bytes, and no others.     *)
THEOREM SuccessIsTrue == ASSUME ShortErases PROVE Spec => []SuccessMeansDone
  <1>1. SuccessInv => SuccessMeansDone
    <2> SUFFICES ASSUME SuccessInv, result = "success"
                 PROVE  OldOrNew /\ (~gaveUp => Done)
      BY DEF SuccessMeansDone
    <2>1. OldOrNew
      BY DEF SuccessInv, DriverInv
    <2>2. ASSUME ~gaveUp, ~overtook
          PROVE  mem = Expected(request.len) /\ (id \in LockParams => protected)
      BY <2>2 DEF SuccessInv, Progress, Shown
    <2>3. Wanted = DoneTo(request.len)
      BY DEF Wanted, DoneTo, RequestCells
    <2>4. id \in LockParams => ~overtook
      BY DEF SuccessInv, Works
    <2>5. QED
      BY <2>1, <2>2, <2>3, <2>4 DEF Done, Expected, Ignores
  <1>2. SuccessInv /\ [Next]_vars => SuccessInv'
    BY StepSuccess, BeginSuccess, OtherSuccess DEF Next
  <1>3. QED
    BY InitSuccess, <1>1, <1>2, PTL DEF Spec
=============================================================================
