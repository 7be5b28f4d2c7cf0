------------------------------ MODULE StmFlash ------------------------------
(***************************************************************************)
(* The STM32 flash driver of hal/flash/stm32_flash.c in each of its        *)
(* builds, on the controller of FlashController: hal_flash_write with its  *)
(* 8-byte, its 16-bit and its byte-by-byte path, hal_flash_erase,          *)
(* hal_flash_unlock and hal_flash_lock.  The build is chosen when the      *)
(* program is compiled and never changes.                                  *)
(*                                                                         *)
(* The processor is one thread, but the controller works beside it: every  *)
(* busy-wait of the driver is a guard that holds the driver until the      *)
(* controller has ended its operation.  A call of hal_flash_write or       *)
(* hal_flash_erase is therefore a sequence of steps, one for every stretch *)
(* of code between two waits.  The caller is the boot loader: it unlocks,  *)
(* erases and writes, and locks, in any order and number up to MaxCalls.   *)
(***************************************************************************)
EXTENDS FlashBuilds, TLC

CONSTANTS
    Drivers,      \* the builds of the driver, see FlashBuilds
    WriteCalls,   \* the writes the boot loader makes: [address, len, align],
                  \* address being where in the array the bytes belong and
                  \* align the address of the data buffer modulo 8
    EraseCalls,   \* the erasures the boot loader makes: [address, len]
    LockedCalls,  \* whether it also writes and erases without unlocking
    Programmed,   \* the addresses that hold a program when the system starts
    MaxCalls      \* bound: calls made before the boot loader hands over

VARIABLES
    driver,   \* the build this program is
    call,     \* the call in progress and its local variables, or NoCall
    before,   \* history: the array when the call in progress began
    ret,      \* the value the last call returned
    ncalls    \* calls made so far

vars == <<flash, cr, sr, pending, driver, call, before, ret, ncalls>>

NoCall == [op |-> "none"]
OLD    == 90     \* a byte of the program in flash at start

\* The bytes of the buffer: byte k of every buffer is k + 1.
Data(len) == [k \in 0..(len - 1) |-> k + 1]

STM32_FLASH_SR_ERROR_MASK == driver.errors

\* STM32_FLASH_ADDRESS_REMAP
STM32_FLASH_ADDRESS_REMAP(addr) == addr + driver.remap

-----------------------------------------------------------------------------
(* Helpers of the driver *)

\* Faulty variant: returns without looking at the status register.
flash_wait_complete_NoWait == TRUE

\* The condition the busy-wait loop ends on.
flash_wait_complete == sr \cap driver.busy = {}

\* FLASH_SR |= mask: the register is read, or-ed and written back.
flash_clear_errors == SrStore(sr \cup STM32_FLASH_SR_ERROR_MASK)

\* The controller is given an operation; the flags are those the driver
\* has just written.
Start(op, flags) ==
    /\ pending' = op
    /\ sr' = flags \cup Raises(op)

-----------------------------------------------------------------------------
(* hal_flash_write, STM32_FLASH_WRITE_ALIGNMENT == 8 *)

\* Where hal_flash_write goes on for each STM32_FLASH_WRITE_ALIGNMENT.
WritePath == (8 :> "loop") @@ (2 :> "half_begin") @@ (1 :> "byte_begin")

\* Clears the errors and sets PG, clearing FSTPG where the build has it.
WriteBegin ==
    /\ call.op = "write" /\ call.pc = "begin"
    /\ sr' = flash_clear_errors
    /\ cr' = CrStore([cr EXCEPT
                         !.bits = (@ \ driver.pg_clears) \cup {FLASH_CR_PG}])
    /\ call' = [call EXCEPT !.pc = WritePath[driver.align]]
    /\ UNCHANGED <<flash, pending, driver, before, ret, ncalls>>

\* Eight bytes are left and both the destination and the source are 8-byte
\* aligned.
CanWriteAligned(c) ==
    /\ c.len - c.i >= 8
    /\ (c.address + c.i) % 8 = 0
    /\ (c.align + c.i) % 8 = 0

\* Faulty variant: the word index is not taken from i.
WordIndex_Zero(i) == 0

\* u32_idx: the index of the 32-bit word that holds byte i.
WordIndex(i) == i \div 4

\* The aligned path: two words of the buffer stored to dst[i >> 2] and the
\* word after it, dst being the remapped address of the call.  The code clears
\* the error flags at the top of the iteration and waits before the store; the
\* controller raises its flags when it takes an operation and never while it
\* completes one, so the flags read the same before that wait and after it.
WriteAligned ==
    /\ call.op = "write" /\ call.pc = "loop"
    /\ call.i < call.len
    /\ CanWriteAligned(call)
    /\ flash_wait_complete
    /\ LET from == 4 * WordIndex(call.i)
       IN  Start([kind |-> "program",
                  at |-> STM32_FLASH_ADDRESS_REMAP(call.address) + from,
                  val |-> [j \in 0..7 |-> Data(call.len)[from + j]]],
                 flash_clear_errors)
    /\ call' = [call EXCEPT !.pc = "wait", !.i = @ + 8]
    /\ UNCHANGED <<flash, cr, driver, before, ret, ncalls>>

\* The read-modify-write path: the double word at dst[u32_idx], dst being
\* the address of the call rounded down to 8 and remapped, is read, the bytes
\* from off on are replaced by the next bytes of the buffer, and it is
\* stored back.
WriteUnaligned ==
    /\ call.op = "write" /\ call.pc = "loop"
    /\ call.i < call.len
    /\ ~CanWriteAligned(call)
    /\ LET off       == (call.address + call.i) % 8
           base_addr == call.address - (call.address % 8)
           at        == STM32_FLASH_ADDRESS_REMAP(base_addr)
                           + 4 * WordIndex(call.i)
           n         == IF 8 - off < call.len - call.i THEN 8 - off
                                                       ELSE call.len - call.i
           val       == [j \in 0..7 |->
                            IF j \in off..(off + n - 1)
                            THEN Data(call.len)[call.i + j - off]
                            ELSE flash[at + j]]
       IN  /\ Start([kind |-> "program", at |-> at, val |-> val],
                    flash_clear_errors)
           /\ call' = [call EXCEPT !.pc = "wait", !.i = @ + n]
    /\ UNCHANGED <<flash, cr, driver, before, ret, ncalls>>

\* The flash_wait_complete that ends either path.
WriteWait ==
    /\ call.op = "write" /\ call.pc = "wait"
    /\ flash_wait_complete
    /\ call' = [call EXCEPT !.pc = "loop"]
    /\ UNCHANGED <<flash, cr, sr, pending, driver, before, ret, ncalls>>

\* Faulty variant: PG stays set.
WriteCleanup_KeepsPG == cr

\* FLASH_CR after the common cleanup.
WriteCleanup == CrStore([cr EXCEPT !.bits = @ \ {FLASH_CR_PG}])

\* The common cleanup: the result is taken from PROGERR, EOP is cleared if
\* set, PG is cleared.
WriteEnd ==
    /\ call.op = "write" /\ call.pc = "loop"
    /\ call.i >= call.len
    /\ ret' = IF driver.progerr /\ FLASH_SR_PROGERR \in sr THEN -1 ELSE 0
    /\ sr' = IF FLASH_SR_EOP \in sr THEN SrStore(sr \cup {FLASH_SR_EOP}) ELSE sr
    /\ cr' = WriteCleanup
    /\ call' = NoCall
    /\ UNCHANGED <<flash, pending, driver, before, ncalls>>

-----------------------------------------------------------------------------
(* hal_flash_write, STM32_FLASH_WRITE_ALIGNMENT == 2 *)

\* FLASH_CR after FLASH_CR | PG, and after FLASH_CR & ~PG.
SetPG   == CrStore([cr EXCEPT !.bits = @ \cup {FLASH_CR_PG}])
ClearPG == CrStore([cr EXCEPT !.bits = @ \ {FLASH_CR_PG}])

\* A half word, low byte first.
HalfWord(low, high) == [j \in 0..1 |-> IF j = 0 THEN low ELSE high]

\* Faulty variant: the byte of the buffer is put into the low half.
OddStart_LowHalf(dst_16, b) == HalfWord(b, flash[dst_16 + 1])

\* tmp of the unaligned initial write: the low half as it is in the array,
\* the first byte of the buffer above it.
OddStart(dst_16, b) == HalfWord(flash[dst_16], b)

\* tmp of the unaligned last write: the last byte of the buffer, the high
\* half as it is in the array.
OddEnd(dst_16, b) == HalfWord(b, flash[dst_16 + 1])

\* PG is set and the half word val is stored to dst_16.
StoreHalfWord(val, then) ==
    /\ cr' = SetPG
    /\ Start([kind |-> "program", at |-> call.dst, val |-> val], sr)
    /\ call' = [call EXCEPT !.pc = then]
    /\ UNCHANGED <<flash, driver, before, ret, ncalls>>

\* dst_16 is the remapped address with its lowest bit cleared; the driver
\* waits for the controller.
HalfBegin ==
    /\ call.op = "write" /\ call.pc = "half_begin"
    /\ flash_wait_complete
    /\ LET dst == STM32_FLASH_ADDRESS_REMAP(call.address)
       IN  call' = [call EXCEPT !.dst = dst - (dst % 2),
                                !.pc = IF call.address % 2 = 1 THEN "half_odd"
                                                               ELSE "half_loop"]
    /\ UNCHANGED <<flash, cr, sr, pending, driver, before, ret, ncalls>>

\* The unaligned initial write, made whatever len is.
HalfOddStart ==
    /\ call.op = "write" /\ call.pc = "half_odd"
    /\ StoreHalfWord(OddStart(call.dst, Data(call.len)[0]), "half_odd_wait")

\* The regular 16-bit write: two bytes of the buffer.
HalfRegular ==
    /\ call.op = "write" /\ call.pc = "half_loop"
    /\ call.i + 1 < call.len
    /\ StoreHalfWord(HalfWord(Data(call.len)[call.i], Data(call.len)[call.i + 1]),
                     "half_wait")

\* After either of the two: the driver waits, clears PG and sets it again,
\* and moves on by the bytes it has written.
HalfNext ==
    /\ call.op = "write" /\ call.pc \in {"half_odd_wait", "half_wait"}
    /\ flash_wait_complete
    /\ cr' = SetPG
    /\ call' = [call EXCEPT !.pc = "half_loop", !.dst = @ + 2,
                            !.i = @ + (IF call.pc = "half_wait" THEN 2 ELSE 1)]
    /\ UNCHANGED <<flash, sr, pending, driver, before, ret, ncalls>>

\* The unaligned last write: one byte is left.
HalfOddEnd ==
    /\ call.op = "write" /\ call.pc = "half_loop"
    /\ call.i + 1 = call.len
    /\ StoreHalfWord(OddEnd(call.dst, Data(call.len)[call.i]), "half_last_wait")

\* After it the driver waits, clears PG and leaves the loop; the function
\* returns 0 without the common cleanup.
HalfBreak ==
    /\ call.op = "write" /\ call.pc = "half_last_wait"
    /\ flash_wait_complete
    /\ cr' = ClearPG
    /\ ret' = 0
    /\ call' = NoCall
    /\ UNCHANGED <<flash, sr, pending, driver, before, ncalls>>

\* The loop ends with nothing left: the function returns 0 without the
\* common cleanup.
NarrowEnd ==
    /\ call.op = "write" /\ call.pc \in {"half_loop", "byte_loop"}
    /\ call.i >= call.len
    /\ ret' = 0
    /\ call' = NoCall
    /\ UNCHANGED <<flash, cr, sr, pending, driver, before, ncalls>>

WriteHalfWords ==
    HalfBegin \/ HalfOddStart \/ HalfRegular \/ HalfNext \/ HalfOddEnd
        \/ HalfBreak

-----------------------------------------------------------------------------
(* hal_flash_write, STM32_FLASH_WRITE_ALIGNMENT == 1 *)

\* The driver waits, clears the errors and sets PG with the programming
\* size of a byte, which is the only size of this build.
ByteBegin ==
    /\ call.op = "write" /\ call.pc = "byte_begin"
    /\ flash_wait_complete
    /\ sr' = flash_clear_errors
    /\ cr' = SetPG
    /\ call' = [call EXCEPT !.pc = "byte_loop",
                            !.dst = STM32_FLASH_ADDRESS_REMAP(call.address)]
    /\ UNCHANGED <<flash, pending, driver, before, ret, ncalls>>

\* PG is set and byte i of the buffer is stored to addr + i.
ByteStore ==
    /\ call.op = "write" /\ call.pc = "byte_loop"
    /\ call.i < call.len
    /\ cr' = SetPG
    /\ Start([kind |-> "program", at |-> call.dst + call.i,
              val |-> [j \in {0} |-> Data(call.len)[call.i]]], sr)
    /\ call' = [call EXCEPT !.pc = "byte_wait"]
    /\ UNCHANGED <<flash, driver, before, ret, ncalls>>

\* The driver waits and clears PG; the loop moves on.
ByteNext ==
    /\ call.op = "write" /\ call.pc = "byte_wait"
    /\ flash_wait_complete
    /\ cr' = ClearPG
    /\ call' = [call EXCEPT !.pc = "byte_loop", !.i = @ + 1]
    /\ UNCHANGED <<flash, sr, pending, driver, before, ret, ncalls>>

WriteBytes == ByteBegin \/ ByteStore \/ ByteNext

hal_flash_write ==
    \/ WriteBegin
    \/ WriteAligned \/ WriteUnaligned \/ WriteWait \/ WriteEnd
    \/ WriteHalfWords \/ WriteBytes \/ NarrowEnd

-----------------------------------------------------------------------------
(* hal_flash_unlock, hal_flash_lock *)

\* FLASH_CR after STM32_FLASH_UNLOCK_SEQUENCE: if LOCK is set the two keys
\* are written, which clears it, and the macro waits until it reads as clear.
STM32_FLASH_UNLOCK_SEQUENCE == [cr EXCEPT !.bits = @ \ {FLASH_CR_LOCK}]

\* FLASH_CR after STM32_FLASH_LOCK_SEQUENCE: LOCK is set if it is not.
STM32_FLASH_LOCK_SEQUENCE == [cr EXCEPT !.bits = @ \cup {FLASH_CR_LOCK}]

hal_flash_unlock ==
    /\ call.op = "unlock"
    /\ driver.unlock_waits => flash_wait_complete
    /\ cr' = STM32_FLASH_UNLOCK_SEQUENCE
    /\ call' = NoCall
    /\ UNCHANGED <<flash, sr, pending, driver, before, ret, ncalls>>

hal_flash_lock ==
    /\ call.op = "lock"
    /\ driver.lock_waits => flash_wait_complete
    /\ cr' = STM32_FLASH_LOCK_SEQUENCE
    /\ call' = NoCall
    /\ UNCHANGED <<flash, sr, pending, driver, before, ret, ncalls>>

-----------------------------------------------------------------------------
(* hal_flash_erase *)

\* A length of zero is refused.
EraseRefused ==
    /\ call.op = "erase" /\ call.pc = "begin"
    /\ call.len = 0
    /\ ret' = -1
    /\ call' = NoCall
    /\ UNCHANGED <<flash, cr, sr, pending, driver, before, ncalls>>

\* end_address is the last address of the range; the loop starts at address.
EraseBegin ==
    /\ call.op = "erase" /\ call.pc = "begin"
    /\ call.len # 0
    /\ flash_wait_complete
    /\ call' = [call EXCEPT !.pc = "loop", !.p = call.address,
                            !.end_address = call.address + call.len - 1]
    /\ UNCHANGED <<flash, cr, sr, pending, driver, before, ret, ncalls>>

\* STM32_FLASH_ERASE_CALC_PAGE: the page number of address p.
STM32_FLASH_ERASE_CALC_PAGE(p) ==
    LET page == (p - driver.page_base) \div FLASH_PAGE_SIZE
    IN  IF driver.page_mask THEN page % (FLASH_CR_PNB_MASK + 1) ELSE page

\* Faulty variant: the loop steps over a page.
NextPage_Skips(p) == p + 2 * FLASH_PAGE_SIZE

\* p += STM32_FLASH_ERASE_PAGE_SIZE
NextPage(p) == p + FLASH_PAGE_SIZE

\* STM32_FLASH_ERASE_PAGE up to STRT: a build with bank selection waits for
\* both banks and for CFGBSY; the page number, and the bank where there is
\* one, are written with PER, then STRT is written, which starts the erasure
\* unless FLASH_CR is locked.
ErasePage ==
    /\ call.op = "erase" /\ call.pc = "loop"
    /\ call.p < call.end_address
    /\ driver.bank_select => sr \cap BusyFlags = {}
    /\ LET page == STM32_FLASH_ERASE_CALC_PAGE(call.p)
           bker == IF driver.bank_select /\ page * FLASH_PAGE_SIZE >= BANK_SIZE
                   THEN {FLASH_CR_BKER} ELSE {}
           reg  == [bits |-> (cr.bits \ driver.erase_clears)
                                \cup bker \cup {FLASH_CR_PER},
                    pnb |-> page]
       IN  /\ cr' = CrStore(reg)
           /\ IF FLASH_CR_LOCK \in cr.bits
              THEN pending' = pending /\ sr' = flash_clear_errors
              ELSE Start([kind |-> "erase", bker |-> bker # {}, pnb |-> page],
                         flash_clear_errors)
    /\ call' = [call EXCEPT !.pc = "wait"]
    /\ UNCHANGED <<flash, driver, before, ret, ncalls>>

\* STM32_FLASH_ERASE_PAGE after STRT: waits, clears PER; the loop moves on.
ErasePageDone ==
    /\ call.op = "erase" /\ call.pc = "wait"
    /\ flash_wait_complete
    /\ cr' = CrStore([cr EXCEPT !.bits = @ \ {FLASH_CR_PER}])
    /\ call' = [call EXCEPT !.pc = "loop", !.p = NextPage(@)]
    /\ UNCHANGED <<flash, sr, pending, driver, before, ret, ncalls>>

EraseEnd ==
    /\ call.op = "erase" /\ call.pc = "loop"
    /\ call.p >= call.end_address
    /\ ret' = 0
    /\ call' = NoCall
    /\ UNCHANGED <<flash, cr, sr, pending, driver, before, ncalls>>

hal_flash_erase ==
    EraseRefused \/ EraseBegin \/ ErasePage \/ ErasePageDone \/ EraseEnd

-----------------------------------------------------------------------------
(* The caller *)

Unlocked == FLASH_CR_LOCK \notin cr.bits

\* The call is for the device the build is for.
InDevice(c) ==
    c.address + c.len <= FLASHMEM_ADDRESS_SPACE + driver.banks * BANK_SIZE

\* The address the boot loader passes for a place in the array: the one the
\* remap macro of the build maps to it.
Passed(address) == address - driver.remap

\* The addresses of the units of programming (double words, half words or
\* bytes) a write of len bytes at address touches.
Touched(address, len) ==
    LET last == address + len - 1
        unit == driver.align
    IN  (address - (address % unit))..(last - (last % unit) + unit - 1)

\* NVM_FLASH_WRITEONCE, which hal/stm32g0.c requires: a unit is written
\* once between two erasures.
WriteOnce(c) == \A a \in Touched(c.address, c.len) : flash[a] = ERASED

\* The boot loader is between two calls and has calls left to make.
CanCall == call = NoCall /\ ncalls < MaxCalls

Enter(c) ==
    /\ call' = c
    /\ before' = flash
    /\ ncalls' = ncalls + 1
    /\ UNCHANGED <<flash, cr, sr, pending, driver, ret>>

CallUnlock == CanCall /\ Enter([op |-> "unlock"])

CallLock == CanCall /\ Enter([op |-> "lock"])

CallWrite ==
    /\ CanCall
    /\ Unlocked \/ LockedCalls
    /\ \E c \in WriteCalls :
          /\ InDevice(c)
          /\ WriteOnce(c)
          /\ Enter([op |-> "write", pc |-> "begin",
                    address |-> Passed(c.address),
                    len |-> c.len, align |-> c.align, i |-> 0, dst |-> 0])

\* The erasure of a build that leaves it to the HAL file is not this one.
CallErase ==
    /\ CanCall
    /\ Unlocked \/ LockedCalls
    /\ driver.erases
    /\ \E c \in EraseCalls :
          /\ InDevice(c)
          /\ Enter([op |-> "erase", pc |-> "begin",
                    address |-> Passed(c.address),
                    len |-> c.len, p |-> 0, end_address |-> 0])

\* The boot loader has handed over to the application.
Booted ==
    /\ call = NoCall
    /\ ncalls = MaxCalls
    /\ UNCHANGED vars

Init ==
    /\ HwInit
    /\ driver \in Drivers
    /\ flash = [a \in FlashAddrs |-> IF a \in Programmed THEN OLD ELSE ERASED]
    /\ call = NoCall
    /\ before = flash
    /\ ret = 0
    /\ ncalls = 0

DriverStep == hal_flash_write \/ hal_flash_erase \/ hal_flash_unlock \/ hal_flash_lock

Controller == HwComplete /\ UNCHANGED <<driver, call, before, ret, ncalls>>

Next ==
    \/ CallUnlock \/ CallLock \/ CallWrite \/ CallErase
    \/ DriverStep
    \/ Controller
    \/ Booted

\* The processor executes the call it is in, and the controller ends every
\* operation it has begun.  Nothing obliges the boot loader to call.
Fairness == WF_vars(DriverStep) /\ WF_vars(Controller)

Spec == Init /\ [][Next]_vars /\ Fairness

-----------------------------------------------------------------------------
(* Properties *)

\* The state of the driver and of the controller is well-formed: the index
\* of hal_flash_write stays within len, and the loop of hal_flash_erase
\* starts at address and stops less than a page behind end_address.
DriverTypeOK ==
    /\ HwTypeOK
    /\ driver \in Drivers \cap BuildType
    /\ before \in [FlashAddrs -> Byte]
    /\ ret \in {0, -1}
    /\ ncalls \in 0..MaxCalls
    /\ call.op \in {"none", "write", "erase", "lock", "unlock"}
    /\ call.op = "write" =>
          /\ call.pc \in {"begin", "loop", "wait"}
                \cup {"half_begin", "half_odd", "half_odd_wait", "half_loop",
                      "half_wait", "half_last_wait"}
                \cup {"byte_begin", "byte_loop", "byte_wait"}
          /\ call.i \in 0..call.len
    /\ call.op = "erase" =>
          /\ call.pc \in {"begin", "loop", "wait"}
          /\ call.pc # "begin" =>
                call.p \in call.address..(call.end_address + FLASH_PAGE_SIZE - 1)

\* A call as its caller means it: the place in the array and the length.
Request(c) ==
    IF c.op \in {"write", "erase"}
    THEN [op |-> c.op, address |-> c.address + driver.remap, len |-> c.len]
    ELSE [op |-> c.op]

\* The driver seen by its caller: the array changes when a call returns.
Contract ==
    INSTANCE FlashSpec
        WITH Addrs <- FlashAddrs, PageSize <- FLASH_PAGE_SIZE, Erased <- ERASED,
             Requests <- {[op |-> "lock"], [op |-> "unlock"]}
                \cup [op : {"write"}, address : {c.address : c \in WriteCalls},
                      len : {c.len : c \in WriteCalls}]
                \cup [op : {"erase"}, address : {c.address : c \in EraseCalls},
                      len : {c.len : c \in EraseCalls}],
             mem <- IF call = NoCall THEN flash ELSE before,
             locked <- ~Unlocked,
             op <- Request(call),
             result <- ret

(***************************************************************************)
(* The driver keeps the promise of the HAL.  Between the moment a call of  *)
(* hal_flash_write or hal_flash_erase is made and the moment it returns,   *)
(* the array has changed exactly as the write of that buffer to that       *)
(* range, or the erasure of the pages of that range, changes it: every     *)
(* byte of the buffer is where the aligned and the read-modify-write paths *)
(* of hal_flash_write together should have put it, the loop of             *)
(* hal_flash_erase has visited every page of the range, no byte outside    *)
(* the range has changed, and the call returns 0 (-1 for an erasure of     *)
(* nothing).  hal_flash_unlock and hal_flash_lock open and close the array *)
(* and leave it as it is.                                                  *)
(***************************************************************************)
ImplementsFlashSpec == Contract!Spec

(***************************************************************************)
(* The driver never gives the controller work while it is busy: FLASH_CR   *)
(* is stored to, and a new program or erase operation is begun, only when  *)
(* the previous one has ended.  This is what the calls of                  *)
(* flash_wait_complete in hal_flash_write, STM32_FLASH_ERASE_PAGE and the  *)
(* lock sequences are placed for; hal_flash_write itself sets PG without   *)
(* waiting and relies on the call before it having waited.                 *)
(***************************************************************************)
NeverCommandedWhileBusy ==
    [][(cr' # cr \/ (pending' # Idle /\ pending' # pending)) => pending = Idle]_vars

(***************************************************************************)
(* Between two calls the controller is at rest: no operation is running,   *)
(* no busy flag is set, and neither PG nor PER is left set by the cleanup  *)
(* of hal_flash_write or by STM32_FLASH_ERASE_PAGE, whatever path the call *)
(* took.                                                                   *)
(***************************************************************************)
AtRestBetweenCalls ==
    call = NoCall =>
        /\ pending = Idle
        /\ sr \cap BusyFlags = {}
        /\ cr.bits \cap {FLASH_CR_PG, FLASH_CR_PER} = {}

(***************************************************************************)
(* Every call returns: the busy-wait loops of flash_wait_complete and the  *)
(* page loop of hal_flash_erase come to an end, given a controller that    *)
(* ends every operation.                                                   *)
(***************************************************************************)
CallsReturn == (call # NoCall) ~> (call = NoCall)
=============================================================================
