-------------------------- MODULE FlashController --------------------------
(***************************************************************************)
(* The embedded flash and its controller as the STM32 drivers see them:    *)
(* the array, FLASH_CR, FLASH_SR, the key register, and the operation the  *)
(* controller is busy with.  The names and bits are those of hal/stm32g0.c *)
(* (lines 66-104) and of hal/flash/flash_drv_stm32.h; how the controller   *)
(* reacts is what the reference manual cited there (RM0444, 3.3 and 3.7)   *)
(* says of it, reduced to what the drivers rely on:                        *)
(*  - FLASH_CR cannot be written while LOCK is set; the two keys clear     *)
(*    LOCK;                                                                *)
(*  - two word stores with PG set program one double word, which must be   *)
(*    8-byte aligned (else PGAERR) and erased (else PROGERR); stores made  *)
(*    while PG is clear program nothing and raise PGSERR; the drivers      *)
(*    store words to word-aligned addresses in every run, a store to       *)
(*    another address ends in the processor and not in the controller;     *)
(*  - on the devices stm32_flash.c has its 16-bit and its byte-by-byte     *)
(*    path for (F1, F4/F7) one store of a half word or of a byte programs  *)
(*    that unit, under the same rules;                                     *)
(*  - PER, a bank, a page number and STRT erase one page;                  *)
(*  - while an operation runs the bank's BSY flag and CFGBSY are set, and  *)
(*    EOP is set when it ends well;                                        *)
(*  - the flags of FLASH_SR other than the busy flags are cleared by       *)
(*    writing 1.                                                           *)
(* A bit mask is a set of bit names.                                       *)
(***************************************************************************)
EXTENDS Integers, FiniteSets

CONSTANTS
    FLASH_PAGE_SIZE,     \* bytes per page (0x800)
    FLASH_CR_PNB_MASK,   \* the largest page number FLASH_CR.PNB holds (0x7f)
    NumBanks             \* banks of the device: 1 or 2

ASSUME /\ FLASH_PAGE_SIZE \in Nat /\ FLASH_PAGE_SIZE % 8 = 0
       /\ FLASH_PAGE_SIZE > 0
       /\ FLASH_CR_PNB_MASK \in Nat
       /\ NumBanks \in {1, 2}

VARIABLES
    flash,     \* the array: a byte for every address
    cr,        \* FLASH_CR: [bits: the bits set, pnb: the page number field]
    sr,        \* FLASH_SR: the flags set
    pending    \* the operation in progress, or Idle

hw == <<flash, cr, sr, pending>>

FLASHMEM_ADDRESS_SPACE == \h8000000
\* 0x40000 with the page size and the page count of the device.
BANK_SIZE == (FLASH_CR_PNB_MASK + 1) * FLASH_PAGE_SIZE

FLASH_SR_CFGBSY  == "CFGBSY"
FLASH_SR_BSY2    == "BSY2"
FLASH_SR_BSY1    == "BSY1"
FLASH_SR_SIZERR  == "SIZERR"
FLASH_SR_PGAERR  == "PGAERR"
FLASH_SR_WRPERR  == "WRPERR"
FLASH_SR_PROGERR == "PROGERR"
FLASH_SR_PGSERR  == "PGSERR"
FLASH_SR_EOP     == "EOP"
FLASH_CR_LOCK    == "LOCK"
FLASH_CR_PER     == "PER"
FLASH_CR_PG      == "PG"
FLASH_CR_SEC_PROT == "SEC_PROT"
FLASH_CR_BKER    == "BKER"
FLASH_CR_FSTPG   == "FSTPG"

ERASED == 255
Byte   == 0..255
FlashAddrs ==
    FLASHMEM_ADDRESS_SPACE .. (FLASHMEM_ADDRESS_SPACE + NumBanks * BANK_SIZE - 1)

BusyFlags == {FLASH_SR_BSY1, FLASH_SR_BSY2, FLASH_SR_CFGBSY}
ErrorFlags == {FLASH_SR_SIZERR, FLASH_SR_PGAERR, FLASH_SR_WRPERR,
               FLASH_SR_PROGERR, FLASH_SR_PGSERR}
CrBits == {FLASH_CR_LOCK, FLASH_CR_PER, FLASH_CR_PG, FLASH_CR_SEC_PROT,
           FLASH_CR_BKER, FLASH_CR_FSTPG}

\* The bytes one programming operation writes: a byte, a half word or a
\* double word.
ProgramWidths == {1, 2, 8}

Idle == [kind |-> "idle"]
\* An operation: the programming of the bytes val at the address at, or
\* the erasure of page pnb of a bank.
Programs(w) == [kind : {"program"}, at : Int, val : [0..(w - 1) -> Byte]]
Erasures    == [kind : {"erase"}, bker : BOOLEAN, pnb : 0..FLASH_CR_PNB_MASK]

\* The number of bytes a programming operation writes.
Width(op) == Cardinality(DOMAIN op.val)

\* The addresses a programming operation writes.
Unit(op) == op.at..(op.at + Width(op) - 1)

\* The addresses of page pnb of the first or the second bank.
PageOf(bker, pnb) ==
    LET first == FLASHMEM_ADDRESS_SPACE
                    + (IF bker THEN BANK_SIZE ELSE 0) + pnb * FLASH_PAGE_SIZE
    IN  first..(first + FLASH_PAGE_SIZE - 1)

\* The busy flags an operation raises.
Raises(op) ==
    LET second == \/ op.kind = "erase" /\ op.bker
                  \/ op.kind = "program"
                        /\ op.at >= FLASHMEM_ADDRESS_SPACE + BANK_SIZE
    IN  {FLASH_SR_CFGBSY, IF second THEN FLASH_SR_BSY2 ELSE FLASH_SR_BSY1}

\* The error flag an operation ends with, or none.
Fault(op) ==
    CASE op.kind = "program" /\ FLASH_CR_PG \notin cr.bits -> {FLASH_SR_PGSERR}
      [] op.kind = "program" /\ op.at % Width(op) # 0 -> {FLASH_SR_PGAERR}
      [] op.kind = "program" /\ ~(Unit(op) \subseteq FlashAddrs) ->
            {FLASH_SR_PGAERR}
      [] op.kind = "program" /\ \E a \in Unit(op) : flash[a] # ERASED ->
            {FLASH_SR_PROGERR}
      [] op.kind = "erase" /\ FLASH_CR_PER \notin cr.bits -> {FLASH_SR_PGAERR}
      [] op.kind = "erase" /\ ~(PageOf(op.bker, op.pnb) \subseteq FlashAddrs) ->
            {FLASH_SR_PGAERR}
      [] OTHER -> {}

\* The array after an operation that ended well.
Effect(op) ==
    IF op.kind = "program"
    THEN [a \in FlashAddrs |->
             IF a \in Unit(op) THEN op.val[a - op.at] ELSE flash[a]]
    ELSE [a \in FlashAddrs |->
             IF a \in PageOf(op.bker, op.pnb) THEN ERASED ELSE flash[a]]

\* What FLASH_CR holds after the processor stores value into it.
CrStore(value) == IF FLASH_CR_LOCK \in cr.bits THEN cr ELSE value

\* What FLASH_SR holds after the processor stores value into it: every flag
\* written as 1 is cleared, the busy flags are read-only.
SrStore(value) == sr \ (value \ BusyFlags)

HwInit ==
    /\ cr = [bits |-> {FLASH_CR_LOCK}, pnb |-> 0]
    /\ sr = {}
    /\ pending = Idle

\* The controller ends the operation it is busy with.
HwComplete ==
    /\ pending # Idle
    /\ flash' = IF Fault(pending) = {} THEN Effect(pending) ELSE flash
    /\ sr' = (sr \ BusyFlags)
                \cup (IF Fault(pending) = {} THEN {FLASH_SR_EOP}
                                            ELSE Fault(pending))
    /\ pending' = Idle
    /\ UNCHANGED cr

HwTypeOK ==
    /\ flash \in [FlashAddrs -> Byte]
    /\ cr \in [bits : SUBSET CrBits, pnb : 0..FLASH_CR_PNB_MASK]
    /\ sr \subseteq BusyFlags \cup ErrorFlags \cup {FLASH_SR_EOP}
    /\ \/ pending = Idle
       \/ pending \in Erasures
       \/ \E w \in ProgramWidths : pending \in Programs(w)
=============================================================================
