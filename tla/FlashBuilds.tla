---------------------------- MODULE FlashBuilds ----------------------------
(***************************************************************************)
(* The builds of the STM32 flash driver.  The driver exists twice:         *)
(* hal/flash/stm32_flash.c takes its macros from a header of               *)
(* hal/flash/config/, hal/flash/flash_drv_stm32.c is compiled under a      *)
(* TARGET_ macro with the definitions of flash_drv_stm32.h.  A build is    *)
(* the record of what its macros and #ifdef branches select:               *)
(*   busy          the flags flash_wait_complete waits for                 *)
(*   errors        the error mask flash_clear_errors writes                *)
(*   progerr       whether hal_flash_write reports PROGERR                 *)
(*   pg_clears     the bits hal_flash_write clears when it sets PG         *)
(*   remap         what the address-remap macro adds to an address         *)
(*   page_base     what the page calculation subtracts from an address     *)
(*   page_mask     whether the page number is masked with PNB_MASK         *)
(*   bank_select   whether the erasure waits for both banks and sets BKER  *)
(*   erase_clears  the bits the erasure clears beside the page number      *)
(*   unlock_waits, lock_waits                                              *)
(*                 whether hal_flash_unlock and hal_flash_lock wait for    *)
(*                 the controller first                                    *)
(*   erases        whether hal_flash_erase of this file is the one called  *)
(*   banks         the banks of the device the build is for                *)
(*   align         STM32_FLASH_WRITE_ALIGNMENT: the path of hal_flash_write *)
(*                 that is compiled                                        *)
(* HAL_FLASH_Unlock and HAL_FLASH_Lock of the L4 builds belong to the      *)
(* vendor's library; they are taken to write the keys and to set LOCK as   *)
(* the macros of the other builds do.                                      *)
(***************************************************************************)
EXTENDS FlashController

\* SIZERR | PGAERR | WRPERR | PROGERR
FLASH_SR_ERROR_MASK ==
    {FLASH_SR_SIZERR, FLASH_SR_PGAERR, FLASH_SR_WRPERR, FLASH_SR_PROGERR}

-----------------------------------------------------------------------------
(* stm32_flash.c with a header of config/ *)

\* config/stm32_flash_g0.h: STM32_FLASH_SR_BSY is BSY1, stm32g0.c defines
\* FLASH_SR_CFGBSY and FLASH_SR_PROGERR, addresses are used as they are and
\* the page is counted from FLASHMEM_ADDRESS_SPACE.
STM32_FLASH_G0 ==
    [busy |-> {FLASH_SR_BSY1, FLASH_SR_CFGBSY}, errors |-> FLASH_SR_ERROR_MASK,
     progerr |-> TRUE, pg_clears |-> {},
     remap |-> 0, page_base |-> FLASHMEM_ADDRESS_SPACE, page_mask |-> TRUE,
     bank_select |-> TRUE, erase_clears |-> {FLASH_CR_BKER},
     unlock_waits |-> TRUE, lock_waits |-> TRUE, erases |-> TRUE,
     banks |-> NumBanks, align |-> 8]

\* config/stm32_flash_c0.h: one bank; FLASHMEM_ADDRESS_SPACE is added to the
\* address of a write and the page is the address shifted, without a mask.
STM32_FLASH_C0 ==
    [STM32_FLASH_G0 EXCEPT
        !.busy = {FLASH_SR_BSY1},
        !.remap = FLASHMEM_ADDRESS_SPACE, !.page_base = 0, !.page_mask = FALSE,
        !.bank_select = FALSE, !.erase_clears = {}, !.banks = 1]

\* config/stm32_flash_wb.h: one bank; CFGBSY is waited for, FSTPG is cleared
\* with every store that sets PG or PER, and the erasure clears PG as well.
STM32_FLASH_WB ==
    [STM32_FLASH_G0 EXCEPT
        !.pg_clears = {FLASH_CR_FSTPG},
        !.bank_select = FALSE, !.erase_clears = {FLASH_CR_FSTPG, FLASH_CR_PG},
        !.banks = 1]

\* config/stm32_flash_l4.h: the error mask has PGSERR, the lock sequence is
\* HAL_FLASH_Lock alone, and the erasure is left to the HAL file.
STM32_FLASH_L4 ==
    [STM32_FLASH_G0 EXCEPT
        !.busy = {FLASH_SR_BSY1},
        !.errors = FLASH_SR_ERROR_MASK \cup {FLASH_SR_PGSERR},
        !.bank_select = FALSE, !.erase_clears = {},
        !.lock_waits = FALSE, !.erases = FALSE, !.banks = 1]

-----------------------------------------------------------------------------
(* flash_drv_stm32.c under a TARGET_ macro *)

\* Faulty variant: the flag of the first bank is left out of the wait.
TARGET_stm32g0_SecondBankOnly ==
    [STM32_FLASH_G0 EXCEPT !.busy = {FLASH_SR_BSY2}, !.progerr = FALSE]

\* Faulty variant: the wait also ends on EOP, which only the driver clears.
TARGET_stm32g0_WaitsForEop ==
    [STM32_FLASH_G0 EXCEPT
        !.busy = {FLASH_SR_BSY1, FLASH_SR_BSY2, FLASH_SR_CFGBSY, FLASH_SR_EOP},
        !.progerr = FALSE]

\* TARGET_stm32g0: flash_wait_complete waits for BSY2 too, and PROGERR is
\* looked at under TARGET_stm32l4 only.
TARGET_stm32g0 ==
    [STM32_FLASH_G0 EXCEPT
        !.busy = {FLASH_SR_BSY1, FLASH_SR_BSY2, FLASH_SR_CFGBSY},
        !.progerr = FALSE]

\* TARGET_stm32c0: the page number is masked here.
TARGET_stm32c0 ==
    [STM32_FLASH_C0 EXCEPT !.page_mask = TRUE, !.progerr = FALSE]

\* TARGET_stm32wb
TARGET_stm32wb == [STM32_FLASH_WB EXCEPT !.progerr = FALSE]

\* TARGET_stm32l4: FLASH_USE_HAL_LIBRARY; hal_flash_unlock is
\* HAL_FLASH_Unlock alone, hal_flash_erase is a fallback "that should not be
\* called".
TARGET_stm32l4 == [STM32_FLASH_L4 EXCEPT !.unlock_waits = FALSE]

IncludeStyle ==
    {STM32_FLASH_C0, STM32_FLASH_G0, STM32_FLASH_WB, STM32_FLASH_L4}

-----------------------------------------------------------------------------
(* stm32_flash.c for a device that programs half words or bytes *)

\* Faulty variant: the wait also ends on EOP, which these paths never clear.
STM32_FLASH_ALIGN_2_WaitsForEop ==
    [STM32_FLASH_G0 EXCEPT
        !.busy = {FLASH_SR_BSY1, FLASH_SR_EOP}, !.progerr = FALSE,
        !.bank_select = FALSE, !.erase_clears = {}, !.erases = FALSE,
        !.banks = 1, !.align = 2]

\* The repository has no header for such a device.  This is the header
\* stm32_flash.h asks for and no more: one busy flag, no CFGBSY, FSTPG or
\* PROGERR, addresses used as they are, the key and lock sequences of the
\* headers of config/, and an erase macro that is not among the sources.
STM32_FLASH_ALIGN_2 ==
    [busy |-> {FLASH_SR_BSY1}, errors |-> FLASH_SR_ERROR_MASK,
     progerr |-> FALSE, pg_clears |-> {},
     remap |-> 0, page_base |-> FLASHMEM_ADDRESS_SPACE, page_mask |-> TRUE,
     bank_select |-> FALSE, erase_clears |-> {},
     unlock_waits |-> TRUE, lock_waits |-> TRUE, erases |-> FALSE,
     banks |-> 1, align |-> 2]

STM32_FLASH_ALIGN_1 == [STM32_FLASH_ALIGN_2 EXCEPT !.align = 1]

Narrow == {STM32_FLASH_ALIGN_2, STM32_FLASH_ALIGN_1}

Targets == {TARGET_stm32c0, TARGET_stm32g0, TARGET_stm32wb, TARGET_stm32l4}

\* The build of stm32_flash.c for the device a build is for.
Counterpart(d) ==
    CASE d = TARGET_stm32c0 -> STM32_FLASH_C0
      [] d = TARGET_stm32g0 -> STM32_FLASH_G0
      [] d = TARGET_stm32wb -> STM32_FLASH_WB
      [] d = TARGET_stm32l4 -> STM32_FLASH_L4
      [] OTHER -> d

BuildType ==
    [busy : SUBSET (BusyFlags \cup {FLASH_SR_EOP}), errors : SUBSET ErrorFlags,
     progerr : BOOLEAN, pg_clears : SUBSET CrBits,
     remap : {0, FLASHMEM_ADDRESS_SPACE},
     page_base : {0, FLASHMEM_ADDRESS_SPACE}, page_mask : BOOLEAN,
     bank_select : BOOLEAN, erase_clears : SUBSET CrBits,
     unlock_waits : BOOLEAN, lock_waits : BOOLEAN, erases : BOOLEAN,
     banks : {1, 2}, align : ProgramWidths]
=============================================================================
