---------------------------- MODULE FlashClaims -----------------------------
(***************************************************************************)
(* Two statements the flash drivers make of themselves that their code     *)
(* does not bear out.  Each is a property TLC finds violated; the lines    *)
(* are the same in flash_drv_stm32.c and in stm32_flash.c with the header  *)
(* of the device.                                                          *)
(***************************************************************************)
EXTENDS MCFlashDrv

\* Writes of whole words to word-aligned addresses from word-aligned
\* buffers, on a double word or in the middle of one.
WordWrites == [address : {B + 32, B + 36}, len : {4, 8, 12}, align : {0, 4}]

\* Both banks hold a program in their first page.
BothProgrammed ==
    MCProgrammed \cup (B + BANK_SIZE)..(B + BANK_SIZE + FLASH_PAGE_SIZE - 1)

\* The erasure of the first page of either bank.
BankErases == [address : {B, B + BANK_SIZE}, len : {FLASH_PAGE_SIZE}]

NoWrites == {}

(***************************************************************************)
(* hal_flash_write has an "unaligned write - read-modify-write" path for   *)
(* what is not a whole aligned double word, so that a buffer of any length *)
(* may be written to any address: when the call returns, the bytes of the  *)
(* buffer are in the array at address .. address + len - 1.  The path      *)
(* takes its double word at base_addr + 4 * (i >> 2), which is not the     *)
(* double word of address + i once i > 0 and address is not a multiple of  *)
(* 8: the controller refuses the store, or the bytes land elsewhere.       *)
(***************************************************************************)
WriteStoresBuffer ==
    [][call.op = "write" /\ call' = Drv!NoCall =>
          \A k \in 0..(call.len - 1) :
              flash'[Drv!STM32_FLASH_ADDRESS_REMAP(call.address) + k]
                  = Drv!Data(call.len)[k]]_vars

(***************************************************************************)
(* "G0 erase with bank selection": hal_flash_erase sets BKER for a page of *)
(* the second bank, so that when the call returns the pages of its range   *)
(* are erased.  The page number is masked with FLASH_CR_PNB_MASK before it *)
(* is compared with BANK_SIZE, the comparison never holds, and the page of *)
(* that number in the first bank is erased instead.                        *)
(***************************************************************************)
EraseSelectsBank ==
    [][call.op = "erase" /\ call' = Drv!NoCall =>
          \A k \in 0..(call.len - 1) :
              flash'[Drv!STM32_FLASH_ADDRESS_REMAP(call.address) + k]
                  = ERASED]_vars
=============================================================================
