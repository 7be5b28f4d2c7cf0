---------------------------- MODULE MCStm32g0Hal ----------------------------
(***************************************************************************)
(* Stm32g0Hal for TLC: a flash of one bank of four pages of 16 bytes, the  *)
(* application in the third page, the boot loader in the two before it.    *)
(***************************************************************************)
EXTENDS Stm32g0Hal

B == FLASHMEM_ADDRESS_SPACE

\* The boot loader and the application are in flash.
MCProgrammed == B..(B + 3 * FLASH_PAGE_SIZE - 1)

\* The application begins two pages into the flash.
MCBootAddress == B + 2 * FLASH_PAGE_SIZE

\* A write into the last page, from its start or from inside a double word.
MCWriteCalls ==
    [address : {B + 3 * FLASH_PAGE_SIZE, B + 3 * FLASH_PAGE_SIZE + 3},
     len : {5, 8}, align : {0}]

\* The erasure of the application's page or of nothing.
MCEraseCalls == [address : {MCBootAddress}, len : {0, FLASH_PAGE_SIZE}]

\* Every combination of the macros that changes what the HAL does.
MCBuilds ==
    {{},
     {DEBUG_UART},
     {WOLFBOOT_RESTORE_CLOCK},
     {FLASH_SECURABLE_MEMORY_SUPPORT},
     {FLASH_SECURABLE_MEMORY_SUPPORT, NO_FLASH_SEC_SIZE_CHECK},
     {DEBUG_UART, WOLFBOOT_RESTORE_CLOCK, FLASH_SECURABLE_MEMORY_SUPPORT}}

\* SEC_SIZE of 0, 1, 2 (the boot loader), 3 and 255 pages, and a register
\* with a bit set above the field.
MCSecrValues == {0, 1, 2, 3, 255, 256 + 2}
=============================================================================
