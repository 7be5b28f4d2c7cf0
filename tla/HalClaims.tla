------------------------------ MODULE HalClaims ------------------------------
(***************************************************************************)
(* What hal/stm32g0.c says of itself in its comments, stated as            *)
(* properties of Stm32g0Hal.                                               *)
(***************************************************************************)
EXTENDS MCStm32g0Hal

\* The builds that check SEC_SIZE.
CheckedBuilds == {{FLASH_SECURABLE_MEMORY_SUPPORT}}

(***************************************************************************)
(* do_secure_boot, lines 376-383: SEC_SIZE is the number of pages the      *)
(* secure area extends from the base of the flash, and the check makes     *)
(* sure "the size is not larger than boot partition".  So when the         *)
(* application is started the secure area, which cannot be read or run     *)
(* once SEC_PROT is set, ends at the application or before it.             *)
(***************************************************************************)
SecureAreaEndsBeforeApplication ==
    pc = "booted" =>
        FLASHMEM_ADDRESS_SPACE
            + (flash_secr % (FLASH_SECR_SEC_SIZE_MASK + 1)) * WOLFBOOT_SECTOR_SIZE
          <= WOLFBOOT_PARTITION_BOOT_ADDRESS

\* Where the processor is between the return of clock_pll_on and the call
\* of clock_pll_off, and where it is once clock_pll_off has returned.
AfterPllOn  == {"uart_init", "uart_write", "main"}
AfterPllOff == {"secure", "secure_prot", "booted", "panic"}

(***************************************************************************)
(* clock_pll_on, lines 196-203: "Select PLL as SYSCLK source" and "Wait    *)
(* for PLL clock to be selected"; clock_pll_off, lines 119-126: "Select    *)
(* HSISYS as SYSCLK source" and "Turn off PLL".  So a clock function has   *)
(* taken effect when it returns: after clock_pll_on the system runs from   *)
(* the PLL, for which uart_init computes UART_BRR, and after               *)
(* clock_pll_off of a build with WOLFBOOT_RESTORE_CLOCK it runs from HSI16 *)
(* and the PLL is off.                                                     *)
(***************************************************************************)
ClockFunctionsTakeEffect ==
    /\ pc \in AfterPllOn => rcc_cfgr.sws = RCC_CFGR_SW_PLL
    /\ (pc \in AfterPllOff /\ WOLFBOOT_RESTORE_CLOCK \in build) =>
          /\ rcc_cfgr.sws = RCC_CFGR_SW_HSISYS
          /\ RCC_CR_PLLON \notin rcc_cr
=============================================================================
