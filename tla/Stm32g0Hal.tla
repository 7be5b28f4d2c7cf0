------------------------------ MODULE Stm32g0Hal ------------------------------
(***************************************************************************)
(* The STM32G0 HAL of hal/stm32g0.c around its flash driver: hal_init      *)
(* (clock_pll_on, and under DEBUG_UART uart_init and uart_write), the boot *)
(* loader's calls of the flash functions, and hal_prepare_boot             *)
(* (clock_pll_off under WOLFBOOT_RESTORE_CLOCK, do_secure_boot under       *)
(* FLASH_SECURABLE_MEMORY_SUPPORT).                                         *)
(*                                                                         *)
(* The processor is one thread; the clock controller, the UART and the     *)
(* flash controller work beside it.  Every busy-wait is a guard, and a     *)
(* function is one step for every stretch of code between two points at    *)
(* which the hardware may have moved.  What the clock controller does is   *)
(* what RM0444 5.2 and 5.4 say of it: an oscillator that is switched on    *)
(* becomes ready after a while, SWS follows SW once the selected source    *)
(* is ready, and PLLON cannot be cleared while the PLL is the system       *)
(* clock.  A register is the set of the bits set in it.                    *)
(***************************************************************************)
EXTENDS FlashBuilds

CONSTANTS
    WriteCalls,   \* the calls of hal_flash_write: [address, len, align]
    EraseCalls,   \* the calls of hal_flash_erase: [address, len]
    Programmed,   \* the addresses that hold a program when the system starts
    MaxCalls,     \* bound: flash calls the boot loader makes
    Builds,       \* the builds: each the set of macros it is compiled with
    SecrValues,   \* the values of FLASH_SECR the option bytes may hold
    WOLFBOOT_PARTITION_BOOT_ADDRESS,   \* where the application begins
    WOLFBOOT_SECTOR_SIZE,
    MsgLen        \* bound: characters hal_init prints (14)

VARIABLES
    driver, call, before, ret, ncalls,   \* the flash driver, see StmFlash
    build,        \* the macros this program is compiled with
    pc,           \* where the processor is
    rcc_cr,       \* RCC_CR
    rcc_cfgr,     \* RCC_CFGR: [sw: the source selected, sws: the source in use]
    rcc_pllcfgr,  \* RCC_PLLCFGR
    acr,          \* FLASH_ACR: the wait states
    enr,          \* the peripheral clocks enabled (RCC_IOPENR, APBx_CLOCK_ER)
    uart,         \* UART2: [cr1, brr, stop2, tx_empty], and len of uart_write
    flash_secr    \* FLASH_SECR

drv  == <<flash, cr, sr, pending, driver, call, before, ret, ncalls>>
rcc  == <<rcc_cr, rcc_cfgr, rcc_pllcfgr>>
hal  == <<build, pc, rcc, acr, enr, uart, flash_secr>>
vars == <<drv, hal>>

\* hal/stm32g0.c includes flash_drv_stm32.c under TARGET_stm32g0; the boot
\* loader unlocks before it writes or erases.
Flash == INSTANCE FlashDrvStm32 WITH LockedCalls <- FALSE
NoCall == Flash!Drv!NoCall

DEBUG_UART                     == "DEBUG_UART"
WOLFBOOT_RESTORE_CLOCK         == "WOLFBOOT_RESTORE_CLOCK"
FLASH_SECURABLE_MEMORY_SUPPORT == "FLASH_SECURABLE_MEMORY_SUPPORT"
NO_FLASH_SEC_SIZE_CHECK        == "NO_FLASH_SEC_SIZE_CHECK"
Macros == {DEBUG_UART, WOLFBOOT_RESTORE_CLOCK, FLASH_SECURABLE_MEMORY_SUPPORT,
           NO_FLASH_SEC_SIZE_CHECK}

RCC_CR_PLLRDY == "PLLRDY"
RCC_CR_PLLON  == "PLLON"
RCC_CR_HSIRDY == "HSIRDY"
RCC_CR_HSION  == "HSION"
RCC_CFGR_SW_HSISYS == "HSISYS"
RCC_CFGR_SW_PLL    == "PLL"
RCC_PLLCFGR_PLLR_EN == "PLLR_EN"
\* PLLSRC HSI16, M = 1, N = 8, P = 2, R = 2: 64 MHz.
PLL_64MHZ == "HSI16*8/2"

PWR_APB1_CLOCK_ER_VAL    == "PWR"
SYSCFG_APB2_CLOCK_ER_VAL == "SYSCFG"
UART2_APB1_CLOCK_ER_VAL  == "UART2"
IOPAEN                   == "IOPA"

UART_CR1_UART_ENABLE    == "UE"
UART_CR1_RX_ENABLE      == "RE"
UART_CR1_TX_ENABLE      == "TE"
UART_CR1_PARITY_ODD     == "PS"
UART_CR1_PARITY_ENABLED == "PCE"
UART_CR1_SYMBOL_LEN     == "M0"
UART_CR1_OVER8          == "OVER8"
UartCr1Bits == {UART_CR1_UART_ENABLE, UART_CR1_RX_ENABLE, UART_CR1_TX_ENABLE,
                UART_CR1_PARITY_ODD, UART_CR1_PARITY_ENABLED,
                UART_CR1_SYMBOL_LEN, UART_CR1_OVER8}
CLOCK_SPEED == 64000000

FLASH_SECR_SEC_SIZE_MASK == 255

-----------------------------------------------------------------------------
(* The clock controller *)

\* Whether the clock controller can run the system from source.
Ready(source) ==
    IF source = RCC_CFGR_SW_PLL
    THEN RCC_CR_PLLRDY \in rcc_cr /\ RCC_PLLCFGR_PLLR_EN \in rcc_pllcfgr
    ELSE RCC_CR_HSIRDY \in rcc_cr

\* What RCC_CR holds after the processor stores value into it: the ready
\* bits are read-only, and PLLON stays set while the PLL is the system clock.
RccCrStore(value) ==
    (value \ {RCC_CR_PLLRDY, RCC_CR_HSIRDY})
        \cup (rcc_cr \cap {RCC_CR_PLLRDY, RCC_CR_HSIRDY})
        \cup (IF rcc_cfgr.sws = RCC_CFGR_SW_PLL
              THEN rcc_cr \cap {RCC_CR_PLLON} ELSE {})

\* The PLL locks after it is switched on, and stops after it is switched off.
HwPll ==
    /\ (RCC_CR_PLLON \in rcc_cr) # (RCC_CR_PLLRDY \in rcc_cr)
    /\ rcc_cr' = IF RCC_CR_PLLON \in rcc_cr
                 THEN rcc_cr \cup {RCC_CR_PLLRDY} ELSE rcc_cr \ {RCC_CR_PLLRDY}
    /\ UNCHANGED <<drv, build, pc, rcc_cfgr, rcc_pllcfgr, acr, enr, uart,
                   flash_secr>>

\* The system clock moves to the source selected.
HwClockSwitch ==
    /\ rcc_cfgr.sws # rcc_cfgr.sw
    /\ Ready(rcc_cfgr.sw)
    /\ rcc_cfgr' = [rcc_cfgr EXCEPT !.sws = rcc_cfgr.sw]
    /\ UNCHANGED <<drv, build, pc, rcc_cr, rcc_pllcfgr, acr, enr, uart,
                   flash_secr>>

\* The UART has moved the character of UART_TDR to its shift register.
HwUart ==
    /\ ~uart.tx_empty
    /\ uart' = [uart EXCEPT !.tx_empty = TRUE]
    /\ UNCHANGED <<drv, build, pc, rcc, acr, enr, flash_secr>>

-----------------------------------------------------------------------------
(* hal_init: clock_pll_on *)

\* FLASH_ACR after flash_set_waitstates: written if its two low bits differ.
flash_set_waitstates(waitstates) ==
    IF acr % 4 # waitstates THEN (acr - (acr % 4)) + waitstates ELSE acr

\* Faulty variant: the PLL is selected without waiting for it.
PllLocked_NoWait == TRUE

\* The condition the loop after RCC_CR |= PLLON ends on.
PllLocked == RCC_CR_PLLRDY \in rcc_cr

\* The condition the last loop of clock_pll_on ends on: it reads the two
\* low bits of RCC_CFGR, the bits of SW.
PllSelected == rcc_cfgr.sw = RCC_CFGR_SW_PLL

\* The power controller is enabled, the wait states are set, HSI16 is
\* switched on and waited for, and selected as the system clock.  HSI16 runs
\* from reset and nothing in the HAL stops it, so the wait for HSIRDY between
\* the stores divides the step nowhere.
PllOnHsi ==
    /\ pc = "reset"
    /\ RCC_CR_HSIRDY \in rcc_cr
    /\ enr' = enr \cup {PWR_APB1_CLOCK_ER_VAL}
    /\ acr' = flash_set_waitstates(2)
    /\ rcc_cr' = RccCrStore(rcc_cr \cup {RCC_CR_HSION})
    /\ rcc_cfgr' = [rcc_cfgr EXCEPT !.sw = RCC_CFGR_SW_HSISYS]
    /\ pc' = "pll_disable"
    /\ UNCHANGED <<drv, build, rcc_pllcfgr, uart, flash_secr>>

\* The PLL is switched off.
PllOnDisable ==
    /\ pc = "pll_disable"
    /\ rcc_cr' = RccCrStore(rcc_cr \ {RCC_CR_PLLON})
    /\ pc' = "pll_config"
    /\ UNCHANGED <<drv, build, rcc_cfgr, rcc_pllcfgr, acr, enr, uart, flash_secr>>

\* The prescalers are written as 0, which they are; the PLL is configured
\* by or-ing the fields into the register, its R output is enabled and it
\* is switched on.
PllOnConfigure ==
    /\ pc = "pll_config"
    /\ rcc_pllcfgr' = rcc_pllcfgr \cup {PLL_64MHZ, RCC_PLLCFGR_PLLR_EN}
    /\ rcc_cr' = RccCrStore(rcc_cr \cup {RCC_CR_PLLON})
    /\ pc' = "pll_wait"
    /\ UNCHANGED <<drv, build, rcc_cfgr, acr, enr, uart, flash_secr>>

\* The PLL is waited for and selected as the system clock.
PllOnSelect ==
    /\ pc = "pll_wait"
    /\ PllLocked
    /\ rcc_cfgr' = [rcc_cfgr EXCEPT !.sw = RCC_CFGR_SW_PLL]
    /\ pc' = "pll_selected"
    /\ UNCHANGED <<drv, build, rcc_cr, rcc_pllcfgr, acr, enr, uart, flash_secr>>

\* The selection is waited for, the clock of SYSCFG is enabled, and
\* clock_pll_on returns to hal_init.
PllOnEnd ==
    /\ pc = "pll_selected"
    /\ PllSelected
    /\ enr' = enr \cup {SYSCFG_APB2_CLOCK_ER_VAL}
    /\ pc' = IF DEBUG_UART \in build THEN "uart_init" ELSE "main"
    /\ UNCHANGED <<drv, build, rcc, acr, uart, flash_secr>>

clock_pll_on ==
    PllOnHsi \/ PllOnDisable \/ PllOnConfigure \/ PllOnSelect \/ PllOnEnd

-----------------------------------------------------------------------------
(* hal_init: the UART *)

\* UART_BRR: the quotient is cut to 16 bits and its four low bits dropped.
UartBrr(bitrate) ==
    LET div == (CLOCK_SPEED \div bitrate) % 65536 IN div - (div % 16)

\* UART_CR1 after the configuration of data bits and parity.
UartCr1(data, parity) ==
    LET off  == uart.cr1 \ {UART_CR1_UART_ENABLE, UART_CR1_OVER8}
        bits == IF data = 8 THEN off \ {UART_CR1_SYMBOL_LEN}
                            ELSE off \cup {UART_CR1_SYMBOL_LEN}
    IN  CASE parity = "O" ->
                bits \cup {UART_CR1_PARITY_ODD, UART_CR1_PARITY_ENABLED}
          [] parity = "E" -> bits \cup {UART_CR1_PARITY_ENABLED}
          [] OTHER ->
                bits \ {UART_CR1_PARITY_ENABLED, UART_CR1_PARITY_ODD}

\* uart2_pins_setup and uart_init, and hal_init passing its message to
\* uart_write.
uart_init(bitrate, data, parity, stop) ==
    /\ pc = "uart_init"
    /\ enr' = enr \cup {IOPAEN, UART2_APB1_CLOCK_ER_VAL}
    /\ uart' = [uart EXCEPT
                   !.brr = UartBrr(bitrate),
                   !.cr1 = UartCr1(data, parity)
                              \cup {UART_CR1_TX_ENABLE, UART_CR1_RX_ENABLE,
                                    UART_CR1_UART_ENABLE},
                   !.stop2 = stop > 1,
                   !.len = MsgLen]
    /\ pc' = "uart_write"
    /\ UNCHANGED <<drv, build, rcc, acr, flash_secr>>

\* uart_write: a character is stored to UART_TDR when TX_EMPTY is set, until
\* len characters are stored.
uart_write ==
    /\ pc = "uart_write"
    /\ \/ /\ uart.len > 0
          /\ uart.tx_empty
          /\ uart' = [uart EXCEPT !.len = @ - 1, !.tx_empty = FALSE]
          /\ pc' = pc
       \/ /\ uart.len = 0
          /\ pc' = "main"
          /\ uart' = uart
    /\ UNCHANGED <<drv, build, rcc, acr, enr, flash_secr>>

hal_init == clock_pll_on \/ uart_init(115200, 8, "N", 1) \/ uart_write

-----------------------------------------------------------------------------
(* The boot loader between hal_init and hal_prepare_boot *)

FlashCall ==
    /\ pc = "main"
    /\ Flash!Caller
    /\ UNCHANGED hal

FlashStep ==
    /\ Flash!DriverStep
    /\ UNCHANGED hal

FlashHw == Flash!Drv!Controller /\ UNCHANGED hal

-----------------------------------------------------------------------------
(* hal_prepare_boot *)

\* Where hal_prepare_boot goes on after clock_pll_off.
AfterClock ==
    IF FLASH_SECURABLE_MEMORY_SUPPORT \in build THEN "secure" ELSE "booted"

\* The boot loader calls hal_prepare_boot.
PrepareBoot ==
    /\ pc = "main"
    /\ call = NoCall
    /\ pc' = IF WOLFBOOT_RESTORE_CLOCK \in build THEN "pll_off" ELSE AfterClock
    /\ UNCHANGED <<drv, build, rcc, acr, enr, uart, flash_secr>>

\* clock_pll_off: HSISYS is selected as the system clock ...
PllOffSelect ==
    /\ pc = "pll_off"
    /\ rcc_cfgr' = [rcc_cfgr EXCEPT !.sw = RCC_CFGR_SW_HSISYS]
    /\ pc' = "pll_off_stop"
    /\ UNCHANGED <<drv, build, rcc_cr, rcc_pllcfgr, acr, enr, uart, flash_secr>>

\* ... and the PLL is switched off.
PllOffStop ==
    /\ pc = "pll_off_stop"
    /\ rcc_cr' = RccCrStore(rcc_cr \ {RCC_CR_PLLON})
    /\ pc' = AfterClock
    /\ UNCHANGED <<drv, build, rcc_cfgr, rcc_pllcfgr, acr, enr, uart, flash_secr>>

clock_pll_off == PllOffSelect \/ PllOffStop

\* Faulty variant: a secure area of one page is let through.
SecSizeInvalid_OffByOne(sec_size) ==
    sec_size < 1
        \/ sec_size > WOLFBOOT_PARTITION_BOOT_ADDRESS \div WOLFBOOT_SECTOR_SIZE

\* The sizes of the secure area do_secure_boot refuses.
SecSizeInvalid(sec_size) ==
    sec_size <= 1
        \/ sec_size > WOLFBOOT_PARTITION_BOOT_ADDRESS \div WOLFBOOT_SECTOR_SIZE

\* Faulty variant: FLASH_CR is written without unlocking it.
SecureUnlock_Forgotten == NoCall

\* The call of hal_flash_unlock in do_secure_boot.
SecureUnlock == [op |-> "unlock"]

\* do_secure_boot reads SEC_SIZE and stops for good if it is invalid;
\* otherwise it calls hal_flash_unlock.
SecureCheck ==
    /\ pc = "secure"
    /\ IF /\ NO_FLASH_SEC_SIZE_CHECK \notin build
          /\ SecSizeInvalid(flash_secr % (FLASH_SECR_SEC_SIZE_MASK + 1))
       THEN pc' = "panic" /\ UNCHANGED <<call, before>>
       ELSE pc' = "secure_prot" /\ call' = SecureUnlock /\ before' = flash
    /\ UNCHANGED <<flash, cr, sr, pending, driver, ret, ncalls, build, rcc, acr, enr,
                   uart, flash_secr>>

\* hal_flash_unlock has returned: SEC_PROT is written until it reads as set.
SecureProtect ==
    /\ pc = "secure_prot"
    /\ call = NoCall
    /\ cr' = CrStore([cr EXCEPT !.bits = @ \cup {FLASH_CR_SEC_PROT}])
    /\ pc' = IF FLASH_CR_SEC_PROT \in cr'.bits THEN "booted" ELSE pc
    /\ UNCHANGED <<flash, sr, pending, driver, call, before, ret, ncalls, build, rcc,
                   acr, enr, uart, flash_secr>>

do_secure_boot == SecureCheck \/ SecureProtect

hal_prepare_boot == PrepareBoot \/ clock_pll_off \/ do_secure_boot

\* The application runs, or do_secure_boot has stopped the processor.
Halted ==
    /\ pc \in {"booted", "panic"}
    /\ UNCHANGED vars

-----------------------------------------------------------------------------

\* The processor comes out of reset: it runs from HSI16, the PLL is off, the
\* flash is locked, the UART is off with an empty transmit register.
Init ==
    /\ driver = TARGET_stm32g0
    /\ Flash!Init
    /\ build \in Builds
    /\ flash_secr \in SecrValues
    /\ pc = "reset"
    /\ rcc_cr = {RCC_CR_HSION, RCC_CR_HSIRDY}
    /\ rcc_cfgr = [sw |-> RCC_CFGR_SW_HSISYS, sws |-> RCC_CFGR_SW_HSISYS]
    /\ rcc_pllcfgr = {}
    /\ acr = 0
    /\ enr = {}
    /\ uart = [cr1 |-> {}, brr |-> 0, stop2 |-> FALSE, tx_empty |-> TRUE,
               len |-> 0]

Processor == hal_init \/ FlashStep \/ hal_prepare_boot

Hardware == HwPll \/ HwClockSwitch \/ HwUart \/ FlashHw

Next == Processor \/ FlashCall \/ Hardware \/ Halted

\* The processor executes the function it is in, and goes on to
\* hal_prepare_boot when the boot loader has made its flash calls; the PLL,
\* the clock switch, the UART and the flash controller end what they begin.
Fairness ==
    /\ WF_vars(Processor)
    /\ WF_vars(HwPll) /\ WF_vars(HwClockSwitch) /\ WF_vars(HwUart)
    /\ WF_vars(FlashHw)

Spec == Init /\ [][Next]_vars /\ Fairness

-----------------------------------------------------------------------------
(* Properties *)

\* The state of the HAL and of the driver it includes is well-formed: the
\* registers of hal_init and do_secure_boot hold flags they have, and the
\* flash calls of the boot loader leave the driver's state in its type.
TypeOK ==
    /\ Flash!Drv!DriverTypeOK
    /\ build \in Builds
    /\ pc \in {"reset", "pll_disable", "pll_config", "pll_wait",
               "pll_selected", "uart_init", "uart_write", "main", "pll_off",
               "pll_off_stop", "secure", "secure_prot", "booted", "panic"}
    /\ rcc_cr \subseteq {RCC_CR_HSION, RCC_CR_HSIRDY, RCC_CR_PLLON, RCC_CR_PLLRDY}
    /\ rcc_cfgr \in [sw : {RCC_CFGR_SW_HSISYS, RCC_CFGR_SW_PLL},
                     sws : {RCC_CFGR_SW_HSISYS, RCC_CFGR_SW_PLL}]
    /\ rcc_pllcfgr \subseteq {PLL_64MHZ, RCC_PLLCFGR_PLLR_EN}
    /\ acr \in 0..3
    /\ enr \subseteq {PWR_APB1_CLOCK_ER_VAL, SYSCFG_APB2_CLOCK_ER_VAL,
                      UART2_APB1_CLOCK_ER_VAL, IOPAEN}
    /\ uart \in [cr1 : SUBSET UartCr1Bits, brr : 0..65535, stop2 : BOOLEAN,
                 tx_empty : BOOLEAN, len : 0..MsgLen]
    /\ flash_secr \in SecrValues

(***************************************************************************)
(* The system clock is moved to the PLL only when everything is ready for  *)
(* 64 MHz: whenever SW selects the PLL, the PLL is configured, its R       *)
(* output is enabled, it has locked, and the flash is read with two wait   *)
(* states.  clock_pll_on sets the wait states first and waits for PLLRDY   *)
(* before it writes SW; clock_pll_off selects HSISYS before it stops the   *)
(* PLL, and the clock controller may act between any two of these stores.  *)
(***************************************************************************)
ClockSwitchPrepared ==
    rcc_cfgr.sw = RCC_CFGR_SW_PLL =>
        /\ PLL_64MHZ \in rcc_pllcfgr
        /\ Ready(RCC_CFGR_SW_PLL)
        /\ acr = 2

(***************************************************************************)
(* The application is started only behind the secure area: when            *)
(* hal_prepare_boot of a build with FLASH_SECURABLE_MEMORY_SUPPORT         *)
(* returns, SEC_PROT is set in FLASH_CR, the flash controller is at rest,  *)
(* and, unless the build has NO_FLASH_SEC_SIZE_CHECK, the secure area has  *)
(* at least two pages; whatever the boot loader did with the flash before  *)
(* and whether it left it locked or not.                                   *)
(***************************************************************************)
SecuredAtHandOver ==
    (pc = "booted" /\ FLASH_SECURABLE_MEMORY_SUPPORT \in build) =>
        /\ FLASH_CR_SEC_PROT \in cr.bits
        /\ pending = Idle
        /\ NO_FLASH_SEC_SIZE_CHECK \notin build =>
              flash_secr % (FLASH_SECR_SEC_SIZE_MASK + 1) >= 2

(***************************************************************************)
(* The boot comes to an end: given hardware that ends what it begins, the  *)
(* waits of clock_pll_on for HSIRDY, PLLRDY and the clock switch, the      *)
(* waits of uart_write for TX_EMPTY, those of the flash driver and the     *)
(* loop of do_secure_boot that writes SEC_PROT until it reads as set all   *)
(* end, and the processor reaches the application or the panic loop of     *)
(* do_secure_boot.                                                         *)
(***************************************************************************)
BootCompletes == <>(pc \in {"booted", "panic"})
=============================================================================
