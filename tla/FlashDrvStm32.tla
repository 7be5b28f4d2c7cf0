---------------------------- MODULE FlashDrvStm32 ----------------------------
(***************************************************************************)
(* The flash driver the HAL files are built with: hal/flash/               *)
(* flash_drv_stm32.c under one of TARGET_stm32c0, TARGET_stm32g0,          *)
(* TARGET_stm32wb and TARGET_stm32l4, with the definitions of              *)
(* flash_drv_stm32.h.  Its functions are, line by line, those of           *)
(* stm32_flash.c with the macros of the device's header of config/         *)
(* expanded, so each is StmFlash's, run on the builds this file's #ifdef   *)
(* branches select (Targets of FlashBuilds).                               *)
(***************************************************************************)
EXTENDS FlashBuilds

CONSTANTS
    WriteCalls,   \* the writes the boot loader makes: [address, len, align]
    EraseCalls,   \* the erasures the boot loader makes: [address, len]
    LockedCalls,  \* whether it also writes and erases without unlocking
    Programmed,   \* the addresses that hold a program when the system starts
    MaxCalls      \* bound: calls made before the boot loader hands over

VARIABLES
    driver,   \* the build this program is
    call,     \* the call in progress and its local variables, or NoCall
    before,   \* history: the array when the call in progress began
    ret,      \* the value the last call returned
    ncalls    \* calls made so far

vars == <<flash, cr, sr, pending, driver, call, before, ret, ncalls>>

Drv == INSTANCE StmFlash WITH Drivers <- Targets

flash_wait_complete == Drv!flash_wait_complete
flash_clear_errors  == Drv!flash_clear_errors
hal_flash_write     == Drv!hal_flash_write
hal_flash_unlock    == Drv!hal_flash_unlock
hal_flash_lock      == Drv!hal_flash_lock
hal_flash_erase     == Drv!hal_flash_erase

Init == Drv!Init

DriverStep ==
    hal_flash_write \/ hal_flash_erase \/ hal_flash_unlock \/ hal_flash_lock

Caller == Drv!CallUnlock \/ Drv!CallLock \/ Drv!CallWrite \/ Drv!CallErase

Next == Caller \/ DriverStep \/ Drv!Controller \/ Drv!Booted

Fairness == WF_vars(DriverStep) /\ WF_vars(Drv!Controller)

Spec == Init /\ [][Next]_vars /\ Fairness

-----------------------------------------------------------------------------
(* Properties *)

\* The other copy of the driver, built for the same device, on the same
\* controller and the same calls.
Generic ==
    INSTANCE StmFlash WITH Drivers <- IncludeStyle, driver <- Counterpart(driver)

(***************************************************************************)
(* The two copies of the driver do the same on every device: every step   *)
(* hal_flash_write, hal_flash_erase, hal_flash_unlock and hal_flash_lock   *)
(* of flash_drv_stm32.c take is a step of the function of that name in     *)
(* stm32_flash.c built with the header of that device, although the G0     *)
(* build of this one waits for one more flag, the C0 build masks the page  *)
(* number, the L4 build unlocks without waiting, and only the L4 build     *)
(* looks at PROGERR when it returns.                                       *)
(***************************************************************************)
CopiesAgree == Generic!Init /\ [][Generic!Next]_vars

(***************************************************************************)
(* flash_drv_stm32.c keeps the promise of the HAL: see ImplementsFlashSpec *)
(* of StmFlash.                                                            *)
(***************************************************************************)
ImplementsFlashSpec == Drv!ImplementsFlashSpec

(***************************************************************************)
(* Every call returns, although flash_wait_complete waits for the busy     *)
(* flags of both banks and for CFGBSY: the controller clears every flag    *)
(* the loop waits for.                                                     *)
(***************************************************************************)
CallsReturn == (call # Drv!NoCall) ~> (call = Drv!NoCall)
=============================================================================
