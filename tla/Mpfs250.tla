------------------------------ MODULE Mpfs250 ------------------------------
(***************************************************************************)
(* The HAL of the PolarFire SoC MPFS250T, hal/mpfs250.c.  Every function   *)
(* of the file is a placeholder: it touches no register and no memory, and *)
(* those that return a status return 0.  What a call leaves behind is the  *)
(* value it returned, which is all this module keeps.                      *)
(***************************************************************************)
EXTENDS Integers

CONSTANTS
    WOLFBOOT_DTS_BOOT_ADDRESS,  \* where the device tree is kept (MMU)
    MaxHalCalls                 \* bound: HAL calls the boot loader makes

VARIABLES
    ret,      \* the function called last and what it returned
    ncalls    \* HAL calls made so far

hal == <<ret, ncalls>>

\* A call that does nothing but return.
Called(result) ==
    /\ ncalls < MaxHalCalls
    /\ ncalls' = ncalls + 1
    /\ ret' = result

Returns(function, value) == Called([of |-> function, value |-> value])

Done(function) == Called([of |-> function])

hal_init            == Done("hal_init")
hal_prepare_boot    == Done("hal_prepare_boot")
hal_flash_unlock    == Done("hal_flash_unlock")
hal_flash_lock      == Done("hal_flash_lock")
\* Faulty variant: the placeholder reports a failure.
hal_flash_write_Fails == Returns("hal_flash_write", -1)

hal_flash_write     == Returns("hal_flash_write", 0)
hal_flash_erase     == Returns("hal_flash_erase", 0)
ext_flash_lock      == Done("ext_flash_lock")
ext_flash_unlock    == Done("ext_flash_unlock")
ext_flash_write     == Returns("ext_flash_write", 0)
ext_flash_read      == Returns("ext_flash_read", 0)
ext_flash_erase     == Returns("ext_flash_erase", 0)
hal_get_dts_address == Returns("hal_get_dts_address", WOLFBOOT_DTS_BOOT_ADDRESS)
uart_init           == Done("uart_init")
uart_write          == Done("uart_write")

\* Internal flash, external flash (EXT_FLASH), device tree (MMU) and the
\* debug output (DEBUG_UART).
HalCall ==
    \/ hal_init \/ hal_prepare_boot
    \/ hal_flash_unlock \/ hal_flash_lock \/ hal_flash_write \/ hal_flash_erase
    \/ ext_flash_lock \/ ext_flash_unlock
    \/ ext_flash_write \/ ext_flash_read \/ ext_flash_erase
    \/ hal_get_dts_address
    \/ uart_init \/ uart_write

HalInit ==
    /\ ret = [of |-> "none"]
    /\ ncalls = 0

HalTypeOK ==
    /\ ret \in [of : STRING] \cup
                [of : STRING, value : {0, WOLFBOOT_DTS_BOOT_ADDRESS}]
    /\ ncalls \in 0..MaxHalCalls
=============================================================================
