------------------------------- MODULE ImxRt -------------------------------
(***************************************************************************)
(* The HAL of the NXP i.MX RT, hal/imx_rt.c: the clocks that hal_init      *)
(* brings up and the flash calls, which go through the FlexSPI NOR driver  *)
(* of the boot ROM.                                                        *)
(*                                                                         *)
(* The file is compiled for one of three processors (a build).  The boot   *)
(* loader calls hal_init first and the flash calls after it.  A PLL is     *)
(* what the code reads and writes of its register: powered, bypassed,      *)
(* locked; the lock bit is set by the hardware, beside the processor.      *)
(* The flash is a function of cells, a page and a sector are so many       *)
(* cells, and a cell is erased, holds what it held at reset ("old"), the   *)
(* data of a write, what lay behind the data in memory ("stray"), or the   *)
(* mixture that programming a cell twice leaves ("mixed").                 *)
(*                                                                         *)
(* The ROM is not part of the sources.  It is taken to accept a call when  *)
(* its driver is initialised, the configuration is filled in and the       *)
(* range lies in the device, to erase the sectors a range touches, and to  *)
(* fail at will, leaving the range as it was or in part done.              *)
(***************************************************************************)
EXTENDS Integers, FiniteSets, TLC

CONSTANTS
    CONFIG_FLASH_PAGE_SIZE,    \* cells of a page (256 bytes)
    CONFIG_FLASH_SECTOR_SIZE,  \* cells of a sector (4 KiB)
    FLASH_SIZE_4M,             \* cells of the flash of the 1064
    FLASH_SIZE_8M,             \* cells of the flash of the 1052 and 1062
    FLASH_BASE_60,             \* where the 1052 and 1062 map the flash
    FLASH_BASE_70,             \* where the 1064 maps it
    Data,                      \* what a caller writes
    WriteCalls,                \* the calls of hal_flash_write a caller makes
    EraseCalls,                \* the calls of hal_flash_erase a caller makes
    MaxCalls                   \* bound: flash calls of a behaviour

VARIABLES
    build,             \* the processor the file is compiled for
    pc,                \* where the processor is
    pll,               \* CCM_ANALOG: PLL_ARM, PLL_SYS, PLL_USB1
    ccm,               \* the divider and selector registers written so far
    g_bootloaderTree,  \* NULL or the API of the ROM
    flexspi_config,    \* what FLEXSPI_CONFIG points to: "zero" or "filled"
    rom_ready,         \* whether the driver of the ROM is initialised
    flash,             \* the cells of the flash
    call,              \* the flash call made last
    i,                 \* the loop counter of hal_flash_write
    ret,               \* what the call returned
    atCall,            \* history: the flash when the call was made
    ncalls             \* flash calls made so far

clocks == <<pll, ccm>>
rom    == <<g_bootloaderTree, flexspi_config, rom_ready>>
caller == <<call, i, ret, atCall, ncalls>>
vars   == <<build, pc, clocks, rom, flash, caller>>

NULL == "NULL"

\* *(uint32_t *)0x0020001c
ROM_API == "rom"

-----------------------------------------------------------------------------
(* The builds *)

\* USE_GET_CONFIG; 4 MiB at 0x70000000; FLEXSPI2 clocks.
CPU_MIMXRT1064DVL6A ==
    [cpu |-> "1064", get_config |-> TRUE, flexspi2 |-> TRUE,
     CONFIG_FLASH_SIZE |-> FLASH_SIZE_4M, FLASH_BASE |-> FLASH_BASE_70]

\* USE_GET_CONFIG; 8 MiB at 0x60000000; FLEXSPI2 clocks.
CPU_MIMXRT1062DVL6A ==
    [cpu |-> "1062", get_config |-> TRUE, flexspi2 |-> TRUE,
     CONFIG_FLASH_SIZE |-> FLASH_SIZE_8M, FLASH_BASE |-> FLASH_BASE_60]

\* The configuration is qspiflash_config, a constant; 8 MiB at 0x60000000.
CPU_MIMXRT1052DVJ6B ==
    [cpu |-> "1052", get_config |-> FALSE, flexspi2 |-> FALSE,
     CONFIG_FLASH_SIZE |-> FLASH_SIZE_8M, FLASH_BASE |-> FLASH_BASE_60]

Builds == {CPU_MIMXRT1064DVL6A, CPU_MIMXRT1062DVL6A, CPU_MIMXRT1052DVJ6B}

Cells == 0..(build.CONFIG_FLASH_SIZE - 1)

-----------------------------------------------------------------------------
(* The hardware *)

Plls == {"ARM", "SYS", "USB1"}

\* A powered PLL locks.
PllLocks(p) ==
    /\ pll[p].power
    /\ ~pll[p].lock
    /\ pll' = [pll EXCEPT ![p].lock = TRUE]
    /\ UNCHANGED <<build, pc, ccm, rom, flash, caller>>

\* A store to the whole register: the PLL locks anew, at once if nothing
\* changed for it.
Stored(p, bypass) ==
    {[power |-> TRUE, bypass |-> bypass, lock |-> l] :
        l \in {FALSE, pll[p].power /\ pll[p].lock}}

-----------------------------------------------------------------------------
(* clock_init and hal_init *)

At(label, next) ==
    /\ pc = label
    /\ pc' = next
    /\ UNCHANGED build

\* Faulty variant: the loop does not wait.
PllLocked_NoWait(p) == TRUE

\* (CCM_ANALOG->PLL_x & LOCK_MASK) != 0
PllLocked(p) == pll[p].lock

\* Faulty variant: the PLL is left powered down.
PowerUp_Forgotten(p) == pll

\* CCM_ANALOG->PLL_SYS &= ~POWERDOWN_MASK
PowerUp(p) == [pll EXCEPT ![p].power = TRUE]

\* &= ~BYPASS_MASK
Unbypassed(regs, p) == [regs EXCEPT ![p].bypass = FALSE]

\* hal_init: ARM_MPU_Disable, then clock_init, which does nothing unless
\* PLL_ARM is bypassed, and else stores BYPASS | ENABLE | DIV_SELECT(24).
ConfigureArm ==
    /\ UNCHANGED <<ccm, rom, flash, caller>>
    /\ \/ /\ ~pll.ARM.bypass
          /\ At("clock_init", "flash_init")
          /\ UNCHANGED pll
       \/ /\ pll.ARM.bypass
          /\ At("clock_init", "wait_arm")
          /\ \E r \in Stored("ARM", TRUE) : pll' = [pll EXCEPT !.ARM = r]

\* Wait until PLL_ARM is locked; configure PLL_SYS.
ConfigureSys ==
    /\ At("wait_arm", "wait_sys")
    /\ PllLocked("ARM")
    /\ pll' = PowerUp("SYS")
    /\ UNCHANGED <<ccm, rom, flash, caller>>

\* Wait until PLL_SYS is locked; PFD_528; PLL_USB1 is stored as
\* DIV_SELECT(0) | POWER | ENABLE, which has no BYPASS.
ConfigureUsb1 ==
    /\ At("wait_sys", "wait_usb1")
    /\ PllLocked("SYS")
    /\ ccm' = ccm \cup {"PFD_528"}
    /\ \E r \in Stored("USB1", FALSE) : pll' = [pll EXCEPT !.USB1 = r]
    /\ UNCHANGED <<rom, flash, caller>>

\* Wait until PLL_USB1 is locked; the dividers and the FlexSPI clocks;
\* "Finally, Enable PLL_ARM, PLL_SYS and PLL_USB1".
EnablePlls ==
    /\ At("wait_usb1", "flash_init")
    /\ PllLocked("USB1")
    /\ ccm' = ccm \cup {"PFD_480", "CACRR", "CBCDR", "CSCMR1"}
                  \cup (IF build.flexspi2 THEN {"CBCMR"} ELSE {})
    /\ pll' = Unbypassed(Unbypassed(Unbypassed(pll, "ARM"), "SYS"), "USB1")
    /\ UNCHANGED <<rom, flash, caller>>

clock_init == ConfigureArm \/ ConfigureSys \/ ConfigureUsb1 \/ EnablePlls

\* Faulty variant: the call is left out.
hal_flash_init_Skipped == UNCHANGED rom

\* Sets g_bootloaderTree once; under USE_GET_CONFIG has the ROM fill in
\* flexspi_config and initialise its driver, and looks at neither status.
hal_flash_init ==
    \/ /\ g_bootloaderTree # NULL
       /\ UNCHANGED rom
    \/ /\ g_bootloaderTree = NULL
       /\ g_bootloaderTree' = ROM_API
       /\ \/ /\ ~build.get_config
             /\ UNCHANGED <<flexspi_config, rom_ready>>
          \/ /\ build.get_config
             /\ \E got, inited \in BOOLEAN :
                   /\ flexspi_config' = IF got THEN "filled" ELSE "zero"
                   /\ rom_ready' = (got /\ inited)

\* The last step of hal_init.
hal_init ==
    /\ At("flash_init", "idle")
    /\ hal_flash_init
    /\ UNCHANGED <<clocks, flash, caller>>

\* The three functions are empty.
hal_prepare_boot == pc = "idle" /\ UNCHANGED vars
hal_flash_unlock == pc = "idle" /\ UNCHANGED vars
hal_flash_lock   == pc = "idle" /\ UNCHANGED vars

-----------------------------------------------------------------------------
(* The flash calls *)

RomAccepts(range) ==
    /\ rom_ready
    /\ flexspi_config = "filled"
    /\ range \subseteq Cells

\* What a cell holds once a value is programmed into it.
Programmed(old, new) ==
    IF old = "erased" THEN new ELSE IF old = new THEN old ELSE "mixed"

\* Faulty variant: the base of the flash is not taken off.
Offset_Absolute(address) == address

\* address - FLASH_BASE
Offset(address) == address - build.FLASH_BASE

\* Faulty variant: every page goes to the first address.
ProgramAddress_First(address) == Offset(address)

\* (address + i) - FLASH_BASE
ProgramAddress(address) == Offset(address + i)

Page(dst) == dst..(dst + CONFIG_FLASH_PAGE_SIZE - 1)

\* memcpy(wbuf, data + i, CONFIG_FLASH_PAGE_SIZE): behind the data comes
\* what lies behind it in memory.
Wbuf == [k \in 0..(CONFIG_FLASH_PAGE_SIZE - 1) |->
            IF i + k < call.len THEN call.data ELSE "stray"]

\* The sectors a range touches.
Sectors(start, len) ==
    {c \in Cells : \E b \in start..(start + len - 1) :
        c \div CONFIG_FLASH_SECTOR_SIZE = b \div CONFIG_FLASH_SECTOR_SIZE}

\* A call through g_bootloaderTree that writes `done` to `range` when it
\* succeeds; when it fails it may have written to a part of the range.
RomCall(status, range, done) ==
    \/ /\ status = "kStatus_Success"
       /\ RomAccepts(range)
       /\ flash' = [c \in Cells |-> IF c \in range THEN done[c] ELSE flash[c]]
    \/ /\ status = "kStatus_Fail"
       /\ \E part \in {{}, range \cap Cells} :
             flash' = [c \in Cells |-> IF c \in part THEN "mixed" ELSE flash[c]]

Statuses == {"kStatus_Success", "kStatus_Fail"}

Begin(function, args) ==
    /\ pc = "idle"
    /\ ncalls < MaxCalls
    /\ ncalls' = ncalls + 1
    /\ call' = [fn |-> function] @@ args
    /\ atCall' = flash
    /\ hal_flash_init
    /\ UNCHANGED <<build, clocks>>

\* The call, to the start of the loop.
hal_flash_write ==
    \E args \in WriteCalls :
        /\ Begin("write", [args EXCEPT !.address = @ + build.FLASH_BASE])
        /\ i' = 0
        /\ pc' = "write"
        /\ UNCHANGED <<flash, ret>>

\* One round of the loop: a page is programmed, or the call returns.
WritePage ==
    /\ pc = "write"
    /\ UNCHANGED <<build, clocks, rom, call, atCall, ncalls>>
    /\ \/ /\ i < call.len
          /\ g_bootloaderTree = NULL
          /\ pc' = "fault"
          /\ UNCHANGED <<flash, i, ret>>
       \/ /\ i < call.len
          /\ g_bootloaderTree # NULL
          /\ LET dst == ProgramAddress(call.address)
             IN  \E status \in Statuses :
                    /\ RomCall(status, Page(dst),
                               [c \in Page(dst) \cap Cells |->
                                   Programmed(flash[c], Wbuf[c - dst])])
                    /\ \/ /\ status = "kStatus_Success"
                          /\ i' = i + CONFIG_FLASH_PAGE_SIZE
                          /\ UNCHANGED <<pc, ret>>
                       \/ /\ status # "kStatus_Success"
                          /\ ret' = -1
                          /\ pc' = "idle"
                          /\ UNCHANGED i
       \/ /\ ~(i < call.len)
          /\ ret' = 0
          /\ pc' = "idle"
          /\ UNCHANGED <<flash, i>>

\* One call of the ROM for the whole range.
hal_flash_erase ==
    \E args \in EraseCalls :
        /\ Begin("erase", [args EXCEPT !.address = @ + build.FLASH_BASE])
        /\ UNCHANGED i
        /\ \/ /\ g_bootloaderTree' = NULL
              /\ pc' = "fault"
              /\ UNCHANGED <<flash, ret>>
           \/ /\ g_bootloaderTree' # NULL
              /\ pc' = "idle"
              /\ LET start == Offset(args.address + build.FLASH_BASE)
                     range == Sectors(start, args.len)
                                 \cup (start..(start + args.len - 1))
                 IN  \E status \in Statuses :
                        /\ RomCall(status, range, [c \in range |-> "erased"])
                        /\ ret' = IF status = "kStatus_Success" THEN 0 ELSE -1

-----------------------------------------------------------------------------
(* The whole *)

\* What the ROM leaves of the PLLs: one that is in use is locked.
AtReset ==
    {r \in [power : BOOLEAN, bypass : BOOLEAN, lock : BOOLEAN] :
        /\ r.lock => r.power
        /\ ~r.bypass => r.lock}

Init ==
    /\ build \in Builds
    /\ pc = "clock_init"
    /\ pll \in [Plls -> AtReset]
    /\ ccm = {}
    /\ g_bootloaderTree = NULL
    /\ flexspi_config = IF build.get_config THEN "zero" ELSE "filled"
    /\ rom_ready = TRUE
    /\ flash = [c \in Cells |-> "old"]
    /\ call = [fn |-> "none"]
    /\ i = 0
    /\ ret = 0
    /\ atCall = flash
    /\ ncalls = 0

Cpu == clock_init \/ hal_init \/ WritePage

Call ==
    \/ hal_flash_write \/ hal_flash_erase
    \/ hal_flash_unlock \/ hal_flash_lock \/ hal_prepare_boot

Next == Cpu \/ Call \/ \E p \in Plls : PllLocks(p)

\* The processor executes its next instruction; a powered PLL locks.
Fairness == WF_vars(Cpu) /\ \A p \in Plls : WF_vars(PllLocks(p))

Spec == Init /\ [][Next]_vars /\ Fairness

-----------------------------------------------------------------------------
(* Properties *)

Contents == {"erased", "old", "mixed", "stray"} \cup Data

Labels ==
    {"clock_init", "wait_arm", "wait_sys", "wait_usb1", "flash_init", "idle",
     "write"}

\* The state is well-formed; the processor is at a label of hal_init or of
\* hal_flash_write and never at "fault", where a flash call goes through
\* g_bootloaderTree while it is NULL.
TypeOK ==
    /\ build \in Builds
    /\ pc \in Labels
    /\ pll \in [Plls -> [power : BOOLEAN, bypass : BOOLEAN, lock : BOOLEAN]]
    /\ ccm \subseteq {"PFD_528", "PFD_480", "CACRR", "CBCDR", "CBCMR", "CSCMR1"}
    /\ g_bootloaderTree \in {NULL, ROM_API}
    /\ flexspi_config \in {"zero", "filled"}
    /\ rom_ready \in BOOLEAN
    /\ flash \in [Cells -> Contents]
    /\ atCall \in [Cells -> Contents]
    /\ call.fn \in {"none", "write", "erase"}
    /\ i \in Nat
    /\ ret \in {0, -1}
    /\ ncalls \in 0..MaxCalls

(***************************************************************************)
(* The processor and the bus never run from a PLL that is not locked:      *)
(* clock_init takes PLL_ARM and PLL_SYS out of bypass only after the loop  *)
(* that waits for the lock of each, and leaves them as the ROM set them    *)
(* when PLL_ARM is already in use.                                         *)
(***************************************************************************)
PllUsedOnlyLocked ==
    \A p \in {"ARM", "SYS"} : ~pll[p].bypass => pll[p].lock

RoundUp(n, unit) == unit * ((n + unit - 1) \div unit)

(***************************************************************************)
(* What hal_flash_write leaves when it returns.  Of the range it was given *)
(* every cell lies in the device and, if it was erased, holds the data     *)
(* when the call returns 0, and so does every cell of the pages before the *)
(* one that failed when it returns -1.                                     *)
(* No cell outside the pages of the range has changed: the loop programs   *)
(* whole pages, so the cells between the end of the data and the end of    *)
(* its last page are written too, with what lay behind the data.           *)
(***************************************************************************)
WriteOutcome ==
    pc = "idle" /\ call.fn = "write" =>
        LET start == call.address - build.FLASH_BASE
            done  == IF ret = 0 THEN call.len ELSE i
        IN  /\ start..(start + done - 1) \subseteq Cells
            /\ \A c \in start..(start + done - 1) :
                  atCall[c] = "erased" => flash[c] = call.data
            /\ \A c \in Cells :
                  c \notin start..(start + RoundUp(call.len, CONFIG_FLASH_PAGE_SIZE) - 1)
                      => flash[c] = atCall[c]

(***************************************************************************)
(* What hal_flash_erase leaves when it returns: the sectors its range      *)
(* touches are erased when it returns 0, and no cell of another sector has *)
(* changed whatever it returns.  The address it is given is one of the     *)
(* processor, the ROM wants the offset in the device.                      *)
(***************************************************************************)
EraseOutcome ==
    pc = "idle" /\ call.fn = "erase" =>
        LET touched == Sectors(call.address - build.FLASH_BASE, call.len)
        IN  /\ ret = 0 => \A c \in touched : flash[c] = "erased"
            /\ \A c \in Cells \ touched : flash[c] = atCall[c]

(***************************************************************************)
(* Every call of the HAL returns: the three loops of clock_init that wait  *)
(* for a lock end, because each PLL is powered before it is waited for,    *)
(* and the loop of hal_flash_write ends.                                   *)
(***************************************************************************)
HalCallsReturn == (pc # "idle") ~> (pc = "idle")
=============================================================================
