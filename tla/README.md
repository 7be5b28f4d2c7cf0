# wolfBoot: PCI enumeration, flash drivers, target HALs and start-up code, checked with TLC

This directory holds TLA+ models of parts of wolfBoot and the TLC
configurations that check them.  `PROJECT.json` is the index: the components
of the repository, the runs, the source lines every definition stands for, the
findings, and the hazards the properties are aimed at.

To repeat a run: `tlc -workers 2 -config <cfg> <module>` with the pair the
table of section 4 gives.  Paths of source files are relative to `src/`.

## 1. The system

### 1.1 Parts

| part | source | what it is |
|---|---|---|
| PCI enumeration engine | (its C file is not among the sources here; `spec.md`) | walks the PCI hierarchy from bus 0 depth first, sizes and programs every BAR from three pools (memory, prefetchable memory, I/O), numbers the buses, programs every bridge's forwarding windows, rolls back what fails |
| PCI hierarchy mock | `tools/unit-tests/unit-pci.c` 40-397 | a table of up to 10 nodes (`TEST_PCI_MAX_NODES`) (endpoints and bridges) with a 256-byte configuration space each; `mmio_write32` / `mmio_read32` decode an ECAM address, route it through the bridges' secondary..subordinate ranges and implement the BAR probe protocol |
| PCI unit tests | `unit-pci.c` 406-1614 | tests of the mock (406-723), of `pci_program_bar`, `pci_program_bridge`, `pci_enum_bus`, `pci_enum_do` (729-1463), of the 8- and 16-bit accessors (1467-1503) and of the two alignment routines (1507-1614) |
| STM32 flash drivers | `hal/flash/stm32_flash.c`, `hal/flash/flash_drv_stm32.c`, headers | two copies of one driver: `hal_flash_write` (aligned double-word programming and a read-modify-write path; in `stm32_flash.c` also a 16-bit and a byte-by-byte path, chosen by `STM32_FLASH_WRITE_ALIGNMENT`), `hal_flash_erase` (page loop), `hal_flash_unlock`, `hal_flash_lock`; configured per target by `config/stm32_flash_*.h` or by `TARGET_*` |
| STM32G0 HAL | `hal/stm32g0.c` | `hal_init` (PLL to 64 MHz, flash wait states, debug UART) and `hal_prepare_boot` (clock back to HSI16, securable memory locked by `SEC_PROT`); includes `hal/flash/flash_drv_stm32.h` for its flash functions, which `flash_drv_stm32.c` implements and is compiled separately |
| i.MX RT HAL | `hal/imx_rt.c` | `hal_init` (`clock_init`: three PLLs configured, waited for and taken out of bypass; `hal_flash_init`: the FlexSPI NOR driver of the boot ROM) and the flash calls, which hand pages and sectors to the ROM |
| MPFS250 HAL | `hal/mpfs250.c`, `hal/mpfs250.h` | placeholders: every function returns 0 and touches nothing |
| RISC-V start-up | `src/boot_riscv64.c`, `test-app/startup_riscv.c` | `_reset` of the boot loader and of the test application (registers, copy of `.data`, clearing of `.bss`, banner on UART0), `do_boot`, `reloc_iv`, `arch_reboot` |
| image header search | `tools/unit-tests/unit-image.c` 184-252 | `_find_header`, the walk over the type-length-value fields of an image header, and the switchable mock of `wolfBoot_find_header` |
| SPI flash device | `tools/unit-tests/unit-spi-flash.c` 34-202 | the device the test of the SPI flash driver puts on the bus: chip select, command, three address bytes, data |
| other unit tests | `unit-disk.c`, `unit-string.c`, the cases of `unit-image.c` and `unit-spi-flash.c` | cases for `gpt.c`, `disk.c`, `string.c`, `image.c` and `spi_flash.c`, which the test files include and the sources do not hold |
| headers, pre-init hook | `hal/renesas-rx.h`, `hal/spi/spi_drv_nxp.h`, rp2350 `runtime.c` | declarations; one store to a coprocessor access register |

### 1.2 State, operations and interaction

PCI:

* Mock state: per node `bus`/`parent_bus`, `dev`, `func`, `is_bridge`, up to six
  `bars` (size, flags), `bar_probed[6]` and `cfg[256]`.  Operations: the
  builders (`test_pci_add_dev`, `test_pci_add_bridge`, `test_pci_dev_set_bar`),
  `test_pci_commit` (writes vendor id and header type), `mmio_write32`,
  `mmio_read32`.
* Engine state: `struct pci_enum_info` (three cursors, two limits and `curr_bus_number`),
  the registers it has written in the hierarchy, and its call stack.
  Operations: the configuration accessors, the alignment routine,
  `pci_program_bar`, `pci_enum_bus`, `pci_program_bridge`, `pci_enum_do`.
* Interaction: the engine sees the hierarchy only through the accessor, i.e.
  through `mmio_read32` / `mmio_write32`.  What a read returns depends on
  registers that earlier writes of the engine set: a function behind a bridge
  exists for the engine only while the bridge's secondary..subordinate range
  routes its bus, and a BAR reports its size only in probe mode.

Flash and HAL:

* Hardware state: the flash array, `FLASH_CR`, `FLASH_SR`, the operation the
  flash controller is busy with; `RCC_CR`, `RCC_CFGR` (the requested clock `SW`
  and the clock in use `SWS`), `RCC_PLLCFGR`, `FLASH_ACR`, the clock enables,
  the UART registers, `FLASH_SECR`.
* Driver state: the locals of the call in progress (`i`, the page address `p`,
  the place in the function), and the value returned.
* Interaction: the processor stores to registers and busy-waits on flags that
  the hardware sets and clears in its own time.  The driver and the controller
  are two actors: between any two statements of the driver the controller may
  or may not have finished what it was given.

### 1.3 What is hard

The PCI code runs on one thread against hardware that answers at once.  The
difficulty is in the protocol and in failure handling:

* the probe handshake of a 64-bit BAR spans two registers and has memory
  (`bar_probed`); the order of the writes decides what the reads return;
* bus numbers: subordinate must be wide open during the descent and exact
  afterwards; the mock aborts on a secondary bus that is not above its parent;
* rollback: a failing BAR or bridge has to put back registers and cursors, also
  after its subtree has already consumed resources;
* arithmetic at the edges: rounding near 2^32, the limit comparison, window
  limit registers that name the last granule instead of the first free one.

The flash drivers and the HAL run beside hardware that takes time:

* a command given to the flash controller while it is busy is lost or faults,
  so every store to `FLASH_CR` depends on a wait placed somewhere before it,
  sometimes in the previous call;
* `hal_flash_write` has two paths with different index arithmetic (whole double
  words from an aligned buffer; read-modify-write for everything else), chosen
  anew in every iteration, and one cleanup both must reach; the 16-bit and the
  byte path of `stm32_flash.c` set and clear `PG` around every store and
  return past that cleanup;
* the page loop of `hal_flash_erase` and its bank selection at the boundaries
  of pages and banks;
* the clock may be switched to the PLL only after it has locked and the flash
  wait states are set, and the PLL may be stopped only when nothing runs on it;
* `do_secure_boot` must refuse a bad `SEC_SIZE` and reach `SEC_PROT` only
  through an unlocked `FLASH_CR`: a store to a locked register is ignored and
  the loop around it would never end.

The start-up code and the i.MX RT HAL:

* the loops of `_reset` count in words from the start of a section and compare
  with its end: a section that does not end on a word is overrun, into what
  lies behind it;
* the application sends its banner through a transmitter that may still be
  busy with what the boot loader handed it;
* `clock_init` may take a PLL out of bypass only after it has locked, and must
  not touch PLL_ARM when the ROM already runs the processor from it;
* `hal_flash_write` hands whole pages to the ROM, whatever the length, and the
  ROM may fail between two pages.

The unit-test helpers are parsers of bytes that arrive one at a time
(`spi_write`) or lie in a buffer whose end must not be passed
(`_find_header`): the hazards are the boundary of the buffer, byte order, and
a loop that must make progress on every byte pattern.

### 1.4 Properties worth checking

PCI: ranges decoded by two functions never overlap; a bridge forwards exactly
what its subtree decodes; bus ranges nest; every BAR is found with its true
size and type; no BAR stays in probe mode; a failed call leaves no trace;
cursors never move backwards; the walk returns; and the whole agrees with every
assertion of the repository's tests.

Flash and HAL: every call changes the array exactly as the HAL promises its
caller; the controller is never commanded while busy and is at rest between
calls; the two copies of the driver behave alike; every call returns; the
system clock is switched to a source that is ready; the application starts
behind `SEC_PROT` with a `SEC_SIZE` that passed the check; the boot reaches the
application or panics, and never hangs.

Start-up and i.MX RT: `main` is reached with `.data` and `.bss` initialised and
nothing else overwritten beyond the last word of a loop; the banner reaches the
line whole; a PLL is used only when locked; a flash call that reports success
has done what it reports and none changes a page or sector outside its range.

Unit-test helpers: a value `_find_header` hands out lies inside the header, the
search reads back what the layout says and ends on every header; the SPI device
stores and returns bytes at the address the driver sent.

## 2. Plan

1. **PCI mock** (`PciMock`), translated from `unit-pci.c`.  Done.
2. **PCI engine** (`PciEnum`) on top of the mock, from `spec.md` 4.1-4.6.  Done.
3. **Unit-test cases** (`PciScenarios`, `PciMockTests`) as the link between
   the two: the engine model must pass the repository's tests of the engine
   (729-1614) and the mock model the tests of the mock (406-723).
   Done; the cases are initial states of the `enum` run.
4. **Points where `spec.md` and the tests disagree**: section 5.  They are
   assertions of the tests that the `enum` run holds with.
5. **STM32 flash driver** (`FlashController`, `FlashBuilds`, `StmFlash`,
   `FlashDrvStm32`) and the promise of the HAL as an abstract specification
   (`FlashSpec`) that the driver implements.  Done for both copies and the
   four devices (C0, G0, WB, L4), and for the 16-bit and the byte path of
   `stm32_flash.c`; its branch for an alignment of 16 does not compile
   (section 5, finding 13).
6. **STM32G0 HAL** (`Stm32g0Hal`) composed with the flash driver.  Done.
7. **RISC-V start-up and the MPFS250 HAL** (`RiscvBoot`, `Mpfs250`).  Done.
8. **i.MX RT HAL** (`ImxRt`).  Done for `hal_init` and the flash calls; the
   DCD and the boot data are constant tables.
9. **Image header search** (`ImageHeader`) and **SPI flash device**
   (`SpiMock`).  Done.
10. **Statements of comments the code contradicts** (`FlashClaims`,
    `HalClaims`), each with a run of its own: section 5.  Done.
11. Left: a `cfg` of the mock kept by byte; re-enumeration of a hierarchy
    that is already programmed; the disk in memory and the GPT and MBR
    builders of `unit-disk.c`.

## 3. Modules

| module | models | from |
|---|---|---|
| `PciMock` | the hierarchy mock | `unit-pci.c` 40-397 |
| `PciEnum` | the engine, as a state machine over the mock | `spec.md` (spec-modelled) |
| `PciScenarios` | the set-up and the assertions of every engine test | `unit-pci.c` 729-1614 |
| `PciMockTests` | the tests of the mock, and the two engine tests that need no walk | `unit-pci.c` 405-723, 882-900, 1464-1503 |
| `MCPciEnum` | the `enum` run: the test cases and three more topologies as initial states, the comparison of the final state with the assertions of the case | |
| `FlashController` | the flash array and its controller: the environment of the drivers | register names of `stm32g0.c` 66-104; behaviour as RM0444 3.3 and 3.7 (cited there) give it |
| `FlashBuilds` | what the macros and `#ifdef` branches of each build of the driver select | `config/stm32_flash_*.h`, `flash_drv_stm32.h`, `flash_drv_stm32.c` |
| `FlashSpec` | what the flash functions promise their caller | `stm32_flash.h` |
| `StmFlash` | the driver, parameterised by its build, with the three paths of `hal_flash_write` that compile | `stm32_flash.c` |
| `FlashDrvStm32` | the compiled copy under each `TARGET_` | `flash_drv_stm32.c`, `flash_drv_stm32.h` |
| `Stm32g0Hal` | the G0 HAL, composed with the driver | `stm32g0.c` |
| `RiscvBoot` | both programs of a RISC-V target from reset to `main` | `src/boot_riscv64.c`, `test-app/startup_riscv.c` |
| `Mpfs250` | the HAL calls `main` of the boot loader makes | `hal/mpfs250.c` |
| `ImxRt` | the i.MX RT HAL: clocks and flash calls | `hal/imx_rt.c` |
| `ImageHeader` | the header search and its mock | `unit-image.c` 63-129, 184-252, 404-426 |
| `SpiMock` | the SPI flash device | `unit-spi-flash.c` 34-202, 274-299 |
| `MCFlashDrv`, `MCFlashNarrow`, `MCStm32g0Hal`, `MCRiscvBoot`, `MCImxRt`, `MCImageHeader`, `MCSpiMock` | devices, layouts, headers and call sets for TLC | |
| `FlashClaims`, `HalClaims` | statements of the source's comments that the code contradicts, two each | |

### 3.1 `PciMock` and the C code

A topology is a sequence of node records, and every operation of the mock is
an operator from a topology to a topology (or to a value).  Differences in
representation, none in behaviour:

* Nodes are numbered from 1 (C: from 0), so "no parent" is
  `TEST_PCI_ROOT_BUS == 0` (C: -1).
* The flag bits of a BAR (`TEST_PCI_BAR_IO`, `_64BIT`, `_PREFETCH`) are the
  Boolean record fields `is_io`, `is_64bit`, `is_prefetch`; the type bits the
  mock puts into the size mask are computed from them as in
  `test_pci_bar_probe_mask`.
* `cfg` is a function from register offset to value over the registers the
  engine and the tests use (`CfgRegs`), each with its own width, instead of an
  array of 256 bytes.  A narrow access of the walk addresses its register
  directly.  The byte shifting of the accessors is modelled beside it
  (`ReadLane`, `WriteLane` of `PciEnum`, on one 32-bit word), and
  `test_config_rw_8bit_all_positions` is checked on those.
* Device id and class code bytes written by `test_pci_commit` are left out: no
  operation of the engine reads them.
* `test_pci_cleanup`, the global `current_topology` and `panic` are not
  modelled.  The `ck_assert`s inside the mock are modelled as the predicates
  `WellFormed`, `ValidBars` and as part of `BusNumbersNest`.

`mmio_write32` is one operator with the three outcomes of the C function: the
write is dropped (no node, or the bus is not reachable), `ProbeWrite` (all-ones
to a BAR register: sets `bar_probed`, stores the size mask, and for the upper
half of a 64-bit BAR also rewrites the lower half), `PlainWrite` (stores the
value and clears `bar_probed`).

### 3.2 `PciEnum`

`pci_program_bar` and `pci_program_bridge` are deterministic functions of the
hardware and the `pci_enum_info` they are given; they are written as operators
that return a record (`hw`, `info`, `ret`, ...), each built from the register
accesses in the order `spec.md` lists them.  `Then(x, F)` binds the result of
one step before the next is computed.  The walk (`pci_enum_bus` with the
recursion through `pci_program_bridge`) is the state machine: `stack` holds
one frame per bus being scanned, `saved` the snapshot a bridge takes before
its subtree, `log` what every call returned.

| action | code |
|---|---|
| `pci_enum_do` | the entry point: starts the scan of bus 0 with the caller's `pci_enum_info` |
| `SkipFunction` | a slot with no function (vendor id `0xFFFF`) or a function above 0 of a single-function device |
| `ProgramBar` | one call of `pci_program_bar` and the advance to the next BAR index (by two after a 64-bit BAR) |
| `EnterBridge` | `pci_program_bridge` up to the recursive call: snapshot, bus numbers, subordinate opened; second disjunct: a window base cannot be aligned inside its pool, the bus registers are cleared and the bridge is skipped |
| `LeaveBridge` | `pci_program_bridge` after the recursion: subordinate narrowed, windows written or closed, command bits, or rollback |
| `FinishWalk` | the return of a `pci_enum_bus` call |
| `Done` | the engine has returned; nothing changes any more |

Where `spec.md` and the tests disagree, the model follows the tests (they are
the code of this repository); section 5 lists the points.  The model does not
write the command register of an endpoint (`spec.md` 4.4 does not, and
`test_program_bars_iteration` asserts it is preserved).  The value
`pci_enum_bus` returns is not modelled.  On failure a bridge's bus registers
are cleared, which equals restoring them in every state the runs start from.

### 3.3 `FlashController`: the environment

The drivers are written against the flash controller of the reference manual
the source cites (RM0444).  The module states what the drivers rely on and no
more; its header lists each assumption.  A register is the set of the names of
its bits that are set (`FLASH_CR` also has the page number field `pnb`), so a
mask operation of the C code is a set operation.  `CrStore` and `SrStore` are
what a store by the processor leaves in the register: `FLASH_CR` ignores
stores while `LOCK` is set, the flags of `FLASH_SR` are cleared by writing 1
and the busy flags are read-only.  `HwComplete` is the one action of the
controller: it ends the operation it was given, changes the array if the
operation was legal (`Fault`), and replaces the busy flags by `EOP` or by the
error flag.

A programming operation carries the bytes of one unit of programming: a double
word on the devices of `config/`, a half word or a byte on the devices the
other two paths of `stm32_flash.c` are for (`ProgramWidths`).  `Width(op)` is
the number of bytes it carries and `Unit(op)` the addresses it programs; the
rules (`PG` set, `FLASH_CR` unlocked, the unit erased) are the same for every
width.

### 3.4 `StmFlash` and `FlashDrvStm32`

A call is a record in `call`: the arguments, the locals, and `pc`, the place
in the function.  Every busy-wait of the C code is a guard
(`flash_wait_complete`), so a function is one action per stretch of code
between two waits:

| action | code |
|---|---|
| `WriteBegin` | `hal_flash_write` up to the loop: errors cleared, `PG` set |
| `WriteAligned` | one iteration on the aligned path: wait, two word stores |
| `WriteUnaligned` | one iteration on the read-modify-write path: the double word is read, patched and stored back |
| `WriteWait` | the wait that ends an iteration |
| `WriteEnd` | the common cleanup: result, `EOP` cleared, `PG` cleared |
| `HalfBegin` | the 16-bit path up to its first store: `dst_16` with bit 0 cleared, wait |
| `HalfOddStart` | an odd address: the first byte goes into the high half of the half word that is there (`OddStart`), `PG` set, store |
| `HalfRegular`, `HalfNext` | one half word from the buffer: `PG` set, store; then wait, `PG` cleared and set again, pointers advanced |
| `HalfOddEnd`, `HalfBreak` | one byte is left: it goes into the low half (`OddEnd`), store; then wait, `PG` cleared, `break` |
| `ByteBegin` | the byte path up to its loop: wait, errors cleared, the program size field cleared and `PG` set |
| `ByteStore`, `ByteNext` | one byte: `PG` set, store; then wait, `PG` cleared |
| `NarrowEnd` | `return 0` of either path, which the common cleanup does not precede |
| `EraseRefused`, `EraseBegin` | `hal_flash_erase`: `len == 0` returns -1; else the end address and the first page |
| `ErasePage`, `ErasePageDone` | `STM32_FLASH_ERASE_PAGE` for one page: wait, errors cleared, `PER`, page number, bank, `STRT`; then wait and `PER` cleared |
| `EraseEnd` | the loop has passed the end address |
| `hal_flash_unlock`, `hal_flash_lock` | wait, then the key sequence or `LOCK` |
| `CallUnlock`, `CallLock`, `CallWrite`, `CallErase` | the boot loader makes a call |
| `Controller` | the hardware ends its operation |
| `Booted` | the boot loader has made its calls and handed over |

`WritePath` gives the path the preprocessor keeps for the alignment of the
build; `WriteBegin` is common to all three.  The data buffer is `Data(len)`,
the bytes 1, 2, ...; only its address modulo 8 (`align`) is an input, because
that is all the choice between the two 8-byte paths reads.  `OLD` is the
content of a programmed byte.

The caller writes only to units of programming that are erased (`WriteOnce`:
`stm32g0.c` requires `NVM_FLASH_WRITEONCE`) and only inside the device.  With
`LockedCalls` it also writes and erases without `hal_flash_unlock` before,
which must change nothing.  A call whose double-word arithmetic goes wrong
(section 5, finding 5) is left out of the call sets of the passing runs and
has a run of its own.

A build of the driver is a record of `FlashBuilds`: the flags
`flash_wait_complete` waits for, the error mask, whether `PROGERR` is
reported, the bits cleared with `PG` and with `PER`, the address remap, the
base and the mask of the page calculation, the bank selection, whether unlock
and lock wait first, whether the file's `hal_flash_erase` is the one called,
the banks of the device, and `align`, the value of
`STM32_FLASH_WRITE_ALIGNMENT`.  `IncludeStyle` are the four builds of
`stm32_flash.c` (one per header of `config/`), `Targets` the four of
`flash_drv_stm32.c`; `driver` is chosen in `Init` and never changes.
`FlashDrvStm32` is `StmFlash` on `Targets`; `Counterpart` gives, for a target,
the build of `stm32_flash.c` for the same device, which is what `CopiesAgree`
compares it with.

The repository has no header for a device of alignment 2 or 1.
`STM32_FLASH_ALIGN_2` and `STM32_FLASH_ALIGN_1` (`Narrow`) are the least
`stm32_flash.h` 28-55 asks of one: one busy flag, the error mask, no remap, a
wait before the key and the lock sequence, no erase macro (so
`hal_flash_erase` of this file is not the one such a build calls).  What the
two paths do does not depend on these choices except through
`flash_wait_complete`.

### 3.5 `FlashSpec` and the refinement mapping

`FlashSpec` has two actions, `Call` and `Return`; the array changes at the
return, to `After(r)`.  `StmFlash` implements it under

| `FlashSpec` | `StmFlash` |
|---|---|
| `mem` | `flash` between calls, `before` (the array when the call began) during one |
| `locked` | `LOCK` is set in `FLASH_CR` |
| `op` | `Request(call)`: the call without its locals |
| `result` | `ret` |

so every step of the driver and of the controller inside a call is a
stuttering step of `FlashSpec`, and the step that returns must leave in
`flash` exactly what `After` says.

### 3.6 `Stm32g0Hal`

`Stm32g0Hal` extends `FlashController`, adds the clock controller, the UART
and `FLASH_SECR`, and takes the driver from `FlashDrvStm32` by `INSTANCE`.
`pc` is the place in the boot: `reset`, the steps of `clock_pll_on`, `uart`,
`main` (where the boot loader makes its flash calls), the steps of
`clock_pll_off` and `do_secure_boot`, and `booted` or `panic`.

The preprocessor macros that change the control flow (`DEBUG_UART`,
`WOLFBOOT_RESTORE_CLOCK`, `FLASH_SECURABLE_MEMORY_SUPPORT`,
`NO_FLASH_SEC_SIZE_CHECK`) are the variable `build`, a set of macro names
chosen in `Init` and never changed, so that one run covers several builds.

| action | code |
|---|---|
| `PllOnHsi` ... `PllOnEnd` | `clock_pll_on`: wait states, HSI on and ready, PLL off, PLL configured and switched on, wait for lock, `SW` to PLL, the last wait |
| `uart_init`, `uart_write` | `hal_init` under `DEBUG_UART`: baud rate and frame format, then one character per step, each behind the wait for `TX_EMPTY` |
| `FlashCall`, `FlashStep`, `FlashHw` | the caller, the driver and the controller of `FlashDrvStm32` |
| `PrepareBoot`, `PllOffSelect`, `PllOffStop`, `AfterClock` | `hal_prepare_boot` and `clock_pll_off` |
| `SecureCheck`, `SecureProtect` | `do_secure_boot`: the check of `SEC_SIZE` (panic), `hal_flash_unlock`, then the loop that sets `SEC_PROT` |
| `HwPll`, `HwClockSwitch`, `HwUart` | the clock controller locks or stops the PLL and follows `SW` with `SWS` when the source is ready; the UART sends a character |
| `Halted` | the application runs, or `wolfBoot_panic` spins |

Assumptions on the clock controller, from RM0444: the ready bits of `RCC_CR`
are read-only; `SWS` follows `SW` only when the requested source is ready;
`PLLON` cannot be cleared while the PLL is the system clock.  Stores that have
no effect on control (prescalers, GPIO alternate functions) have no state.

### 3.7 `RiscvBoot` and `Mpfs250`

`image` says which program runs (`wolfboot`, then `app`), `build` holds the
linker symbols of both, `pc` is the place in `_reset`.  Memory is a function of
byte addresses; at reset the byte at `a` holds `a + 1`, so a copied byte tells
where it came from.  `atReset` is a history variable: memory when the current
program was entered.

| action | code |
|---|---|
| `Boot_reset`, `App_reset` | `_reset`: `SetGp`, `SetSp`, `SetMtvec`, then one round of `CopyData` or `ZeroBss` per step (a word of 8 bytes in the boot loader, of 4 in the application), then the call of `main` |
| `PutChar` | one character of the application's banner, behind the wait for the holding register of UART0 |
| `Main` | `main` of the boot loader makes one call of the HAL (`HalCall` of `Mpfs250`) |
| `do_boot` | `reloc_iv`, then the jump to the application |
| `arch_reboot`, `MainReturns`, `AppReturns` | the ends: the reboot request and the loops behind a `main` that returns |
| `Transmit` | not code: UART0 moves the character it holds to the line (an assumption, see below) |
| `Spin` | the processor goes round an empty loop |

`main` of the boot loader is not among the sources; it is taken to make up to
`MaxHalCalls` calls of the HAL and then to boot, reboot or return.  Every
function of `mpfs250.c` is a placeholder, so `Mpfs250` keeps only what the last
call returned.  `uart_init` is among the placeholders: nothing in the sources
brings UART0 up.  UART0 itself is not part of the sources either: the only
thing the start-up code says of it is that it waits for the holding register
to be empty before it stores a character.  The model assumes a transmitter
that takes the character of the holding register and reports the register
empty then (`Transmit`); that is an assumption on the hardware and not a
translation of code.

### 3.8 `ImxRt`

`build` is the processor the file is compiled for; it fixes the size and the
base of the flash and whether the ROM is entered through a table of function
pointers.  A PLL is the record of the bits the code reads and writes (`power`,
`bypass`, `lock`); `PllLocks(p)` is the hardware setting `lock` of a powered
PLL.  `rom` is the state of the ROM driver (`hal_flash_init`), `flash` a
function of cells.

| action | code |
|---|---|
| `ConfigureArm`, `ConfigureSys`, `ConfigureUsb1` | `clock_init`: each PLL stored with its divider, powered, and waited for |
| `EnablePlls` | the end of `clock_init`: the three `BYPASS` bits cleared |
| `hal_init` | `hal_flash_init` after the clocks |
| `hal_flash_write`, `WritePage` | the entry of the call and one round of its loop: a page buffer filled from the data and handed to the ROM |
| `hal_flash_erase` | one call of the ROM for the range |
| `hal_flash_unlock`, `hal_flash_lock`, `hal_prepare_boot` | empty functions |

The ROM and the flash array are the environment of this module; neither is
among the sources, and `imx_rt.c` holds only the types of the ROM's entry
table.  The assumptions made of them (`RomCall`, `Cells`) are: the ROM accepts
a call when its driver is initialised and the range lies in the device, erases
the sectors a range touches, and may fail at will, leaving the range as it was
or done in part (a status of `Statuses`).  A cell programmed twice without
erasure holds `"mixed"`.  Of the FlexSPI configuration of each processor
(`CPU_MIMXRT1052DVJ6B` and the others) the model keeps the size of the flash
and nothing of the look-up table.

### 3.9 `ImageHeader`

One pass through the body of the loop of `_find_header` is one step, and each
way out of or round the loop is an action: `LoopEnds`, `ExplicitEnd` (two zero
bytes), `SkipPadding`, `SkipUnaligned`, `FieldTooLarge`, `FieldOverflows`,
`FieldFound`, `NextField`.  `wolfBoot_find_header` counts the call and either
answers as the mock (`Mocked`: 2, or -1 as a `uint16_t`) or enters the search
(`Search`); `SetSwitches` is a test case setting `find_header_mocked`,
`find_header_fail` and clearing `find_header_called` between two calls.

A header is a sequence of bytes.  `Encode` lays fields out as the images of the
test do (`FieldBytes`: padding, type and length little endian, the value, a
byte of padding behind a value of odd length) and keeps the fields beside the
bytes, so that `FindsEncodedFields` can say what the search must return.  The
first test of `_find_header`, `p > max_p`, needs an address that wraps; it is
part of `Search` and no start address of the model meets it.

### 3.10 `SpiMock`

The variables are the statics of the test file, one for one, with `miso` (what
`spi_read` returned last), `failed` (a `ck_assert` of the device has ended the
test case) and the history variable `transfer` (the address bytes and the
number of data bytes since the chip select).  `spi_write` is one action per
phase of the decoder (`Command`, `Address`, `DataWrite`, `DataArm`, `Ignored`,
`WithoutSelect`), `spi_read` one per source of the byte (`Register` for `MDID`
and `RDSR`, `DataRead`, `Nothing`).  `Init` is the state `reset_spi_mock`
leaves, which every test case begins with; `Test` is what the cases do before
they call the driver (`reset_spi_mock`, other identifiers, a pattern in the
flash).  The driver (`spi_flash.c`) is not among the sources: it is any
sequence of calls.

A byte has `ByteBits` bits, so an address of three bytes is a number below
`Byte ^ 3` and `uint32_t` arithmetic wraps at `Byte ^ 4`.  The device counts
erasures and does not change `mock_flash` for them; neither does the model.

## 4. Runs

| run | module / cfg | result | distinct states |
|---|---|---|---|
| `enum` | `MCPciEnum` / `MCPciEnum.cfg` | passes | 3520, depth 43 |
| `flash_drv` | `MCFlashDrv` / `MCFlashDrv.cfg` | passes | 93160, depth 27 |
| `flash_narrow` | `MCFlashNarrow` / `MCFlashNarrow.cfg` | passes | 34342, depth 48 |
| `claim_flash_write` | `FlashClaims` / `FlashClaimWrite.cfg` | violated | |
| `claim_flash_bank` | `FlashClaims` / `FlashClaimBank.cfg` | violated | |
| `g0_boot` | `MCStm32g0Hal` / `MCStm32g0Hal.cfg` | passes | 8784, depth 32 |
| `claim_sec_size` | `HalClaims` / `HalClaimSecSize.cfg` | violated | |
| `claim_clock` | `HalClaims` / `HalClaimClock.cfg` | violated | |
| `riscv_boot` | `MCRiscvBoot` / `MCRiscvBoot.cfg` | passes | 132960, depth 29 |
| `imx_rt` | `MCImxRt` / `MCImxRt.cfg` | passes | 96845, depth 13 |
| `spi_mock` | `MCSpiMock` / `MCSpiMock.cfg` | passes | 830780, depth 39 |
| `image_header` | `MCImageHeader` / `MCImageHeader.cfg` | passes | 337380, depth 15 |

Every property of a passing run has a faulty variant of a definition of the
model next to that definition (`..._NoWait`, `..._OffByOne`, ...), and
`PROJECT.json` ("mutants") says which variant breaks which property: with the
definition replaced by the variant, TLC reports the property violated.

### 4.1 `enum`

Every behaviour starts from one of 26 topologies (those of the tests, plus two
sibling bridges, a chain of bridges three deep, and a device whose function 1
exists although function 0 is single-function) and one of 8 pool seedings (the
default of the tests, and the seven in which one pool is exhausted before or
during the walk).  The variable `case` names the test case whose set-up the
initial state is, or `"none"`: 208 initial states that no test starts from and
22 that are the test cases.

* `TypeOK`: the shape of the state, and that every register holds a value of
  its width (`RegWidth`: a BAR the width of the address space, the vendor
  identifier, the command register and the window registers of a bridge 16
  bits, every other register 8).  A read that fails returns all ones, and a
  16- or 8-bit accessor must cut it before it is stored.
* `DecodedRangesDisjoint`: at every step, the address ranges of the BARs that
  are programmed and reachable do not overlap within an address space.
* `WindowsRouteSubtree`: when a bridge has been completed, each of its windows
  covers every BAR of that kind below it and no granule more than the span
  allocated during its subtree; a kind with nothing below is closed.
* `BusNumbersNest`: secondary > primary, subordinate >= secondary, a child's
  range inside its parent's, siblings' ranges disjoint.
* `ProbeTellsTheTruth`: at the end of the walk, every BAR of every function
  the scan covers was reported with its size and type: programmed, or refused
  with the return value the tests require.
* `NoBarLeftInProbeMode`: between two calls no BAR has `bar_probed` set.
* `FailedCallLeavesNoTrace` (action): a step that logs a failed call leaves
  the registers of the failing function and the cursors as they were when the
  call began.
* `CursorsOnlyAdvance` (action): a cursor moves backwards only in a bridge
  rollback, and then exactly to the snapshot.
* `WalkTerminates` (liveness): `pc` reaches `"done"`.
* `AgreesWithUnitTests`: `UnitTests` holds one record per test case: topology,
  pools, the calls whose return value is asserted, the registers read back
  (`eq`/`ne` a value), the cursors afterwards, and the bridges whose bus
  numbers are asserted.  The property requires all of them when the walk of a
  behaviour that began as a test case is over, together with all 16 vectors
  of the two alignment tests, the refusal of BAR index 6, and the four byte
  writes of `test_config_rw_8bit_all_positions`: each byte reads back from
  its lane and the word ends as `0x40302010`.
* `MockPassesItsTests`: the conjunction of the eight tests of the mock
  (topology building, commit, node lookup on the root bus, behind one bridge
  and behind two, the probe masks, the probe through `mmio_write32` /
  `mmio_read32`, and reads of a bus no bridge routes), each the conjunction of
  its `ck_assert`s.

### 4.2 `flash_narrow`

The program is `stm32_flash.c` built for a device that programs half words, or
for one that programs bytes.  Up to four calls in any order, each of unlock,
lock and a write of one to six bytes that begins on a half word or in the
middle of one; the boot loader unlocks before it writes.  The next-state
relation is the part of `StmFlash` such a build compiles (`NarrowNext`).

* `ImplementsFlashSpec` (refinement): section 3.5.  For the 16-bit path this
  is where the two read-modify-write stores are checked: the first byte of a
  write at an odd address must go into the high half of the half word that is
  there, the last byte of a write that ends on an odd address into the low
  half, and the byte beside either must stay what it was, whatever an earlier
  call left there.
* `NeverCommandedWhileBusy` (action): every store to `FLASH_CR` and to the
  array of either path has a wait before it.
* `CallsReturn` (liveness): every call returns.

`AtRestBetweenCalls` is not a property of this run: the 16-bit path returns
with `PG` set after most calls (finding 12).

### 4.3 `flash_drv`

The program is any of the eight builds (either copy of the driver, built for
the C0, the G0 on two banks, the WB or the L4).  Up to three calls in any
order, each of unlock, lock, a write and an erasure, with and without an
unlock before them.  An erasure begins at the first or at the third page and
has a length of no bytes (refused), one page, a page and a half, or two pages.
Lengths that end on the first byte of a page are not among them: the bound of
the page loop is wrong for those (finding 15).

* `DriverTypeOK`: shape of the state; `i` stays within the buffer of a write
  and `p` within one page behind the last byte of an erase range.
* `ImplementsFlashSpec` (refinement): section 3.5.  This is where the index
  arithmetic of both write paths, the choice between them in every iteration,
  the page loop, the page calculation of each device and the bound of the
  erase range are checked, for every content of the array the earlier calls
  can have left.
* `CopiesAgree` (refinement): every step of `flash_drv_stm32.c` is a step of
  `stm32_flash.c` built for the same device.
* `NeverCommandedWhileBusy` (action): `FLASH_CR` changes, and an operation is
  begun, only while the controller is idle.
* `AtRestBetweenCalls`: when no call is in progress, nothing is pending, no
  busy flag is set and neither `PG` nor `PER` is left set.
* `CallsReturn` (liveness): every call returns.

### 4.4 `g0_boot`

From reset to the application, in six builds and with six values of
`FLASH_SECR`, the boot loader making up to two flash calls while in `main`.

* `TypeOK`: shape of the state of the HAL, and `DriverTypeOK` of the flash
  driver it is linked with.
* `ClockSwitchPrepared`: whenever `SW` selects the PLL, the PLL is configured
  for 64 MHz and ready, and `FLASH_ACR` holds two wait states.
* `SecuredAtHandOver`: in a build with securable memory, the application
  starts only with `SEC_PROT` set, the controller at rest, and (unless the
  check is compiled out) a `SEC_SIZE` of at least 2.
* `BootCompletes` (liveness): `pc` reaches `booted` or `panic`: every wait of
  `clock_pll_on`, `uart_write`, `clock_pll_off`, the flash calls and the
  `SEC_PROT` loop ends.

### 4.5 `riscv_boot`

Sixteen layouts of the boot loader and ten of the application (`.data` and
`.bss` of every length from nothing to a word and a half, the application's
`.data` stored behind its code or loaded in place), UART0 busy or idle at
reset.

* `TypeOK`: shape of the state; also that a call of the HAL has returned 0 or,
  for `hal_get_dts_address`, the address of the device tree, which is what
  `main` and `do_boot` rely on.
* `SectionsInitialised`: when `_reset` calls `main`, `.data` holds what was
  stored for it, `.bss` is zero, and no other byte has changed except those
  between the end of a section and the end of the last word its loop wrote
  (`Reach`).  The loops do overrun a section that does not end on a word, the
  `.data` of the boot loader by up to seven bytes; the property states how far.
* `BannerInOrder`: what UART0 has been handed is a prefix of the banner; no
  character is stored over one that has not been sent.
* `ReachesMain` (liveness): `_reset` of either program reaches its `main`.

### 4.6 `imx_rt`

Three processors, every state the ROM may leave the PLLs in at reset, two
flash calls after `hal_init`, the ROM failing at will.

* `TypeOK`: shape of the state; also that the ROM is never entered before
  `hal_flash_init` has set its driver up (`pc` is never `"fault"`).
* `PllUsedOnlyLocked`: PLL_ARM and PLL_SYS are out of bypass only when locked.
  It is not stated for PLL_USB1 (finding 11).
* `WriteOutcome`: when `hal_flash_write` returns 0 every erased cell of the
  range holds the data; when it returns -1 the pages before the failing one
  do; no cell outside the pages of the range has changed.
* `EraseOutcome`: the sectors the range touches are erased when
  `hal_flash_erase` returns 0, and no cell of another sector has changed
  whatever it returns.
* `HalCallsReturn` (liveness): every wait for a lock and the loop of
  `hal_flash_write` end.

### 4.7 `image_header`

Every header of up to two well-formed fields and every header of five
arbitrary bytes, the first field at an even or an odd address.

* `TypeOK`: also that the `-1` of the mock arrives as `0xFFFF`.
* `FieldWithinHeader`: a value handed out lies inside the header, behind the
  four bytes of its type and length, whatever bytes the header holds.
* `FindsEncodedFields`: of a well-formed header at an even address the search
  returns the first field of the type among those whose type and length the
  loop reaches, or 0 and `NULL`.  The loop runs while `p + 4 < max_p`, so a
  field of length 0 in the last four bytes of the header is not found; the
  property is stated with that boundary.
* `SearchEnds` (liveness): the loop ends on every header.

The run does not report a deadlock as an error: a test case ends after its
calls (`MaxCalls`), and nothing follows.

### 4.8 `spi_mock`

Every sequence of chip selects, commands (the six the device knows and one it
does not), address bytes, data bytes and reads, begun from a reset device
with or without a pattern in the flash.

* `MockTypeOK`: shape of the state; also `data_writes <= expected_data_writes`: the device takes no
  more data than the test case said it expects.
* `WritesLandWhereAddressed` (action): while the chip is selected the flash
  changes only by a data byte of a `BYTE_WRITE` after all three address
  bytes, and only at the address they name, most significant first, plus the
  data bytes before.
* `ReadsComeFromAddressed` (action): a byte `spi_read` takes from the flash is
  the one at that address.

### 4.9 The `claim_` runs

Each states one sentence of a comment of the source as a property; TLC
reports the behaviour in which the code does otherwise.  See section 5.

* `claim_flash_write` (`WriteStoresBuffer`) and `claim_flash_bank`
  (`EraseSelectsBank`): findings 5 and 6.
* `claim_sec_size` (`SecureAreaEndsBeforeApplication`): finding 8.
* `claim_clock` (`ClockFunctionsTakeEffect`): between the return of
  `clock_pll_on` and the call of `clock_pll_off` the clock in use (`SWS`) is
  the PLL; once `clock_pll_off` has returned in a build with
  `WOLFBOOT_RESTORE_CLOCK` it is HSISYS and `PLLON` is clear.  The run uses
  the builds and the `FLASH_SECR` values of `g0_boot`.  Finding 9.

### 4.10 Bounds

| constant | value | why it is enough |
|---|---|---|
| `AddrBits` | 28 | TLC's integers are 32 bits wide, so the address space of the PCI model is 28 bits wide and arithmetic wraps at 2^28.  An address of the tests is written without its lowest hexadecimal digit (`0x80000000` is `Scaled(\h8000000)`); BAR sizes, the 4 KiB minimum alignment and the window granules (1 MiB, 4 KiB) keep their real values, so every pool of the tests keeps its alignment and holds 1/16 of its bytes, still more than any topology allocates.  The vectors of the alignment tests are written the same way, with `TOP` for `0xFFFFFFFF`. |
| `NumDevs` | 3 | device slots scanned per bus (the engine scans 32).  No topology of the runs has a device above slot 2 that should be found; `HiddenFunctions` has one in slot 5 on purpose, to show that a slot outside the scan stays untouched. |
| `NumFuncs` | 2 | functions scanned per device (8 in the engine); the multifunction cases use functions 0 and 1. |
| `FLASH_PAGE_SIZE` | 16 (device: 2048) | two double words per page: a write can stay inside a double word, cross into the next, and cross a page; an erase range can end on a page or in the middle of one.  The driver's arithmetic uses the page size only as a unit. |
| `FLASH_CR_PNB_MASK` | 3 (device: 127) | four pages per bank: first, last and inner pages exist, and a page number can overflow the field into the second bank. |
| `NumBanks` | 2 (`flash_drv`), 1 (`flash_narrow`, `g0_boot`) | 2 where the bank flags and the bank selection matter; the one-bank devices take one bank from their build. |
| write calls | three places, offsets 0..8, lengths 1, 5, 8, 9, 16, 20, buffer aligned or not | every start inside a double word, a part, one and two whole double words with and without a tail, in the page that held the program and in either bank. |
| write calls (`flash_narrow`) | offsets 0..5 of the third page, lengths 1..6 | an even and an odd start with an even and an odd end, with no, one or two whole half words between, next to what an earlier write of the behaviour left; a length of 0 is left out (finding 12). |
| `LockedCalls` | `TRUE` (`flash_drv`), `FALSE` (`flash_narrow`, `g0_boot`) | with it the boot loader also writes and erases while `FLASH_CR` is locked.  `flash_narrow` is without it because a 16-bit write that follows a lock can program the array (finding 12). |
| `MaxCalls` | 3 (`flash_drv`), 4 (`flash_narrow`), 2 (`g0_boot`) | unlock, then erase and write or two writes, on what the calls before left behind; in `flash_narrow` unlock and three writes, so that a write lands beside the half words of an earlier one and follows one that returned with `PG` set; in `g0_boot` the flash calls only have to interleave with the rest of the boot. |
| `MsgLen` | 2 (code: 14) | characters `hal_init` sends; two make the wait for `TX_EMPTY` happen after a character that is still being sent. |
| `Builds` | 6 sets of macros | each macro on and off, and the size check with and without securable memory. |
| `SecrValues` | 0, 1, 2, 3, 255, 258 | `SEC_SIZE` below, at and above the bound of the check, the largest, and a value with bits above the field. |
| `MemSize`, `AppOffset` (`riscv_boot`) | 96, 24 | flash below 48 and RAM above; room for both programs, their stored data, and sections of a word and a half with a word of overrun behind them. |
| section lengths | 0, 4, 8, 12 (boot loader), 0, 4, 8 (application) | empty, shorter than a word of the boot loader, a word, and a word and a half: every remainder the loops can meet. |
| `MaxHalCalls` | 1 | the HAL keeps no state; one call shows what a call leaves. |
| `CONFIG_FLASH_PAGE_SIZE`, `CONFIG_FLASH_SECTOR_SIZE` (`imx_rt`) | 2 cells, 4 cells | a write can end inside a page and cross into the next sector; an erasure can touch a part of a sector, one or two. |
| flash of the i.MX RT | 8 or 16 cells, based at 4 or 8 | the base is above 0, so an address and an offset differ; the smaller device has a last sector a range can run past. |
| `MaxCalls` (`imx_rt`) | 2 | a write on what an erasure or a failed write left. |
| `IMAGE_HEADER_SIZE`, `IMAGE_HEADER_OFFSET` | 14, 2 (code: 256, 8) | 12 bytes of fields: two fields with values and padding fit, and a field can end exactly with the header or one byte behind it. |
| headers | up to 2 fields of types 1, 2, lengths 0..2, values `0x00` or `0xff`; 5 arbitrary bytes of 0, 1, 8, `0xff` | well-formed: every position of a field against the end of the header, values that look like padding or like the end of the options.  Arbitrary: lengths that are too large, that overflow the header, types at odd addresses. |
| `ByteBits`, `MOCK_FLASH_SIZE` (`spi_mock`) | 3, 4 (code: 8, 4096) | bytes of 0..7: three address bytes in either order give different addresses, inside and outside the flash. |
| `Lengths`, `DataBytes`, `AddressBytes` | {0, 2}, {5}, {0, 1} | a test case that expects no data and one that expects two bytes, so that a third is refused; addresses 0, 1 and those beyond the flash. |
| `MaxCount`, `MaxReads` | 1, 3 | the counters of erasures and releases are only counted; three reads of a register reach the manufacturer and the product identifier. |

### 4.11 Fairness

* `PciEnum`: `WF_vars(Next)`.  The engine is one synchronous call on one
  thread (`spec.md` sections 1 and 5), so a step that is enabled is taken.  No
  fairness is assumed about the hardware: the mock answers every access at
  once.
* `StmFlash`, `FlashDrvStm32`: weak fairness of `DriverStep` (in
  `flash_narrow`: `NarrowStep`; the processor executes the call it is in) and
  of `Controller` (the flash controller ends
  every operation: RM0444 gives a maximum time for each).  None for the caller:
  nothing obliges the boot loader to make a call.
* `Stm32g0Hal`: weak fairness of `Processor` (the boot loader is a sequential
  program that runs to `booted` or `panic`), and of each hardware action
  (`HwPll`, `HwClockSwitch`, `HwUart`, `FlashHw`): the PLL locks, the clock
  switch completes and the UART sends within bounded time.  None for
  `FlashCall`: the boot may make fewer flash calls than `MaxCalls`.
* `RiscvBoot`: weak fairness of `Cpu` (the hart executes its next instruction)
  and of `Transmit` (a UART that has a character sends it).
* `ImxRt`: weak fairness of `Cpu` and of `PllLocks(p)` for each PLL: a powered
  PLL locks.  None for `Call`: the boot loader need not make a flash call.
* `ImageHeader`: weak fairness of `_find_header`: the search is a loop of a
  sequential program.  None for the test that calls it.
* `SpiMock`: none; the run has no liveness property.

`Booted`, `Halted`, `Spin` and `Done` are stuttering steps of the final states,
so that a deadlock TLC reports is a wait of the code that cannot end.

## 5. Findings

1. **Upper-half mismatch returns success.**  `spec.md` 4.3 step 3: an upper
   half that does not read all-ones is a hard failure.
   `test_program_bar_64bit_upper_reject` (line 938) asserts `ret == 0`, and its
   comment says why: `ret` is initialised to 0 and that path does not set it.
   Registers are restored and no pool moves, but the caller is told the BAR was
   programmed.  The model returns 0; `AgreesWithUnitTests` of the `enum` run
   holds with it.
2. **Minimum alignment of 4 KiB.**  `spec.md` 4.3 step 4 aligns to the BAR's
   size and scenario 4 expects the second 256-byte I/O BAR at `0x2100`;
   `test_enum_bus_topology` (line 1371) expects `0x3000`.  The model aligns to
   4 KiB; `AgreesWithUnitTests` holds with it.
3. **A BAR may cross the limit of its pool.**  The limit is compared with the
   aligned base (strictly below, lines 1593-1612), not with the end of the
   allocation, so the invariant `current <= limit` of `spec.md` section 3 does
   not hold: a 1 MiB BAR in a pool with 512 KiB left is programmed and the
   cursor ends beyond the limit.  No run of its own: the vectors of
   `test_pci_align_check_up_overflow` are part of `AgreesWithUnitTests`, which
   holds with the comparison as the test has it.
4. **I/O BAR value.**  `spec.md` scenario 4 says BAR value `0x2001`; the tests
   (lines 833, 1053) read back `0x2000`.  No run of its own: the `enum` run
   holds with `0x2000`.
5. **A write that starts inside a double word and crosses its end is lost.**
   The read-modify-write path of `hal_flash_write` addresses the double word
   as `dst[i >> 2]` from the rounded-down address (`flash_drv_stm32.c` 92-100,
   `stm32_flash.c` 146-154), which is the double word of `address + i` only
   while `i == 0` or the address is a multiple of 8.  Eight bytes written at an
   address 4 above a double word: the second half is stored at `base + 4`, the
   controller answers `PGAERR`, the bytes are not written, the call returns 0.
   Run `claim_flash_write`.
6. **The G0 erase never selects the second bank.**  `BKER` is set when
   `page << 11 >= BANK_SIZE`, but `page` has been masked with
   `FLASH_CR_PNB_MASK` before, so the comparison is never true
   (`flash_drv_stm32.c` 200, `config/stm32_flash_g0.h` 75-80): erasing a page
   of the second bank erases the page of that number in the first.  Run
   `claim_flash_bank`.
7. **The copies differ in the result of a write.**  `stm32_flash.c` returns -1
   on `PROGERR` for the G0, `flash_drv_stm32.c` only for the L4.  Invisible
   while the caller writes erased double words only, which is why
   `CopiesAgree` holds; no run of its own.
8. **The `SEC_SIZE` check has no upper bound.**  `do_secure_boot` compares the
   8-bit `SEC_SIZE` with `WOLFBOOT_PARTITION_BOOT_ADDRESS / WOLFBOOT_SECTOR_SIZE`,
   an absolute address divided by the sector size, which no 8-bit value
   reaches (`stm32g0.c` 383).  A secure area that reaches into the application
   passes.  Run `claim_sec_size`.
9. **"Wait for PLL clock to be selected" waits for nothing.**  The loop at
   `stm32g0.c` 203 reads the `SW` bits the store before it has written, not
   `SWS`; `clock_pll_off` likewise clears `PLLON` without waiting for the
   switch.  In the model `PllOnEnd` is enabled before `HwClockSwitch`, so
   `uart_init` and `main` run while the system clock is still HSI16; and since
   the controller keeps `PLLON` while the PLL is the system clock, the store
   of `clock_pll_off` is lost when it comes before the switch, and the
   application is started with the PLL running, for good.  Each of the three
   parts of `ClockFunctionsTakeEffect` is violated on its own.  No property of
   `g0_boot` depends on the wait.  Run `claim_clock`.

10. **`reloc_iv` sets the trap vector four bytes behind the address.**  The
    comment says "Set machine trap vector to address"; the code writes
    `address + 1` with `address` a `const uint32_t *`, which is the address
    plus four with MODE 0, where `_reset` of both programs adds 1 to a byte
    pointer to select MODE 1 at the table (`src/boot_riscv64.c` 48).  From
    `do_boot` until the application's own `csrw` a trap enters the application
    at its second instruction.  The model keeps the value the code writes.  No
    run of its own.
11. **PLL_USB1 is out of bypass before it has locked.**  `clock_init` keeps
    PLL_ARM and PLL_SYS in bypass while they lock, but the store that
    configures PLL_USB1 (`imx_rt.c` 499-500) has no `BYPASS` bit, so the loop
    behind it waits for a PLL that is already in use; the clears at 504 and
    533 change nothing.  `PllUsedOnlyLocked` is stated for PLL_ARM and PLL_SYS,
    for which it holds.  No run of its own.
12. **The 16-bit path of `hal_flash_write` returns with `PG` set.**  It clears
    `PG` after a half word and sets it again at once (`stm32_flash.c` 215-216,
    236-237), and the function returns without the common cleanup (263-264):
    unless the call ends in the unaligned last write, which clears `PG` and
    breaks (229-230), `PG` is set when it returns.  `AtRestBetweenCalls` is
    violated by this build.  On the controller of the model a write made after
    `hal_flash_lock` then programs the array although it is locked, because
    `LOCK` keeps back stores to `FLASH_CR` only and `PG` is set already: with
    `LockedCalls` TLC finds `ImplementsFlashSpec` violated after unlock, write,
    lock, write.  The same path stores `data[0]` at an odd address before it
    has looked at `len` (210-213), so a write of no bytes to an odd address
    programs one byte, and the byte path leaves `PG` set after a write of no
    bytes (249).  No run of its own; `flash_narrow` writes at least one byte
    and unlocks first.
13. **The branch for an alignment of 16 does not compile.**  The condition of
    the aligned write (`stm32_flash.c` 167) has one closing parenthesis more
    than the same line of the 8-byte branch (131), so the `if` ends before `{`
    and the `else` at 179 has no `if`.  `stm32_flash.h` 45 names 16 as a
    supported alignment.  The branch is not modelled.
14. **The I/O pool has no limit.**  `struct pci_enum_info` has a limit for
    memory and for prefetchable memory and none for I/O, and the I/O window of
    a bridge is two 8-bit registers that hold address bits 15:12
    (`unit-pci.c` 1104 expects `0x20` and `0x2F`).  Nothing keeps the cursor
    below 64 KiB: seeded with an I/O cursor at `0x10000`, the model allocates
    an I/O BAR behind a bridge there, the window registers hold `0x00` and
    `0x0F`, and `WindowsRouteSubtree` is violated.  Neither `spec.md` nor the
    tests say what an I/O address above 64 KiB means; the seedings of `enum`
    stay below it.  No run of its own.
15. **The page loop of `hal_flash_erase` is one byte short.**  The function
    refuses a length of 0 and takes every other; `end_address` is
    `address + len - 1`, the last byte of the range, and the loop runs while
    `p < end_address` (`stm32_flash.c` 313-316, `flash_drv_stm32.c` 180-183).
    The page that holds the last byte is left out when that byte is the first
    of its page: an erase of one byte erases nothing, an erase of a page and
    one byte erases one page, and both return 0.  With such lengths among the
    calls TLC finds `ImplementsFlashSpec` violated at the return of the
    erase.  For whole pages, and for every range that ends further inside a
    page, the bound gives the pages of the range, and those are the lengths of
    `flash_drv`.  No run of its own: the callers among the sources pass whole
    sectors.

## 6. Not modelled

* The byte lanes of the 8- and 16-bit PCI accessors inside the walk (see
  3.1): the walk reads and writes fields, the lanes are checked on one word.
* The return value of `pci_enum_bus` / `pci_enum_do`.
* A PCI hierarchy that is already programmed when the walk starts.
* Successful I/O allocations above 64 KiB (the window registers hold 16
  address bits).
* Flash: the branch of `hal_flash_write` for an alignment of 16 (finding 13);
  a header of `config/` for a device of alignment 2 or 1 (there is none: 3.4);
  stores that are not word-aligned (they fault in the processor, not in
  the controller); write protection (`WRPERR`) and option bytes; the erasure of
  the L4 (left to the HAL file, which is not among the sources); power loss
  during an operation (the driver keeps no state across a reset; what a torn
  write means is a matter of the update logic, which is not among the
  sources).
* G0 HAL: the values of the prescalers and of the GPIO alternate functions;
  the characters `uart_write` sends (only their number).
* RISC-V: the trap handler (an empty loop), `main` of either program, and the
  instructions between the steps of `_reset` that touch no state of the model.
* i.MX RT: the device configuration data and the boot data (constant tables
  the ROM reads before the code runs), the pin and UART set-up, and the ROM
  itself, which is an assumption (3.8).
* `unit-image.c`: the test cases and the mocks of `wc_ecc_*`.  They call, and
  are called by, `image.c`, which the file includes and the sources do not
  hold.
* `unit-spi-flash.c`: the test cases, which call `spi_flash.c`; the driver is
  any sequence of bus calls instead.
* `unit-disk.c`, `unit-string.c`: cases for `gpt.c`, `disk.c` and `string.c`,
  none of which is among the sources, and `spec.md` does not describe them.
  `unit-disk.c` holds a disk in memory with a bounds check (`disk_read`,
  `disk_write`) and the builders of a GPT and an MBR image; they are the
  input of functions whose bodies are not there.  A model of the disk alone
  would check two comparisons against the size of an array, and is left for
  later.
* `hal/renesas-rx.h`, `hal/spi/spi_drv_nxp.h`: declarations.  rp2350
  `runtime.c`: one store before `main`, with nothing in the sources that
  depends on it.
