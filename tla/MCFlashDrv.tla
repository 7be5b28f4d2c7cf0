----------------------------- MODULE MCFlashDrv -----------------------------
(***************************************************************************)
(* FlashDrvStm32 for TLC: a device of two banks of four pages of 16 bytes, *)
(* the first page of the first bank holding a program, written to in both  *)
(* banks, so that the busy flag of either bank is raised, and erased in    *)
(* the first.                                                              *)
(***************************************************************************)
EXTENDS FlashDrvStm32

B == FLASHMEM_ADDRESS_SPACE

MCProgrammed == B..(B + FLASH_PAGE_SIZE - 1)

\* Where the writes go: the page of the program, once it has been erased, and
\* the third page of either bank.
Places == {B, B + 32, B + BANK_SIZE + 32}

\* Writes of up to 20 bytes that start on a double word or stay inside one,
\* from a buffer at an even or an odd address.
MCWriteCalls ==
    {c \in [address : UNION {s..(s + 8) : s \in Places},
            len : {1, 5, 8, 9, 16, 20}, align : {0, 1}] :
        c.address % 8 = 0 \/ (c.address % 8) + c.len <= 8}

\* Erasures in the first bank, from the start of a page: of one page, of a
\* page and a half, of two pages, and the call with no length.
MCEraseCalls ==
    [address : {B, B + 32}, len : {0, 16, 24, 32}]

\* The program is either copy of the driver, built for any of the devices.
Built == INSTANCE StmFlash WITH Drivers <- IncludeStyle \cup Targets

BuiltSpec == Built!Spec

\* The properties of StmFlash, for the driver as built here: the state is
\* well-formed and the loop of hal_flash_erase stays within a page of its
\* range.
DriverTypeOK == Built!DriverTypeOK

\* Between two calls of the driver PG and PER are clear and the controller
\* is idle.
AtRestBetweenCalls == Built!AtRestBetweenCalls

\* The driver stores to the array and starts an erasure only while the
\* controller is not busy.
NeverCommandedWhileBusy == Built!NeverCommandedWhileBusy
=============================================================================
