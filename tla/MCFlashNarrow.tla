---------------------------- MODULE MCFlashNarrow ----------------------------
(***************************************************************************)
(* StmFlash for TLC, built for a device that programs half words and for   *)
(* one that programs bytes: one bank of four pages of 16 bytes, the first  *)
(* page holding a program.  The boot loader unlocks before it writes.      *)
(***************************************************************************)
EXTENDS StmFlash

B == FLASHMEM_ADDRESS_SPACE

MCDrivers == Narrow

MCProgrammed == B..(B + FLASH_PAGE_SIZE - 1)

\* Writes of one to six bytes that start on a half word or in the middle
\* of one, and so end on one or in the middle of one.
MCWriteCalls == [address : (B + 32)..(B + 37), len : 1..6, align : {0}]

MCEraseCalls == {}

\* What such a build compiles of the driver: of the branches of
\* hal_flash_write the preprocessor keeps the one of its alignment, and
\* hal_flash_erase is left to the HAL file.
NarrowStep ==
    \/ WriteBegin \/ WriteHalfWords \/ WriteBytes \/ NarrowEnd
    \/ hal_flash_unlock \/ hal_flash_lock

NarrowNext ==
    \/ CallUnlock \/ CallLock \/ CallWrite
    \/ NarrowStep
    \/ Controller
    \/ Booted

\* As in StmFlash: the processor executes the call it is in, and the
\* controller ends every operation it has begun.
NarrowSpec ==
    Init /\ [][NarrowNext]_vars /\ WF_vars(NarrowStep) /\ WF_vars(Controller)
=============================================================================
