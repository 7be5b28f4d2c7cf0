----------------------------- MODULE MCSpiMock -----------------------------
(***************************************************************************)
(* A small instance of SpiMock: bytes of 3 bits, a flash of 4 bytes, and   *)
(* command codes that fit into 3 bits.  The address bytes 0 and 1 give the *)
(* addresses 0, 1 (inside the flash), 8, 9, 64, ... (outside it).          *)
(***************************************************************************)
EXTENDS SpiMock

WREN == 6

MCCommands ==
    {BYTE_WRITE, BYTE_READ, SECTOR_ERASE, CHIP_ERASE, MDID, RDSR, WREN}

\* test_read_basic, scaled: two bytes from address 1 on.
MCFills == {[address |-> 1, count |-> 2, first |-> 5]}
=============================================================================
