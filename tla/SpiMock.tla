------------------------------ MODULE SpiMock ------------------------------
(***************************************************************************)
(* The SPI flash the unit test of the SPI flash driver talks to,           *)
(* tools/unit-tests/unit-spi-flash.c: a chip select, a command byte, three *)
(* address bytes and data, decoded by spi_write and spi_read into a flash  *)
(* of MOCK_FLASH_SIZE bytes and a set of counters the test cases look at.  *)
(*                                                                         *)
(* The driver is any sequence of calls: after the chip select it sends a   *)
(* command of Commands, address bytes of AddressBytes and data of          *)
(* DataBytes.  A ck_assert that fails ends the test case; the next one     *)
(* starts with reset_spi_mock.                                             *)
(*                                                                         *)
(* transfer is a history variable: the address bytes and the number of     *)
(* data bytes that went over the wire since the chip select.               *)
(***************************************************************************)
EXTENDS Integers, Sequences, FiniteSets

CONSTANTS
    ByteBits,           \* bits of a byte on the wire
    MOCK_FLASH_SIZE,
    BYTE_WRITE, BYTE_READ, SECTOR_ERASE, CHIP_ERASE, MDID, RDSR,
    ST_WEL,
    Commands,           \* the command bytes the driver sends
    AddressBytes,       \* the address bytes it sends
    DataBytes,          \* the data bytes it sends
    Lengths,            \* the lengths a test case expects to be written
    Fills,              \* what a test case stores: [address, count, first]
    MaxCount,           \* bound: erasures and releases counted
    MaxReads            \* bound: reads of a register counted

VARIABLES
    cs_asserted, phase, current_cmd, addr_bytes, current_addr, addr_accum,
    data_writes, expected_data_writes, chip_erase_count, sector_erase_count,
    last_sector_erase_addr, rdsr_reads, manuf_id, product_id, read_armed,
    spi_release_called, mock_flash,
    miso,        \* what spi_read returned last
    failed,      \* a ck_assert of the mock has ended the test case
    transfer     \* history: [addr, data] of this chip select

decoder  == <<phase, current_cmd, addr_bytes, current_addr, addr_accum,
              rdsr_reads, read_armed>>
counters == <<data_writes, chip_erase_count, sector_erase_count,
              last_sector_erase_addr, spi_release_called>>
ids      == <<manuf_id, product_id>>
vars     == <<cs_asserted, decoder, counters, ids, expected_data_writes,
              mock_flash, miso, failed, transfer>>

Byte   == 2 ^ ByteBits
ERASED == Byte - 1
Cells  == 0..(MOCK_FLASH_SIZE - 1)

\* The identifiers reset_spi_mock sets, and those of
\* test_write_singlebyte_mode.
Winbond == [manuf_id |-> 239, product_id |-> 0]
Sst     == [manuf_id |-> 191, product_id |-> 1]

Idle == [addr |-> <<>>, data |-> 0]

-----------------------------------------------------------------------------
(* The test cases *)

reset_spi_mock(expected_len) ==
    /\ cs_asserted' = FALSE
    /\ phase' = "IDLE"
    /\ current_cmd' = 0
    /\ addr_bytes' = 0
    /\ current_addr' = 0
    /\ addr_accum' = 0
    /\ data_writes' = 0
    /\ expected_data_writes' = expected_len
    /\ chip_erase_count' = 0
    /\ sector_erase_count' = 0
    /\ last_sector_erase_addr' = 0
    /\ rdsr_reads' = 0
    /\ manuf_id' = Winbond.manuf_id
    /\ product_id' = Winbond.product_id
    /\ read_armed' = FALSE
    /\ spi_release_called' = 0
    /\ mock_flash' = [a \in Cells |-> ERASED]
    /\ miso' = 0
    /\ failed' = FALSE
    /\ transfer' = Idle

\* A test case is in its set-up: reset, and no call of the driver yet.
SetUp == ~failed /\ ~cs_asserted /\ phase = "IDLE" /\ transfer = Idle

\* test_write_singlebyte_mode names another device.
SetIds ==
    /\ SetUp
    /\ <<manuf_id, product_id>> = <<Winbond.manuf_id, Winbond.product_id>>
    /\ manuf_id' = Sst.manuf_id
    /\ product_id' = Sst.product_id
    /\ UNCHANGED <<cs_asserted, decoder, counters, expected_data_writes,
                   mock_flash, miso, failed, transfer>>

\* test_read_basic stores a rising pattern from an address on.
Fill(address, count, first) ==
    /\ SetUp
    /\ address + count <= MOCK_FLASH_SIZE
    /\ mock_flash' = [a \in Cells |->
                        IF a \in address..(address + count - 1)
                           THEN (first + (a - address)) % Byte
                           ELSE mock_flash[a]]
    /\ mock_flash' # mock_flash
    /\ UNCHANGED <<cs_asserted, decoder, counters, ids, expected_data_writes,
                   miso, failed, transfer>>

\* ck_assert_msg with a condition that does not hold.
Fail ==
    /\ failed' = TRUE
    /\ UNCHANGED <<cs_asserted, decoder, counters, ids, expected_data_writes,
                   mock_flash, miso, transfer>>

-----------------------------------------------------------------------------
(* The bus *)

spi_init ==
    /\ ~failed
    /\ UNCHANGED vars

spi_release ==
    /\ ~failed
    /\ spi_release_called < MaxCount
    /\ spi_release_called' = spi_release_called + 1
    /\ UNCHANGED <<cs_asserted, decoder, ids, expected_data_writes, mock_flash,
                   miso, failed, transfer, data_writes, chip_erase_count,
                   sector_erase_count, last_sector_erase_addr>>

spi_cs_on ==
    /\ ~failed
    /\ cs_asserted' = TRUE
    /\ phase' = "CMD"
    /\ current_cmd' = 0
    /\ addr_bytes' = 0
    /\ addr_accum' = 0
    /\ current_addr' = 0
    /\ rdsr_reads' = 0
    /\ read_armed' = FALSE
    /\ transfer' = Idle
    /\ UNCHANGED <<counters, ids, expected_data_writes, mock_flash, miso, failed>>

spi_cs_off ==
    /\ ~failed
    /\ cs_asserted' = FALSE
    /\ phase' = "IDLE"
    /\ current_cmd' = 0
    /\ addr_bytes' = 0
    /\ UNCHANGED <<current_addr, addr_accum, rdsr_reads, read_armed, counters,
                   ids, expected_data_writes, mock_flash, miso, failed, transfer>>

-----------------------------------------------------------------------------
(* spi_write *)

Addressed == {BYTE_WRITE, BYTE_READ, SECTOR_ERASE}

WithoutSelect == ~cs_asserted /\ Fail

\* The command byte: one that takes an address, or any other.
Command(byte) ==
    /\ cs_asserted /\ phase = "CMD"
    /\ current_cmd' = byte
    /\ IF byte \in Addressed
          THEN /\ phase' = "ADDR"
               /\ addr_bytes' = 0
               /\ addr_accum' = 0
               /\ UNCHANGED chip_erase_count
          ELSE /\ phase' = "OTHER"
               /\ byte = CHIP_ERASE => chip_erase_count < MaxCount
               /\ chip_erase_count' =
                      chip_erase_count + (IF byte = CHIP_ERASE THEN 1 ELSE 0)
               /\ UNCHANGED <<addr_bytes, addr_accum>>
    /\ UNCHANGED <<cs_asserted, current_addr, rdsr_reads, read_armed,
                   data_writes, sector_erase_count, last_sector_erase_addr,
                   spi_release_called, ids, expected_data_writes, mock_flash,
                   miso, failed, transfer>>

Shifted_LowFirst(accum, byte) == accum + byte * (Byte ^ addr_bytes)

\* (addr_accum << 8) | byte, in a uint32_t of four bytes
Shifted(accum, byte) == (accum * Byte + byte) % (Byte ^ 4)

AddressComplete_Early(n) == n >= 2

AddressComplete(n) == n >= 3

\* An address byte; the third one ends the address, and a sector erase.
Address(byte) ==
    /\ cs_asserted /\ phase = "ADDR"
    /\ addr_accum' = Shifted(addr_accum, byte)
    /\ addr_bytes' = addr_bytes + 1
    /\ transfer' = [transfer EXCEPT !.addr = Append(@, byte)]
    /\ IF ~AddressComplete(addr_bytes')
          THEN UNCHANGED <<phase, current_addr, sector_erase_count,
                           last_sector_erase_addr>>
          ELSE /\ current_addr' = addr_accum'
               /\ IF current_cmd = SECTOR_ERASE
                     THEN /\ sector_erase_count < MaxCount
                          /\ sector_erase_count' = sector_erase_count + 1
                          /\ last_sector_erase_addr' = current_addr'
                          /\ phase' = "OTHER"
                     ELSE /\ phase' = "DATA"
                          /\ UNCHANGED <<sector_erase_count,
                                         last_sector_erase_addr>>
    /\ UNCHANGED <<cs_asserted, current_cmd, rdsr_reads, read_armed,
                   data_writes, chip_erase_count, spi_release_called, ids,
                   expected_data_writes, mock_flash, miso, failed>>

WithinExpected_Unchecked == TRUE

WithinExpected == data_writes < expected_data_writes

\* A data byte of a write: into the flash, or the end of the test case.
DataWrite(byte) ==
    /\ cs_asserted /\ phase = "DATA" /\ current_cmd = BYTE_WRITE
    /\ IF WithinExpected /\ current_addr < MOCK_FLASH_SIZE
          THEN /\ mock_flash' = [mock_flash EXCEPT ![current_addr] = byte]
               /\ current_addr' = current_addr + 1
               /\ data_writes' = data_writes + 1
               /\ transfer' = [transfer EXCEPT !.data = @ + 1]
               /\ UNCHANGED <<cs_asserted, phase, current_cmd, addr_bytes,
                              addr_accum, rdsr_reads, read_armed,
                              chip_erase_count, sector_erase_count,
                              last_sector_erase_addr, spi_release_called, ids,
                              expected_data_writes, miso, failed>>
          ELSE Fail

\* A byte sent to clock a byte of a read out.
DataArm ==
    /\ cs_asserted /\ phase = "DATA" /\ current_cmd = BYTE_READ
    /\ read_armed' = TRUE
    /\ UNCHANGED <<cs_asserted, phase, current_cmd, addr_bytes, current_addr,
                   addr_accum, rdsr_reads, counters, ids, expected_data_writes,
                   mock_flash, miso, failed, transfer>>

\* Whatever follows a command without address or a sector erase.
Ignored ==
    /\ cs_asserted /\ phase = "OTHER"
    /\ UNCHANGED vars

spi_write ==
    /\ ~failed
    /\ \/ WithoutSelect
       \/ \E byte \in Commands : Command(byte)
       \/ \E byte \in AddressBytes : Address(byte)
       \/ \E byte \in DataBytes : DataWrite(byte)
       \/ DataArm
       \/ Ignored

-----------------------------------------------------------------------------
(* spi_read *)

Returns(value) ==
    /\ miso' = value
    /\ UNCHANGED <<cs_asserted, phase, current_cmd, addr_bytes, addr_accum,
                   counters, ids, expected_data_writes, mock_flash, failed>>

Quiet == UNCHANGED <<current_addr, rdsr_reads, read_armed, transfer>>

\* A register of the device: the identifiers after a first byte of 0, or
\* the status, which says write enabled and never busy.
Register ==
    /\ phase = "OTHER" /\ current_cmd \in {MDID, RDSR}
    /\ rdsr_reads < MaxReads
    /\ rdsr_reads' = rdsr_reads + 1
    /\ Returns(CASE rdsr_reads' = 1 -> 0
                 [] current_cmd = RDSR -> ST_WEL
                 [] rdsr_reads' = 2 -> manuf_id
                 [] OTHER -> product_id)
    /\ UNCHANGED <<current_addr, read_armed, transfer>>

Reading == phase = "DATA" /\ current_cmd = BYTE_READ /\ read_armed

\* A byte of the flash, once for every byte sent.
DataRead ==
    /\ Reading
    /\ read_armed' = FALSE
    /\ IF current_addr < MOCK_FLASH_SIZE
          THEN /\ Returns(mock_flash[current_addr])
               /\ current_addr' = current_addr + 1
               /\ transfer' = [transfer EXCEPT !.data = @ + 1]
               /\ UNCHANGED rdsr_reads
          ELSE /\ failed' = TRUE
               /\ UNCHANGED <<cs_asserted, phase, current_cmd, addr_bytes,
                              current_addr, addr_accum, rdsr_reads, counters,
                              ids, expected_data_writes, mock_flash, miso,
                              transfer>>

Nothing ==
    /\ \/ ~cs_asserted
       \/ /\ ~(phase = "OTHER" /\ current_cmd \in {MDID, RDSR})
          /\ ~Reading
    /\ Returns(0)
    /\ Quiet

spi_read ==
    /\ ~failed
    /\ \/ cs_asserted /\ Register
       \/ cs_asserted /\ DataRead
       \/ Nothing

-----------------------------------------------------------------------------
Init == \E expected_len \in Lengths :
    /\ cs_asserted = FALSE
    /\ phase = "IDLE"
    /\ current_cmd = 0
    /\ addr_bytes = 0
    /\ current_addr = 0
    /\ addr_accum = 0
    /\ data_writes = 0
    /\ expected_data_writes = expected_len
    /\ chip_erase_count = 0
    /\ sector_erase_count = 0
    /\ last_sector_erase_addr = 0
    /\ rdsr_reads = 0
    /\ manuf_id = Winbond.manuf_id
    /\ product_id = Winbond.product_id
    /\ read_armed = FALSE
    /\ spi_release_called = 0
    /\ mock_flash = [a \in Cells |-> ERASED]
    /\ miso = 0
    /\ failed = FALSE
    /\ transfer = Idle

Test ==
    \/ \E expected_len \in Lengths :
          reset_spi_mock(expected_len) /\ vars' # vars
    \/ SetIds
    \/ \E f \in Fills : Fill(f.address, f.count, f.first)

Bus == spi_init \/ spi_release \/ spi_cs_on \/ spi_cs_off

Next == Test \/ Bus \/ spi_write \/ spi_read

Spec == Init /\ [][Next]_vars

-----------------------------------------------------------------------------
(* Properties *)

\* The state is well-formed, and the mock never takes more data bytes than
\* the test case said it expects (the ck_assert of spi_write ends the test
\* case first).
MockTypeOK ==
    /\ cs_asserted \in BOOLEAN
    /\ phase \in {"IDLE", "CMD", "ADDR", "DATA", "OTHER"}
    /\ current_cmd \in Commands \cup {0}
    /\ addr_bytes \in 0..3
    /\ current_addr \in 0..(Byte ^ 3)
    /\ addr_accum \in 0..(Byte ^ 3 - 1)
    /\ expected_data_writes \in Lengths
    /\ data_writes \in 0..expected_data_writes
    /\ chip_erase_count \in 0..MaxCount
    /\ sector_erase_count \in 0..MaxCount
    /\ last_sector_erase_addr \in 0..(Byte ^ 3 - 1)
    /\ rdsr_reads \in 0..MaxReads
    /\ <<manuf_id, product_id>> \in
           {<<d.manuf_id, d.product_id>> : d \in {Winbond, Sst}}
    /\ read_armed \in BOOLEAN
    /\ spi_release_called \in 0..MaxCount
    /\ mock_flash \in [Cells -> 0..(Byte - 1)]
    /\ miso \in 0..255
    /\ failed \in BOOLEAN
    /\ transfer \in [addr : Seq(AddressBytes), data : 0..MOCK_FLASH_SIZE]

\* The address a driver means by the bytes it sent, most significant first.
BigEndian(bytes) ==
    LET n == Len(bytes)
        RECURSIVE Value(_)
        Value(k) == IF k = 0 THEN 0 ELSE Value(k - 1) * Byte + bytes[k]
    IN  Value(n)

\* The byte of the flash the next data byte of this chip select is for.
Target == BigEndian(transfer.addr) + transfer.data

\* While the chip is selected, the flash changes only by a data byte of a
\* BYTE_WRITE, and only at the address the driver sent plus the bytes that
\* followed it: spi_write puts the three address bytes together in the
\* right order and moves on by one with every byte.
WritesLandWhereAddressed ==
    [][(cs_asserted /\ cs_asserted' /\ mock_flash' # mock_flash) =>
          /\ current_cmd = BYTE_WRITE
          /\ Len(transfer.addr) = 3
          /\ Target \in Cells
          /\ \E byte \in DataBytes :
                mock_flash' = [mock_flash EXCEPT ![Target] = byte]]_vars

\* A byte spi_read takes from the flash is the one at the address the
\* driver sent, after all three bytes of it, plus the bytes read before.
ReadsComeFromAddressed ==
    [][(transfer'.data = transfer.data + 1 /\ data_writes' = data_writes) =>
          /\ current_cmd = BYTE_READ
          /\ Len(transfer.addr) = 3
          /\ Target \in Cells
          /\ miso' = mock_flash[Target]]_vars
=============================================================================
