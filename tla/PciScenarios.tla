---------------------------- MODULE PciScenarios ----------------------------
(***************************************************************************)
(* The topologies and resource pools the test cases of                     *)
(* tools/unit-tests/unit-pci.c build with test_pci_add_dev,                *)
(* test_pci_add_bridge, test_pci_dev_set_bar and test_pci_commit, and the  *)
(* registers they fill in by hand before the walk.  Addresses are the      *)
(* test's without their low hexadecimal digit, scaled to AddrBits bits;    *)
(* sizes and alignments are the test's.                                    *)
(***************************************************************************)
EXTENDS PciMock, TLC

ROOT == TEST_PCI_ROOT_BUS

\* An address given in 28 bits, in the AddrBits-bit model.
Scaled(addr28) == addr28 \div 2^(28 - AddrBits)

\* memcpy(&t.nodes[n].cfg[off], &value, ...) after test_pci_commit.
Prefill(t, node_idx, off, value) == [t EXCEPT ![node_idx].cfg[off] = value]

\* t.nodes[n].cfg[PCI_HEADER_TYPE_OFFSET] |= PCI_HEADER_TYPE_MULTIFUNC_MASK
MarkMultifunction(t, node_idx) ==
    [t EXCEPT ![node_idx].cfg[PCI_HEADER_TYPE_OFFSET] =
                  @ + PCI_HEADER_TYPE_MULTIFUNC_MASK]

\* struct pci_enum_info as the tests seed it.
DefaultPools ==
    [mem |-> Scaled(\h8000000), mem_limit |-> Scaled(\h8800000),
     mem_pf |-> Scaled(\h9000000), mem_pf_limit |-> ALL_ONES,
     io |-> \h2000, curr_bus_number |-> 0]

\* test_program_bridge_oom_initial: a cursor whose rounding wraps.
OomInitialPools ==
    [mem_pf |-> [DefaultPools EXCEPT !.mem_pf = ALL_ONES - \hFFFFE],
     mem    |-> [DefaultPools EXCEPT !.mem = ALL_ONES - \hFFFFE,
                                     !.mem_limit = ALL_ONES],
     io     |-> [DefaultPools EXCEPT !.io = ALL_ONES - \hFFE]]

\* test_program_bridge_oom_post_enum: room for the BAR, none for the window.
OomPostEnumPools ==
    [mem_pf |-> [DefaultPools EXCEPT
                    !.mem_pf_limit = DefaultPools.mem_pf + \h100000],
     mem    |-> [DefaultPools EXCEPT !.mem_limit = DefaultPools.mem + \h100000],
     io     |-> [DefaultPools EXCEPT !.io = ALL_ONES - \hFFF]]

\* test_program_bar_no_space: an unaligned cursor close to its limit.
NoSpacePools ==
    [DefaultPools EXCEPT !.mem = DefaultPools.mem + \h80000,
                          !.mem_limit = DefaultPools.mem + \h100000]

\* One endpoint at 0:0.0 with BAR0 of the given size and type.
Endpoint(size, type) ==
    test_pci_dev_set_bar(test_pci_add_dev(test_pci_init, 0, 0, \h1234, ROOT),
                         1, 0, size, type)

\* test_pci_program_bar_64bit: a 64-bit prefetchable BAR of 1 MiB.
Endpoint64 ==
    test_pci_commit(Endpoint(\h100000, TEST_PCI_BAR_64BIT \cup TEST_PCI_BAR_PF))

\* test_program_bar_64bit_upper_reject: the same BAR, its upper half
\* answering the probe with 0x0000000F, both registers pre-filled.
Endpoint64Rejected ==
    LET b == Endpoint(\h100000, TEST_PCI_BAR_64BIT \cup TEST_PCI_BAR_PF)
        c == test_pci_commit([b EXCEPT ![1].bars[0].upper_mask = \hF])
    IN  Prefill(Prefill(c, 1, PCI_BAR0_OFFSET, Scaled(\hAABB000)),
                1, PCI_BAR0_OFFSET + 4, Scaled(\hCCDD000))

\* test_pci_program_bar_restore: no BAR at all, BAR0 pre-filled.
EndpointNoBar ==
    Prefill(test_pci_commit(test_pci_add_dev(test_pci_init, 0, 0, \h1234, ROOT)),
            1, PCI_BAR0_OFFSET, Scaled(\hDEAD000))

\* test_program_bar_no_space: a 1 MiB memory BAR, BAR0 pre-filled.
EndpointMiB ==
    Prefill(test_pci_commit(Endpoint(\h100000, TEST_PCI_BAR_MMIO)),
            1, PCI_BAR0_OFFSET, Scaled(\hBEEF000))

\* test_program_bar_types, first two cases.
EndpointMmio == test_pci_commit(Endpoint(\h10000, TEST_PCI_BAR_MMIO))
EndpointIo   == test_pci_commit(Endpoint(256, TEST_PCI_BAR_IO))

\* test_program_bars_iteration: MMIO, a hole, a 64-bit pair, IO, a hole.
EndpointMixed ==
    LET a == test_pci_add_dev(test_pci_init, 0, 0, \h1234, ROOT)
        b == test_pci_dev_set_bar(a, 1, 0, \h10000, TEST_PCI_BAR_MMIO)
        c == test_pci_dev_set_bar(b, 1, 2, \h100000,
                                  TEST_PCI_BAR_64BIT \cup TEST_PCI_BAR_PF)
        d == test_pci_dev_set_bar(c, 1, 4, 256, TEST_PCI_BAR_IO)
    IN  Prefill(test_pci_commit(d), 1, PCI_COMMAND_OFFSET, \h0007)

\* test_program_bar_types, third case: an IO BAR that decodes 16 bits.
EndpointIo16 ==
    test_pci_commit([Endpoint(256, TEST_PCI_BAR_IO)
                        EXCEPT ![1].bars[0].io_hi16_zero = TRUE])

\* test_program_bridge and the two oom tests: a bridge at 0:1.0 with the
\* command register cmd_before, and behind it nothing or one endpoint.
BridgeCase(bars, cmd_before) ==
    LET br == test_pci_add_bridge(test_pci_init, 1, 0, \hAAAA, ROOT)
        ep == test_pci_add_dev(br, 0, 0, \hCCCC, 1)
        RECURSIVE SetBars(_, _)
        SetBars(top, k) ==
            IF k = 0 THEN top
            ELSE test_pci_dev_set_bar(SetBars(top, k - 1), 2, bars[k].idx,
                                      bars[k].size, bars[k].type)
    IN  Prefill(test_pci_commit(IF bars = << >> THEN br
                                ELSE SetBars(ep, Len(bars))),
                1, PCI_COMMAND_OFFSET, cmd_before)

BridgeCases ==
    [none |-> << >>,
     mmio |-> <<[idx |-> 0, size |-> \h10000, type |-> TEST_PCI_BAR_MMIO]>>,
     pf64 |-> <<[idx |-> 0, size |-> \h100000,
                 type |-> TEST_PCI_BAR_64BIT \cup TEST_PCI_BAR_PF]>>,
     io   |-> <<[idx |-> 0, size |-> 256, type |-> TEST_PCI_BAR_IO]>>,
     all  |-> <<[idx |-> 0, size |-> \h10000, type |-> TEST_PCI_BAR_MMIO],
                [idx |-> 1, size |-> \h10000, type |-> TEST_PCI_BAR_PF],
                [idx |-> 2, size |-> 256, type |-> TEST_PCI_BAR_IO]>>]

\* test_enum_bus_topology: an endpoint, and a two-function device.
TwoFunctionDevice ==
    LET d0  == test_pci_add_dev(test_pci_init, 0, 0, \h1111, ROOT)
        b0  == test_pci_dev_set_bar(d0, 1, 0, \h10000, TEST_PCI_BAR_MMIO)
        mf0 == test_pci_add_dev(b0, 1, 0, \h3333, ROOT)
        b1  == test_pci_dev_set_bar(mf0, 2, 0, 256, TEST_PCI_BAR_IO)
        mf1 == test_pci_add_dev(b1, 1, 1, \h3333, ROOT)
        b2  == test_pci_dev_set_bar(mf1, 3, 0, 256, TEST_PCI_BAR_IO)
    IN  MarkMultifunction(test_pci_commit(b2), 2)

\* test_enum_do_nested_bridges: bridge A, behind it bridge B, behind it an
\* endpoint.
NestedBridges ==
    LET brA == test_pci_add_bridge(test_pci_init, 1, 0, \h1111, ROOT)
        brB == test_pci_add_bridge(brA, 0, 0, \h3333, 1)
        ep  == test_pci_add_dev(brB, 0, 0, \h5555, 2)
    IN  test_pci_commit(test_pci_dev_set_bar(ep, 3, 0, \h10000,
                                             TEST_PCI_BAR_MMIO))

-----------------------------------------------------------------------------
(* What the test cases assert once the call under test has returned *)

\* ck_assert on a register read through the accessor: the register off of
\* node, width bits wide, equal ("eq") or not equal ("ne") to val.  The bus
\* is the one the test reads the node at.
Expect(node, off, width, rel, val) ==
    [node |-> node, off |-> off, width |-> width, rel |-> rel, val |-> val]

Reads(node, off, width, val) == Expect(node, off, width, "eq", val)

\* ck_assert on what a call for BAR bar of node (-1: the bridge itself)
\* returned.
Call(node, bar, rets, widths) ==
    [node |-> node, bar |-> bar, ret |-> rets, is_64bit |-> widths]

\* top and info are the set-up; calls, regs and after (the cursors) the
\* assertions; numbered the bridges whose bus numbers are asserted.
Case(top, info, calls, regs, after, numbered) ==
    [top |-> top, info |-> info, calls |-> calls, regs |-> regs,
     after |-> after, numbered |-> numbered]

MEM == DefaultPools.mem
PF  == DefaultPools.mem_pf
IO  == DefaultPools.io

BAR(k) == PCI_BAR0_OFFSET + 4 * k

\* The value of a 16-bit memory window register for address a.
Mem16(a) == a \div 2^16
Closed16 == {Reads(1, PCI_MMIO_BASE_OFF, 16, \hFFFF),
             Reads(1, PCI_MMIO_LIMIT_OFF, 16, 0)}
ClosedPf == {Reads(1, PCI_PREFETCH_BASE_OFF, 16, \hFFFF),
             Reads(1, PCI_PREFETCH_LIMIT_OFF, 16, 0)}
ClosedIo == {Reads(1, PCI_IO_BASE_OFF, 8, \hFF),
             Reads(1, PCI_IO_LIMIT_OFF, 8, 0)}
OpenMem  == {Reads(1, PCI_MMIO_BASE_OFF, 16, Mem16(MEM)),
             Reads(1, PCI_MMIO_LIMIT_OFF, 16, Mem16(MEM + 2^20 - 1))}
OpenPf   == {Reads(1, PCI_PREFETCH_BASE_OFF, 16, Mem16(PF)),
             Reads(1, PCI_PREFETCH_LIMIT_OFF, 16, Mem16(PF + 2^20 - 1))}
OpenIo   == {Reads(1, PCI_IO_BASE_OFF, 8, \h20),
             Reads(1, PCI_IO_LIMIT_OFF, 8, \h2F)}

\* test_program_bridge_oom_initial and _oom_post_enum: the call fails, the
\* command register and all of info are as before, the bus registers clear.
RolledBack(bars, cmd_before, info) ==
    Case(BridgeCase(bars, cmd_before), info,
         {Call(1, -1, {-1}, BOOLEAN)},
         {Reads(1, PCI_COMMAND_OFFSET, 16, cmd_before),
          Reads(1, PCI_SECONDARY_BUS, 8, 0), Reads(1, PCI_SUB_SEC_BUS, 8, 0)},
         [curr_bus_number |-> info.curr_bus_number, mem |-> info.mem,
          mem_pf |-> info.mem_pf, io |-> info.io], {})

\* test_program_bridge: a committed bridge with the given windows and
\* command register, and the BARs behind it where the test expects them.
Bridged(name, bars, windows, cmd) ==
    Case(BridgeCase(BridgeCases[name], 0), DefaultPools, {},
         bars \cup windows \cup {Reads(1, PCI_COMMAND_OFFSET, 16, cmd)},
         << >>, {1})

test_pci_program_bar_64bit ==
    [bar_64bit |->
        Case(Endpoint64, DefaultPools, {Call(1, 0, {0}, {TRUE})}, {},
             [mem_pf |-> PF + \h100000], {})]

test_pci_program_bar_restore ==
    [bar_restore |->
        Case(EndpointNoBar, DefaultPools, {Call(1, 0, {0}, BOOLEAN)},
             {Reads(1, BAR(0), AddrBits, Scaled(\hDEAD000)),
              Expect(1, PCI_VENDOR_ID_OFFSET, AddrBits, "ne", Scaled(\hDEAD000))},
             << >>, {})]

test_program_bar_types ==
    [bar_mmio |->
        Case(EndpointMmio, DefaultPools, {}, {Reads(1, BAR(0), AddrBits, MEM)},
             [mem |-> MEM + \h10000, mem_pf |-> PF, io |-> IO], {}),
     bar_io |->
        Case(EndpointIo, DefaultPools, {}, {Reads(1, BAR(0), AddrBits, IO)},
             [mem |-> MEM, mem_pf |-> PF, io |-> IO + 256], {}),
     bar_io16 |->
        Case(EndpointIo16, DefaultPools, {}, {Reads(1, BAR(0), AddrBits, IO)},
             [mem |-> MEM, mem_pf |-> PF, io |-> IO + 256], {})]

test_program_bar_64bit_upper_reject ==
    [upper_reject |->
        Case(Endpoint64Rejected, DefaultPools, {Call(1, 0, {0}, {TRUE})},
             {Reads(1, BAR(0), AddrBits, Scaled(\hAABB000)),
              Reads(1, BAR(1), AddrBits, Scaled(\hCCDD000))},
             [mem_pf |-> PF], {})]

test_program_bar_no_space ==
    [no_space |->
        Case(EndpointMiB, NoSpacePools, {Call(1, 0, {-1}, BOOLEAN)},
             {Reads(1, BAR(0), AddrBits, Scaled(\hBEEF000))},
             [mem |-> NoSpacePools.mem], {})]

test_program_bars_iteration ==
    [bars_iteration |->
        Case(EndpointMixed, DefaultPools, {},
             {Reads(1, BAR(0), AddrBits, MEM), Reads(1, BAR(2), AddrBits, PF),
              Reads(1, BAR(3), AddrBits, 0), Reads(1, BAR(4), AddrBits, IO),
              Reads(1, PCI_COMMAND_OFFSET, 16, \h0007)},
             [mem |-> MEM + \h10000, mem_pf |-> PF + \h100000,
              io |-> IO + 256], {})]

test_program_bridge ==
    [bridge_none |->
        Bridged("none", {}, Closed16 \cup ClosedPf \cup ClosedIo, \h0004),
     bridge_mmio |->
        Bridged("mmio", {Reads(2, BAR(0), AddrBits, MEM)},
                OpenMem \cup ClosedPf \cup ClosedIo, \h0006),
     bridge_pf64 |->
        Bridged("pf64", {Reads(2, BAR(0), AddrBits, PF)},
                Closed16 \cup OpenPf \cup ClosedIo, \h0006),
     bridge_io |->
        Bridged("io", {Reads(2, BAR(0), AddrBits, IO)},
                Closed16 \cup ClosedPf \cup OpenIo, \h0005),
     bridge_all |->
        Bridged("all", {Reads(2, BAR(0), AddrBits, MEM),
                        Reads(2, BAR(1), AddrBits, PF),
                        Reads(2, BAR(2), AddrBits, IO)},
                OpenMem \cup OpenPf \cup OpenIo, \h0007)]

test_program_bridge_oom_initial ==
    [oom_initial_pf  |-> RolledBack(<< >>, \h0007, OomInitialPools.mem_pf),
     oom_initial_mem |-> RolledBack(<< >>, \h0003, OomInitialPools.mem),
     oom_initial_io  |-> RolledBack(<< >>, \h0005, OomInitialPools.io)]

test_program_bridge_oom_post_enum ==
    [oom_post_pf |->
        RolledBack(<<[idx |-> 0, size |-> \h10000, type |-> TEST_PCI_BAR_PF]>>,
                   \h0007, OomPostEnumPools.mem_pf),
     oom_post_mem |->
        RolledBack(BridgeCases.mmio, \h0007, OomPostEnumPools.mem),
     oom_post_io |->
        RolledBack(BridgeCases.io, \h0007, OomPostEnumPools.io)]

test_enum_bus_topology ==
    [enum_bus_topology |->
        Case(TwoFunctionDevice, DefaultPools, {},
             {Reads(1, BAR(0), AddrBits, MEM), Reads(2, BAR(0), AddrBits, IO),
              Reads(3, BAR(0), AddrBits, \h3000)}, << >>, {})]

test_enum_do_full ==
    [enum_do_full |->
        Case(BridgeCase(BridgeCases.mmio, 0), DefaultPools, {},
             {Expect(2, BAR(0), AddrBits, "ne", 0),
              Expect(2, BAR(0), AddrBits, "ne", ALL_ONES)}, << >>, {1})]

test_enum_do_nested_bridges ==
    [enum_do_nested |->
        Case(NestedBridges, DefaultPools, {},
             {Expect(3, BAR(0), AddrBits, "ne", 0),
              Expect(3, BAR(0), AddrBits, "ne", ALL_ONES)}, << >>, {1, 2})]

\* Every test case of the engine, by name.
UnitTests ==
    test_pci_program_bar_64bit @@ test_pci_program_bar_restore
        @@ test_program_bar_types @@ test_program_bar_64bit_upper_reject
        @@ test_program_bar_no_space @@ test_program_bars_iteration
        @@ test_program_bridge @@ test_program_bridge_oom_initial
        @@ test_program_bridge_oom_post_enum @@ test_enum_bus_topology
        @@ test_enum_do_full @@ test_enum_do_nested_bridges

\* test_enum_next_aligned_overflow and test_pci_align_check_up_overflow:
\* address, alignment, limit and the aligned address, or -1 for a failure.
TOP == ALL_ONES
AlignCases ==
    {<<MEM, \h1000, TOP, MEM>>,
     <<MEM + 1, \h1000, TOP, MEM + \h1000>>,
     <<MEM, \h1000, MEM + \h1000, MEM>>,
     <<MEM, \h1000, MEM, -1>>,
     <<MEM + 1, \h100000, MEM + \h100000, -1>>,
     <<TOP - \hFFE, \h1000, TOP, -1>>,
     <<TOP - \hFFFFFE, \h1000000, TOP, -1>>,
     <<TOP, \h1000, TOP, -1>>,
     <<0, \h1000, TOP, 0>>,
     <<\h100001, \h100000, TOP, \h200000>>,
     <<TOP - \hFFF, \h1000, TOP, TOP - \hFFF>>,
     <<MEM, \h100000, PF, MEM>>,
     <<MEM + 1, \h100000, PF, MEM + \h100000>>,
     <<MEM, \h100000, MEM, -1>>,
     <<TOP - \hFFFFE, \h100000, TOP, -1>>,
     <<MEM, \h100000, MEM + 1, MEM>>}
=============================================================================
