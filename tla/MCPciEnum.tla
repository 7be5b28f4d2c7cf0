----------------------------- MODULE MCPciEnum -----------------------------
(***************************************************************************)
(* PciEnum for TLC: the walk started on every topology of the test cases   *)
(* of tools/unit-tests/unit-pci.c and on three larger ones, with every     *)
(* pool seeding the tests use.  Where the topology and the pools are those *)
(* of a test case, the assertions of the case are evaluated on the state   *)
(* the walk ends in: that ties the engine, which is modelled from spec.md, *)
(* to what the repository's own tests require of it.                       *)
(*                                                                         *)
(* A case that calls pci_program_bar or pci_program_bridge directly is run *)
(* as the walk of bus 0 that makes the same call first: nothing else on    *)
(* the bus changes a register or a cursor afterwards.                      *)
(***************************************************************************)
EXTENDS PciMockTests

VARIABLE case   \* the test case this walk is the one of, or NoCase

NoCase == "none"

\* Two sibling bridges, each with an endpoint behind it, followed by an
\* endpoint on the root bus: what the first bridge gives back when it is
\* rolled back is handed out again to the devices after it.
SiblingBridges ==
    LET brA == test_pci_add_bridge(test_pci_init, 0, 0, \h1111, ROOT)
        epA == test_pci_dev_set_bar(test_pci_add_dev(brA, 0, 0, \h2222, 1),
                                    2, 0, \h10000, TEST_PCI_BAR_MMIO)
        ioA == test_pci_dev_set_bar(epA, 2, 1, 256, TEST_PCI_BAR_IO)
        brB == test_pci_add_bridge(ioA, 1, 0, \h3333, ROOT)
        epB == test_pci_dev_set_bar(test_pci_add_dev(brB, 1, 0, \h4444, 3),
                                    4, 0, \h100000,
                                    TEST_PCI_BAR_64BIT \cup TEST_PCI_BAR_PF)
        mmB == test_pci_dev_set_bar(epB, 4, 2, \h1000, TEST_PCI_BAR_MMIO)
        ep  == test_pci_dev_set_bar(test_pci_add_dev(mmB, 2, 0, \h5555, ROOT),
                                    5, 0, \h20000, TEST_PCI_BAR_MMIO)
    IN  test_pci_commit(test_pci_dev_set_bar(ep, 5, 1, 16, TEST_PCI_BAR_IO))

\* A bridge with an endpoint and a second bridge behind it, that one with a
\* two-function endpoint; an endpoint on the root bus before the bridges.
DeepTree ==
    LET ep0 == test_pci_dev_set_bar(
                   test_pci_add_dev(test_pci_init, 0, 0, \h1111, ROOT),
                   1, 0, \h1000, TEST_PCI_BAR_MMIO)
        brA == test_pci_add_bridge(ep0, 1, 0, \h2222, ROOT)
        epA == test_pci_dev_set_bar(test_pci_add_dev(brA, 0, 0, \h3333, 2),
                                    3, 0, \h10000, TEST_PCI_BAR_PF)
        brB == test_pci_add_bridge(epA, 1, 0, \h4444, 2)
        f0  == test_pci_dev_set_bar(test_pci_add_dev(brB, 0, 0, \h5555, 4),
                                    5, 0, \h100000, TEST_PCI_BAR_MMIO)
        f1  == test_pci_dev_set_bar(test_pci_add_dev(f0, 0, 1, \h5555, 4),
                                    6, 4, 256, TEST_PCI_BAR_IO)
    IN  MarkMultifunction(test_pci_commit(f1), 5)

\* A function 1 behind a function 0 that does not announce it, a device in
\* a slot the scan does not reach, and a 64-bit BAR in the last pair.
HiddenFunctions ==
    LET d0 == test_pci_dev_set_bar(
                  test_pci_add_dev(test_pci_init, 0, 0, \h1111, ROOT),
                  1, 4, \h100000, TEST_PCI_BAR_64BIT)
        d1 == test_pci_dev_set_bar(test_pci_add_dev(d0, 0, 1, \h1111, ROOT),
                                   2, 0, \h1000, TEST_PCI_BAR_MMIO)
        d2 == test_pci_dev_set_bar(test_pci_add_dev(d1, 5, 0, \h2222, ROOT),
                                   3, 0, \h1000, TEST_PCI_BAR_MMIO)
    IN  test_pci_commit(d2)

MCTopologies ==
    {UnitTests[c].top : c \in DOMAIN UnitTests}
        \cup {Endpoint64, Endpoint64Rejected, EndpointNoBar, EndpointMiB,
              EndpointMixed, EndpointIo16, TwoFunctionDevice, NestedBridges,
              SiblingBridges, DeepTree, HiddenFunctions}
        \cup {BridgeCase(BridgeCases.none, \h0000),
              BridgeCase(BridgeCases.mmio, \h0000),
              BridgeCase(BridgeCases.pf64, \h0003),
              BridgeCase(BridgeCases.io, \h0000),
              BridgeCase(BridgeCases.all, \h0005)}

MCPools ==
    {UnitTests[c].info : c \in DOMAIN UnitTests}
        \cup {DefaultPools, NoSpacePools}
        \cup {OomInitialPools[p] : p \in DOMAIN OomInitialPools}
        \cup {OomPostEnumPools[p] : p \in DOMAIN OomPostEnumPools}

\* The test cases that set up this topology with these pools.
CasesOf(top, pools) ==
    {c \in DOMAIN UnitTests :
        UnitTests[c].top = top /\ UnitTests[c].info = pools}

MCInit ==
    /\ Init
    /\ case \in {NoCase} \cup CasesOf(t, info)

MCNext == Next /\ UNCHANGED case

MCSpec == MCInit /\ [][MCNext]_<<vars, case>> /\ WF_vars(Next)

\* The register the test reads for expectation e.
ReadBack(e) ==
    LowBits(pci_config_read32(t, test_pci_node_bus(t, e.node), t[e.node].dev,
                              t[e.node].func, e.off), e.width)

\* The bus-number assertions of test_program_bridge, test_enum_do_full and
\* test_enum_do_nested_bridges for bridge b.
Numbered(b) ==
    LET reg(i, off) == pci_config_read8(t, test_pci_node_bus(t, i), t[i].dev,
                                        t[i].func, off)
        parent == t[b].parent_bus
    IN  /\ reg(b, PCI_PRIMARY_BUS) = test_pci_node_bus(t, b)
        /\ reg(b, PCI_SECONDARY_BUS) > reg(b, PCI_PRIMARY_BUS)
        /\ reg(b, PCI_SUB_SEC_BUS) >= reg(b, PCI_SECONDARY_BUS)
        /\ parent # TEST_PCI_ROOT_BUS =>
              reg(parent, PCI_SUB_SEC_BUS) >= reg(b, PCI_SUB_SEC_BUS)

(***************************************************************************)
(* The engine passes the repository's unit tests.  When the walk of a test *)
(* case is over, every ck_assert of the case holds: the values             *)
(* pci_program_bar and pci_program_bridge returned, the registers read     *)
(* back through the accessor, the cursors of struct pci_enum_info and the  *)
(* bus numbers of the bridges; pci_program_bar refuses BAR index 6; the    *)
(* byte accesses of test_config_rw_8bit_all_positions land in their lanes; *)
(* and the alignment routine gives the result of every vector of           *)
(* test_enum_next_aligned_overflow and test_pci_align_check_up_overflow.   *)
(***************************************************************************)
AgreesWithUnitTests ==
    pc = "done" /\ case # NoCase =>
        LET c == UnitTests[case]
        IN  /\ \A k \in c.calls :
                  \E l \in log : /\ l.node = k.node /\ l.bar = k.bar
                                 /\ l.ret \in k.ret
                                 /\ l.is_64bit \in k.is_64bit
            /\ \A e \in c.regs : (e.rel = "eq") = (ReadBack(e) = e.val)
            /\ \A p \in DOMAIN c.after : info[p] = c.after[p]
            /\ \A b \in c.numbered : Numbered(b)
            /\ test_program_bar_out_of_range
            /\ test_config_rw_8bit_all_positions
            /\ \A v \in AlignCases : align_up_checked(v[1], v[2], v[3]) = v[4]
=============================================================================
