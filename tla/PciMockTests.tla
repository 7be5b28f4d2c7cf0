---------------------------- MODULE PciMockTests ----------------------------
(***************************************************************************)
(* The test cases of tools/unit-tests/unit-pci.c that exercise the mock    *)
(* itself, before any of the engine runs on it: how a topology is built    *)
(* and committed, how a bus is routed to through the bridges, what a BAR   *)
(* answers a probe with, and what an access to a function that is not      *)
(* there reads.  Each case is the conjunction of its ck_asserts.  A mask   *)
(* given in 32 bits is written as ALL_ONES minus the bits it clears; the   *)
(* device identifier and the class code have no register in the model.     *)
(***************************************************************************)
EXTENDS PciEnum, PciScenarios

\* t.nodes[br].cfg[PCI_SECONDARY_BUS] = sec; ...cfg[PCI_SUB_SEC_BUS] = sub.
Routed(top, br, sec, sub) ==
    [top EXCEPT ![br].cfg[PCI_SECONDARY_BUS] = sec,
                ![br].cfg[PCI_SUB_SEC_BUS] = sub]

test_topology_build ==
    LET d0 == test_pci_add_dev(test_pci_init, 0, 0, \h1111, ROOT)
        d1 == test_pci_add_dev(d0, 1, 0, \h3333, ROOT)
        br == test_pci_add_bridge(d1, 2, 0, \h5555, ROOT)
        d2 == test_pci_add_dev(br, 0, 0, \h7777, 3)
    IN  /\ Len(d2) = 4
        /\ d2[1] = [d2[1] EXCEPT !.dev = 0, !.func = 0, !.is_bridge = FALSE,
                                 !.parent_bus = ROOT, !.vendor_id = \h1111]
        /\ d2[2].dev = 1 /\ d2[2].parent_bus = ROOT
        /\ d2[3].is_bridge /\ d2[3].dev = 2
        /\ d2[4].dev = 0 /\ d2[4].parent_bus = 3 /\ ~d2[4].is_bridge
        /\ \A i \in 1..4 : test_pci_node_bus(test_pci_commit(d2), i) = 0

test_topology_commit ==
    LET ep  == test_pci_add_dev(test_pci_init, 3, 0, \hAAAA, ROOT)
        top == test_pci_commit(test_pci_add_bridge(ep, 5, 0, \hCCCC, ROOT))
    IN  /\ pci_config_read16(top, 0, 3, 0, PCI_VENDOR_ID_OFFSET) = \hAAAA
        /\ pci_config_read8(top, 0, 3, 0, PCI_HEADER_TYPE_OFFSET) = 0
        /\ pci_config_read16(top, 0, 5, 0, PCI_VENDOR_ID_OFFSET) = \hCCCC
        /\ pci_config_read8(top, 0, 5, 0, PCI_HEADER_TYPE_OFFSET) = 1

test_find_node_root_bus ==
    LET d0  == test_pci_add_dev(test_pci_init, 0, 0, \h1000, ROOT)
        d2  == test_pci_add_dev(d0, 2, 0, \h1000, ROOT)
        top == test_pci_commit(test_pci_add_dev(d2, 5, 0, \h1000, ROOT))
    IN  /\ test_pci_find_node(top, 0, 0, 0) = 1
        /\ test_pci_find_node(top, 0, 2, 0) = 2
        /\ test_pci_find_node(top, 0, 5, 0) = 3
        /\ \A dev \in {1, 3, 31} : test_pci_find_node(top, 0, dev, 0) = 0
        /\ test_pci_find_node(top, 0, 0, 1) = 0

test_find_node_behind_bridge ==
    LET br     == test_pci_add_bridge(test_pci_init, 1, 0, \hAAAA, ROOT)
        top    == test_pci_commit(test_pci_add_dev(br, 0, 0, \hCCCC, 1))
        routed == Routed(top, 1, 1, 1)
    IN  /\ test_pci_find_node(top, 1, 0, 0) = 0
        /\ test_pci_find_node(routed, 1, 0, 0) = 2
        /\ test_pci_node_bus(routed, 2) = 1
        /\ test_pci_find_node(routed, 2, 0, 0) = 0

test_find_node_nested_bridges ==
    LET brA  == test_pci_add_bridge(test_pci_init, 0, 0, \h1111, ROOT)
        brB  == test_pci_add_bridge(brA, 0, 0, \h3333, 1)
        top  == test_pci_commit(test_pci_add_dev(brB, 0, 0, \h5555, 2))
        both == Routed(Routed(top, 1, 1, 2), 2, 2, 2)
    IN  /\ test_pci_find_node(both, 2, 0, 0) = 3
        /\ test_pci_find_node(Routed(both, 1, 1, 1), 2, 0, 0) = 0
        /\ test_pci_find_node(Routed(both, 2, 0, 2), 2, 0, 0) = 0

test_bar_probe_mask ==
    LET top     == Endpoint(0, TEST_PCI_BAR_MMIO)
        n(k, size, type) == test_pci_dev_set_bar(top, 1, k, size, type)[1]
        PF64    == TEST_PCI_BAR_64BIT \cup TEST_PCI_BAR_PF
    IN  /\ test_pci_bar_probe_mask(n(0, \h10000, TEST_PCI_BAR_MMIO), 0)
              = ALL_ONES - \hFFFF
        /\ test_pci_bar_probe_mask(n(0, \h1000, TEST_PCI_BAR_MMIO), 0)
              = ALL_ONES - \hFFF
        /\ test_pci_bar_probe_mask(n(0, \h100000, PF64), 0)
              = ALL_ONES - \hFFFFF + \hC
        /\ test_pci_bar_probe_mask(n(0, \h100000, PF64), 1) = ALL_ONES
        /\ test_pci_bar_probe_mask(n(2, 256, TEST_PCI_BAR_IO), 2)
              = ALL_ONES - \hFF + 1
        /\ test_pci_bar_probe_mask(n(2, 256, TEST_PCI_BAR_IO), 3) = 0
        /\ \A k \in {6, -1} :
              test_pci_bar_probe_mask(n(2, 256, TEST_PCI_BAR_IO), k) = 0

test_mmio_mock_bar_probe ==
    LET dev    == test_pci_add_dev(test_pci_init, 3, 0, \hAAAA, ROOT)
        top    == test_pci_commit(
                      test_pci_dev_set_bar(dev, 1, 0, \h10000, TEST_PCI_BAR_MMIO))
        probed == pci_config_write32(top, 0, 3, 0, BAR(0), ALL_ONES)
        set    == pci_config_write32(probed, 0, 3, 0, BAR(0), MEM + \h10000)
        other  == pci_config_write32(set, 0, 3, 0, BAR(1), ALL_ONES)
    IN  /\ pci_config_read32(probed, 0, 3, 0, BAR(0)) = ALL_ONES - \hFFFF
        /\ pci_config_read32(set, 0, 3, 0, BAR(0)) = MEM + \h10000
        /\ pci_config_read32(other, 0, 3, 0, BAR(1)) = 0

test_mmio_mock_unreachable ==
    LET br  == test_pci_add_bridge(test_pci_init, 1, 0, \h1111, ROOT)
        top == test_pci_commit(test_pci_add_dev(br, 0, 0, \h3333, 1))
        vendor(bus, dev) ==
            pci_config_read32(top, bus, dev, 0, PCI_VENDOR_ID_OFFSET)
    IN  /\ vendor(1, 0) = ALL_ONES
        /\ vendor(0, 31) = ALL_ONES
        /\ vendor(5, 0) = ALL_ONES
        /\ vendor(0, 1) # ALL_ONES

\* test_program_bar_out_of_range: BAR index 6 of an endpoint without BARs.
test_program_bar_out_of_range ==
    LET top  == test_pci_commit(test_pci_add_dev(test_pci_init, 0, 0, \h1234, ROOT))
        zero == [p \in DOMAIN DefaultPools |-> 0]
    IN  pci_program_bar(top, zero, 0, 0, 0, 6).ret = -1

\* test_config_rw_8bit_all_positions: the dword at base_off is zeroed, byte
\* i of it is written with 0x10 * (i + 1) and read back, and the dword is
\* then 0x40302010.  dword[i] is the register after the write of byte i.
test_config_rw_8bit_all_positions ==
    LET base_off     == \h40
        write_val(i) == \h10 * (i + 1)
        dword[i \in -1..3] ==
            IF i = -1 THEN 0
            ELSE WriteLane(dword[i - 1], base_off + i, write_val(i), 8)
    IN  /\ \A i \in 0..3 : ReadLane(dword[i], base_off + i, 8) = write_val(i)
        /\ dword[3] = \h40302010

(***************************************************************************)
(* The mock passes its own tests: the operators of PciMock give, on the    *)
(* topologies test_topology_build to test_mmio_mock_unreachable set up,    *)
(* every value their ck_asserts expect: the fields and the committed       *)
(* registers of the nodes, the node test_pci_find_node finds or misses as  *)
(* the bridges on the way are routed, mis-routed and unrouted, the probe   *)
(* masks of the BAR kinds and of indices outside the array, and all ones   *)
(* for a function that cannot be reached.                                  *)
(***************************************************************************)
MockPassesItsTests ==
    /\ test_topology_build
    /\ test_topology_commit
    /\ test_find_node_root_bus
    /\ test_find_node_behind_bridge
    /\ test_find_node_nested_bridges
    /\ test_bar_probe_mask
    /\ test_mmio_mock_bar_probe
    /\ test_mmio_mock_unreachable
=============================================================================
