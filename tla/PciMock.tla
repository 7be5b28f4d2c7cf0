------------------------------ MODULE PciMock ------------------------------
(***************************************************************************)
(* The software PCI hierarchy of tools/unit-tests/unit-pci.c: a topology   *)
(* of at most TEST_PCI_MAX_NODES functions, each with a configuration      *)
(* register file and the hidden BAR description the probe protocol         *)
(* reveals, and the two register primitives mmio_write32 / mmio_read32     *)
(* through which the enumerator sees it.                                   *)
(*                                                                         *)
(* A topology is a sequence of nodes (the C array, indexed from 1; the     *)
(* parent of a root-bus node is TEST_PCI_ROOT_BUS).  The operators are     *)
(* functions from a topology to a topology, so that a caller can chain     *)
(* several register accesses inside one step and keep their order.         *)
(*                                                                         *)
(* Data abstraction: cfg is a function from the register offsets the       *)
(* enumerator uses to the value of that register, not an array of 256      *)
(* bytes; an access names the register by its own offset.  Addresses are   *)
(* AddrBits wide (32 in the program): 0xFFFFFFFF is ALL_ONES.              *)
(***************************************************************************)
EXTENDS Integers, Sequences
LOCAL INSTANCE SequencesExt

CONSTANT AddrBits   \* width of an address and of a BAR register

ASSUME AddrBits \in 17..30

TEST_PCI_MAX_NODES == 10
TEST_PCI_MAX_BARS  == 6
TEST_PCI_ROOT_BUS  == 0
TEST_PCI_CFG_SIZE  == 256

TEST_PCI_BAR_MMIO  == {}
TEST_PCI_BAR_IO    == {"io"}
TEST_PCI_BAR_64BIT == {"64bit"}
TEST_PCI_BAR_PF    == {"pf"}

\* Register offsets of the type 0 / type 1 header (spec.md section 6).
PCI_VENDOR_ID_OFFSET   == \h00
PCI_COMMAND_OFFSET     == \h04
PCI_HEADER_TYPE_OFFSET == \h0E
PCI_BAR0_OFFSET        == \h10
PCI_PRIMARY_BUS        == \h18
PCI_SECONDARY_BUS      == \h19
PCI_SUB_SEC_BUS        == \h1A
PCI_IO_BASE_OFF        == \h1C
PCI_IO_LIMIT_OFF       == \h1D
PCI_MMIO_BASE_OFF      == \h20
PCI_MMIO_LIMIT_OFF     == \h22
PCI_PREFETCH_BASE_OFF  == \h24
PCI_PREFETCH_LIMIT_OFF == \h26

PCI_HEADER_TYPE_DEVICE         == \h00
PCI_HEADER_TYPE_BRIDGE         == \h01
PCI_HEADER_TYPE_MULTIFUNC_MASK == \h80

CfgRegs ==
    {PCI_VENDOR_ID_OFFSET, PCI_COMMAND_OFFSET, PCI_HEADER_TYPE_OFFSET,
     PCI_SECONDARY_BUS, PCI_SUB_SEC_BUS, PCI_IO_LIMIT_OFF,
     PCI_MMIO_LIMIT_OFF, PCI_PREFETCH_LIMIT_OFF}
    \cup {PCI_BAR0_OFFSET + 4 * i : i \in 0..(TEST_PCI_MAX_BARS - 1)}

ALL_ONES == 2^AddrBits - 1

LowBits(x, k)  == x % 2^k
ClearLow(x, k) == x - LowBits(x, k)
Complement(x)  == ALL_ONES - x

test_pci_bar_info ==
    [size : 0..ALL_ONES, is_io : BOOLEAN, is_64bit : BOOLEAN,
     is_prefetch : BOOLEAN, io_hi16_zero : BOOLEAN, upper_mask : 0..ALL_ONES]

test_pci_node ==
    [dev : 0..31, func : 0..7, is_bridge : BOOLEAN,
     parent_bus : 0..TEST_PCI_MAX_NODES, vendor_id : 0..(2^16 - 1),
     bars : [0..(TEST_PCI_MAX_BARS - 1) -> test_pci_bar_info],
     bar_probed : [0..(TEST_PCI_MAX_BARS - 1) -> BOOLEAN],
     cfg : [CfgRegs -> 0..ALL_ONES]]

NoBar ==
    [size |-> 0, is_io |-> FALSE, is_64bit |-> FALSE, is_prefetch |-> FALSE,
     io_hi16_zero |-> FALSE, upper_mask |-> 0]

test_pci_init == << >>

test_pci_add_node(t, dev, func, vendor_id, parent_bus, is_bridge) ==
    Append(t, [dev |-> dev, func |-> func, is_bridge |-> is_bridge,
               parent_bus |-> parent_bus, vendor_id |-> vendor_id,
               bars |-> [i \in 0..(TEST_PCI_MAX_BARS - 1) |-> NoBar],
               bar_probed |-> [i \in 0..(TEST_PCI_MAX_BARS - 1) |-> FALSE],
               cfg |-> [r \in CfgRegs |-> 0]])

\* The two assertions of test_pci_add_node, for every node of t.
WellFormed(t) ==
    /\ Len(t) <= TEST_PCI_MAX_NODES
    /\ \A i \in DOMAIN t :
          \/ t[i].parent_bus = TEST_PCI_ROOT_BUS
          \/ t[i].parent_bus \in 1..(i - 1) /\ t[t[i].parent_bus].is_bridge

\* The assertions of test_pci_dev_set_bar, for every BAR of t.
ValidBars(t) ==
    \A i \in DOMAIN t : \A k \in DOMAIN t[i].bars :
        LET b == t[i].bars[k]
        IN  /\ b.size = 0 \/ \E e \in 0..(AddrBits - 1) : b.size = 2^e
            /\ b.is_io => ~b.is_64bit /\ ~b.is_prefetch

test_pci_add_dev(t, dev, func, vendor_id, parent_bus) ==
    test_pci_add_node(t, dev, func, vendor_id, parent_bus, FALSE)

test_pci_add_bridge(t, dev, func, vendor_id, parent_bus) ==
    test_pci_add_node(t, dev, func, vendor_id, parent_bus, TRUE)

test_pci_dev_set_bar(t, node_idx, bar_idx, size, type) ==
    [t EXCEPT ![node_idx].bars[bar_idx] =
        [@ EXCEPT !.size = size,
                  !.is_io = "io" \in type,
                  !.is_64bit = "64bit" \in type,
                  !.is_prefetch = "pf" \in type]]

test_pci_commit(t) ==
    [i \in DOMAIN t |->
        [t[i] EXCEPT
            !.bar_probed = [b \in DOMAIN @ |-> FALSE],
            !.cfg = [r \in CfgRegs |->
                        CASE r = PCI_VENDOR_ID_OFFSET -> t[i].vendor_id
                          [] r = PCI_HEADER_TYPE_OFFSET ->
                                IF t[i].is_bridge THEN PCI_HEADER_TYPE_BRIDGE
                                                  ELSE PCI_HEADER_TYPE_DEVICE
                          [] OTHER -> 0]]]

test_pci_node_bus(t, node_idx) ==
    IF t[node_idx].parent_bus = TEST_PCI_ROOT_BUS
    THEN 0
    ELSE t[t[node_idx].parent_bus].cfg[PCI_SECONDARY_BUS]

\* Faulty variant: the subordinate bus of the bridge is not looked at.
Forwards_IgnoresSubordinate(t, i, current_bus, target_bus) ==
    /\ t[i].is_bridge
    /\ test_pci_node_bus(t, i) = current_bus
    /\ t[i].cfg[PCI_SECONDARY_BUS] # 0
    /\ t[i].cfg[PCI_SECONDARY_BUS] <= target_bus

\* The bridges of t that forward target_bus from current_bus: the test of
\* the inner loop of test_pci_is_bus_reachable.
Forwards(t, i, current_bus, target_bus) ==
    /\ t[i].is_bridge
    /\ test_pci_node_bus(t, i) = current_bus
    /\ t[i].cfg[PCI_SECONDARY_BUS] # 0
    /\ t[i].cfg[PCI_SECONDARY_BUS] <= target_bus
    /\ target_bus <= t[i].cfg[PCI_SUB_SEC_BUS]

\* The walk from bus 0 towards target_bus.  "abort" is the outcome of the
\* ck_assert on "sec > current_bus", which stops the program.
RECURSIVE BusWalk(_, _, _)
BusWalk(t, current_bus, target_bus) ==
    IF current_bus = target_bus THEN "reached"
    ELSE LET hops == {i \in DOMAIN t : Forwards(t, i, current_bus, target_bus)}
             i    == CHOOSE h \in hops : \A g \in hops : h <= g
         IN  IF hops = {} THEN "unreachable"
             ELSE IF t[i].cfg[PCI_SECONDARY_BUS] <= current_bus THEN "abort"
             ELSE BusWalk(t, t[i].cfg[PCI_SECONDARY_BUS], target_bus)

test_pci_is_bus_reachable(t, target_bus) ==
    BusWalk(t, 0, target_bus) = "reached"

\* The index of the node at bus:dev.func, 0 for NULL.
test_pci_find_node(t, bus, dev, func) ==
    IF ~test_pci_is_bus_reachable(t, bus) THEN 0
    ELSE LET found ==
                {i \in DOMAIN t :
                    /\ t[i].dev = dev /\ t[i].func = func
                    /\ \/ bus = 0 /\ t[i].parent_bus = TEST_PCI_ROOT_BUS
                       \/ /\ bus > 0 /\ t[i].parent_bus # TEST_PCI_ROOT_BUS
                          /\ test_pci_node_bus(t, i) = bus}
         IN  IF found = {} THEN 0
             ELSE CHOOSE i \in found : \A j \in found : i <= j

\* The flat address of a register, relative to PCI_ECAM_BASE, and its
\* decoding by the mock.
ecam_decode(rel) ==
    [bus  |-> (rel \div 2^20) % 2^8,
     dev  |-> (rel \div 2^15) % 2^5,
     func |-> (rel \div 2^12) % 2^3,
     off  |-> rel % 2^12]

max_bars(n) == IF n.is_bridge THEN 2 ELSE 6

IsBarOffset(n, off) ==
    off >= PCI_BAR0_OFFSET /\ off < PCI_BAR0_OFFSET + max_bars(n) * 4

BarIndex(off) == (off - PCI_BAR0_OFFSET) \div 4

\* Lower half of a 64-bit pair, and the slot above one.
Is64Lower(n, bar_idx) == n.bars[bar_idx].is_64bit /\ n.bars[bar_idx].size > 0
Is64Upper(n, bar_idx) == bar_idx > 0 /\ Is64Lower(n, bar_idx - 1)

\* Faulty variant: the prefetchable bit is never shown.
TypeBits_NoPrefetch(b) == IF b.is_64bit THEN \h4 ELSE 0

TypeBits(b) ==
    (IF b.is_64bit THEN \h4 ELSE 0) + (IF b.is_prefetch THEN \h8 ELSE 0)

\* The mask a BAR answers a probe with; span is size - 1, the address bits
\* the BAR does not decode.
BarMask(n, bar_idx, span) ==
    LET b == n.bars[bar_idx] IN
    CASE bar_idx \notin 0..(max_bars(n) - 1) -> 0
      [] OTHER ->
         IF b.size > 0
         THEN IF b.is_io
              THEN LET mask == ClearLow(Complement(span), 2)
                   IN  (IF b.io_hi16_zero THEN LowBits(mask, 16) ELSE mask) + 1
              ELSE ClearLow(Complement(span), 4) + TypeBits(b)
         ELSE IF Is64Upper(n, bar_idx)
              THEN IF n.bars[bar_idx - 1].upper_mask # 0
                   THEN n.bars[bar_idx - 1].upper_mask
                   ELSE ALL_ONES
              ELSE 0

\* Faulty variant: ~size for ~(size - 1).
test_pci_bar_probe_mask_OffByOne(n, bar_idx) ==
    BarMask(n, bar_idx, n.bars[bar_idx].size)

test_pci_bar_probe_mask(n, bar_idx) ==
    BarMask(n, bar_idx, n.bars[bar_idx].size - 1)

\* Faulty variant: the lower half of a pair keeps the type bits it showed
\* when it was probed first.
ProbeWrite_NoRetroFix(n, off) ==
    LET bar_idx == BarIndex(off)
        probed  == [n EXCEPT !.bar_probed[bar_idx] = TRUE]
    IN  IF Is64Lower(n, bar_idx) /\ ~n.bar_probed[bar_idx + 1]
        THEN [probed EXCEPT !.cfg[off] = TypeBits(n.bars[bar_idx])]
        ELSE [probed EXCEPT !.cfg[off] = test_pci_bar_probe_mask(n, bar_idx)]

\* What a write of 0xFFFFFFFF to the BAR at off does to node n.
ProbeWrite(n, off) ==
    LET bar_idx == BarIndex(off)
        probed  == [n EXCEPT !.bar_probed[bar_idx] = TRUE]
        mask    == test_pci_bar_probe_mask(n, bar_idx)
    IN  IF Is64Lower(n, bar_idx) /\ ~n.bar_probed[bar_idx + 1]
        THEN [probed EXCEPT !.cfg[off] = TypeBits(n.bars[bar_idx])]
        ELSE IF Is64Upper(n, bar_idx) /\ n.bar_probed[bar_idx - 1]
        THEN [probed EXCEPT
                 !.cfg[off] = mask,
                 !.cfg[off - 4] = test_pci_bar_probe_mask(n, bar_idx - 1)]
        ELSE [probed EXCEPT !.cfg[off] = mask]

\* Faulty variant: the value is stored, the BAR stays in probe mode.
PlainWrite_KeepsProbe(n, off, value) == [n EXCEPT !.cfg[off] = value]

\* Any other write: a BAR leaves probe mode, the value is stored.
PlainWrite(n, off, value) ==
    [n EXCEPT !.bar_probed = IF IsBarOffset(n, off)
                             THEN [@ EXCEPT ![BarIndex(off)] = FALSE]
                             ELSE @,
              !.cfg[off] = value]

mmio_write32(t, address, value) ==
    LET a == ecam_decode(address)
        i == test_pci_find_node(t, a.bus, a.dev, a.func)
    IN  IF i = 0 \/ a.off + 4 > TEST_PCI_CFG_SIZE THEN t
        ELSE IF value = ALL_ONES /\ IsBarOffset(t[i], a.off)
        THEN [t EXCEPT ![i] = ProbeWrite(@, a.off)]
        ELSE [t EXCEPT ![i] = PlainWrite(@, a.off, value)]

\* Faulty variant: a function that is not there reads as zero.
mmio_read32_ZeroWhenAbsent(t, address) ==
    LET a == ecam_decode(address)
        i == test_pci_find_node(t, a.bus, a.dev, a.func)
    IN  IF i = 0 \/ a.off + 4 > TEST_PCI_CFG_SIZE THEN 0
        ELSE t[i].cfg[a.off]

mmio_read32(t, address) ==
    LET a == ecam_decode(address)
        i == test_pci_find_node(t, a.bus, a.dev, a.func)
    IN  IF i = 0 \/ a.off + 4 > TEST_PCI_CFG_SIZE THEN ALL_ONES
        ELSE t[i].cfg[a.off]
=============================================================================
