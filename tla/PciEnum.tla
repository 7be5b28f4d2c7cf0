------------------------------ MODULE PciEnum ------------------------------
(***************************************************************************)
(* The PCI enumeration and resource-allocation engine (spec.md sections    *)
(* 4.1 to 4.6), run against the register file of PciMock.                  *)
(*                                                                         *)
(* The engine is sequential and recursive.  Its call stack is the variable *)
(* stack: one frame per pci_enum_bus in progress, holding the slot and the *)
(* BAR index the scan has reached; saved[k] is what pci_program_bridge     *)
(* keeps on its own stack while the bus of frame k+1 is enumerated.  One   *)
(* step is one whole call of pci_program_bar, one slot skipped, or one     *)
(* half of pci_program_bridge (before and after the descent).              *)
(*                                                                         *)
(* Where spec.md and the assertions of tools/unit-tests/unit-pci.c differ, *)
(* the definitions follow the test file, which is source; README.md lists  *)
(* each place.                                                             *)
(***************************************************************************)
EXTENDS PciMock, FiniteSets
LOCAL INSTANCE SequencesExt
LOCAL INSTANCE Bitwise
LOCAL INSTANCE FiniteSetsExt

CONSTANTS
    Topologies,   \* the committed topologies the walk may be started on
    Pools,        \* the resource pools the entry point may be seeded with
    NumDevs,      \* device slots scanned on a bus (32 in the program)
    NumFuncs      \* functions scanned in a slot (8 in the program)

ASSUME /\ NumDevs \in 1..32 /\ NumFuncs \in 1..8
       /\ \A top \in Topologies : WellFormed(top) /\ ValidBars(top)

VARIABLES
    t,       \* the hardware: current_topology of the mock
    info,    \* struct pci_enum_info, the allocator state
    stack,   \* frames of pci_enum_bus, innermost last
    saved,   \* locals of the pci_program_bridge calls in progress
    pc,      \* "reset", "walk" or "done"
    log      \* history: one record for every call that has returned

vars == <<t, info, stack, saved, pc, log>>

PCI_MAX_BUS       == \hFF
PCI_IO_LIMIT      == ALL_ONES
PCI_MIN_BAR_ALIGN == 2^12
PCI_COMMAND_IO    == \h1
PCI_COMMAND_MEM   == \h2
PCI_COMMAND_BUS_MASTER == \h4

PoolNames == {"mem", "mem_pf", "io"}
Granule   == [mem |-> 2^20, mem_pf |-> 2^20, io |-> 2^12]
BaseOff   == [mem |-> PCI_MMIO_BASE_OFF, mem_pf |-> PCI_PREFETCH_BASE_OFF,
              io |-> PCI_IO_BASE_OFF]
LimitOff  == [mem |-> PCI_MMIO_LIMIT_OFF, mem_pf |-> PCI_PREFETCH_LIMIT_OFF,
              io |-> PCI_IO_LIMIT_OFF]
RegShift  == [mem |-> 16, mem_pf |-> 16, io |-> 8]
RegBits   == [mem |-> 16, mem_pf |-> 16, io |-> 8]
EnableBit == [mem |-> PCI_COMMAND_MEM, mem_pf |-> PCI_COMMAND_MEM,
              io |-> PCI_COMMAND_IO]

pci_enum_info ==
    [mem : 0..ALL_ONES, mem_limit : 0..ALL_ONES, mem_pf : 0..ALL_ONES,
     mem_pf_limit : 0..ALL_ONES, io : 0..ALL_ONES,
     curr_bus_number : 0..PCI_MAX_BUS]

PoolLimit(i, p) ==
    [mem |-> i.mem_limit, mem_pf |-> i.mem_pf_limit, io |-> PCI_IO_LIMIT][p]

-----------------------------------------------------------------------------
(* 4.1 Config-space accessor *)

EcamAddr(bus, dev, func, off) == bus * 2^20 + dev * 2^15 + func * 2^12 + off

\* Sequencing: F applied to the value of x.  A register access is made
\* once, on the hardware as the accesses before it have left it.
Then(x, F(_)) == CHOOSE y \in {F(v) : v \in {x}} : TRUE

pci_config_read32(hw, bus, dev, func, off) ==
    Then(hw, LAMBDA h : mmio_read32(h, EcamAddr(bus, dev, func, off)))
pci_config_read16(hw, bus, dev, func, off) ==
    LowBits(pci_config_read32(hw, bus, dev, func, off), 16)
pci_config_read8(hw, bus, dev, func, off) ==
    LowBits(pci_config_read32(hw, bus, dev, func, off), 8)

\* A write of the low width bits of value.
pci_config_write(hw, bus, dev, func, off, value, width) ==
    Then(hw, LAMBDA h : mmio_write32(h, EcamAddr(bus, dev, func, off),
                                     LowBits(value, width)))
pci_config_write32(hw, bus, dev, func, off, value) ==
    pci_config_write(hw, bus, dev, func, off, value, AddrBits)
pci_config_write16(hw, bus, dev, func, off, value) ==
    pci_config_write(hw, bus, dev, func, off, value, 16)
pci_config_write8(hw, bus, dev, func, off, value) ==
    pci_config_write(hw, bus, dev, func, off, value, 8)

\* The walk names a field by its own offset.  In the program a field of 8
\* or 16 bits is a lane of the 32-bit word at off & 0xFFC, read by shifting
\* and masking that word and written by replacing the lane in it.
LaneShift(off) == 2^(8 * (off % 4))
ReadLane(word, off, width) == LowBits(word \div LaneShift(off), width)
WriteLane(word, off, value, width) ==
    word + (LowBits(value, width) - ReadLane(word, off, width)) * LaneShift(off)

-----------------------------------------------------------------------------
(* 4.2 Alignment arithmetic *)

OutOfSpace == -1

\* Faulty variant: rounds down.
align_up_checked_Down(addr, alignment, limit) ==
    LET down == (addr \div alignment) * alignment
    IN  IF down >= limit THEN OutOfSpace ELSE down

align_up_checked(addr, alignment, limit) ==
    LET up == ((addr + alignment - 1) \div alignment) * alignment
    IN  IF up > ALL_ONES \/ up >= limit THEN OutOfSpace ELSE up

-----------------------------------------------------------------------------
(* 4.3 BAR prober/programmer *)

BarOff(idx) == PCI_BAR0_OFFSET + 4 * idx

\* Steps 2 and 3: the saved registers, the hardware after the probe writes
\* and the descriptor decoded from the masks read back.  The upper register
\* of a 64-bit pair is put in probe mode before the lower mask is trusted.
ProbeBar(hw, bus, dev, func, idx) ==
    LET off        == BarOff(idx)
        Read(h, o) == pci_config_read32(h, bus, dev, func, o)
        Probe(h, o) == pci_config_write32(h, bus, dev, func, o, ALL_ONES)
    IN  Then(Probe(hw, off), LAMBDA hw1 :
        Then(Read(hw1, off), LAMBDA first :
        LET is_io == first % 2 = 1
            is_64 == ~is_io /\ (first \div 2) % 4 = 2
        IN  Then(IF is_64 THEN Probe(hw1, off + 4) ELSE hw1, LAMBDA hw2 :
            Then(Read(hw2, off), LAMBDA low :
            LET mask == IF ~is_io THEN ClearLow(low, 4)
                        ELSE IF low \div 2^16 = 0
                        THEN ClearLow(low, 2) + ClearLow(ALL_ONES, 16)
                        ELSE ClearLow(low, 2)
            IN  [hw |-> hw2, orig |-> Read(hw, off),
                 orig_up |-> IF is_64 THEN Read(hw1, off + 4) ELSE 0,
                 is_64bit |-> is_64,
                 pool |-> IF is_io THEN "io"
                          ELSE IF (first \div 8) % 2 = 1 THEN "mem_pf"
                          ELSE "mem",
                 upper_ok |-> ~is_64 \/ Read(hw2, off + 4) = ALL_ONES,
                 size |-> IF first = 0 THEN 0
                          ELSE (Complement(mask) + 1) % 2^AddrBits]))))

\* Faulty variant: the upper register of a pair is not restored.
RestoreBar_LowOnly(p, bus, dev, func, idx) ==
    pci_config_write32(p.hw, bus, dev, func, BarOff(idx), p.orig)

RestoreBar(p, bus, dev, func, idx) ==
    LET low == pci_config_write32(p.hw, bus, dev, func, BarOff(idx), p.orig)
    IN  IF p.is_64bit
        THEN pci_config_write32(low, bus, dev, func, BarOff(idx) + 4, p.orig_up)
        ELSE low

\* Step 5: the address goes to the low register, zero to the upper one.
CommitBar(p, bus, dev, func, idx, addr) ==
    LET low == pci_config_write32(p.hw, bus, dev, func, BarOff(idx), addr)
    IN  IF p.is_64bit
        THEN pci_config_write32(low, bus, dev, func, BarOff(idx) + 4, 0)
        ELSE low

BarAlign(size) == IF size > PCI_MIN_BAR_ALIGN THEN size ELSE PCI_MIN_BAR_ALIGN

pci_program_bar(hw, i, bus, dev, func, idx) ==
    IF idx >= TEST_PCI_MAX_BARS
    THEN [hw |-> hw, info |-> i, ret |-> -1, is_64bit |-> FALSE,
          outcome |-> "out_of_range"]
    ELSE Then(ProbeBar(hw, bus, dev, func, idx), LAMBDA p :
         LET addr == align_up_checked(i[p.pool], BarAlign(p.size),
                                      PoolLimit(i, p.pool))
             undo == RestoreBar(p, bus, dev, func, idx)
         IN  CASE p.size = 0 ->
                    [hw |-> undo, info |-> i, ret |-> 0,
                     is_64bit |-> p.is_64bit, outcome |-> "unimplemented"]
               [] p.size # 0 /\ ~p.upper_ok ->
                    [hw |-> undo, info |-> i, ret |-> 0, is_64bit |-> TRUE,
                     outcome |-> "upper_mismatch"]
               [] p.size # 0 /\ p.upper_ok /\ addr = OutOfSpace ->
                    [hw |-> undo, info |-> i, ret |-> -1,
                     is_64bit |-> p.is_64bit, outcome |-> "no_space"]
               [] OTHER ->
                    [hw |-> CommitBar(p, bus, dev, func, idx, addr),
                     info |-> [i EXCEPT ![p.pool] = (addr + p.size) % 2^AddrBits],
                     ret |-> 0, is_64bit |-> p.is_64bit,
                     outcome |-> "programmed"])

-----------------------------------------------------------------------------
(* 4.5 Bridge programmer *)

ClearBusRegs(hw, bus, dev, func) ==
    LET a == pci_config_write8(hw, bus, dev, func, PCI_SECONDARY_BUS, 0)
    IN  pci_config_write8(a, bus, dev, func, PCI_SUB_SEC_BUS, 0)

\* Steps 1 to 4.  starts is the provisional base of each window.
BridgeEnter(hw, i, bus, dev, func) ==
    LET cmd    == pci_config_read16(hw, bus, dev, func, PCI_COMMAND_OFFSET)
        clear  == ClearBusRegs(hw, bus, dev, func)
        starts == [p \in PoolNames |->
                     align_up_checked(i[p], Granule[p], PoolLimit(i, p))]
        sec    == i.curr_bus_number + 1
        prim   == pci_config_write8(clear, bus, dev, func, PCI_PRIMARY_BUS, bus)
        secw   == pci_config_write8(prim, bus, dev, func, PCI_SECONDARY_BUS, sec)
        open   == pci_config_write8(secw, bus, dev, func, PCI_SUB_SEC_BUS,
                                    PCI_MAX_BUS)
    IN  IF \E p \in PoolNames : starts[p] = OutOfSpace
        THEN [ok |-> FALSE, hw |-> clear, info |-> i]
        ELSE [ok |-> TRUE, hw |-> open,
              info |-> [i EXCEPT !.mem = starts.mem, !.mem_pf = starts.mem_pf,
                                 !.io = starts.io, !.curr_bus_number = sec],
              ctx |-> [cmd |-> cmd, info |-> i, starts |-> starts, hw |-> hw]]

\* Faulty variant: the limit register names the granule at the cursor, the
\* first one the subtree does not use.
WriteWindow_LimitAtEnd(hw, bus, dev, func, p, start, end) ==
    LET used  == end > start
        base  == IF used THEN start \div 2^RegShift[p] ELSE 2^RegBits[p] - 1
        limit == IF used THEN end \div 2^RegShift[p] ELSE 0
        a     == pci_config_write(hw, bus, dev, func, BaseOff[p], base,
                                  RegBits[p])
    IN  pci_config_write(a, bus, dev, func, LimitOff[p], limit, RegBits[p])

\* One window pair: open from start to the rounded cursor, or closed.
WriteWindow(hw, bus, dev, func, p, start, end) ==
    LET used  == end > start
        base  == IF used THEN start \div 2^RegShift[p] ELSE 2^RegBits[p] - 1
        limit == IF used THEN (end - 1) \div 2^RegShift[p] ELSE 0
        a     == pci_config_write(hw, bus, dev, func, BaseOff[p], base,
                                  RegBits[p])
    IN  pci_config_write(a, bus, dev, func, LimitOff[p], limit, RegBits[p])

\* Faulty variant: the subordinate register keeps the value it was opened
\* with for the descent.
Subordinate_LeftOpen(i) == PCI_MAX_BUS

\* Step 7: the highest bus number the subtree used.
Subordinate(i) == i.curr_bus_number

\* Steps 6 and 7, after the secondary bus has been enumerated.
BridgeLeave(hw, i, bus, dev, func, ctx) ==
    LET ends   == [p \in PoolNames |->
                     IF i[p] > ctx.starts[p]
                     THEN align_up_checked(i[p], Granule[p], PoolLimit(i, p))
                     ELSE i[p]]
        used   == {p \in PoolNames : i[p] > ctx.starts[p]}
        sub    == pci_config_write8(hw, bus, dev, func, PCI_SUB_SEC_BUS,
                                    Subordinate(i))
        w1     == WriteWindow(sub, bus, dev, func, "mem",
                              ctx.starts.mem, ends.mem)
        w2     == WriteWindow(w1, bus, dev, func, "mem_pf",
                              ctx.starts.mem_pf, ends.mem_pf)
        w3     == WriteWindow(w2, bus, dev, func, "io",
                              ctx.starts.io, ends.io)
        cmd    == FoldSet(LAMBDA p, c : c | EnableBit[p],
                          ctx.cmd | PCI_COMMAND_BUS_MASTER, used)
        undo   == pci_config_write16(
                      pci_config_write8(ClearBusRegs(hw, bus, dev, func),
                                        bus, dev, func, PCI_PRIMARY_BUS, 0),
                      bus, dev, func, PCI_COMMAND_OFFSET, ctx.cmd)
    IN  IF \E p \in PoolNames : ends[p] = OutOfSpace
        THEN [ret |-> -1, hw |-> undo, info |-> ctx.info]
        ELSE [ret |-> 0,
              hw |-> pci_config_write16(w3, bus, dev, func,
                                        PCI_COMMAND_OFFSET, cmd),
              info |-> [i EXCEPT !.mem = ends.mem, !.mem_pf = ends.mem_pf,
                                 !.io = ends.io]]

-----------------------------------------------------------------------------
(* 4.4 Bus/function enumerator and 4.6 entry point *)

Frame == [bus : 0..PCI_MAX_BUS, dev : 0..NumDevs, func : 0..(NumFuncs - 1),
          bar : 0..(TEST_PCI_MAX_BARS - 1)]

Top == Last(stack)

\* Faulty variant: the device number is not advanced after the last
\* function of a slot.
NextSlot_Stuck(f) ==
    IF f.func + 1 < NumFuncs
    THEN [f EXCEPT !.func = @ + 1, !.bar = 0]
    ELSE [f EXCEPT !.func = 0, !.bar = 0]

NextSlot(f) ==
    IF f.func + 1 < NumFuncs
    THEN [f EXCEPT !.func = @ + 1, !.bar = 0]
    ELSE [f EXCEPT !.dev = @ + 1, !.func = 0, !.bar = 0]

Present(f) ==
    pci_config_read16(t, f.bus, f.dev, f.func, PCI_VENDOR_ID_OFFSET) # \hFFFF

Multifunction(f) ==
    pci_config_read8(t, f.bus, f.dev, 0, PCI_HEADER_TYPE_OFFSET)
        \div PCI_HEADER_TYPE_MULTIFUNC_MASK = 1

Visited(f) == (f.func = 0 \/ Multifunction(f)) /\ Present(f)

HeaderType(f) ==
    pci_config_read8(t, f.bus, f.dev, f.func, PCI_HEADER_TYPE_OFFSET)
        % PCI_HEADER_TYPE_MULTIFUNC_MASK

Scanning == pc = "walk" /\ Top.dev < NumDevs

Returned(f, bar, r) ==
    [node |-> test_pci_find_node(t, f.bus, f.dev, f.func), bar |-> bar,
     outcome |-> r.outcome, ret |-> r.ret, is_64bit |-> r.is_64bit]

Init ==
    /\ t \in Topologies
    /\ info \in Pools
    /\ stack = << >>
    /\ saved = << >>
    /\ pc = "reset"
    /\ log = {}

pci_enum_do ==
    /\ pc = "reset"
    /\ pc' = "walk"
    /\ stack' = <<[bus |-> 0, dev |-> 0, func |-> 0, bar |-> 0]>>
    /\ UNCHANGED <<t, info, saved, log>>

SkipFunction ==
    /\ Scanning
    /\ ~Visited(Top)
    /\ stack' = Snoc(NextSlot(Top), Front(stack))
    /\ UNCHANGED <<t, info, saved, pc, log>>

ProgramBar ==
    /\ Scanning
    /\ Visited(Top)
    /\ HeaderType(Top) = PCI_HEADER_TYPE_DEVICE
    /\ \E f \in {Top} :
       \E r \in {pci_program_bar(t, info, f.bus, f.dev, f.func, f.bar)} :
       LET next == f.bar + (IF r.is_64bit THEN 2 ELSE 1)
       IN  /\ t' = r.hw
           /\ info' = r.info
           /\ log' = log \cup {Returned(f, f.bar, r)}
           /\ stack' = Snoc(IF next < TEST_PCI_MAX_BARS
                            THEN [f EXCEPT !.bar = next]
                            ELSE NextSlot(f), Front(stack))
    /\ UNCHANGED <<saved, pc>>

EnterBridge ==
    /\ Scanning
    /\ Visited(Top)
    /\ HeaderType(Top) = PCI_HEADER_TYPE_BRIDGE
    /\ \E f \in {Top} : \E r \in {BridgeEnter(t, info, f.bus, f.dev, f.func)} :
           /\ t' = r.hw
           /\ info' = r.info
           /\ \/ /\ r.ok
                 /\ stack' = Snoc([bus |-> r.info.curr_bus_number, dev |-> 0,
                                   func |-> 0, bar |-> 0], stack)
                 /\ saved' = Snoc(r.ctx, saved)
                 /\ log' = log
              \/ /\ ~r.ok
                 /\ stack' = Snoc(NextSlot(f), Front(stack))
                 /\ saved' = saved
                 /\ log' = log \cup
                       {Returned(f, -1, [outcome |-> "bridge_no_space",
                                         ret |-> -1, is_64bit |-> FALSE])}
    /\ UNCHANGED pc

LeaveBridge ==
    /\ pc = "walk"
    /\ Top.dev = NumDevs
    /\ Len(stack) > 1
    /\ \E f \in {Last(Front(stack))} :
       \E r \in {BridgeLeave(t, info, f.bus, f.dev, f.func, Last(saved))} :
           /\ t' = r.hw
           /\ info' = r.info
           /\ log' = log \cup
                 {Returned(f, -1, [outcome |-> IF r.ret = 0 THEN "bridge_ok"
                                               ELSE "bridge_rollback",
                                   ret |-> r.ret, is_64bit |-> FALSE])}
           /\ stack' = Snoc(NextSlot(f), Front(Front(stack)))
           /\ saved' = Front(saved)
    /\ UNCHANGED pc

FinishWalk ==
    /\ pc = "walk"
    /\ Top.dev = NumDevs
    /\ Len(stack) = 1
    /\ pc' = "done"
    /\ stack' = << >>
    /\ UNCHANGED <<t, info, saved, log>>

Done ==
    /\ pc = "done"
    /\ UNCHANGED vars

Next ==
    \/ pci_enum_do
    \/ SkipFunction
    \/ ProgramBar
    \/ EnterBridge
    \/ LeaveBridge
    \/ FinishWalk
    \/ Done

\* The walk is one synchronous call: once started it runs to its end.
Spec == Init /\ [][Next]_vars /\ WF_vars(Next)

-----------------------------------------------------------------------------
(* What the walk must establish *)

\* The bits of the register at off in the header of node n (spec.md
\* section 6): a BAR holds an address, and the fields of a bridge behind
\* its two BARs are the bus numbers and the I/O window of 8 bits and the
\* memory windows of 16.
RegWidth(n, off) ==
    IF IsBarOffset(n, off) THEN AddrBits
    ELSE IF off \in {PCI_VENDOR_ID_OFFSET, PCI_COMMAND_OFFSET,
                     PCI_MMIO_BASE_OFF, PCI_MMIO_LIMIT_OFF,
                     PCI_PREFETCH_BASE_OFF, PCI_PREFETCH_LIMIT_OFF} THEN 16
    ELSE 8

\* The state of the walk is well-formed: every register of every function
\* holds a value of its width, pci_program_bridge has one snapshot for each
\* bus below the root that is being scanned, and the log holds outcomes of
\* pci_program_bar and pci_program_bridge.
TypeOK ==
    /\ t \in Seq(test_pci_node)
    /\ \A i \in DOMAIN t : \A off \in CfgRegs :
          t[i].cfg[off] < 2^RegWidth(t[i], off)
    /\ info \in pci_enum_info
    /\ stack \in Seq(Frame)
    /\ saved \in Seq([cmd : 0..(2^16 - 1), info : pci_enum_info,
                      starts : [PoolNames -> 0..ALL_ONES],
                      hw : Seq(test_pci_node)])
    /\ pc \in {"reset", "walk", "done"}
    /\ log \subseteq [node : DOMAIN t, bar : -1..(TEST_PCI_MAX_BARS - 1),
                      outcome : {"unimplemented", "upper_mismatch", "no_space",
                                 "programmed", "bridge_no_space", "bridge_ok",
                                 "bridge_rollback"},
                      ret : {-1, 0}, is_64bit : BOOLEAN]
    /\ Len(saved) = IF stack = << >> THEN 0 ELSE Len(stack) - 1

\* The bridges between node i and the root bus.
RECURSIVE Ancestors(_)
Ancestors(i) ==
    IF t[i].parent_bus = TEST_PCI_ROOT_BUS THEN {}
    ELSE {t[i].parent_bus} \cup Ancestors(t[i].parent_bus)

\* Configuration accesses find node i at the address its bridges give it.
Routable(i) ==
    test_pci_find_node(t, test_pci_node_bus(t, i), t[i].dev, t[i].func) = i

\* The BARs that were given an address and can still be reached, with the
\* range the device decodes: from the register value, for the size the
\* device implements.
LiveBars ==
    {[node |-> r.node, bar |-> r.bar,
      base |-> t[r.node].cfg[BarOff(r.bar)],
      size |-> t[r.node].bars[r.bar].size,
      pool |-> IF t[r.node].bars[r.bar].is_io THEN "io"
               ELSE IF t[r.node].bars[r.bar].is_prefetch THEN "mem_pf"
               ELSE "mem"] :
        r \in {l \in log : l.outcome = "programmed" /\ Routable(l.node)}}

SameSpace(p, q) == (p = "io") <=> (q = "io")

Disjoint(lo1, hi1, lo2, hi2) == hi1 < lo2 \/ hi2 < lo1

\* The address range a committed window forwards; base > limit is closed.
\* The bridge decodes the upper bits of each register: address bits 31:20
\* of a memory window, 15:12 of an I/O window; the low four bits are flags.
Window(b, p) ==
    LET base  == t[b].cfg[BaseOff[p]] \div 16
        limit == t[b].cfg[LimitOff[p]] \div 16
    IN  [open |-> base <= limit, first |-> base, last |-> limit]

\* The granules of window class p that the range lo..hi touches.
Granules(p, lo, hi) == [first |-> lo \div Granule[p], last |-> hi \div Granule[p]]

Committed ==
    {r.node : r \in {l \in log : l.outcome = "bridge_ok" /\ Routable(l.node)}}

(***************************************************************************)
(* No two devices answer the same address.  Every BAR that pci_program_bar *)
(* committed and that is still reachable holds a naturally aligned         *)
(* address, and the ranges the devices decode (register value, for the     *)
(* size the device implements, not the size the probe believed) are        *)
(* pairwise disjoint within the memory space and within the I/O space.     *)
(* It fails if a pool cursor is not advanced past an allocation, if a size *)
(* is decoded wrongly from a probe mask, or if a rollback hands out again  *)
(* what a reachable device still holds.                                    *)
(***************************************************************************)
DecodedRangesDisjoint ==
    \A a \in LiveBars :
        /\ a.size > 0 /\ a.base % a.size = 0
        /\ a.base + a.size - 1 <= ALL_ONES
        /\ \A b \in LiveBars \ {a} :
              SameSpace(a.pool, b.pool) =>
                  Disjoint(a.base, a.base + a.size - 1,
                           b.base, b.base + b.size - 1)

(***************************************************************************)
(* A committed bridge forwards exactly its subtree.  For every bridge      *)
(* pci_program_bridge has committed, a reachable BAR behind the bridge     *)
(* lies inside the window of its class (memory, prefetchable, I/O) as the  *)
(* hardware decodes the base/limit registers, and a reachable BAR that is  *)
(* not behind the bridge lies outside all its windows of that address      *)
(* space.  It is what the two rounding steps around the descent (steps 3   *)
(* and 6 of section 4.5) and the closed marker are for.                    *)
(***************************************************************************)
WindowsRouteSubtree ==
    \A b \in Committed : \A a \in LiveBars :
        LET hi == a.base + a.size - 1
        IN  IF b \in Ancestors(a.node)
            THEN LET w == Window(b, a.pool)
                     g == Granules(a.pool, a.base, hi)
                 IN  w.open /\ w.first <= g.first /\ g.last <= w.last
            ELSE \A p \in PoolNames :
                    LET w == Window(b, p)
                        g == Granules(p, a.base, hi)
                    IN  SameSpace(p, a.pool) /\ w.open =>
                            Disjoint(g.first, g.last, w.first, w.last)

(***************************************************************************)
(* Bus numbers form a tree of nested ranges at every point of the walk,    *)
(* also while bridges are open for the descent: a reachable configured     *)
(* bridge has primary = the bus it sits on < secondary <= subordinate; the *)
(* range of a bridge behind it lies strictly inside its own; the ranges of *)
(* two bridges neither of which is behind the other are disjoint.  The     *)
(* ck_assert of test_pci_is_bus_reachable (sec > current_bus) can then not *)
(* fire for any bus number (end-to-end scenario 3 of spec.md, for every    *)
(* topology).                                                              *)
(***************************************************************************)
BusNumbersNest ==
    LET Configured == {i \in DOMAIN t : /\ t[i].is_bridge /\ Routable(i)
                                        /\ t[i].cfg[PCI_SECONDARY_BUS] # 0}
        sec(i) == t[i].cfg[PCI_SECONDARY_BUS]
        sub(i) == t[i].cfg[PCI_SUB_SEC_BUS]
    IN  /\ \A b \in Configured :
              /\ t[b].cfg[PCI_PRIMARY_BUS] = test_pci_node_bus(t, b)
              /\ test_pci_node_bus(t, b) < sec(b) /\ sec(b) <= sub(b)
              /\ \A c \in Configured \ {b} :
                    IF b \in Ancestors(c)
                    THEN sec(b) < sec(c) /\ sub(c) <= sub(b)
                    ELSE c \in Ancestors(b)
                         \/ Disjoint(sec(b), sub(b), sec(c), sub(c))
        /\ \A bus \in 0..info.curr_bus_number : BusWalk(t, 0, bus) # "abort"

\* Node i is in a slot pci_enum_bus visits.
Scanned(i) ==
    /\ t[i].dev < NumDevs /\ t[i].func < NumFuncs
    /\ \/ t[i].func = 0
       \/ \E j \in DOMAIN t :
             /\ t[j].parent_bus = t[i].parent_bus
             /\ t[j].dev = t[i].dev /\ t[j].func = 0
             /\ t[j].cfg[PCI_HEADER_TYPE_OFFSET] >= PCI_HEADER_TYPE_MULTIFUNC_MASK

(***************************************************************************)
(* The probe protocol tells the truth.  When the walk is over, every BAR   *)
(* a reachable, visited endpoint implements has been through               *)
(* pci_program_bar with an outcome that fits the device: programmed, or    *)
(* refused for lack of space or for an upper half that is not all-ones;    *)
(* never "unimplemented", which is what the mock answers when the lower    *)
(* half of a 64-bit pair is read before the upper half is in probe mode.   *)
(* The width reported to the caller is the width of the device's BAR, so   *)
(* the upper slot of a pair is never probed as a BAR of its own.           *)
(***************************************************************************)
ProbeTellsTheTruth ==
    pc = "done" =>
        \A i \in DOMAIN t :
            ~t[i].is_bridge /\ Routable(i) /\ Scanned(i) =>
                \A bar \in 0..(TEST_PCI_MAX_BARS - 1) :
                    LET calls == {l \in log : l.node = i /\ l.bar = bar}
                    IN  IF t[i].bars[bar].size > 0
                        THEN \E l \in calls :
                                /\ l.outcome \in {"programmed", "no_space",
                                                  "upper_mismatch"}
                                /\ l.is_64bit = t[i].bars[bar].is_64bit
                                /\ (l.outcome = "upper_mismatch") =
                                      (/\ t[i].bars[bar].is_64bit
                                       /\ t[i].bars[bar].upper_mask # 0
                                       /\ t[i].bars[bar].upper_mask # ALL_ONES)
                        ELSE \A l \in calls :
                                /\ l.outcome = "unimplemented"
                                /\ ~Is64Upper(t[i], bar)

(***************************************************************************)
(* Between two calls no BAR is left in probe mode: every all-ones write of *)
(* pci_program_bar is followed, on every path, by a write that ends the    *)
(* probe (bar_probed of mmio_write32), and the upper register of a         *)
(* programmed 64-bit pair reads zero.  A BAR left in probe mode would make *)
(* the next probe of its pair report a size without the two-phase          *)
(* handshake.                                                              *)
(***************************************************************************)
NoBarLeftInProbeMode ==
    /\ \A i \in DOMAIN t : \A bar \in DOMAIN t[i].bar_probed :
          ~t[i].bar_probed[bar]
    /\ \A a \in LiveBars :
          t[a.node].bars[a.bar].is_64bit =>
              t[a.node].cfg[BarOff(a.bar) + 4] = 0

(***************************************************************************)
(* A call that fails, or finds nothing to do, leaves no trace (rollback    *)
(* completeness of spec.md section 8, for the registers of the function    *)
(* the call was made for).  A pci_program_bar that does not program leaves *)
(* the whole hardware state and every cursor as they were before the       *)
(* call.  A pci_program_bridge that fails, before or after the descent,    *)
(* leaves the bridge's register file and all four cursors, the bus number  *)
(* included, as they were when the call was entered, however much the      *)
(* subtree consumed in between.                                            *)
(***************************************************************************)
FailedCallLeavesNoTrace ==
    [][\A l \in log' \ log :
          /\ l.outcome \in {"unimplemented", "upper_mismatch", "no_space",
                            "bridge_no_space"}
                => t' = t /\ info' = info
          /\ l.outcome = "bridge_rollback"
                => /\ info' = Last(saved).info
                   /\ t'[l.node].cfg = Last(saved).hw[l.node].cfg]_vars

(***************************************************************************)
(* Monotonicity (spec.md section 8): in a step that is not the rollback of *)
(* a bridge no cursor moves backwards and no limit changes; the bus number *)
(* grows by at most one, and only in the step that enters a bridge.        *)
(***************************************************************************)
CursorsOnlyAdvance ==
    [][(\A l \in log' \ log : l.outcome # "bridge_rollback") =>
          /\ \A p \in PoolNames : info'[p] >= info[p]
          /\ info'.curr_bus_number \in
                {info.curr_bus_number, info.curr_bus_number + 1}
          /\ info'.curr_bus_number # info.curr_bus_number
                => Len(stack') > Len(stack)
          /\ <<info'.mem_limit, info'.mem_pf_limit>> =
                <<info.mem_limit, info.mem_pf_limit>>]_vars

(***************************************************************************)
(* The walk ends: pci_enum_do returns for every topology, whatever fails   *)
(* on the way.                                                             *)
(***************************************************************************)
WalkTerminates == <>(pc = "done")
=============================================================================
