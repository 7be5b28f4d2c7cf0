----------------------------- MODULE RiscvBoot -----------------------------
(***************************************************************************)
(* The start of the two programs of a RISC-V target: the boot loader,      *)
(* whose _reset and do_boot are in src/boot_riscv64.c and whose HAL is     *)
(* hal/mpfs250.c, and the test application it starts, whose _reset is in   *)
(* test-app/startup_riscv.c.                                               *)
(*                                                                         *)
(* Each _reset sets gp, sp and mtvec, copies .data from where it is stored *)
(* and clears .bss, a word at a time (64 bits in the boot loader, 32 in    *)
(* the application), and calls main.  The application first sends "!\r\n"  *)
(* through the transmitter of UART0, which works beside the processor.     *)
(* The linker symbols of a program are the record `build` holds for it;    *)
(* memory is a function of byte addresses, and a byte holds 0 or a value   *)
(* that tells where it came from.  main of the boot loader is not part of  *)
(* these files: it makes HAL calls and then starts the application,        *)
(* reboots or returns.                                                     *)
(***************************************************************************)
EXTENDS Mpfs250, Integers, Sequences, SequencesExt

CONSTANTS
    BootLayouts,   \* the linker symbols the boot loader may be built with
    AppLayouts,    \* the linker symbols the application may be built with
    AppOffset,     \* the address main passes to do_boot
    MemSize        \* bound: the bytes of memory

VARIABLES
    build,     \* [wolfboot, app]: the linker symbols of the two programs
    image,     \* the program that runs
    pc,        \* where it is
    gp, sp,    \* global pointer and stack pointer
    mtvec,     \* machine trap vector: base address and mode
    src, dst,  \* the registers of the two loops
    mem,       \* memory
    atReset,   \* history: memory when the program that runs was entered
    thr,       \* UART0: the transmit holding register, or Empty
    sent       \* history: what UART0 has put on the line

vars == <<build, image, pc, gp, sp, mtvec, src, dst, mem, atReset, thr, sent,
          ret, ncalls>>

Addr == 0..(MemSize - 1)

Empty == "empty"

\* "!\r\n"
Banner == <<"!", "CR", "LF">>

\* register uint64_t *src, *dst of boot_riscv64.c, uint32_t of the test
\* application.
WordSize == [wolfboot |-> 8, app |-> 4]

Symbols == build[image]

-----------------------------------------------------------------------------
(* The steps of _reset *)

At(label, next) ==
    /\ pc = label
    /\ pc' = next
    /\ UNCHANGED <<build, image, atReset, sent, ret, ncalls>>

\* la gp, _global_pointer
SetGp(next) ==
    /\ At("gp", next)
    /\ gp' = Symbols.global_pointer
    /\ UNCHANGED <<sp, mtvec, src, dst, mem, thr>>

\* la sp, _end_stack
SetSp(next) ==
    /\ At("sp", next)
    /\ sp' = Symbols.end_stack
    /\ UNCHANGED <<gp, mtvec, src, dst, mem, thr>>

\* csrw mtvec with (uint8_t *)&_start_vector + 1: vectored mode
SetMtvec(next) ==
    /\ At("mtvec", next)
    /\ mtvec' = Symbols.start_vector + 1
    /\ src' = Symbols.stored_data
    /\ dst' = Symbols.start_data
    /\ UNCHANGED <<gp, sp, mem, thr>>

\* Faulty variant: the loop runs while dst <= end.
Before_Inclusive(end) == dst <= end

\* dst < (uint64_t *)&_end_data
Before(end) == dst < end

\* Faulty variant: the pointer is not moved on.
NextWord_Stuck(p) == p

\* dst++, src++
NextWord(p) == p + WordSize[image]

WordAt(p) == p..(p + WordSize[image] - 1)

\* Copy the .data section from flash to RAM
CopyData(next) ==
    /\ UNCHANGED <<gp, sp, mtvec, thr>>
    /\ \/ /\ Before(Symbols.end_data)
          /\ At("copy", "copy")
          /\ mem' = [a \in Addr |->
                        IF a \in WordAt(dst) THEN mem[src + (a - dst)] ELSE mem[a]]
          /\ dst' = NextWord(dst)
          /\ src' = NextWord(src)
       \/ /\ ~Before(Symbols.end_data)
          /\ At("copy", next)
          /\ dst' = Symbols.start_bss
          /\ UNCHANGED <<src, mem>>

\* Initialize the BSS section to 0
ZeroBss(next) ==
    /\ UNCHANGED <<gp, sp, mtvec, src, thr>>
    /\ \/ /\ Before(Symbols.end_bss)
          /\ At("bss", "bss")
          /\ mem' = [a \in Addr |-> IF a \in WordAt(dst) THEN 0 ELSE mem[a]]
          /\ dst' = NextWord(dst)
       \/ /\ ~Before(Symbols.end_bss)
          /\ At("bss", next)
          /\ UNCHANGED <<dst, mem>>

-----------------------------------------------------------------------------
(* src/boot_riscv64.c *)

Boot_reset ==
    /\ image = "wolfboot"
    /\ \/ SetGp("sp") \/ SetSp("mtvec") \/ SetMtvec("copy")
       \/ CopyData("bss") \/ ZeroBss("main")

\* main of the boot loader calls the HAL.
Main ==
    /\ image = "wolfboot"
    /\ pc = "main"
    /\ HalCall
    /\ UNCHANGED <<build, image, pc, gp, sp, mtvec, src, dst, mem, atReset,
                   thr, sent>>

\* main returned: wolfBoot_panic
MainReturns ==
    /\ image = "wolfboot"
    /\ At("main", "panic")
    /\ UNCHANGED <<gp, sp, mtvec, src, dst, mem, thr>>

\* csrw mtvec with address + 1, address a const uint32_t *
reloc_iv(address) == mtvec' = address + 4

\* Relocate the interrupt vector, jump to the application.
do_boot ==
    /\ image = "wolfboot"
    /\ pc = "main"
    /\ reloc_iv(AppOffset)
    /\ image' = "app"
    /\ pc' = "gp"
    /\ atReset' = mem
    /\ UNCHANGED <<build, gp, sp, src, dst, mem, thr, sent, ret, ncalls>>

\* RAM_CODE: while(1)
arch_reboot ==
    /\ image = "wolfboot"
    /\ At("main", "reboot")
    /\ UNCHANGED <<gp, sp, mtvec, src, dst, mem, thr>>

-----------------------------------------------------------------------------
(* test-app/startup_riscv.c *)

\* Faulty variant: the store does not wait for the transmitter.
THRE_NoWait == TRUE

\* lbu a1, 0x14(a0); andi a1, a1, 0x20; beqz a1, 1b
THRE == thr = Empty

\* The character a label of the banner sends, and the label after it.
BannerStep == [tx1 |-> <<1, "tx2">>, tx2 |-> <<2, "tx3">>, tx3 |-> <<3, "mtvec">>]

\* sb a2, 0x100(a0), once the holding register is empty
PutChar ==
    /\ pc \in DOMAIN BannerStep
    /\ THRE
    /\ thr' = Banner[BannerStep[pc][1]]
    /\ At(pc, BannerStep[pc][2])
    /\ UNCHANGED <<gp, sp, mtvec, src, dst, mem>>

\* main returned: while(1)
AppReturns ==
    /\ At("main", "spin")
    /\ UNCHANGED <<gp, sp, mtvec, src, dst, mem, thr>>

App_reset ==
    /\ image = "app"
    /\ \/ SetGp("sp") \/ SetSp("tx1") \/ PutChar \/ SetMtvec("copy")
       \/ CopyData("bss") \/ ZeroBss("main") \/ AppReturns

-----------------------------------------------------------------------------
(* What runs beside the processor, and the whole *)

\* UART0 is not part of the sources.  It is taken to move the character of
\* its holding register to the line and to report the register empty then.
Transmit ==
    /\ thr # Empty
    /\ sent' = Append(sent, thr)
    /\ thr' = Empty
    /\ UNCHANGED <<build, image, pc, gp, sp, mtvec, src, dst, mem, atReset,
                   ret, ncalls>>

\* The processor goes round an empty loop.
Spin ==
    /\ pc \in {"panic", "reboot", "spin"}
    /\ UNCHANGED vars

Init ==
    /\ build \in [wolfboot : BootLayouts, app : AppLayouts]
    /\ image = "wolfboot"
    /\ pc = "gp"
    /\ gp = 0 /\ sp = 0 /\ mtvec = 0 /\ src = 0 /\ dst = 0
    /\ mem = [a \in Addr |-> a + 1]
    /\ atReset = mem
    /\ thr \in {Empty, "x"}
    /\ sent = <<>>
    /\ HalInit

Cpu ==
    Boot_reset \/ Main \/ MainReturns \/ do_boot \/ arch_reboot \/ App_reset

Next == Cpu \/ Transmit \/ Spin

\* The processor executes its next instruction; the transmitter sends what
\* it holds.
Fairness == WF_vars(Cpu) /\ WF_vars(Transmit)

Spec == Init /\ [][Next]_vars /\ Fairness

-----------------------------------------------------------------------------
(* Properties *)

Labels ==
    {"gp", "sp", "tx1", "tx2", "tx3", "mtvec", "copy", "bss", "main", "panic",
     "reboot", "spin"}

Layout ==
    [stored_data : Addr, start_data : Addr, end_data : 0..MemSize,
     start_bss : 0..MemSize, end_bss : 0..MemSize, end_stack : Addr,
     global_pointer : Addr, start_vector : Addr]

\* The state is well-formed: the pointers of _reset stay in memory, UART0
\* has sent no more than what it held at reset and the banner, and a HAL
\* call of main returned a status mpfs250.c has.
TypeOK ==
    /\ build \in [wolfboot : BootLayouts \cap Layout, app : AppLayouts \cap Layout]
    /\ image \in {"wolfboot", "app"}
    /\ pc \in Labels
    /\ {gp, sp, src, dst} \subseteq 0..MemSize
    /\ mtvec \in 0..(MemSize + 4)
    /\ mem \in [Addr -> 0..MemSize]
    /\ atReset \in [Addr -> 0..MemSize]
    /\ thr \in {Empty, "x"} \cup Range(Banner)
    /\ sent \in Seq({"x"} \cup Range(Banner))
    /\ Len(sent) <= Len(Banner) + 1
    /\ HalTypeOK

\* Where a loop over start..end stops: the end of the last word it wrote.
Reach(start, end) ==
    IF end <= start THEN start
    ELSE LET w == WordSize[image]
         IN  start + w * ((end - start + w - 1) \div w)

(***************************************************************************)
(* When _reset calls main, .data holds what was stored for it when the     *)
(* program was entered, .bss is zero, and no other byte of memory has      *)
(* changed but those between the end of a section and the end of the last  *)
(* word the loop of that section wrote.  The loops of _reset count in      *)
(* words from the start of the section and compare with its end, so a      *)
(* section whose length is not a multiple of the word is overrun, the      *)
(* .data of the boot loader by up to seven bytes; what the copy writes     *)
(* into the .bss behind it the second loop clears.                         *)
(***************************************************************************)
SectionsInitialised ==
    pc = "main" =>
        LET s    == Symbols
            data == s.start_data..(s.end_data - 1)
            bss  == s.start_bss..(s.end_bss - 1)
            over == s.end_data..(Reach(s.start_data, s.end_data) - 1)
                    \cup s.end_bss..(Reach(s.start_bss, s.end_bss) - 1)
        IN  /\ \A a \in data : mem[a] = atReset[s.stored_data + (a - s.start_data)]
            /\ \A a \in bss : mem[a] = 0
            /\ \A a \in Addr \ (data \cup bss \cup over) : mem[a] = atReset[a]

\* What has been handed to UART0, without what it held at reset.
Handed ==
    SelectSeq(sent \o (IF thr = Empty THEN <<>> ELSE <<thr>>),
              LAMBDA c : c # "x")

(***************************************************************************)
(* The banner of the test application reaches the line whole and in order: *)
(* every store to the holding register of UART0 in _reset comes after a    *)
(* read of the line status that found it empty, whatever the transmitter   *)
(* was doing when the application was entered.                             *)
(***************************************************************************)
BannerInOrder ==
    /\ IsPrefix(Handed, Banner)
    /\ image = "app" /\ pc \notin {"gp", "sp", "tx1", "tx2", "tx3"} =>
          Handed = Banner

(***************************************************************************)
(* _reset of either program reaches its main: the two loops end, because   *)
(* each round moves dst towards the end of the section, and the three      *)
(* waits for the transmitter of the application end.                       *)
(***************************************************************************)
ReachesMain ==
    \A i \in {"wolfboot", "app"} :
        (image = i /\ pc = "gp") ~> (image = i /\ pc = "main")
=============================================================================
