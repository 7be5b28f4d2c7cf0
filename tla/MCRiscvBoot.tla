---------------------------- MODULE MCRiscvBoot ----------------------------
(***************************************************************************)
(* RiscvBoot for TLC: 96 bytes of memory, flash below 48 and RAM from 48   *)
(* on.  The boot loader is at 0 with its initial data at 8, the            *)
(* application at 24 with its initial data at 32; both have their sections *)
(* at the start of RAM, so the application finds there what the boot       *)
(* loader left.  A section starts on a word of the program and ends on a   *)
(* multiple of four, .bss lies behind .data, and either may be empty.      *)
(***************************************************************************)
EXTENDS RiscvBoot

RAM == 48

RoundUp(n, align) == align * ((n + align - 1) \div align)

\* .data at start with the given length, .bss at the next multiple of align
\* behind it.
Sections(vector, stored, start, align, lengths) ==
    {[stored_data |-> stored, start_data |-> start, end_data |-> start + d,
      start_bss |-> start + RoundUp(d, align),
      end_bss |-> start + RoundUp(d, align) + b,
      end_stack |-> MemSize - 1, global_pointer |-> start,
      start_vector |-> vector] :
        d \in lengths, b \in lengths}

MCBootLayouts == Sections(0, 8, RAM, 8, {0, 4, 8, 12})

\* The application's .data is stored behind its code, or is loaded in place.
MCAppLayouts ==
    Sections(AppOffset, 32, RAM, 4, {0, 4, 8})
        \cup Sections(AppOffset, RAM, RAM, 4, {4})
=============================================================================
