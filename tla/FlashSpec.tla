------------------------------ MODULE FlashSpec ------------------------------
(***************************************************************************)
(* What the flash functions of the HAL promise their caller                *)
(* (hal/flash/stm32_flash.h): hal_flash_write puts len bytes of the buffer *)
(* at address, changes nothing else and returns 0; hal_flash_erase erases  *)
(* the pages of the range and nothing else and returns 0, or -1 for an     *)
(* empty range; hal_flash_unlock and hal_flash_lock open and close the     *)
(* array for both, and a write or an erasure of a closed array returns     *)
(* the same and changes nothing.  A call is two steps, the call and the    *)
(* return, and the array changes at the return.                            *)
(***************************************************************************)
EXTENDS Integers

CONSTANTS
    Addrs,        \* the addresses of the array
    PageSize,     \* bytes per page
    Erased,       \* the value of an erased byte
    Requests,     \* the calls: [op, address, len] for "write" and "erase",
                  \* [op] for "lock" and "unlock"
    Data(_)       \* the buffer of a write of the given length

VARIABLES
    mem,      \* the array
    locked,   \* whether the array is closed to writing and erasing
    op,       \* the call in progress, or None
    result    \* the value the last call returned

None == [op |-> "none"]

\* The addresses a write fills.
Written(r) == r.address..(r.address + r.len - 1)

\* The addresses of the pages that hold an address of the range.
Pages(r) ==
    {a \in Addrs : /\ r.len > 0
                   /\ a \div PageSize >= r.address \div PageSize
                   /\ a \div PageSize <= (r.address + r.len - 1) \div PageSize}

\* The array after the call.
After(r) ==
    [a \in Addrs |->
        CASE locked                             -> mem[a]
          [] r.op = "write" /\ a \in Written(r) -> Data(r.len)[a - r.address]
          [] r.op = "erase" /\ a \in Pages(r)   -> Erased
          [] OTHER                              -> mem[a]]

\* The value the call returns; hal_flash_lock and hal_flash_unlock return
\* nothing.
Returned(r) ==
    CASE r.op = "write" -> 0
      [] r.op = "erase" -> IF r.len = 0 THEN -1 ELSE 0
      [] OTHER          -> result

Call ==
    /\ op = None
    /\ op' \in Requests
    /\ UNCHANGED <<mem, locked, result>>

Return ==
    /\ op # None
    /\ op' = None
    /\ result' = Returned(op)
    /\ locked' = CASE op.op = "lock" -> TRUE
                   [] op.op = "unlock" -> FALSE
                   [] OTHER -> locked
    /\ mem' = After(op)

Init ==
    /\ mem \in [Addrs -> 0..255]
    /\ locked = TRUE
    /\ op = None
    /\ result = 0

Next == Call \/ Return

Spec == Init /\ [][Next]_<<mem, locked, op, result>>
=============================================================================
