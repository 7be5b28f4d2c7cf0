---------------------------- MODULE ImageHeader ----------------------------
(***************************************************************************)
(* The search for a field of an image header, as the unit test of the      *)
(* image code carries it in tools/unit-tests/unit-image.c: _find_header,   *)
(* and wolfBoot_find_header, which the test switches between a mock and    *)
(* the search.                                                             *)
(*                                                                         *)
(* A header is IMAGE_HEADER_SIZE bytes: IMAGE_HEADER_OFFSET bytes of magic *)
(* and size, then fields of a 16-bit type, a 16-bit length (both little    *)
(* endian) and a value, with HDR_PADDING bytes between them.  The search   *)
(* is handed the address of the first field.  One step of the model is one *)
(* pass through the body of the loop.                                      *)
(*                                                                         *)
(* The first test of _find_header, p > max_p, needs an address that wraps; *)
(* it is part of the entry and no start address of the model meets it.     *)
(***************************************************************************)
EXTENDS Integers, Sequences, SequencesExt, FiniteSetsExt

CONSTANTS
    IMAGE_HEADER_SIZE,      \* bytes of a header
    IMAGE_HEADER_OFFSET,    \* bytes before the first field
    Images,                 \* the headers searched: [bytes, encoded, fields]
    Types,                  \* the types asked for
    Bases,                  \* the addresses a first field may have
    MaxCalls                \* bound: calls a test counts before it clears the count

HDR_PADDING == 255
NULL        == 0

\* The bytes the fields may take.
Room == IMAGE_HEADER_SIZE - IMAGE_HEADER_OFFSET

VARIABLES
    image,               \* the header in memory
    haystack, type,      \* the arguments of the call
    find_header_mocked,  \* the switches of the test
    find_header_fail,
    find_header_called,  \* calls counted by the mock
    pc,                  \* "idle"; "loop" and "done" of the search;
                         \* "answered" by the mock
    p,                   \* the position of the search
    ptr,                 \* *ptr, the caller's pointer to the value
    ret                  \* what the call returned

memory == <<image, haystack>>
mock   == <<find_header_mocked, find_header_fail>>
vars   == <<image, haystack, type, find_header_mocked, find_header_fail,
            find_header_called, pc, p, ptr, ret>>

-----------------------------------------------------------------------------
(* The layout of a header, as the images of the test show it *)

Low(n)  == n % 256
High(n) == n \div 256

Padding(n) == [k \in 1..n |-> HDR_PADDING]

\* A field: padding, type, length, the value, and a byte of padding where
\* the value is of odd length, so that the next field is aligned.
FieldBytes(f) ==
    Padding(f.pad) \o <<Low(f.type), High(f.type), Low(f.len), High(f.len)>>
        \o [k \in 1..f.len |-> f.value] \o Padding(f.len % 2)

Fields(fs) == FlattenSeq([k \in DOMAIN fs |-> FieldBytes(fs[k])])

\* Where field k begins, counted from the first field.
FieldAt(fs, k) == Len(Fields(SubSeq(fs, 1, k - 1))) + fs[k].pad

\* The header of the fields fs, filled to its end.
Encode(fs, fill) ==
    [bytes   |-> Fields(fs) \o [k \in 1..(Room - Len(Fields(fs))) |-> fill],
     encoded |-> TRUE,
     fields  |-> fs]

-----------------------------------------------------------------------------
(* _find_header *)

Uint16_Signed(n) == n

Uint16(n) == n % 65536

max_p == (haystack - IMAGE_HEADER_OFFSET) + IMAGE_HEADER_SIZE

Byte(k) == image.bytes[(p + k) - haystack + 1]

HalfWord(k) == Byte(k) + 256 * Byte(k + 1)

len == HalfWord(2)

InLoop == pc = "loop" /\ p + 4 < max_p

EndOfOptions == Byte(0) = 0 /\ Byte(1) = 0

IsPadding == Byte(0) = HDR_PADDING

Unaligned == p % 2 # 0

TooLarge == 4 + len > Uint16(IMAGE_HEADER_SIZE - IMAGE_HEADER_OFFSET)

Overflows_Never == FALSE

Overflows == p + 4 + len > max_p

Skip_Stays(q) == q

Skip(q) == q + 1

FieldEnd_NoHeader == p + len

FieldEnd == p + 4 + len

Return(value) ==
    /\ pc' = "done"
    /\ ret' = value
    /\ UNCHANGED <<memory, type, mock, find_header_called, p>>

Continue(q) ==
    /\ p' = q
    /\ UNCHANGED <<memory, type, mock, find_header_called, pc, ptr, ret>>

\* A field is looked at: the loop goes on, this is not the end of the
\* options, not padding, and the address is even.
AtField == InLoop /\ ~EndOfOptions /\ ~IsPadding /\ ~Unaligned

LoopEnds == pc = "loop" /\ ~InLoop /\ Return(0) /\ UNCHANGED ptr

ExplicitEnd == InLoop /\ EndOfOptions /\ Return(0) /\ UNCHANGED ptr

SkipPadding == InLoop /\ ~EndOfOptions /\ IsPadding /\ Continue(Skip(p))

SkipUnaligned ==
    InLoop /\ ~EndOfOptions /\ ~IsPadding /\ Unaligned /\ Continue(Skip(p))

FieldTooLarge == AtField /\ TooLarge /\ Return(0) /\ UNCHANGED ptr

FieldOverflows ==
    AtField /\ ~TooLarge /\ Overflows /\ Return(0) /\ UNCHANGED ptr

FieldFound ==
    /\ AtField /\ ~TooLarge /\ ~Overflows
    /\ HalfWord(0) = type
    /\ ptr' = p + 4
    /\ Return(len)

NextField ==
    /\ AtField /\ ~TooLarge /\ ~Overflows
    /\ HalfWord(0) # type
    /\ Continue(FieldEnd)

_find_header ==
    \/ LoopEnds \/ ExplicitEnd \/ SkipPadding \/ SkipUnaligned
    \/ FieldTooLarge \/ FieldOverflows \/ FieldFound \/ NextField

-----------------------------------------------------------------------------
(* wolfBoot_find_header, and the test that sets its switches *)

AtRest == {"idle", "answered", "done"}

\* The mock answers -1, which the return type makes 0xFFFF, or the size of
\* a version field, and leaves *ptr as it was.
Mocked ==
    /\ find_header_mocked
    /\ pc' = "answered"
    /\ ret' = IF find_header_fail THEN Uint16(-1) ELSE 2
    /\ UNCHANGED <<p, ptr>>

\* The entry of _find_header.
Search ==
    /\ ~find_header_mocked
    /\ p' = haystack'
    /\ ptr' = NULL
    /\ IF haystack' > (haystack' - IMAGE_HEADER_OFFSET) + IMAGE_HEADER_SIZE
          THEN pc' = "done" /\ ret' = 0
          ELSE pc' = "loop" /\ UNCHANGED ret

wolfBoot_find_header ==
    /\ pc \in AtRest
    /\ find_header_called < MaxCalls
    /\ find_header_called' = find_header_called + 1
    /\ UNCHANGED <<memory, type, mock>>
    /\ Mocked \/ Search

\* Between two calls a test sets the switches and may clear the count.
SetSwitches ==
    /\ pc \in AtRest
    /\ find_header_mocked' \in BOOLEAN
    /\ find_header_fail' \in BOOLEAN
    /\ find_header_called' \in {0, find_header_called}
    /\ <<mock, find_header_called>>' # <<mock, find_header_called>>
    /\ UNCHANGED <<memory, type, pc, p, ptr, ret>>

-----------------------------------------------------------------------------
Init ==
    /\ image \in Images
    /\ haystack \in Bases
    /\ type \in Types
    /\ find_header_mocked = TRUE
    /\ find_header_fail = FALSE
    /\ find_header_called = 0
    /\ pc = "idle"
    /\ p = haystack
    /\ ptr = NULL
    /\ ret = 0

Next == wolfBoot_find_header \/ SetSwitches \/ _find_header

Spec == Init /\ [][Next]_vars /\ WF_vars(_find_header)

-----------------------------------------------------------------------------
(* Properties *)

\* The state is well-formed; what a call returns is a uint16_t, also where
\* the mock of wolfBoot_find_header returns -1.
TypeOK ==
    /\ image.bytes \in [1..Room -> 0..255]
    /\ haystack \in Bases
    /\ type \in Types
    /\ find_header_mocked \in BOOLEAN
    /\ find_header_fail \in BOOLEAN
    /\ find_header_called \in 0..MaxCalls
    /\ pc \in AtRest \cup {"loop"}
    /\ p \in haystack..max_p
    /\ ptr \in {NULL} \cup (haystack..max_p)
    /\ ret \in 0..65535

\* The value _find_header hands out lies inside the header: whatever bytes
\* the header holds, from *ptr on there are ret bytes before max_p, and
\* they come after the four bytes of a field's type and length.
FieldWithinHeader ==
    (pc = "done" /\ ptr # NULL) =>
        /\ haystack + 4 <= ptr
        /\ ptr + ret <= max_p

\* What the search of a well-formed header at an even address must find:
\* the first field of the type whose type and length the loop of
\* _find_header reaches, or nothing.
Expected ==
    LET fs == image.fields
        examined == {k \in DOMAIN fs : FieldAt(fs, k) + 4 < Room}
        asked == {k \in examined : fs[k].type = type}
    IN  IF asked = {}
           THEN [ret |-> 0, ptr |-> NULL]
           ELSE [ret |-> fs[Min(asked)].len,
                 ptr |-> haystack + FieldAt(fs, Min(asked)) + 4]

\* _find_header reads back what the layout of the header says: of a header
\* made of aligned fields and padding, at an even address, it returns the
\* length and the place of the value of the first field of the type, and 0
\* and NULL when there is none, whatever bytes the values hold.
FindsEncodedFields ==
    (pc = "done" /\ image.encoded /\ haystack % 2 = 0)
        => [ret |-> ret, ptr |-> ptr] = Expected

\* The loop of _find_header ends on every header: each pass either returns
\* or moves p towards max_p.
SearchEnds == (pc = "loop") ~> (pc = "done")
=============================================================================
