--------------------------- MODULE MCImageHeader ---------------------------
(***************************************************************************)
(* A small instance of ImageHeader: a header of 14 bytes, 2 of them before *)
(* the first field, so that 12 bytes hold fields.  The headers searched    *)
(* are                                                                     *)
(*   - every header of up to two aligned fields of the types 1 and 2, with *)
(*     values of 0 to 2 bytes that are all 0x00 or all 0xff (the bytes the *)
(*     loop treats specially), no or two bytes of padding before a field,  *)
(*     and the rest of the header filled with 0xff or with 0x00;           *)
(*   - every header whose first 5 bytes are any of 0, 1, 8 and 0xff,       *)
(*     followed by padding: lengths that are too large (0xff), a field     *)
(*     that ends with the header and one that runs over its end (8, at the *)
(*     even and at the odd address), types in odd places.                  *)
(* The first field is at an even or at an odd address.                     *)
(***************************************************************************)
EXTENDS ImageHeader

MCTypes == {1, 2}

Field == [type : MCTypes, len : 0..2, value : {0, HDR_PADDING}, pad : {0, 2}]

FieldLists == {fs \in BoundedSeq(Field, 2) : Len(Fields(fs)) <= Room}

Encoded == {Encode(fs, fill) : fs \in FieldLists, fill \in {0, HDR_PADDING}}

Raw ==
    {[bytes |-> head \o Padding(Room - 5), encoded |-> FALSE, fields |-> <<>>] :
        head \in [1..5 -> {0, 1, 8, HDR_PADDING}]}

MCImages == Encoded \cup Raw

MCBases == {16, 17}
=============================================================================
