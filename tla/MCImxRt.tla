------------------------------ MODULE MCImxRt ------------------------------
(***************************************************************************)
(* ImxRt for TLC.  A page is two cells and a sector two pages; the flash   *)
(* of the 1064 has two sectors, that of the other processors four, and it  *)
(* is mapped one sector, or two, above address 0.  A caller writes at the  *)
(* start of the flash, at its second page and at the last page of the      *)
(* second sector, up to two pages with or without a cell more or less, and *)
(* erases a sector, a part of one, or two.                                 *)
(***************************************************************************)
EXTENDS ImxRt

MCData == {"new"}

MCWriteCalls ==
    [address : {0, 2, 6}, data : MCData, len : {0, 1, 3, 4}]

MCEraseCalls ==
    [address : {0, 4}, len : {1, 4, 8}]
=============================================================================
