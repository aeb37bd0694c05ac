--------------------------- MODULE MCBatchProcess ---------------------------
(***************************************************************************)
(* Values for BatchConnect.  First step: five items and an odd max, so     *)
(* that the items outnumber the permits and the initial permits, the ramp  *)
(* and the items compete.  Second step: no package, and more than a batch, *)
(* divisible by its size and not.                                          *)
(***************************************************************************)
EXTENDS BatchConnect

CONSTANTS i1, i2, i3, i4, i5

MCItems == {i1, i2, i3, i4, i5}
=============================================================================
