--------------------------- MODULE MCPhysAllocator ---------------------------
(***************************************************************************)
(* Four words of two pages.  The managed range starts in the middle of the *)
(* second word and runs past the end of the bitmap, so that pages 3 to 7   *)
(* are managed, and words of no, one and two managed pages are searched.   *)
(***************************************************************************)
EXTENDS PhysAllocator, TLC

Symmetry == Permutations(Owners)
=============================================================================
