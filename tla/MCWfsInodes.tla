----------------------------- MODULE MCWfsInodes -----------------------------
(***************************************************************************)
(* With as many inodes as a leaf holds the tree never grows beyond its     *)
(* root; one inode more and it does.                                       *)
(***************************************************************************)
EXTENDS WfsInodes

(* Nothing looks into what an inode holds. *)
ValueSymmetry == Permutations(Values)
=============================================================================
