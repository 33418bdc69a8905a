--------------------------- MODULE MCWfsTransaction ---------------------------
(* Two inodes, and a new value for one is enough to tell versions apart. *)
EXTENDS WfsTransaction
=============================================================================
