------------------------------ MODULE MCWfsTree ------------------------------
(***************************************************************************)
(* Leaves of two entries and internal nodes of three: five keys reach the  *)
(* split of a root, a split below a root, and a full parent.  Two states   *)
(* that differ only in blocks no kept tree reaches have the same future,   *)
(* since nothing reads such a block: View leaves those blocks out.         *)
(***************************************************************************)
EXTENDS WfsTree

View ==
    <<Restrict(store.disk, BlocksOf(store.tree) \cup BlocksOf(snapshot.tree)),
      store.tree, store.next, result, errors, snapshot>>
=============================================================================
