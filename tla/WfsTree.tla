------------------------------- MODULE WfsTree -------------------------------
(***************************************************************************)
(* The copy-on-write B+tree of WFS (crates/storage/wfs/src/core/tree.rs).  *)
(*                                                                         *)
(* A node is [level, kv]: kv maps the keys of a leaf to values and those   *)
(* of an internal node to child blocks.  The code keeps the entries in an  *)
(* array sorted by key; the order is the order of the keys themselves, so  *)
(* binary search and shifting are the function's application and update.   *)
(* Generation numbers are written into nodes and never read back, and are  *)
(* left out.  Checksums are right for every block that was written whole.  *)
(*                                                                         *)
(* An operation works on a store [disk, tree, next]: the blocks written so *)
(* far, the in-memory BPlusTree, and the allocator, which hands out block  *)
(* numbers in increasing order and takes none back (free_block does        *)
(* nothing in mkfs.wfs and in the VFS adapter).  Allocation and device     *)
(* writes may fail at any call, so that an operation yields a set of       *)
(* outcomes [store, result].                                               *)
(***************************************************************************)
EXTENDS Integers, Sequences, FiniteSetsExt, Functions, TLC

CONSTANTS
    Keys,          \* the keys in use: numbers, as in the code (u64)
    Values,
    MaxLeaf,       \* LeafNode::max_entries()
    MaxInternal,   \* MAX_INTERNAL_ENTRIES
    FirstBlock,    \* first block the allocator hands out
    MaxBlock,      \* bound: operations start only while next <= MaxBlock
    MaxErrors      \* bound: device and allocator errors in a behaviour

ASSUME TreeAssumption ==
    /\ Keys \subseteq Nat
    /\ MaxLeaf \in Nat /\ MaxLeaf >= 2
    /\ MaxInternal \in Nat /\ MaxInternal >= 2
    /\ FirstBlock \in Nat \ {0}

Put(f, k, v) == (k :> v) @@ f
Keep(f, S) == [k \in S |-> f[k]] @@ <<>>   \* as an explicit function

Leaf(kv) == [level |-> 0, kv |-> kv]

EmptyTree == [root |-> 0, height |-> 0]
IsEmpty(tree) == tree.root = 0

-----------------------------------------------------------------------------
(* Searching *)

(* Mutant: find_child takes the last key below k. *)
ChildKeyStrict(node, k) ==
    LET below == {j \in DOMAIN node.kv : j < k}
    IN  IF below # {} THEN Max(below) ELSE Min(DOMAIN node.kv)

(* InternalNode::find_child: the last entry whose key is at most k, or the *)
(* first entry when every key is greater.                                  *)
ChildKey(node, k) ==
    LET atMost == {j \in DOMAIN node.kv : j <= k}
    IN  IF atMost # {} THEN Max(atMost) ELSE Min(DOMAIN node.kv)

(* The blocks search visits: at[tree.height] is the root, at[0] the leaf.  *)
PathTo(disk, tree, k) ==
    LET at[l \in 0 .. tree.height] ==
          IF l = tree.height THEN tree.root
          ELSE disk[at[l + 1]].kv[ChildKey(disk[at[l + 1]], k)]
    IN  at

(* search goes down tree.height levels and takes what it finds there for a *)
(* leaf.  An internal node read as a leaf is taken to show no key of the   *)
(* tree.  In the code its bytes are parsed as leaf entries, so that a key  *)
(* of the node, the 0 of its first entry above all, could seem to be       *)
(* there; no property depends on what such a search returns, only on that  *)
(* it is not the leaf it should be.                                        *)
LeafEntries(node) == IF node.level = 0 THEN node.kv ELSE <<>>

LeafFor(disk, tree, k) == LeafEntries(disk[PathTo(disk, tree, k)[0]])

Found(disk, tree, k) ==
    ~IsEmpty(tree) /\ k \in DOMAIN LeafFor(disk, tree, k)

(* All that lookups can see of a tree. *)
Contents(disk, tree) ==
    [k \in {j \in Keys : Found(disk, tree, j)} |-> LeafFor(disk, tree, k)[k]]

-----------------------------------------------------------------------------
(* Writing: an operation writes the nodes ws, in order, to fresh blocks,   *)
(* and sets the tree only after the last write.                            *)

Wrote(s, ws, n) ==
    [b \in s.next .. s.next + n - 1 |-> ws[b - s.next + 1]] @@ s.disk

(* Mutant: the allocator does not count the last block as taken. *)
DoneReusesBlock(s, ws, tree) ==
    [store  |-> [disk |-> Wrote(s, ws, Len(ws)),
                 tree |-> tree,
                 next |-> s.next + Len(ws) - 1],
     result |-> "Ok"]

(* The operation wrote all its nodes and reports success. *)
Done(s, ws, tree) ==
    [store  |-> [disk |-> Wrote(s, ws, Len(ws)),
                 tree |-> tree,
                 next |-> s.next + Len(ws)],
     result |-> "Ok"]

(* All nodes are written but the operation reports an error. *)
GaveUp(s, ws, error) ==
    [store  |-> [disk |-> Wrote(s, ws, Len(ws)),
                 tree |-> s.tree,
                 next |-> s.next + Len(ws)],
     result |-> error]

(* A read, an allocation or a write fails: n nodes are written, and a      *)
(* blocks taken.  The blocks of the first few nodes are allocated before   *)
(* any is written; after that each node's block just before the node.      *)
IoErrors(s, ws, first) ==
    {[store  |-> [disk |-> Wrote(s, ws, p[1]), tree |-> s.tree, next |-> s.next + p[2]],
      result |-> "IoError"] :
        p \in {<<n, a>> \in (0 .. Len(ws) - 1) \X (0 .. Len(ws)) :
                 IF n < first THEN a = first \/ (n = 0 /\ a < first)
                              ELSE a \in {n, n + 1}}}

(* Nothing is written; reading the path may also fail. *)
Refused(s, error) == {[store |-> s, result |-> r] : r \in {error, "IoError"}}

(* propagate_cow: copies of the internal nodes of the path from level up,  *)
(* each pointing to the block the copy below it was just written to; child *)
(* is the block of the first one's child, the copies follow from first on. *)
ParentCopies(s, k, at, level, child, first) ==
    [i \in 1 .. s.tree.height - level + 1 |->
        LET node == s.disk[at[level + i - 1]]
        IN  [node EXCEPT !.kv[ChildKey(node, k)] =
                IF i = 1 THEN child ELSE first + i - 2]]

(* Mutant: a leaf that is the root is written back in place. *)
ReplaceLeafInPlace(s, k, node) ==
    LET at == PathTo(s.disk, s.tree, k)
        ws == <<node>> \o ParentCopies(s, k, at, 1, s.next, s.next + 1)
    IN  IF s.tree.height = 0
          THEN {[store  |-> [s EXCEPT !.disk = Put(@, s.tree.root, node)],
                 result |-> "Ok"]}
          ELSE {Done(s, ws, [s.tree EXCEPT !.root = s.next + Len(ws) - 1])}

(* The leaf for k is replaced by node. *)
ReplaceLeaf(s, k, node) ==
    LET at == PathTo(s.disk, s.tree, k)
        ws == <<node>> \o ParentCopies(s, k, at, 1, s.next, s.next + 1)
    IN  {Done(s, ws, [s.tree EXCEPT !.root = s.next + Len(ws) - 1])}
          \cup IoErrors(s, ws, 1)

(* Mutant: the left node is truncated one entry too early. *)
SplitLeafShort(kv, k, v) ==
    LET mid == Cardinality(DOMAIN kv) \div 2
        rank(j) == Cardinality({i \in DOMAIN kv : i < j})
        left == Keep(kv, {j \in DOMAIN kv : rank(j) < mid - 1})
        right == Keep(kv, {j \in DOMAIN kv : rank(j) >= mid})
    IN  IF k < Min(DOMAIN right) THEN <<Put(left, k, v), right>>
                                 ELSE <<left, Put(right, k, v)>>

(* split_leaf: the upper half moves to the right node, and the new entry   *)
(* goes to the side its key belongs to.                                    *)
SplitLeaf(kv, k, v) ==
    LET mid == Cardinality(DOMAIN kv) \div 2
        low == {j \in DOMAIN kv : Cardinality({i \in DOMAIN kv : i < j}) < mid}
        left == Keep(kv, low)
        right == Keep(kv, DOMAIN kv \ low)
    IN  IF k < Min(DOMAIN right) THEN <<Put(left, k, v), right>>
                                 ELSE <<left, Put(right, k, v)>>

(* Mutant: the height is not raised when the root splits. *)
InsertWithSplitFlat(s, k, v) ==
    LET halves == SplitLeaf(s.disk[PathTo(s.disk, s.tree, k)[0]].kv, k, v)
        root == [level |-> 1,
                 kv |-> (0 :> s.next) @@ (Min(DOMAIN halves[2]) :> s.next + 1)]
    IN  {Done(s, <<Leaf(halves[1]), Leaf(halves[2]), root>>,
              [s.tree EXCEPT !.root = s.next + 2])}

(* insert_with_split and propagate_split. *)
InsertWithSplit(s, k, v) ==
    LET at == PathTo(s.disk, s.tree, k)
        halves == SplitLeaf(s.disk[at[0]].kv, k, v)
        leaves == <<Leaf(halves[1]), Leaf(halves[2])>>
        splitKey == Min(DOMAIN halves[2])
    IN  IF s.tree.height = 0
          THEN LET root == [level |-> 1,
                            kv |-> (0 :> s.next) @@ (splitKey :> s.next + 1)]
                   ws == Append(leaves, root)
               IN  {Done(s, ws, [root |-> s.next + 2, height |-> 1])}
                     \cup IoErrors(s, ws, 2)
          ELSE LET parent == s.disk[at[1]]
                   wider == [parent EXCEPT !.kv =
                                Put(Put(@, ChildKey(parent, k), s.next),
                                    splitKey, s.next + 1)]
                   ws == leaves \o <<wider>>
                           \o ParentCopies(s, k, at, 2, s.next + 2, s.next + 3)
               IN  IF Cardinality(DOMAIN parent.kv) < MaxInternal
                     THEN {Done(s, ws, [s.tree EXCEPT
                                          !.root = s.next + Len(ws) - 1])}
                            \cup IoErrors(s, ws, 2)
                     ELSE {GaveUp(s, leaves, "NodeFull")}
                            \cup IoErrors(s, leaves, 2)

(* Mutant: is_full is off by one. *)
InsertOutcomesOverfull(s, k, v) ==
    IF IsEmpty(s.tree)
      THEN {Done(s, <<Leaf(k :> v)>>, [s.tree EXCEPT !.root = s.next])}
    ELSE IF Found(s.disk, s.tree, k) THEN Refused(s, "DuplicateKey")
    ELSE LET kv == s.disk[PathTo(s.disk, s.tree, k)[0]].kv
         IN  IF Cardinality(DOMAIN kv) <= MaxLeaf
               THEN ReplaceLeaf(s, k, Leaf(Put(kv, k, v)))
               ELSE InsertWithSplit(s, k, v)

(* TreeOps::insert *)
InsertOutcomes(s, k, v) ==
    IF IsEmpty(s.tree)
      THEN {Done(s, <<Leaf(k :> v)>>, [s.tree EXCEPT !.root = s.next])}
             \cup IoErrors(s, <<Leaf(k :> v)>>, 1)
    ELSE IF Found(s.disk, s.tree, k) THEN Refused(s, "DuplicateKey")
    ELSE LET kv == s.disk[PathTo(s.disk, s.tree, k)[0]].kv
         IN  IF Cardinality(DOMAIN kv) < MaxLeaf
               THEN ReplaceLeaf(s, k, Leaf(Put(kv, k, v)))
               ELSE InsertWithSplit(s, k, v)

(* TreeOps::delete: the entry is removed; nodes are never merged. *)
DeleteOutcomes(s, k) ==
    IF IsEmpty(s.tree) THEN Refused(s, "EmptyTree")
    ELSE IF ~Found(s.disk, s.tree, k) THEN Refused(s, "KeyNotFound")
    ELSE LET kv == LeafFor(s.disk, s.tree, k)
         IN  ReplaceLeaf(s, k, Leaf(Keep(kv, DOMAIN kv \ {k})))

-----------------------------------------------------------------------------
(* One tree, used by one caller. *)
VARIABLES
    store,     \* [disk, tree, next]
    result,    \* what the last operation returned
    errors,    \* how many device or allocator errors there were
    snapshot   \* history: a tree someone kept a copy of, and its contents then

vars == <<store, result, errors, snapshot>>

Version(s) == [tree |-> s.tree, dict |-> Contents(s.disk, s.tree)]

Init ==
    /\ store = [disk |-> <<>>, tree |-> EmptyTree, next |-> FirstBlock]
    /\ result = "Ok"
    /\ errors = 0
    /\ snapshot = Version(store)

Take(outcome) ==
    /\ store' = outcome.store
    /\ result' = outcome.result
    /\ errors' = errors + (IF result' = "IoError" THEN 1 ELSE 0)
    /\ errors' <= MaxErrors
    /\ UNCHANGED snapshot

Insert(k, v) ==
    /\ store.next <= MaxBlock
    /\ \E outcome \in InsertOutcomes(store, k, v) : Take(outcome)

Delete(k) ==
    /\ store.next <= MaxBlock
    /\ \E outcome \in DeleteOutcomes(store, k) : Take(outcome)

(* A copy of the BPlusTree is kept: begin_transaction copies the root, and *)
(* the superblock holds the root of the last commit.  One copy, kept at    *)
(* any time, stands for all.                                               *)
Remember ==
    /\ IsEmpty(snapshot.tree)
    /\ snapshot' = Version(store)
    /\ UNCHANGED <<store, result, errors>>

Next ==
    \/ \E k \in Keys, v \in Values : Insert(k, v)
    \/ \E k \in Keys : Delete(k)
    \/ Remember

Spec == Init /\ [][Next]_vars

-----------------------------------------------------------------------------
dict == Contents(store.disk, store.tree)

(* The blocks of a tree: its root, and below an internal root every child *)
(* (the code never builds more than two levels).                           *)
BlocksOf(tree) ==
    IF IsEmpty(tree) THEN {}
    ELSE {tree.root} \cup
         (IF tree.height = 0 THEN {} ELSE Range(store.disk[tree.root].kv))

(* The variables have their types; every block in use was written. *)
TypeOK ==
    /\ DOMAIN store.disk \subseteq FirstBlock .. store.next - 1
    /\ \A b \in DOMAIN store.disk :
          LET node == store.disk[b]
          IN  IF node.level = 0
                THEN DOMAIN node.kv \subseteq Keys /\ Range(node.kv) \subseteq Values
                ELSE DOMAIN node.kv \subseteq Nat /\ Range(node.kv) \subseteq DOMAIN store.disk
    /\ store.tree.root \in {0} \cup DOMAIN store.disk

(***************************************************************************)
(* The tree implements the dictionary: an insert or delete that reports Ok *)
(* did exactly that, and one that reports an error - a duplicate, a full   *)
(* parent, or a device or allocator failure at any of its steps - changed  *)
(* nothing a lookup can see.                                               *)
(***************************************************************************)
D == INSTANCE Dictionary
ImplementsDictionary == D!Spec

(***************************************************************************)
(* Copy on write: a tree remembered from before any number of later        *)
(* inserts, splits, deletes and failures still reads as it did then        *)
(* (tree.rs: "Never modify live blocks").  This is what makes a commit by  *)
(* root pointer swap possible.                                             *)
(***************************************************************************)
OldVersionsIntact ==
    Contents(store.disk, snapshot.tree) = snapshot.dict

(***************************************************************************)
(* The height kept in memory is the level of the root on disk, and the     *)
(* children of an internal root are leaves: search, which trusts the       *)
(* height and never looks at a node's level, ends in a leaf.  Since a full *)
(* parent is not split (propagate_split), there are at most two levels.    *)
(***************************************************************************)
HeightIsRootLevel ==
    ~IsEmpty(store.tree) =>
        /\ store.disk[store.tree.root].level = store.tree.height
        /\ store.tree.height <= 1
        /\ \A b \in BlocksOf(store.tree) \ {store.tree.root} : store.disk[b].level = 0

(***************************************************************************)
(* No entry hides: every entry of every leaf under the root is where       *)
(* find_child leads a search for its key, after any mix of splits and      *)
(* deletes (the split keys in the parent are never adjusted).              *)
(***************************************************************************)
EveryEntryIsFound ==
    \A b \in BlocksOf(store.tree) : store.disk[b].level = 0 =>
        \A k \in DOMAIN store.disk[b].kv :
            k \in DOMAIN dict /\ dict[k] = store.disk[b].kv[k]

(* No node holds more entries than fit in its block. *)
NodesFit ==
    \A b \in DOMAIN store.disk :
        Cardinality(DOMAIN store.disk[b].kv) <=
            (IF store.disk[b].level = 0 THEN MaxLeaf ELSE MaxInternal)
=============================================================================
