------------------------------ MODULE WfsInodes ------------------------------
(***************************************************************************)
(* The inode tree under transactions and mounts: InodeOps on the B+tree of *)
(* WfsTree, begin, commit and abort of core/fs.rs, and mounting again.     *)
(* Where WfsTransaction takes a tree for its root and follows each write   *)
(* of a commit, this module takes a commit as one step and follows the     *)
(* nodes and the height of the tree, which is kept in memory only.         *)
(***************************************************************************)
EXTENDS WfsTree

VARIABLES
    sb_root,    \* superblock.root_tree_block, in memory and on disk
    working,    \* working_root of the active transaction, 0 without one
    committed   \* history: what the tree held when it was committed

fsvars == <<vars, sb_root, working, committed>>

(* The contents of the tree at root, by the levels its nodes record. *)
Holds(disk, root) ==
    Contents(disk, [root |-> root, height |-> disk[root].level])

(* init_filesystem writes a leaf with the root inode; the mount reads it.  *)
(* The snapshot of WfsTree is not used.                                    *)
FsInit ==
    \E k \in Keys, v \in Values :
      LET s == [disk |-> FirstBlock :> Leaf(k :> v),
                tree |-> [root |-> FirstBlock, height |-> 0],
                next |-> FirstBlock + 1]
      IN  /\ store = s
          /\ result = "Ok"
          /\ errors = 0
          /\ snapshot = [tree |-> EmptyTree, dict |-> <<>>]
          /\ sb_root = FirstBlock
          /\ working = 0
          /\ committed = Holds(s.disk, FirstBlock)

BeginTransaction ==
    /\ working = 0
    /\ working' = sb_root
    /\ result' = "Ok"
    /\ UNCHANGED <<store, errors, snapshot, sb_root, committed>>

(* The outcome of InodeOps::insert and delete; only a success is recorded  *)
(* in the transaction.                                                     *)
TakeInodeOp(outcome) ==
    /\ Take(outcome)
    /\ working' = IF working # 0 /\ outcome.result = "Ok"
                    THEN outcome.store.tree.root ELSE working
    /\ UNCHANGED <<sb_root, committed>>

(* Mutant: the deletion, and not the insertion, decides what is reported. *)
InodeInsertUnreported(i, v) ==
    /\ store.next <= MaxBlock
    /\ \E deleted \in DeleteOutcomes(store, i) :
         \E inserted \in InsertOutcomes(deleted.store, i, v) :
           TakeInodeOp([inserted EXCEPT
                          !.result = IF deleted.result = "Ok" THEN "Ok" ELSE @])

(* InodeOps::insert: delete, whatever comes of it, then insert. *)
InodeInsert(i, v) ==
    /\ store.next <= MaxBlock
    /\ \E deleted \in DeleteOutcomes(store, i) :
         \E inserted \in InsertOutcomes(deleted.store, i, v) :
           TakeInodeOp(inserted)

InodeDelete(i) ==
    /\ store.next <= MaxBlock
    /\ \E deleted \in DeleteOutcomes(store, i) : TakeInodeOp(deleted)

(* Mutant: the root in memory, and not the recorded one, is committed. *)
CommitTransactionMemory ==
    /\ working # 0
    /\ sb_root' = store.tree.root
    /\ working' = 0
    /\ committed' = Holds(store.disk, working)
    /\ result' = "Ok"
    /\ UNCHANGED <<store, errors, snapshot>>

(* commit_transaction: the root of inode_tree is set, its height is not. *)
CommitTransaction ==
    /\ working # 0
    /\ sb_root' = working
    /\ store' = [store EXCEPT !.tree.root = working]
    /\ working' = 0
    /\ committed' = Holds(store.disk, working)
    /\ result' = "Ok"
    /\ UNCHANGED <<errors, snapshot>>

(* abort_transaction: neither root nor height of inode_tree is set back. *)
AbortTransaction ==
    /\ working # 0
    /\ working' = 0
    /\ result' = "Ok"
    /\ UNCHANGED <<store, errors, snapshot, sb_root, committed>>

(* Mutant: the mount keeps the root that was in memory. *)
MountStaleRoot ==
    /\ working' = 0
    /\ result' = "Mounted"
    /\ UNCHANGED <<store, errors, snapshot, sb_root, committed>>

(* FilesystemState::new: BPlusTree::new starts with height 0.  The mount   *)
(* is assumed to find an allocator that takes no block of an earlier mount *)
(* for free: no allocator of the repository keeps its state on the device. *)
Mount ==
    /\ store' = [store EXCEPT !.tree = [root |-> sb_root, height |-> 0]]
    /\ working' = 0
    /\ result' = "Mounted"
    /\ UNCHANGED <<errors, snapshot, sb_root, committed>>

FsNext ==
    \/ BeginTransaction
    \/ \E i \in Keys, v \in Values : InodeInsert(i, v)
    \/ \E i \in Keys : InodeDelete(i)
    \/ CommitTransaction
    \/ AbortTransaction
    \/ Mount

FsSpec == FsInit /\ [][FsNext]_fsvars

-----------------------------------------------------------------------------
(***************************************************************************)
(* Committed inodes are found again: right after a mount, lookups see what *)
(* the last committed tree held ("Commit atomically updates the root       *)
(* pointer to make changes visible").  Assumes the allocator of Mount.     *)
(***************************************************************************)
MountFindsCommitted == result = "Mounted" => dict = committed

(***************************************************************************)
(* The committed tree is never disturbed by the transactions after it:     *)
(* neither aborted ones nor updates that fail halfway, on the allocator    *)
(* assumed in Mount.                                                       *)
(***************************************************************************)
CommittedIsIntact == Holds(store.disk, sb_root) = committed

(***************************************************************************)
(* InodeOps::insert is a deletion whose error is dropped (`let _ =`) and   *)
(* an insertion, each of which may fail at any device or allocator call.   *)
(* Even so, when it reports Ok the inode has the new value and every other *)
(* inode is as it was; when it reports an error the worst that happened is *)
(* that its own inode is gone from memory, and the transaction has not     *)
(* heard of it.                                                            *)
(***************************************************************************)
UpdateTouchesOneInode ==
    [][\A i \in Keys, v \in Values : InodeInsert(i, v) =>
          IF result' = "Ok"
            THEN dict' = Put(dict, i, v)
            ELSE /\ dict' \in {dict, Keep(dict, DOMAIN dict \ {i})}
                 /\ working' = working]_fsvars
=============================================================================
