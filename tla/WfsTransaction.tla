---------------------------- MODULE WfsTransaction ----------------------------
(***************************************************************************)
(* Transactions of WFS: begin, inode operations, commit by root pointer    *)
(* swap, abort, and mounting again after a crash (core/fs.rs and           *)
(* core/transaction.rs of crates/storage/wfs).                             *)
(*                                                                         *)
(* A tree is abstracted to its root block and its contents (what lookups   *)
(* see); module WfsTree shows that the blocks below the root amount to     *)
(* that.  A commit is modelled write by write, since each of its device    *)
(* calls may fail or be the last before a crash.  A superblock fits into   *)
(* one sector, so the write of block 0 or 1 happens whole or not at all.   *)
(*                                                                         *)
(* The device is that of the trait BlockDevice.  Written through, as the   *)
(* kernel adapter assumes, a write is on the medium when write_node        *)
(* returns.  With WriteBack it is there when the device chooses, and at    *)
(* the latest after sync: the trait's contract ("Sync all writes to        *)
(* disk"), which no device of the repository that can run a commit         *)
(* exercises.  The sync of the kernel adapter, the one device that         *)
(* implements FilesystemOps, does nothing, and the file of mkfs.wfs, which *)
(* does sync, does not implement it.  Nor does anything in the repository  *)
(* call begin, commit or abort yet: the module is about the generic core.  *)
(*                                                                         *)
(* The allocator hands out increasing block numbers, and is assumed to go  *)
(* on from where it was after a crash.  No allocator of the repository     *)
(* does: that of mkfs.wfs counts in memory, that of the adapter refuses.   *)
(***************************************************************************)
EXTENDS Integers

CONSTANTS
    Inodes,         \* inode numbers
    Values,         \* what an inode holds
    RootInode,      \* ROOT_INODE
    RootTreeBlock,  \* block of the first inode tree (2)
    FirstBlock,     \* first block of the allocator (5)
    WriteBack,      \* does the device delay writes?
    MaxBlock,       \* bound: blocks are allocated up to this one
    MaxGeneration   \* bound: transactions begin below this generation

ASSUME TransactionAssumption ==
    /\ RootInode \in Inodes
    /\ Values # {}
    /\ RootTreeBlock \in Nat
    /\ FirstBlock \in Nat /\ RootTreeBlock < FirstBlock
    /\ WriteBack \in BOOLEAN
    /\ MaxBlock \in Nat /\ RootTreeBlock <= MaxBlock
    /\ MaxGeneration \in Nat

VARIABLES
    disk,        \* the medium: [primary, backup, trees]
    seen,        \* the same as reads see it, delayed writes included
    superblock,  \* FilesystemState.superblock: [root, gen]
    inode_root,  \* FilesystemState.inode_tree.root_block
    txn,         \* FilesystemState.transaction, [state |-> "None"] for None
    next_block,  \* the allocator
    pc,          \* where commit_transaction is, "idle" outside it
    acked,       \* history: superblock of the last commit that returned Ok
    began        \* history: inode_root when the transaction began

device == <<disk, seen>>
history == <<acked, began>>
vars == <<device, superblock, inode_root, txn, next_block, pc, history>>

Contents == UNION {[S -> Values] : S \in SUBSET Inodes}
Put(f, k, v) == [j \in DOMAIN f \cup {k} |-> IF j = k THEN v ELSE f[j]]

(* Mutant: a deleted inode leaves a tombstone in its leaf. *)
DropTombstone(c, i) == [c EXCEPT ![i] = "deleted"]

Drop(c, i) == [j \in DOMAIN c \ {i} |-> c[j]]

NoTxn == [state |-> "None", gen |-> 0, working_root |-> 0]

(* The state init_filesystem leaves. *)
Init ==
    \E v \in Values :
      LET sb == [root |-> RootTreeBlock, gen |-> 1]
          tree == [i \in {RootInode} |-> v]
      IN  /\ disk = [primary |-> sb, backup |-> sb,
                     trees |-> [b \in {RootTreeBlock} |-> tree]]
          /\ seen = disk
          /\ next_block = FirstBlock
          /\ superblock = sb
          /\ inode_root = sb.root
          /\ txn = NoTxn
          /\ pc = "idle"
          /\ acked = sb
          /\ began = sb.root

(* Mutant: tree blocks stay in a cache, superblocks are written through. *)
WriteDeviceTreesLate(d) ==
    /\ seen' = d
    /\ disk' = [d EXCEPT !.trees = disk.trees]

(* The device is written: it reads as d from now on. *)
WriteDevice(d) ==
    /\ seen' = d
    /\ disk' = IF WriteBack THEN disk ELSE d

(* Mutant: the tree is updated in place. *)
WriteTreeInPlace(c) ==
    /\ WriteDevice([seen EXCEPT !.trees[inode_root] = c])
    /\ UNCHANGED <<inode_root, next_block>>

(* A copy-on-write operation on the tree wrote contents c to a new root. *)
WriteTree(c) ==
    /\ next_block <= MaxBlock
    /\ WriteDevice([seen EXCEPT !.trees = Put(seen.trees, next_block, c)])
    /\ inode_root' = next_block
    /\ next_block' = next_block + 1

(* A tree that never reached the medium fails its checksum: no operation   *)
(* on it succeeds.                                                         *)
Readable == inode_root \in DOMAIN seen.trees
Current == seen.trees[inode_root]

(* What InodeOps::insert and delete do after the tree operation succeeded. *)
RecordRoot ==
    txn' = IF txn.state = "None" THEN txn
                                 ELSE [txn EXCEPT !.working_root = inode_root']

-----------------------------------------------------------------------------
(* begin_transaction: a transaction that is not active any more, because   *)
(* its commit failed, is simply replaced.                                  *)
BeginTransaction ==
    /\ pc = "idle"
    /\ txn.state # "Active"
    /\ superblock.gen < MaxGeneration
    /\ txn' = [state |-> "Active", gen |-> superblock.gen + 1,
               working_root |-> superblock.root]
    /\ began' = inode_root
    /\ UNCHANGED <<device, superblock, inode_root, next_block, pc, acked>>

(* InodeOps::insert deletes the inode, ignoring whether that worked, and   *)
(* inserts the new one (which a key that is still there refuses).          *)
InodeInsert(i, v) ==
    /\ pc = "idle"
    /\ Readable
    /\ WriteTree(Put(Current, i, v))
    /\ RecordRoot
    /\ UNCHANGED <<superblock, pc, history>>

(* The deletion worked and the insertion failed: the error is returned     *)
(* before the transaction hears of the new root.                           *)
InodeInsertFails(i) ==
    /\ pc = "idle"
    /\ Readable
    /\ i \in DOMAIN Current
    /\ WriteTree(Drop(Current, i))
    /\ UNCHANGED <<superblock, txn, pc, history>>

InodeDelete(i) ==
    /\ pc = "idle"
    /\ Readable
    /\ i \in DOMAIN Current
    /\ WriteTree(Drop(Current, i))
    /\ RecordRoot
    /\ UNCHANGED <<superblock, pc, history>>

(* abort_transaction: inode_tree keeps the root it had.  No block of the   *)
(* tree was recorded as allocated, so none is returned.                    *)
AbortTransaction ==
    /\ pc = "idle"
    /\ txn.state = "Active"
    /\ txn' = NoTxn
    /\ UNCHANGED <<device, superblock, inode_root, next_block, pc, history>>

-----------------------------------------------------------------------------
(* commit_transaction, up to the first device call. *)
CommitBegin ==
    /\ pc = "idle"
    /\ txn.state = "Active"
    /\ txn' = [txn EXCEPT !.state = "Committing"]
    /\ superblock' = [root |-> txn.working_root, gen |-> txn.gen]
    /\ pc' = "primary"
    /\ UNCHANGED <<device, inode_root, next_block, history>>

(* Mutant: the error of a device call is taken for the end of the writes. *)
CommitFailsUnnoticed ==
    /\ pc \in {"primary", "sync", "backup"}
    /\ pc' = "free"
    /\ UNCHANGED <<device, superblock, inode_root, txn, next_block, history>>

(* A device call of the commit fails and the error is returned; the        *)
(* transaction stays as it is.                                             *)
CommitFails ==
    /\ pc \in {"primary", "sync", "backup"}
    /\ pc' = "idle"
    /\ UNCHANGED <<device, superblock, inode_root, txn, next_block, history>>

(* Mutant: the backup is written first. *)
CommitPrimaryWritesBackup ==
    /\ pc = "primary"
    /\ WriteDevice([seen EXCEPT !.backup = superblock])
    /\ pc' = "sync"
    /\ UNCHANGED <<superblock, inode_root, txn, next_block, history>>

CommitPrimary ==
    /\ pc = "primary"
    /\ WriteDevice([seen EXCEPT !.primary = superblock])
    /\ pc' = "sync"
    /\ UNCHANGED <<superblock, inode_root, txn, next_block, history>>

(* sync by its contract; a device that writes through has nothing to do. *)
CommitSync ==
    /\ pc = "sync"
    /\ disk' = seen
    /\ pc' = "backup"
    /\ UNCHANGED <<seen, superblock, inode_root, txn, next_block, history>>

CommitBackup ==
    /\ pc = "backup"
    /\ WriteDevice([seen EXCEPT !.backup = superblock])
    /\ txn' = [txn EXCEPT !.state = "Committed"]
    /\ pc' = "free"
    /\ UNCHANGED <<superblock, inode_root, next_block, history>>

(* The pending frees are processed and the transaction is cleared. *)
CommitEnd ==
    /\ pc = "free"
    /\ txn' = NoTxn
    /\ inode_root' = superblock.root
    /\ pc' = "idle"
    /\ acked' = superblock
    /\ UNCHANGED <<device, superblock, next_block, began>>

(* free_blocks fails for a pending free. *)
CommitFreeFails ==
    /\ pc = "free"
    /\ pc' = "idle"
    /\ UNCHANGED <<device, superblock, inode_root, txn, next_block, history>>

-----------------------------------------------------------------------------
(* The device writes one delayed block to the medium. *)
FlushTree(b) ==
    /\ b \in DOMAIN seen.trees \ DOMAIN disk.trees
    /\ disk' = [disk EXCEPT !.trees = Put(disk.trees, b, seen.trees[b])]
    /\ UNCHANGED <<seen, superblock, inode_root, txn, next_block, pc, history>>

FlushSuperblock(which) ==
    /\ disk[which] # seen[which]
    /\ disk' = [disk EXCEPT ![which] = seen[which]]
    /\ UNCHANGED <<seen, superblock, inode_root, txn, next_block, pc, history>>

(* Mutant: the backup superblock is mounted. *)
CrashAndMountBackup ==
    /\ seen' = disk
    /\ superblock' = disk.backup
    /\ inode_root' = disk.backup.root
    /\ txn' = NoTxn
    /\ pc' = "idle"
    /\ UNCHANGED <<disk, next_block, history>>

(* The machine stops at any point; WfsInner::new reads block 0, and only   *)
(* that, and FilesystemState::new starts from it.  next_block is kept: see *)
(* the assumption on the allocator above.                                  *)
CrashAndMount ==
    /\ seen' = disk
    /\ superblock' = disk.primary
    /\ inode_root' = disk.primary.root
    /\ txn' = NoTxn
    /\ pc' = "idle"
    /\ UNCHANGED <<disk, next_block, history>>

Next ==
    \/ BeginTransaction
    \/ \E i \in Inodes, v \in Values : InodeInsert(i, v)
    \/ \E i \in Inodes : InodeInsertFails(i) \/ InodeDelete(i)
    \/ AbortTransaction
    \/ CommitBegin \/ CommitFails \/ CommitPrimary \/ CommitSync
    \/ CommitBackup \/ CommitEnd \/ CommitFreeFails
    \/ \E b \in FirstBlock .. MaxBlock : FlushTree(b)
    \/ \E which \in {"primary", "backup"} : FlushSuperblock(which)
    \/ CrashAndMount

Spec == Init /\ [][Next]_vars

-----------------------------------------------------------------------------
Superblocks == [root : Nat, gen : Nat]
Transactions == [state : {"None", "Active", "Committing", "Committed"},
                 gen : Nat, working_root : Nat]
Blocks == RootTreeBlock .. MaxBlock
TreeMaps == UNION {[B -> Contents] : B \in SUBSET Blocks}
Devices == [primary : Superblocks, backup : Superblocks, trees : TreeMaps]

(* The variables have their types. *)
TypeOK ==
    /\ disk \in Devices
    /\ seen \in Devices
    /\ superblock \in Superblocks
    /\ inode_root \in Nat
    /\ txn \in Transactions
    /\ next_block \in Nat
    /\ pc \in {"idle", "primary", "sync", "backup", "free"}
    /\ acked \in Superblocks
    /\ began \in Nat

(***************************************************************************)
(* A mount never meets a root pointer to a tree that is not on the medium: *)
(* whatever the moment of a crash, the trees both superblocks and the last *)
(* successful commit point to were written before ("On commit, these are   *)
(* flushed to disk and the root pointer is updated").                      *)
(***************************************************************************)
DurableTreeIsWritten ==
    /\ disk.primary.root \in DOMAIN disk.trees
    /\ disk.backup.root \in DOMAIN disk.trees
    /\ acked.root \in DOMAIN disk.trees

(***************************************************************************)
(* A commit that returned Ok is not lost: whatever failed commits, aborts  *)
(* and crashes follow, block 0 holds its root or a later generation.       *)
(***************************************************************************)
AckedCommitSurvives ==
    /\ disk.primary.gen >= acked.gen
    /\ disk.primary.gen = acked.gen => disk.primary = acked

(***************************************************************************)
(* The backup superblock is never newer than the primary, and the two      *)
(* agree when their generations do (commit_transaction writes block 1 only *)
(* after block 0 is synced).                                               *)
(***************************************************************************)
BackupNotAhead ==
    /\ disk.backup.gen <= disk.primary.gen
    /\ disk.backup.gen = disk.primary.gen => disk.backup = disk.primary

(***************************************************************************)
(* root_generation is monotonic: a new root reaches block 0 only with a    *)
(* greater generation, also after failed commits and lost transactions.    *)
(***************************************************************************)
GenerationGrows ==
    [][disk'.primary # disk.primary => disk'.primary.gen > disk.primary.gen]_vars

(***************************************************************************)
(* Abort rolls back: after abort_transaction lookups see the inodes that   *)
(* were there when the transaction began.                                  *)
(***************************************************************************)
AbortRollsBack ==
    [][AbortTransaction => seen.trees[inode_root'] = seen.trees[began]]_vars

(***************************************************************************)
(* Commit is atomic: what a mount finds changes only by one write, that of *)
(* block 0, and then to the whole of what the transaction staged.  This    *)
(* needs the assumed allocator: one that restarted behind the first tree   *)
(* would write over the committed blocks.                                  *)
(***************************************************************************)
DurableContents == disk.trees[disk.primary.root]

StagedContents ==
    seen.trees[IF txn.state = "Active" THEN txn.working_root ELSE superblock.root]

A == INSTANCE AtomicStore
       WITH State <- Contents, durable <- DurableContents, staged <- StagedContents
ImplementsAtomicStore == A!Spec
=============================================================================
