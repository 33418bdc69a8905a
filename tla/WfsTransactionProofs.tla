------------------------- MODULE WfsTransactionProofs -------------------------
(***************************************************************************)
(* Proofs about WfsTransaction for a device that writes through, for any   *)
(* inodes, values and bounds.                                              *)
(***************************************************************************)
EXTENDS WfsTransaction, TLAPS

(***************************************************************************)
(* The inductive invariant.  Why each part is needed:                      *)
(*  - Written: every root anybody holds was written, and blocks from       *)
(*    next_block on were not, so that a write changes no tree in use;      *)
(*  - Order: the generation in memory is at least that of block 0, and a   *)
(*    transaction's is greater, so that the write of block 0 increases it; *)
(*  - Stage: after the write of block 0 memory and block 0 agree until the *)
(*    commit ends, so that the backup and the acknowledgement are of what  *)
(*    is on the medium.                                                    *)
(***************************************************************************)
Written ==
    /\ \A b \in DOMAIN seen.trees : b < next_block
    /\ superblock.root \in DOMAIN seen.trees
    /\ inode_root \in DOMAIN seen.trees
    /\ txn.state # "None" => txn.working_root \in DOMAIN seen.trees

Order ==
    /\ disk.primary.gen <= superblock.gen
    /\ disk.primary.gen = superblock.gen => disk.primary = superblock
    /\ txn.state = "Active" => txn.gen > superblock.gen

Stage ==
    /\ pc = "primary" => superblock.gen > disk.primary.gen
    /\ pc \in {"sync", "backup", "free"} => disk.primary = superblock
    /\ pc # "idle" => txn.state \in {"Committing", "Committed"}

IInv ==
    /\ TypeOK
    /\ disk = seen
    /\ Written
    /\ Order
    /\ Stage
    /\ DurableTreeIsWritten
    /\ AckedCommitSurvives
    /\ BackupNotAhead

-----------------------------------------------------------------------------
(* What the tree operations write are contents again. *)
LEMMA ContentsClosed ==
    ASSUME NEW c \in Contents, NEW i \in Inodes, NEW v \in Values
    PROVE  Put(c, i, v) \in Contents /\ Drop(c, i) \in Contents
<1>1. PICK S \in SUBSET Inodes : c \in [S -> Values]
  BY DEF Contents
<1>2. /\ Put(c, i, v) \in [S \cup {i} -> Values]
      /\ Drop(c, i) \in [S \ {i} -> Values]
  BY <1>1 DEF Put, Drop
<1>3. S \cup {i} \in SUBSET Inodes /\ S \ {i} \in SUBSET Inodes
  OBVIOUS
<1> QED
  BY <1>2, <1>3 DEF Contents

(* Adding the tree at a fresh block: a tree map again, old trees kept. *)
LEMMA AddTree ==
    ASSUME NEW t \in TreeMaps, NEW c \in Contents, NEW n \in Blocks
    PROVE  /\ Put(t, n, c) \in TreeMaps
           /\ DOMAIN Put(t, n, c) = DOMAIN t \cup {n}
           /\ \A b \in DOMAIN t : b # n => Put(t, n, c)[b] = t[b]
<1>1. PICK B \in SUBSET Blocks : t \in [B -> Contents]
  BY DEF TreeMaps
<1>2. Put(t, n, c) \in [B \cup {n} -> Contents] /\ B \cup {n} \in SUBSET Blocks
  BY <1>1 DEF Put
<1>3. Put(t, n, c) \in TreeMaps
  BY <1>2 DEF TreeMaps
<1> QED
  BY <1>3 DEF Put

(* The trees of a tree map are contents. *)
LEMMA TreeIsContents ==
    ASSUME NEW t \in TreeMaps, NEW b \in DOMAIN t
    PROVE  t[b] \in Contents /\ b \in Blocks
<1>1. PICK B \in SUBSET Blocks : t \in [B -> Contents]
  BY DEF TreeMaps
<1> QED
  BY <1>1

LEMMA InitInv == Init => IInv
<1> SUFFICES ASSUME Init PROVE IInv
  OBVIOUS
<1> USE TransactionAssumption
<1>1. PICK v \in Values :
        LET sb == [root |-> RootTreeBlock, gen |-> 1]
            tree == [i \in {RootInode} |-> v]
        IN  /\ disk = [primary |-> sb, backup |-> sb,
                       trees |-> [b \in {RootTreeBlock} |-> tree]]
            /\ seen = disk
            /\ next_block = FirstBlock
            /\ superblock = sb
            /\ inode_root = sb.root
            /\ txn = NoTxn
            /\ pc = "idle"
            /\ acked = sb
            /\ began = sb.root
  BY Zenon DEF Init
<1> DEFINE sb == [root |-> RootTreeBlock, gen |-> 1]
           tree == [i \in {RootInode} |-> v]
           trees == [b \in {RootTreeBlock} |-> tree]
<1>2. tree \in Contents
  <2>1. tree \in [{RootInode} -> Values] /\ {RootInode} \in SUBSET Inodes
    OBVIOUS
  <2> QED
    BY <2>1, Zenon DEF Contents
<1>3. trees \in TreeMaps
  <2>1. trees \in [{RootTreeBlock} -> Contents] /\ {RootTreeBlock} \in SUBSET Blocks
    BY <1>2 DEF Blocks
  <2> QED
    BY <2>1, Zenon DEF TreeMaps
<1>4. /\ disk = [primary |-> sb, backup |-> sb, trees |-> trees]
      /\ seen = disk /\ next_block = FirstBlock /\ superblock = sb
      /\ inode_root = RootTreeBlock /\ txn = NoTxn /\ pc = "idle"
      /\ acked = sb /\ began = RootTreeBlock
  BY <1>1
<1>5. DOMAIN trees = {RootTreeBlock}
  OBVIOUS
<1> HIDE DEF trees
<1>6. TypeOK
  BY <1>3, <1>4 DEF TypeOK, Devices, Superblocks, Transactions, NoTxn
<1>7. /\ Written /\ DurableTreeIsWritten
  BY <1>4, <1>5 DEF Written, DurableTreeIsWritten, NoTxn
<1>8. Order /\ Stage /\ AckedCommitSurvives /\ BackupNotAhead
  BY <1>4 DEF Order, Stage, AckedCommitSurvives, BackupNotAhead, NoTxn
<1> QED
  BY <1>4, <1>6, <1>7, <1>8 DEF IInv

(***************************************************************************)
(* A tree operation, whether or not the transaction records its new root,  *)
(* keeps the invariant: it only adds a block nobody pointed to.            *)
(***************************************************************************)
LEMMA WriteTreeInv ==
    ASSUME WriteBack = FALSE, IInv, NEW c \in Contents, WriteTree(c), pc = "idle",
           txn' = txn \/ (txn.state # "None"
                            /\ txn' = [txn EXCEPT !.working_root = inode_root']),
           UNCHANGED <<superblock, pc, history>>
    PROVE  /\ IInv'
           /\ disk'.primary = disk.primary
           /\ \A b \in DOMAIN seen.trees : seen'.trees[b] = seen.trees[b]
<1> USE TransactionAssumption
<1> DEFINE u == Put(seen.trees, next_block, c)
<1>1. TypeOK /\ disk = seen /\ Written
  BY DEF IInv
<1>2. seen \in Devices /\ seen.trees \in TreeMaps /\ next_block \in Nat
  BY <1>1 DEF TypeOK, Devices
<1>3. \A b \in DOMAIN seen.trees : b \in Blocks /\ b < next_block
  BY <1>1, <1>2, TreeIsContents DEF Written
<1>4. next_block \in Blocks
  BY <1>1, <1>2, <1>3 DEF WriteTree, Blocks, Written
<1>5. u \in TreeMaps /\ DOMAIN u = DOMAIN seen.trees \cup {next_block}
        /\ \A b \in DOMAIN seen.trees : b # next_block => u[b] = seen.trees[b]
  <2>1. ASSUME NEW t \in TreeMaps, NEW n \in Blocks
        PROVE  /\ Put(t, n, c) \in TreeMaps
               /\ DOMAIN Put(t, n, c) = DOMAIN t \cup {n}
               /\ \A b \in DOMAIN t : b # n => Put(t, n, c)[b] = t[b]
    BY AddTree, Zenon
  <2> QED
    BY <1>2, <1>4, <2>1, Zenon
<1>6. /\ seen' = [seen EXCEPT !.trees = u]
      /\ disk' = seen'
      /\ inode_root' = next_block
      /\ next_block' = next_block + 1
  BY DEF WriteTree, WriteDevice
<1> HIDE DEF u
<1>7. /\ seen' \in Devices /\ seen'.trees = u
      /\ seen'.primary = seen.primary /\ seen'.backup = seen.backup
  BY <1>2, <1>5, <1>6 DEF Devices
<1>8. txn' \in Transactions /\ txn'.state = txn.state /\ txn'.gen = txn.gen
        /\ txn'.working_root \in {txn.working_root, next_block}
  BY <1>1, <1>2, <1>6 DEF TypeOK, Transactions
<1>9. TypeOK'
  BY <1>1, <1>2, <1>6, <1>7, <1>8 DEF TypeOK, history
<1>10. Written'
  <2>1. \A b \in DOMAIN u : b < next_block + 1
    BY <1>2, <1>3, <1>5 DEF Blocks
  <2> QED
    BY <1>1, <1>5, <1>6, <1>7, <1>8, <2>1 DEF Written
<1>11. Order' /\ Stage' /\ AckedCommitSurvives' /\ BackupNotAhead'
  BY <1>1, <1>6, <1>7, <1>8
  DEF IInv, Order, Stage, AckedCommitSurvives, BackupNotAhead, history
<1>12. DurableTreeIsWritten'
  BY <1>1, <1>5, <1>6, <1>7 DEF IInv, DurableTreeIsWritten, history
<1>13. \A b \in DOMAIN seen.trees : seen'.trees[b] = seen.trees[b]
  BY <1>2, <1>3, <1>4, <1>5, <1>7 DEF Blocks
<1> QED
  BY <1>1, <1>6, <1>7, <1>9, <1>10, <1>11, <1>12, <1>13 DEF IInv

(* Each step keeps the invariant. *)
LEMMA NextInv ==
    ASSUME WriteBack = FALSE, IInv, [Next]_vars
    PROVE  IInv'
<1> USE TransactionAssumption
<1> DEFINE Parts == /\ TypeOK /\ disk = seen /\ Written /\ Order /\ Stage
                    /\ DurableTreeIsWritten /\ AckedCommitSurvives /\ BackupNotAhead
<1>1. Parts
  BY DEF IInv
<1>2. ASSUME BeginTransaction PROVE IInv'
  BY <1>1, <1>2
  DEF IInv, BeginTransaction, TypeOK, Written, Order, Stage, DurableTreeIsWritten,
      AckedCommitSurvives, BackupNotAhead, device, Transactions, Superblocks
<1>3. ASSUME NEW i \in Inodes, NEW v \in Values, InodeInsert(i, v) PROVE IInv'
  <2>1. Current \in Contents
    BY <1>1, <1>3, TreeIsContents DEF InodeInsert, Readable, Current, TypeOK, Devices
  <2>2. Put(Current, i, v) \in Contents
    BY <2>1, ContentsClosed
  <2> QED
    BY <1>3, <2>2, WriteTreeInv, Zenon DEF InodeInsert, RecordRoot
<1>4. ASSUME NEW i \in Inodes, InodeInsertFails(i) PROVE IInv'
  <2>1. Current \in Contents
    BY <1>1, <1>4, TreeIsContents DEF InodeInsertFails, Readable, Current, TypeOK, Devices
  <2>2. Drop(Current, i) \in Contents
    BY <2>1, ContentsClosed, TransactionAssumption
  <2> QED
    BY <1>4, <2>2, WriteTreeInv, Zenon DEF InodeInsertFails
<1>5. ASSUME NEW i \in Inodes, InodeDelete(i) PROVE IInv'
  <2>1. Current \in Contents
    BY <1>1, <1>5, TreeIsContents DEF InodeDelete, Readable, Current, TypeOK, Devices
  <2>2. Drop(Current, i) \in Contents
    BY <2>1, ContentsClosed, TransactionAssumption
  <2> QED
    BY <1>5, <2>2, WriteTreeInv, Zenon DEF InodeDelete, RecordRoot
<1>6. ASSUME AbortTransaction PROVE IInv'
  BY <1>1, <1>6
  DEF IInv, AbortTransaction, TypeOK, Written, Order, Stage, DurableTreeIsWritten,
      AckedCommitSurvives, BackupNotAhead, device, history, Transactions, NoTxn
<1>7. ASSUME CommitBegin PROVE IInv'
  BY <1>1, <1>7
  DEF IInv, CommitBegin, TypeOK, Written, Order, Stage, DurableTreeIsWritten,
      AckedCommitSurvives, BackupNotAhead, device, history, Transactions,
      Superblocks, Devices
<1>8. ASSUME CommitFails \/ CommitFreeFails PROVE IInv'
  BY <1>1, <1>8
  DEF IInv, CommitFails, CommitFreeFails, TypeOK, Written, Order, Stage,
      DurableTreeIsWritten, AckedCommitSurvives, BackupNotAhead, device, history
<1>9. ASSUME CommitPrimary PROVE IInv'
  <2>1. /\ seen' = [seen EXCEPT !.primary = superblock] /\ disk' = seen'
        /\ pc = "primary" /\ pc' = "sync"
        /\ UNCHANGED <<superblock, inode_root, txn, next_block, acked, began>>
    BY <1>9 DEF CommitPrimary, WriteDevice, history
  <2>2. /\ seen' \in Devices /\ seen'.primary = superblock
        /\ seen'.trees = seen.trees /\ seen'.backup = seen.backup
    BY <1>1, <2>1 DEF TypeOK, Devices
  <2>3. TypeOK' /\ Written'
    BY <1>1, <2>1, <2>2 DEF TypeOK, Written
  <2>4. Order' /\ Stage' /\ DurableTreeIsWritten'
    BY <1>1, <2>1, <2>2 DEF Order, Stage, DurableTreeIsWritten, Written, TypeOK, Superblocks
  <2>5. AckedCommitSurvives' /\ BackupNotAhead'
    BY <1>1, <2>1, <2>2
    DEF AckedCommitSurvives, BackupNotAhead, Stage, TypeOK, Superblocks, Devices
  <2> QED
    BY <2>1, <2>3, <2>4, <2>5 DEF IInv
<1>10. ASSUME CommitSync PROVE IInv'
  BY <1>1, <1>10
  DEF IInv, CommitSync, TypeOK, Written, Order, Stage, DurableTreeIsWritten,
      AckedCommitSurvives, BackupNotAhead, history
<1>11. ASSUME CommitBackup PROVE IInv'
  <2>1. /\ seen' = [seen EXCEPT !.backup = superblock] /\ disk' = seen'
        /\ pc = "backup" /\ pc' = "free" /\ txn' = [txn EXCEPT !.state = "Committed"]
        /\ UNCHANGED <<superblock, inode_root, next_block, acked, began>>
    BY <1>11 DEF CommitBackup, WriteDevice, history
  <2>2. /\ seen' \in Devices /\ seen'.primary = seen.primary
        /\ seen'.trees = seen.trees /\ seen'.backup = superblock
        /\ txn' \in Transactions /\ txn'.state = "Committed"
        /\ txn'.working_root = txn.working_root
    BY <1>1, <2>1 DEF TypeOK, Devices, Transactions
  <2>3. TypeOK' /\ Written' /\ Order' /\ Stage'
    BY <1>1, <2>1, <2>2 DEF TypeOK, Written, Order, Stage
  <2>4. DurableTreeIsWritten' /\ AckedCommitSurvives' /\ BackupNotAhead'
    BY <1>1, <2>1, <2>2
    DEF DurableTreeIsWritten, AckedCommitSurvives, BackupNotAhead, Written, Stage,
        TypeOK, Superblocks
  <2> QED
    BY <2>1, <2>3, <2>4 DEF IInv
<1>12. ASSUME CommitEnd PROVE IInv'
  BY <1>1, <1>12
  DEF IInv, CommitEnd, TypeOK, Written, Order, Stage, DurableTreeIsWritten,
      AckedCommitSurvives, BackupNotAhead, device, Transactions, NoTxn, Superblocks
<1>13. ASSUME NEW b \in FirstBlock .. MaxBlock, FlushTree(b) PROVE IInv'
  BY <1>1, <1>13 DEF FlushTree
<1>14. ASSUME NEW which \in {"primary", "backup"}, FlushSuperblock(which) PROVE IInv'
  BY <1>1, <1>14 DEF FlushSuperblock
<1>15. ASSUME CrashAndMount PROVE IInv'
  BY <1>1, <1>15
  DEF IInv, CrashAndMount, TypeOK, Written, Order, Stage, DurableTreeIsWritten,
      AckedCommitSurvives, BackupNotAhead, history, Transactions, NoTxn, Devices,
      Superblocks
<1>16. ASSUME UNCHANGED vars PROVE IInv'
  BY <1>1, <1>16
  DEF vars, IInv, TypeOK, Written, Order, Stage, DurableTreeIsWritten,
      AckedCommitSurvives, BackupNotAhead, device, history
<1> QED
  BY <1>2, <1>3, <1>4, <1>5, <1>6, <1>7, <1>8, <1>9, <1>10, <1>11, <1>12, <1>13,
     <1>14, <1>15, <1>16 DEF Next

-----------------------------------------------------------------------------
(* Every reachable state of a write-through device satisfies IInv. *)
THEOREM Invariance ==
    ASSUME WriteBack = FALSE
    PROVE  Spec => []IInv
<1>1. IInv /\ [Next]_vars => IInv'
  BY NextInv, Zenon
<1> QED
  BY <1>1, InitInv, PTL DEF Spec

(* The variables keep their types. *)
THEOREM TypeCorrect ==
    ASSUME WriteBack = FALSE
    PROVE  Spec => []TypeOK
<1>1. IInv => TypeOK
  BY DEF IInv
<1> QED
  BY <1>1, Invariance, PTL

(***************************************************************************)
(* Whatever the moment of a crash, both superblocks on the medium and the  *)
(* last acknowledged commit point to trees that are on the medium.         *)
(***************************************************************************)
THEOREM RootPointerSafe ==
    ASSUME WriteBack = FALSE
    PROVE  Spec => []DurableTreeIsWritten
<1>1. IInv => DurableTreeIsWritten
  BY DEF IInv
<1> QED
  BY <1>1, Invariance, PTL

(***************************************************************************)
(* A commit that returned Ok is never lost, and the backup superblock is   *)
(* never ahead of the primary.                                             *)
(***************************************************************************)
THEOREM Durability ==
    ASSUME WriteBack = FALSE
    PROVE  Spec => [](AckedCommitSurvives /\ BackupNotAhead)
<1>1. IInv => AckedCommitSurvives /\ BackupNotAhead
  BY DEF IInv
<1> QED
  BY <1>1, Invariance, PTL

-----------------------------------------------------------------------------
(* Only CommitPrimary changes block 0, and no step changes a tree that is  *)
(* already on the medium.                                                  *)
LEMMA MediumStep ==
    ASSUME WriteBack = FALSE, IInv, [Next]_vars
    PROVE  /\ ~CommitPrimary => disk'.primary = disk.primary
           /\ \A b \in DOMAIN disk.trees : disk'.trees[b] = disk.trees[b]
<1>1. TypeOK /\ disk = seen
  BY DEF IInv
<1>2. ASSUME NEW i \in Inodes, NEW v \in Values, InodeInsert(i, v)
      PROVE  /\ disk'.primary = disk.primary
             /\ \A b \in DOMAIN disk.trees : disk'.trees[b] = disk.trees[b]
  <2>1. Current \in Contents
    BY <1>1, <1>2, TreeIsContents DEF InodeInsert, Readable, Current, TypeOK, Devices
  <2>2. Put(Current, i, v) \in Contents
    BY <2>1, ContentsClosed
  <2>3. disk' = seen'
    BY <1>2, NextInv, Zenon DEF IInv
  <2> QED
    BY <1>1, <1>2, <2>2, <2>3, WriteTreeInv, Zenon DEF InodeInsert, RecordRoot
<1>3. ASSUME NEW i \in Inodes, InodeInsertFails(i) \/ InodeDelete(i)
      PROVE  /\ disk'.primary = disk.primary
             /\ \A b \in DOMAIN disk.trees : disk'.trees[b] = disk.trees[b]
  <2>1. Current \in Contents
    BY <1>1, <1>3, TreeIsContents
    DEF InodeInsertFails, InodeDelete, Readable, Current, TypeOK, Devices
  <2>2. Drop(Current, i) \in Contents
    BY <2>1, ContentsClosed, TransactionAssumption
  <2>3. disk' = seen'
    BY NextInv, Zenon DEF IInv
  <2> QED
    BY <1>1, <1>3, <2>2, <2>3, WriteTreeInv, Zenon DEF InodeInsertFails, InodeDelete, RecordRoot
<1>4. ASSUME CommitPrimary
      PROVE  \A b \in DOMAIN disk.trees : disk'.trees[b] = disk.trees[b]
  BY <1>1, <1>4 DEF CommitPrimary, WriteDevice, TypeOK, Devices
<1>5. ASSUME CommitBackup
      PROVE  /\ disk'.primary = disk.primary
             /\ \A b \in DOMAIN disk.trees : disk'.trees[b] = disk.trees[b]
  BY <1>1, <1>5 DEF CommitBackup, WriteDevice, TypeOK, Devices
<1>6. ASSUME \/ BeginTransaction \/ AbortTransaction \/ CommitBegin \/ CommitFails
             \/ CommitSync \/ CommitEnd \/ CommitFreeFails \/ CrashAndMount
             \/ UNCHANGED vars
      PROVE  disk' = disk
  BY <1>1, <1>6
  DEF BeginTransaction, AbortTransaction, CommitBegin, CommitFails, CommitSync,
      CommitEnd, CommitFreeFails, CrashAndMount, vars, device
<1>7. ASSUME NEW b \in FirstBlock .. MaxBlock, FlushTree(b) PROVE FALSE
  BY <1>1, <1>7 DEF FlushTree
<1>8. ASSUME NEW which \in {"primary", "backup"}, FlushSuperblock(which) PROVE FALSE
  BY <1>1, <1>8 DEF FlushSuperblock
<1> QED
  BY <1>2, <1>3, <1>4, <1>5, <1>6, <1>7, <1>8 DEF Next

(***************************************************************************)
(* The generation on the medium grows with every change of the root        *)
(* pointer, through failed commits, aborts and crashes.                    *)
(***************************************************************************)
THEOREM GenerationMonotone ==
    ASSUME WriteBack = FALSE
    PROVE  Spec => GenerationGrows
<1>1. ASSUME IInv, [Next]_vars
      PROVE  [disk'.primary # disk.primary
                => disk'.primary.gen > disk.primary.gen]_vars
  <2>1. ASSUME CommitPrimary PROVE disk'.primary.gen > disk.primary.gen
    BY <1>1, <2>1 DEF CommitPrimary, WriteDevice, IInv, TypeOK, Devices, Stage
  <2> QED
    BY <1>1, <2>1, MediumStep, Zenon
<1> QED
  BY <1>1, Invariance, PTL DEF Spec, GenerationGrows

(***************************************************************************)
(* Commit by root pointer swap implements the atomic store, on a device    *)
(* that writes through and with an allocator that a crash does not set     *)
(* back (see CrashAndMount).                                               *)
(***************************************************************************)
THEOREM CommitIsAtomic ==
    ASSUME WriteBack = FALSE
    PROVE  Spec => ImplementsAtomicStore
<1>1. IInv => DurableContents \in Contents /\ StagedContents \in Contents
  <2> SUFFICES ASSUME IInv PROVE DurableContents \in Contents /\ StagedContents \in Contents
    OBVIOUS
  <2>1. /\ seen.trees \in TreeMaps /\ disk = seen
        /\ disk.primary.root \in DOMAIN seen.trees
        /\ superblock.root \in DOMAIN seen.trees
        /\ txn.state # "None" => txn.working_root \in DOMAIN seen.trees
    BY DEF IInv, TypeOK, Devices, Written, DurableTreeIsWritten
  <2> QED
    BY <2>1, TreeIsContents DEF DurableContents, StagedContents
<1>2. Init => A!Init
  <2> SUFFICES ASSUME Init PROVE A!Init
    OBVIOUS
  <2>1. seen = disk /\ superblock = disk.primary /\ txn = NoTxn
    BY SMT DEF Init
  <2>2. StagedContents = DurableContents
    BY <2>1 DEF DurableContents, StagedContents, NoTxn
  <2> QED
    BY <1>1, <2>2, InitInv DEF A!Init
<1>3. ASSUME IInv, [Next]_vars
      PROVE  [A!Next]_<<DurableContents, StagedContents>>
  <2>1. IInv'
    BY <1>3, NextInv, Zenon
  <2>2. DurableContents' \in Contents /\ StagedContents' \in Contents
    <3>1. (DurableContents \in Contents /\ StagedContents \in Contents)'
      BY <1>1, <2>1, PTL
    <3> QED
      BY <3>1
  <2>3. CASE CommitPrimary
    <3>1. /\ seen' = [seen EXCEPT !.primary = superblock] /\ disk' = seen'
          /\ txn.state # "Active" /\ disk = seen /\ seen \in Devices
          /\ UNCHANGED <<superblock, txn>>
      BY <1>3, <2>3 DEF CommitPrimary, WriteDevice, IInv, Stage, TypeOK
    <3>2. seen'.trees = seen.trees /\ disk'.primary = superblock /\ disk'.trees = seen.trees
      BY <3>1 DEF Devices
    <3>3. DurableContents' = StagedContents /\ StagedContents' = StagedContents
      BY <3>1, <3>2 DEF DurableContents, StagedContents
    <3> QED
      BY <3>3 DEF A!Next, A!Commit
  <2>4. CASE ~CommitPrimary
    <3>1. DurableContents' = DurableContents
      BY <1>3, <2>4, MediumStep, Zenon DEF DurableContents, IInv, DurableTreeIsWritten
    <3> QED
      BY <2>2, <3>1 DEF A!Next, A!Stage
  <2> QED
    BY <2>3, <2>4
<1> QED
  BY <1>2, <1>3, Invariance, PTL DEF Spec, ImplementsAtomicStore, A!Spec
=============================================================================
