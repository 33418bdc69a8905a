# A TLA+ verification of WATOS

WATOS is a small x86-64 operating system in Rust: a UEFI loader, a kernel with
one address space per process, a VFS over FAT and its own copy-on-write file
system WFS, a handful of drivers, and some thirty applications. This directory
models the parts of it that carry state and invariants, checks them with TLC on
small instances, and proves the most important results with TLAPS.

## 1. The system

| Component | State | Operations | What is hard | What makes it correct |
|---|---|---|---|---|
| Physical pages (`core/mem/phys.rs`) | bitmap, counters, search hint | `init`, `alloc_page`, `free_page`, `alloc_contiguous`, `stats` | two searches over one bitmap, a hint moved by frees, clamping | no page given twice or lost; exact counters |
| Address spaces (`core/mem/paging.rs`) | four-level tables, list of owned pages | map, unmap, lookup, drop | huge pages beside 4K pages, running out of pages in the middle | each owned page freed once; user pages private |
| Kernel heap (`core/mem/heap.rs`) | external allocator | alloc, free | fixed range shared with other uses | the range is the heap's alone |
| Process execution (`sys/process`, `src/main.rs`) | table of 16, next PID, current, one parent context, CR3, TSS stack | exec, exit, resume | nesting through one saved context, errors after the save | exit resumes the caller; no slot leaks; live page table |
| WFS tree (`storage/wfs/core/tree.rs`) | nodes on blocks, root and height in memory | search, insert, split, delete | copying a path block by block, failure at any call | a dictionary; old versions intact |
| WFS transactions (`core/fs.rs`, `core/transaction.rs`) | superblock in memory, two on disk, transaction | begin, commit, abort, mount | crash or error between two writes, order of writes | committed state survives whole |
| WFS inodes, free space, extents, files | trees | insert, delete, allocate, read, write | several trees updated per call | as above, per call |
| WFS VFS adapter, `mkfs.wfs` | file-system object, allocator | mkdir, unlink, rename; format, populate | several updates per call, no rollback | tree of directories stays connected |
| VFS (`storage/vfs`) | mount table, pipes, links | mount, open, resolve; pipe open/read/write/drop | longest prefix; reopening of named pipes | right file system; end of file exactly when no writer |
| FAT, ProcFs, DevFs | cluster chains; none | read, write, create, remove | partial updates of FAT and directory | chains disjoint and terminated |
| Kernel tables (`src/main.rs`) | drives, working directory, 64 global descriptors, console ring | mount, chdir, open, close | tables are global across exec and exit | no stale drive or descriptor |
| Console sessions, terminal, VT, readline | sessions and active index; cursor, scroll region, history | create, switch, remove; edit | identifiers derived from a count | active session exists |
| Keyboard (`core/arch/idt.rs`) | ring of 32 scancodes | interrupt, read | full ring | a lossy queue in order |
| Users, drivers, network, DOS emulator, GW-BASIC, applications, boot | see `PROJECT.json` | | | |

How they interact: an application enters the kernel by `int 0x80` through an
interrupt gate, so that a system call runs to its end without being interrupted
by the keyboard or the timer; there is no scheduler. `SYS_EXEC` reads an image
through the VFS, saves the caller's registers in `PARENT_CONTEXT` and calls
`exec`, which builds a page table out of pages of the physical allocator and
enters user mode; `SYS_EXIT` frees the child and resumes the caller. The VFS
calls WFS through `vfs_adapter.rs`; WFS calls a `BlockDevice` and a
`BlockAllocator`, whose every call may fail. Concurrency therefore appears as
failure, crash and nesting rather than as parallel threads.

## 2. Modules

| Module | Models | State and actions |
|---|---|---|
| `PhysAllocator` | `phys.rs` | The bitmap is a set of page numbers; words matter for the search of `alloc_page`: which words it scans from the hint (`ScannedWords`, `Reached`) and in which order (`Visit`, `FoundFirst`). One action per function and outcome, since each holds the one lock. `held` records what each page table was given. |
| `PhysAllocatorProofs` | | Its theorems. |
| `Dictionary` | | What a tree promises: insert and delete with their results. |
| `WfsTree` | `tree.rs` | Nodes are functions from keys to values or children. An operation maps a store to the *set* of its outcomes, one for each call that may fail, so that the inode module can chain operations. |
| `AtomicStore` | | What commit promises: the durable state is replaced whole. |
| `WfsTransaction` | `fs.rs`, `transaction.rs` | A tree is its root block and contents. Commit is one action per device call; `CommitFails` and `CrashAndMount` may follow any of them. `WriteBack` selects the device. |
| `WfsTransactionProofs` | | Its theorems. |
| `WfsInodes` | `fs.rs` on `tree.rs` | Composes `WfsTree` with begin, commit, abort and mount; follows nodes and the in-memory height instead of single writes. |
| `ProcessExec` | `process/lib.rs`, `SYS_EXEC`, `SYS_EXIT` | Process table, PIDs, saved context, page table, kernel stack. An image is missing, corrupt, unloadable or good. |

`MC*` modules extend these for TLC. Definitions whose comment begins with
"Mutant:" are variants of the definition after them with one plausible mistake;
they show that the property named in `PROJECT.json` would notice it.

Abstractions: block and inode contents are opaque values; a checksum is right
for a block that was written and wrong for one that never was; generation
numbers inside tree nodes, which are written and never read, are left out; a
superblock with its header fits one sector and is written whole or not at all;
the registers of a saved context are the process they belong to. Failed
allocation in `WfsTransaction` is part of the tree operation, and a tree
operation that fails without effect is a stuttering step.

The WFS core is generic in its device and allocator. The models use the
allocator of `mkfs.wfs`, which hands out increasing block numbers and takes none
back. The allocator of the kernel's adapter is a stub that refuses every request
(`vfs_adapter.rs`, `allocate_block`), so that today every write of a mounted WFS
takes the error paths of the models; the other paths are what the same core does
with an allocator that works.

Three things the WFS models take from the traits rather than from a device or an
allocator of the repository:

* *The allocator survives a crash.* `CrashAndMount` keeps `next_block` and
  `Mount` keeps `store.next`, so that a block of an earlier mount is never handed
  out again. Nothing in the repository stores or recovers that: the counter of
  `mkfs.wfs` is in memory (`tools/mkfs.wfs/src/main.rs:83`) and the adapter's
  allocator refuses. `ImplementsAtomicStore`, `MountFindsCommitted`,
  `CommittedIsIntact` and the theorem `CommitIsAtomic` hold under this
  assumption; with an allocator that started again behind the first tree they
  would not.
* *`sync` does what its comment says.* `WriteBack` is the contract of the trait
  `BlockDevice` ("Sync all writes to disk"). The only device that implements
  `FilesystemOps`, and so can run `commit_transaction`, is the kernel's adapter,
  whose `sync` does nothing (`vfs_adapter.rs:601`); the file of `mkfs.wfs`, whose
  `sync` is real, does not implement it. `wfs_write_back` and `wfs_commit_order`
  are therefore about the generic core on such a device, and the write-through
  runs about what the adapter assumes of its own.
* *Somebody runs transactions.* No code calls `begin_transaction`,
  `commit_transaction` or `abort_transaction` yet; the models let a caller do so
  in any order.

## 3. Runs

| Run | Bounds | Shows |
|---|---|---|
| `phys_alloc` | 4 words of 2 pages, range from the middle of word 1 past the end, 2 clients, runs to 3 | no page shared or lost, exact counters, `None` only on exhaustion, a hint that is never above a free page (so the search never wraps round) |
| `wfs_tree` | 5 keys, leaves of 2, internal nodes of 3, blocks to 13, one error | dictionary refinement, old versions intact, every entry found |
| `wfs_transaction` | 2 inodes, 2 values, 2 to 3 tree versions, generations to 4, write-through | atomic and durable commits under any failure and crash |
| `wfs_write_back` | the same, smaller, write-back | superblocks stay in order on a device that delays writes until `sync` |
| `wfs_inodes_leaf` | 2 inodes, leaves of 2, one error | the committed inodes survive everything while they fit a leaf; an update (a deletion whose error is dropped, then an insertion) that reports Ok did exactly that, and one that fails halfway loses at most its own inode and is not recorded |
| `exec_table` | 3 slots, depth 4, 9 PIDs | no slot leaks, contexts are the caller's, and an exit through one resumes the caller |

The bounds reach what matters: the search passes words without a managed and
without a free page, and memory runs out; a tree splits its root, splits below
its root and meets a full parent; commits fail, are replaced and succeed in
turn, with a crash anywhere; the process table overflows. Runs that may stop because a bound is reached or
the machine halted do not check deadlock.

Runs expected to end in a violation show where the code and what is written
about it disagree (details under `findings` in `PROJECT.json`):

* `wfs_commit_order`: nothing is synced between the tree and block 0, so a device
  that delays writes until `sync` may write them in the other order.
* `wfs_abort`: abort leaves the aborted root in memory.
* `wfs_inodes_mount`: the tree's height is not stored and a mount takes it to be
  0, so a tree with more inodes than a leaf holds is not found again.
* `exec_nested`: the second exit of a nested exec halts the machine.
* `exec_failed`: a context saved for a failed exec is used by the caller's exit.
* `exec_stack`: kernel stacks leave the mapped 8MB at PID 88.

Two more disagreements met on the way are recorded under `hazards` only: an
inode update that fails after its deletion has lost the inode in memory, where a
later update of the same transaction picks up the tree without it
(`UpdateTouchesOneInode` bounds the damage of the one call), and the kernel stacks lie inside the range of the kernel heap.

No fairness is assumed: every property so far is a safety property. The one
candidate for liveness, that a suspended caller runs again, would need programs
to exit, which the kernel does not guarantee; `ExitResumesCaller` states the
step instead.

## 4. Proofs

`PhysAllocatorProofs` proves, for every word size, bitmap size, range and set of
clients, `TypeCorrect`, `ExclusivePages`, `NoLeak` and `Accounting`. The
inductive invariant is the conjunction of the types, disjointness, the partition
of the managed range and the counters; none of them is inductive alone, since
`free_pages` can be trusted only while it is the number of set bits, and a freed
page raises it only because a held page is never free. The counting steps rest
on the cardinality theorems for finite sets. Assumption: `SizeAssumption`, that
the range starts inside the bitmap, which `init` relies on as well (it
subtracts unsigned). `Accounting` includes that `alloc_page` reports exhaustion
only then: its scan, which wraps round from a hint at any place, passes over no
word (`ScanIsWhole`), and every page lies in a word of the bitmap
(`WordOfPage`); both rest on facts about quotient and remainder.

`WfsTransactionProofs` proves, for a device that writes through
(`WriteBack = FALSE`) and for all inodes, values and bounds, `TypeCorrect`,
`RootPointerSafe`, `Durability`, `GenerationMonotone` and `CommitIsAtomic`, the
last being the refinement of `AtomicStore`. The inductive invariant `IInv` adds
to the properties that every root in memory was written (`Written`), how the
generations of superblocks, transaction and acknowledged commit are ordered
(`Order`), and what the disk holds at each stage of a commit (`Stage`): whether
a commit may acknowledge depends on block 0 having been written earlier in the
same call. Assumption: `TransactionAssumption`, that the root inode and some
value exist and that the allocator starts behind the first tree; and, in the
model itself, the allocator that survives a crash (section 2). That the
write-through hypothesis is needed is what `wfs_commit_order` shows.

Only model-checked: `WfsTree`, `WfsInodes`, `ProcessExec` and the write-back
device. Outside the prover's reach: what the recursive path of a tree computes
for every input, and liveness.

## 5. Plan

In order of importance; each item brings its runs, mutants and map.

1. `AddressSpace`: page-table walk with huge pages, map, unmap, drop; composed
   with `PhysAllocator` (each owned page is freed exactly once, also when a map
   fails in the middle).
2. `WfsFreeSpace` and `WfsFiles`: free-space tree, extents, read and write;
   abstract specification: a file is an array of blocks, free and used blocks
   partition the device.
3. `WfsDirectories`: mkdir, unlink, rmdir, rename of the adapter as the updates
   they consist of; every entry names a live inode.
4. `KernelTables`: drives, working directory and descriptors across exec and
   exit, composed with `ProcessExec`.
5. `Pipe` and `NamedPipe`: counts and closed flags through every order of
   open and drop; readers see the bytes in order, end of file exactly when no
   writer is left.
6. `Rings`: keyboard ring (drops the newest) and console ring (drops the
   oldest) against a lossy queue; `Sessions`: identifiers and active index.
7. `MountTable`, `Path`, `Symlink`, `Permissions`: operators against reference
   definitions.
8. `FatChains`: allocation and freeing of clusters, directory updates.
9. Terminal, VT and readline buffers; AHCI and e1000 rings; GW-BASIC stacks.

Theorems to add: `NoSlotLeaked` and `ContextOfCaller` of `ProcessExec`; the
partition of blocks in `WfsFreeSpace`; private pages in `AddressSpace`; the
order of bytes in `Rings` and `Pipe`.

Not modelled, and not planned: syscall wrappers, register-level port I/O,
formatting in ProcFs and the applications, the boot loader, and `junk/`, which
is not built.
