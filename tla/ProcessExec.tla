----------------------------- MODULE ProcessExec -----------------------------
(***************************************************************************)
(* Running programs (crates/sys/process/src/lib.rs and the handlers of     *)
(* SYS_EXEC and SYS_EXIT in src/main.rs).  WATOS runs one process at a     *)
(* time: exec suspends the caller and runs the child until it exits.  The  *)
(* caller's registers are kept in the one global PARENT_CONTEXT.           *)
(*                                                                         *)
(* A page table is named by the process it belongs to, the kernel's by 0.  *)
(* Addresses are in units of 64KB, the size of a kernel stack.             *)
(***************************************************************************)
EXTENDS Integers, Sequences, FiniteSets, SequencesExt

CONSTANTS
    Images,          \* what SYS_EXEC may find under a name: see below
    MAX_PROCESSES,
    KernelStacks,    \* address of the kernel stack of PID 0 (0x280000)
    MappedEnd,       \* end of what map_kernel_space maps (8MB)
    MaxDepth,        \* bound: programs running inside each other
    MaxPid           \* bound: the last PID

(***************************************************************************)
(* An image is "missing" (no file, or one that cannot be read), "corrupt"  *)
(* (Elf64::parse refuses it), "unloadable" (memory runs out while its      *)
(* segments, stack or heap are mapped), or "good".                         *)
(***************************************************************************)
ASSUME ExecAssumption ==
    /\ "good" \in Images
    /\ Images \subseteq {"missing", "corrupt", "unloadable", "good"}
    /\ MAX_PROCESSES \in Nat \ {0}
    /\ MaxDepth \in Nat \ {0}
    /\ MaxPid \in Nat \ {0}

None == 0

VARIABLES
    processes,       \* PIDs of the occupied slots of PROCESSES
    next_pid,        \* NEXT_PID
    current,         \* CURRENT_PROCESS
    parent_context,  \* PARENT_CONTEXT: [valid, pid]
    cr3,             \* the page table in use
    kernel_stack,    \* whose kernel stack the TSS names
    halted,          \* the machine sits in a halt loop
    waiting          \* history: the processes inside a SYS_EXEC, outermost first

vars == <<processes, next_pid, current, parent_context, cr3, kernel_stack,
          halted, waiting>>

(* The kernel before it runs the first program. *)
Init ==
    /\ processes = {}
    /\ next_pid = 1
    /\ current = None
    /\ parent_context = [valid |-> FALSE, pid |-> None]
    /\ cr3 = None
    /\ kernel_stack = None
    /\ halted = FALSE
    /\ waiting = <<>>

-----------------------------------------------------------------------------
(* save_parent_context_with_frame: only a process that is in the table. *)
SavedContext ==
    IF current \in processes THEN [valid |-> TRUE, pid |-> current]
                             ELSE parent_context

(* run_process: the switch to the process's page table and kernel stack. *)
RunProcess(pid) ==
    /\ current' = pid
    /\ cr3' = pid
    /\ kernel_stack' = pid

(* exec succeeds: process pid takes a free slot and runs. *)
Started(pid) ==
    /\ processes' = processes \cup {pid}
    /\ next_pid' = pid + 1
    /\ RunProcess(pid)

(* exec returns an error; SYS_EXEC goes back to the caller's page table. *)
NotStarted(usedPid) ==
    /\ next_pid' = IF usedPid THEN next_pid + 1 ELSE next_pid
    /\ UNCHANGED <<processes, current, cr3, kernel_stack, waiting>>

(* _start runs login or TERM.EXE; if there is none, or it fails, it idles. *)
Boot(image) ==
    /\ ~halted
    /\ next_pid = 1 /\ current = None
    /\ \/ image = "good" /\ Started(next_pid) /\ UNCHANGED <<halted, waiting>>
       \/ image # "good" /\ NotStarted(image = "unloadable") /\ halted' = TRUE
    /\ UNCHANGED parent_context

(* Mutant: the context is saved only where none is saved yet. *)
ExecKeepsContext(image) ==
    /\ ~halted
    /\ current # None
    /\ next_pid <= MaxPid
    /\ image = "good" /\ Cardinality(processes) < MAX_PROCESSES
    /\ Len(waiting) < MaxDepth
    /\ Started(next_pid)
    /\ waiting' = Append(waiting, current)
    /\ parent_context' = IF parent_context.valid THEN parent_context ELSE SavedContext
    /\ UNCHANGED halted

(* Mutant: a full table is not noticed. *)
ExecIgnoresFull(image) ==
    /\ ~halted
    /\ current # None
    /\ next_pid <= MaxPid
    /\ image = "good"
    /\ Len(waiting) < MaxDepth
    /\ Started(next_pid)
    /\ waiting' = Append(waiting, current)
    /\ parent_context' = SavedContext
    /\ UNCHANGED halted

(* SYS_EXEC by the running process. *)
Exec(image) ==
    /\ ~halted
    /\ current # None
    /\ next_pid <= MaxPid
    /\ \/ /\ image = "missing"
          /\ NotStarted(FALSE)
          /\ UNCHANGED parent_context
       \/ /\ image = "corrupt"
          /\ NotStarted(FALSE)
          /\ parent_context' = SavedContext
       \/ /\ \/ image = "unloadable"
             \/ image = "good" /\ Cardinality(processes) = MAX_PROCESSES
          /\ NotStarted(TRUE)
          /\ parent_context' = SavedContext
       \/ /\ image = "good" /\ Cardinality(processes) < MAX_PROCESSES
          /\ Len(waiting) < MaxDepth
          /\ Started(next_pid)
          /\ waiting' = Append(waiting, current)
          /\ parent_context' = SavedContext
    /\ UNCHANGED halted

(* Mutant: the exiting process keeps its slot. *)
ExitKeepsSlot ==
    /\ ~halted
    /\ current # None
    /\ parent_context.valid
    /\ parent_context' = [parent_context EXCEPT !.valid = FALSE]
    /\ current' = parent_context.pid
    /\ cr3' = parent_context.pid
    /\ kernel_stack' = parent_context.pid
    /\ waiting' = SelectSeq(waiting, LAMBDA p : p # parent_context.pid)
    /\ UNCHANGED <<processes, next_pid, halted>>

(* Mutant: the exit goes to the kernel and not to the caller. *)
ExitToKernel ==
    /\ ~halted
    /\ current # None
    /\ processes' = processes \ {current}
    /\ parent_context' = [parent_context EXCEPT !.valid = FALSE]
    /\ current' = None
    /\ cr3' = None
    /\ UNCHANGED <<next_pid, kernel_stack, halted, waiting>>

FreeCurrentProcess == processes' = processes \ {current}

(* resume_parent: the context is used up. *)
ResumeParent ==
    /\ parent_context' = [parent_context EXCEPT !.valid = FALSE]
    /\ RunProcess(parent_context.pid)
    /\ waiting' = SelectSeq(waiting, LAMBDA p : p # parent_context.pid)

(* SYS_EXIT: the caller goes on if a context is saved; otherwise the       *)
(* machine halts.                                                          *)
Exit ==
    /\ ~halted
    /\ current # None
    /\ IF parent_context.valid
         THEN /\ FreeCurrentProcess
              /\ ResumeParent
              /\ UNCHANGED <<next_pid, halted>>
         ELSE /\ halted' = TRUE
              /\ UNCHANGED <<processes, next_pid, current, parent_context, cr3,
                             kernel_stack, waiting>>

Next ==
    \/ \E image \in Images : Boot(image) \/ Exec(image)
    \/ Exit

Spec == Init /\ [][Next]_vars

-----------------------------------------------------------------------------
(* The variables have their types. *)
TypeOK ==
    /\ processes \subseteq 1 .. MaxPid
    /\ Cardinality(processes) <= MAX_PROCESSES
    /\ next_pid \in 1 .. MaxPid + 1
    /\ {current, cr3, kernel_stack} \subseteq 0 .. MaxPid
    /\ parent_context \in [valid : BOOLEAN, pid : 0 .. MaxPid]
    /\ halted \in BOOLEAN
    /\ waiting \in Seq(1 .. MaxPid)

(***************************************************************************)
(* No slot leaks: every process in the table is the running one or waits   *)
(* for a child, whatever execs failed (free_current_process and the table  *)
(* of 16 slots).                                                           *)
(***************************************************************************)
NoSlotLeaked == processes \subseteq {current} \cup ToSet(waiting)

(***************************************************************************)
(* Exit goes back to the caller, never past it: a saved context is that of *)
(* the innermost waiting process, or, after an exec that failed, that of   *)
(* the running process itself.                                             *)
(***************************************************************************)
ContextOfCaller ==
    parent_context.valid =>
        \/ parent_context.pid = current
        \/ waiting # <<>> /\ parent_context.pid = Last(waiting)

(***************************************************************************)
(* The page table in use belongs to the kernel or to a process in the      *)
(* table: it was not freed ("The child's page table will be deallocated    *)
(* when we free the process, so we must not be using it").                 *)
(***************************************************************************)
PageTableIsLive == cr3 \in processes \cup {None}

(***************************************************************************)
(* The machine halts only when the program that exits was started by       *)
(* nobody ("No parent - top-level process exiting, halt").                 *)
(***************************************************************************)
HaltOnlyAtTopLevel == halted => waiting = <<>>

(***************************************************************************)
(* Exec-and-wait: an exit that finds another process's context resumes the *)
(* innermost waiting process, which is still in the table, in its own page *)
(* table and on its own kernel stack - after any nesting and any failed    *)
(* execs before.                                                           *)
(***************************************************************************)
ExitResumesCaller ==
    [][Exit /\ parent_context.valid /\ parent_context.pid # current
         => /\ waiting # <<>> /\ current' = Last(waiting)
            /\ current' \in processes'
            /\ cr3' = current' /\ kernel_stack' = current']_vars

(***************************************************************************)
(* The running process's kernel stack is mapped in its page table ("This   *)
(* covers kernel code (0x100000), heap, app data, and kernel stacks").     *)
(***************************************************************************)
KernelStackMapped == KernelStacks + kernel_stack + 1 <= MappedEnd
=============================================================================
