----------------------------- MODULE AtomicStore -----------------------------
(***************************************************************************)
(* What committing by root pointer swap promises about a crash: the state  *)
(* that survives is replaced only as a whole, by the state staged for it,  *)
(* and a crash leaves either the old or the new one, never a mixture.      *)
(***************************************************************************)
CONSTANT State

VARIABLES
    durable,  \* what a mount after a crash would find
    staged    \* what the next commit would make durable

Init ==
    /\ durable \in State
    /\ staged = durable

Stage ==
    /\ staged' \in State
    /\ UNCHANGED durable

Commit ==
    /\ durable' = staged
    /\ UNCHANGED staged

Crash ==
    /\ staged' = durable
    /\ UNCHANGED durable

Next == Stage \/ Commit \/ Crash

Spec == Init /\ [][Next]_<<durable, staged>>
=============================================================================
