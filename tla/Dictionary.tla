------------------------------ MODULE Dictionary ------------------------------
(***************************************************************************)
(* What a WFS tree promises its callers: a dictionary with insert and      *)
(* delete, each of which reports what it did.  An operation that reports   *)
(* an error, including one that stopped halfway because the device or the  *)
(* allocator failed, has changed nothing that a lookup can see.            *)
(***************************************************************************)
EXTENDS TLC

CONSTANTS Keys, Values

VARIABLES
    dict,   \* key -> value, for the keys present
    result  \* what the last operation reported

Errors == {"IoError", "NodeFull"}

Init ==
    /\ dict = <<>>
    /\ result = "Ok"

Insert(k, v) ==
    \/ /\ k \notin DOMAIN dict
       /\ dict' = (k :> v) @@ dict
       /\ result' = "Ok"
    \/ /\ k \in DOMAIN dict
       /\ result' = "DuplicateKey"
       /\ UNCHANGED dict
    \/ /\ result' \in Errors
       /\ UNCHANGED dict

Delete(k) ==
    \/ /\ k \in DOMAIN dict
       /\ dict' = [j \in DOMAIN dict \ {k} |-> dict[j]]
       /\ result' = "Ok"
    \/ /\ k \notin DOMAIN dict
       /\ result' \in {"EmptyTree", "KeyNotFound"}
       /\ UNCHANGED dict
    \/ /\ result' \in Errors
       /\ UNCHANGED dict

Next ==
    \/ \E k \in Keys, v \in Values : Insert(k, v)
    \/ \E k \in Keys : Delete(k)

Spec == Init /\ [][Next]_<<dict, result>>
=============================================================================
