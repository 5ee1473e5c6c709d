----------------------------- MODULE BufferPool -----------------------------
(***************************************************************************)
(* What mmpool.h promises of a buffer pool: a buffer that is handed out    *)
(* belongs to one process until that process returns it, a buffer of the   *)
(* pool is refused only while every buffer is handed out, and the return   *)
(* of a buffer that is out succeeds.                                       *)
(***************************************************************************)
CONSTANTS Procs, Buffers

VARIABLE held  \* the buffers each process has and has not returned

Free == Buffers \ UNION { held[p] : p \in Procs }

Init == held = [p \in Procs |-> {}]

Get(p) == \E b \in Free : held' = [held EXCEPT ![p] = @ \cup {b}]

Put(p) == \E b \in held[p] : held' = [held EXCEPT ![p] = @ \ {b}]

(* The process gives up all it has ("Deallocate all buffers").             *)
Recall(p) == held' = [held EXCEPT ![p] = {}]

Next == \E p \in Procs : Get(p) \/ Put(p) \/ Recall(p)

Spec == Init /\ [][Next]_held
=============================================================================
