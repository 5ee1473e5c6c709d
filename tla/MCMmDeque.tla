------------------------------ MODULE MCMmDeque ------------------------------
(* Instances of MmDeque: processes of one thread, and one process of two. *)
EXTENDS MmDeque
TwoProcs   == [t \in Threads |-> IF t = "t1" THEN "p1" ELSE "p2"]
OneProc    == [t \in Threads |-> "p1"]
MCThreads  == {"t1", "t2"}
MCProcs    == {"p1", "p2"}
OneProcess == {"p1"}
Slots2     == {2}
Slots02    == {0, 2}
Slots4     == {4}
=============================================================================
