------------------------------ MODULE MCShared ------------------------------
(* What processes share in mapped files: records, packets, atoms and the   *)
(* buffer pool.  A behaviour is about one of them (the subject), the       *)
(* others rest in one initial state.                                       *)
EXTENDS LinearList, MmPacket, MmAtom, MmPool

CONSTANT Subjects
VARIABLE subject

(* MmPacket: packets of no, one and two bytes. *)
MCPackets == {<<>>, <<1>>, <<2, 2>>}

(* MmPool: processes and the build of search_deque. *)
OneProc  == {"p1"}
TwoProcs == {"p1", "p2"}
NoProc   == {}
Unoptimised == {"nitems"}
AnyBuild    == {"padding", "nitems"}

MCInit == subject \in Subjects /\ LinInit /\ PktInit /\ AtomInit /\ Init

Others(s) ==
    /\ s # "list" => UNCHANGED linvars
    /\ s # "packets" => UNCHANGED pktvars
    /\ s # "atoms" => UNCHANGED avars
    /\ s # "pool" => UNCHANGED vars

MCNext ==
    /\ UNCHANGED subject /\ Others(subject)
    /\ \/ subject = "list" /\ LinNext
       \/ subject = "packets" /\ PktNext
       \/ subject = "atoms" /\ AtomNext
       \/ subject = "pool" /\ Next

MCVars == <<subject, linvars, pktvars, avars, vars>>

(* The fairness of MmPool: a process inside a call runs on.                *)
MCSpec == MCInit /\ [][MCNext]_MCVars /\ \A p \in Procs : WF_vars(Step(p))
=============================================================================
