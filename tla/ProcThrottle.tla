---------------------------- MODULE ProcThrottle ----------------------------
(***************************************************************************)
(* The process throttle of process_control.c: a parent that forks managed  *)
(* children up to a limit and reaps them, among children it forked by      *)
(* other means.                                                            *)
(*                                                                         *)
(* The parent has one thread, so its code runs in the two functions        *)
(* proc_throttled_fork and proc_throttled_wait; children exit at any time, *)
(* and the kernel may give the pid of a reaped child to the next one.  The *)
(* list of process statuses is a deque that search_procs rotates; its      *)
(* order decides nothing and a pid is forked while it is free, so the list *)
(* is the set of its pids here.                                            *)
(***************************************************************************)
EXTENDS Integers, FiniteSets

CONSTANTS Pids,          \* the process ids, positive numbers
          proc_limit,    \* max number of managed children
          throttle_exit, \* the throttle ends below this count
          MaxUnmanaged   \* how many other children the application has at once

(* dq_init takes the limit as a ushort; a limit of 0 would let one child   *)
(* through, which is then neither listed nor counted.                      *)
ASSUME ProcThrottleAssumption == /\ Pids \subseteq Nat \ {0}
                                 /\ proc_limit \in Nat /\ 0 < proc_limit /\ proc_limit < 65536
                                 /\ throttle_exit \in Nat
                                 /\ MaxUnmanaged \in Nat

VARIABLES proc_count, throttle_flag, procs, \* the FCDS; procs is a set of pids
          state,    \* of each pid: "free", "running" or "zombie"
          managed,  \* history: the children proc_throttled_fork created
          ppc,       \* what the parent does: its own code, waits, or waits again
          waitfor,  \* the pid of the waitpid calls, -1 for any
          nohang,   \* whether WNOHANG is set
          ret       \* the last call: the pid returned, and what it stands for

fcds == <<proc_count, throttle_flag, procs>>
throttle_vars == <<fcds, state, managed, ppc, waitfor, nohang, ret>>

AnyChild == -1
Null == -2

Children(states) == { p \in Pids : state[p] \in states }
Answer(op, pid) == ret' = [op |-> op, pid |-> pid]

-----------------------------------------------------------------------------
(* fcds_throttle_increment: the child is listed and counted below the      *)
(* limit only.                                                             *)
fcds_throttle_increment(pid) ==
  LET room == proc_count < proc_limit
  IN  /\ proc_count' = IF room THEN proc_count + 1 ELSE proc_count
      /\ procs' = IF room THEN procs \cup {pid} ELSE procs
      /\ throttle_flag' = (throttle_flag \/ proc_count' >= proc_limit)

(* Faulty: the exit limit is compared with the count before the decrement. *)
fcds_throttle_decrement_Before ==
  /\ proc_count' = IF proc_count > 0 THEN proc_count - 1 ELSE proc_count
  /\ throttle_flag' = (throttle_flag /\ proc_count >= throttle_exit)

fcds_throttle_decrement ==
  /\ proc_count' = IF proc_count > 0 THEN proc_count - 1 ELSE proc_count
  /\ throttle_flag' = (throttle_flag /\ proc_count' >= throttle_exit)

(* proc_throttled_fork: pid -1 in throttle.                                *)
proc_throttled_fork ==
  /\ ppc = "app"
  /\ \/ /\ throttle_flag
        /\ Answer("fork", -1)
        /\ UNCHANGED <<fcds, state, managed>>
     \/ /\ ~throttle_flag
        /\ \E pid \in Children({"free"}) :
             /\ state' = [state EXCEPT ![pid] = "running"]
             /\ managed' = managed \cup {pid}
             /\ fcds_throttle_increment(pid)
             /\ Answer("fork", pid)
  /\ UNCHANGED <<ppc, waitfor, nohang>>

(* The application forks by other means.                                   *)
fork ==
  /\ ppc = "app"
  /\ Cardinality(Children({"running", "zombie"}) \ managed) < MaxUnmanaged
  /\ \E pid \in Children({"free"}) : state' = [state EXCEPT ![pid] = "running"]
  /\ UNCHANGED <<fcds, managed, ppc, waitfor, nohang, ret>>

Exit(pid) ==
  /\ state[pid] = "running"
  /\ state' = [state EXCEPT ![pid] = "zombie"]
  /\ UNCHANGED <<fcds, managed, ppc, waitfor, nohang, ret>>

-----------------------------------------------------------------------------
(* proc_throttled_wait, for any child or for the one of a pid.              *)
proc_throttled_wait ==
  /\ ppc = "app"
  /\ nohang' \in BOOLEAN
  /\ waitfor' \in {AnyChild} \cup Pids
  /\ ppc' = "wait"
  /\ UNCHANGED <<fcds, state, managed, ret>>

Matching == IF waitfor = AnyChild THEN Pids ELSE {waitfor}
Waitable == Matching \cap Children({"running", "zombie"})
Zombies  == Matching \cap Children({"zombie"})

Return(pid) == /\ Answer("wait", pid)
               /\ ppc' = "app" /\ waitfor' = AnyChild /\ nohang' = FALSE

(* waitpid finds nothing: -1 without children to wait for, which is NULL   *)
(* in the loop, and 0 with WNOHANG.                                        *)
NoStatus ==
  /\ ppc \in {"wait", "again"}
  /\ \/ Waitable = {} /\ Return(IF ppc = "wait" THEN -1 ELSE Null)
     \/ Waitable # {} /\ Zombies = {} /\ nohang /\ Return(0)
  /\ UNCHANGED <<fcds, state, managed>>

(* Faulty: a reaped child stays in the list.                               *)
search_procs_Peek(pid) == procs

(* Faulty: the children popped on the way to the one searched for are not  *)
(* pushed back.                                                            *)
search_procs_Drop(pid) == {}

(* search_procs: the list without the child.                               *)
search_procs(pid) == procs \ {pid}

(* Faulty: the loop ends at an unmanaged child also without WNOHANG.       *)
Reap_NoLoop(pid) ==
  /\ ppc \in {"wait", "again"} /\ pid \in Zombies
  /\ state' = [state EXCEPT ![pid] = "free"]
  /\ managed' = managed \ {pid}
  /\ IF pid \in procs
     THEN fcds_throttle_decrement /\ procs' = search_procs(pid) /\ Return(pid)
     ELSE UNCHANGED fcds /\ Return(0)

(* waitpid reaps a child.  An unmanaged one is not reported: the call      *)
(* returns 0 with WNOHANG and waits again without it.                      *)
Reap(pid) ==
  /\ ppc \in {"wait", "again"} /\ pid \in Zombies
  /\ state' = [state EXCEPT ![pid] = "free"]
  /\ managed' = managed \ {pid}
  /\ \/ /\ pid \in procs
        /\ fcds_throttle_decrement
        /\ procs' = search_procs(pid)
        /\ Return(pid)
     \/ /\ pid \notin procs
        /\ IF nohang
           THEN Return(0)
           ELSE ppc' = "again" /\ UNCHANGED <<waitfor, nohang, ret>>
        /\ UNCHANGED fcds

-----------------------------------------------------------------------------
(* proc_new_fcds *)
ThrottleInit == /\ proc_count = 0 /\ throttle_flag = FALSE /\ procs = {}
                /\ state = [p \in Pids |-> "free"] /\ managed = {}
                /\ ppc = "app" /\ waitfor = AnyChild /\ nohang = FALSE
                /\ ret = [op |-> "new", pid |-> 0]

ThrottleNext == \/ proc_throttled_fork \/ fork \/ proc_throttled_wait \/ NoStatus
                \/ \E pid \in Pids : Exit(pid) \/ Reap(pid)

ThrottleSpec == ThrottleInit /\ [][ThrottleNext]_throttle_vars

(* Children end, waitpid returns when it can and takes no zombie last for  *)
(* ever, and the application comes back to a wait for any child, which the *)
(* comment of proc_throttled_fork asks of it in throttle.                  *)
WaitAny == proc_throttled_wait /\ waitfor' = AnyChild /\ nohang' = FALSE
ThrottleFairSpec == /\ ThrottleSpec
                    /\ WF_throttle_vars(NoStatus) /\ SF_throttle_vars(WaitAny)
                    /\ \A pid \in Pids : WF_throttle_vars(Exit(pid)) /\ SF_throttle_vars(Reap(pid))

-----------------------------------------------------------------------------
ThrottleTypeOK ==
  /\ proc_count \in 0 .. proc_limit /\ throttle_flag \in BOOLEAN
  /\ procs \subseteq Pids /\ managed \subseteq Pids
  /\ state \in [Pids -> {"free", "running", "zombie"}]
  /\ ppc \in {"app", "wait", "again"}
  /\ waitfor \in Pids \cup {AnyChild} /\ nohang \in BOOLEAN

(* The list holds the managed children that were not reaped, all of them   *)
(* and no other, and proc_count is its size (process_control.c: "FCDS proc *)
(* list size != FCDS proc count: VERY UNEXPECTED").                        *)
ListIsManaged ==
  /\ procs = managed /\ proc_count = Cardinality(procs)
  /\ \A pid \in procs : state[pid] # "free"

(* There are never more managed children than the limit allows.            *)
WithinLimit == Cardinality(managed) <= proc_limit

(* Out of throttle there is room for a child; in throttle the count has    *)
(* not fallen below the exit limit (process_control.h: "Throttle remains   *)
(* in effect until the number of active processes falls below the throttle *)
(* exit limit").                                                           *)
ThrottleBand ==
  IF throttle_flag
  THEN proc_count >= throttle_exit \/ proc_count >= proc_limit
  ELSE proc_count < proc_limit

(* The invariant of the throttle; it is inductive.                         *)
ThrottleInv == ThrottleTypeOK /\ ListIsManaged /\ WithinLimit /\ ThrottleBand

(* The status of a managed child is reported by the call that reaps it,    *)
(* whatever other children end at the same time; an unmanaged child is     *)
(* never reported.                                                         *)
ReportsEachManaged ==
  [][/\ \A pid \in managed : pid \notin managed' => ret' = [op |-> "wait", pid |-> pid]
     /\ ppc # "app" /\ ppc' = "app" /\ ret'.pid > 0 => ret'.pid \in managed \ managed']_throttle_vars

(* A blocking wait reports a managed child or that there is none to wait   *)
(* for: it does not come back because an unmanaged one ended.              *)
BlockingWaitBlocks ==
  [][ppc # "app" /\ ppc' = "app" /\ ~nohang /\ ret'.pid \notin Pids => Waitable = {}]_throttle_vars

(* Throttle ends while the parent waits and the children end.              *)
ThrottleEnds == throttle_flag ~> ~throttle_flag
=============================================================================
