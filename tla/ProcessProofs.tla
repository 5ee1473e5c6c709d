--------------------------- MODULE ProcessProofs ----------------------------
(***************************************************************************)
(* Proofs about the processes: the throttle for every limit, exit limit    *)
(* and set of pids, and the forking server for every limit and backlog.    *)
(***************************************************************************)
EXTENDS ProcThrottle, SocketServer, FiniteSetTheorems, TLAPS

-----------------------------------------------------------------------------
(* The throttle. *)

(* ThrottleInv is inductive over finite lists; the cardinality laws need   *)
(* the list to be finite.                                                  *)
ThrottleStrong == ThrottleInv /\ IsFiniteSet(procs)

LEMMA Limits == proc_limit \in Nat /\ proc_limit > 0 /\ throttle_exit \in Nat
  BY SMT, ProcThrottleAssumption

LEMMA InitThrottle == ThrottleInit => ThrottleStrong
<1> SUFFICES ASSUME ThrottleInit PROVE ThrottleStrong
  OBVIOUS
<1>1. IsFiniteSet({}) /\ Cardinality({}) = 0
  BY FS_EmptySet
<1>2. ThrottleTypeOK
  <2>1. throttle_flag \in BOOLEAN /\ nohang \in BOOLEAN
    <3>1. throttle_flag = FALSE /\ nohang = FALSE
      BY Zenon DEF ThrottleInit
    <3> QED BY <3>1, Zenon
  <2> QED BY <2>1, Limits DEF ThrottleInit, ThrottleTypeOK, AnyChild
<1>3. ListIsManaged /\ WithinLimit /\ IsFiniteSet(procs)
  BY <1>1, Limits DEF ThrottleInit, ListIsManaged, WithinLimit
<1>4. ThrottleBand
  <2>1. throttle_flag = FALSE /\ proc_count = 0
    BY Zenon DEF ThrottleInit
  <2>2. ~throttle_flag
    BY <2>1, Zenon
  <2>3. proc_count < proc_limit
    BY <2>1, Limits
  <2> QED BY <2>2, <2>3, Zenon DEF ThrottleBand
<1> QED BY <1>2, <1>3, <1>4 DEF ThrottleStrong, ThrottleInv

(* A child is forked out of throttle only, when the list has room for it.  *)
LEMMA Increment ==
  ASSUME ThrottleStrong, ~throttle_flag, NEW pid \in Pids, state[pid] = "free",
         state' = [state EXCEPT ![pid] = "running"],
         managed' = managed \cup {pid}, fcds_throttle_increment(pid),
         UNCHANGED <<ppc, waitfor, nohang>>
  PROVE  ThrottleStrong'
<1>1. /\ ThrottleTypeOK /\ ListIsManaged /\ WithinLimit /\ ThrottleBand
      /\ IsFiniteSet(procs)
  BY DEF ThrottleStrong, ThrottleInv
<1>2. pid \notin procs
  BY <1>1 DEF ListIsManaged
<1>3. proc_count < proc_limit /\ proc_count \in Nat /\ proc_limit \in Nat
  BY <1>1, Limits DEF ThrottleBand, ThrottleTypeOK
<1>4. proc_count' = proc_count + 1 /\ procs' = procs \cup {pid}
  BY <1>3 DEF fcds_throttle_increment
<1>5. throttle_flag' \in BOOLEAN /\ (throttle_flag' <=> proc_count' >= proc_limit)
  <2>1. throttle_flag' = (throttle_flag \/ proc_count' >= proc_limit)
    BY Zenon DEF fcds_throttle_increment
  <2>2. (throttle_flag \/ proc_count' >= proc_limit) \in BOOLEAN
    BY Zenon
  <2> QED BY <2>1, <2>2, Zenon
<1>6. IsFiniteSet(procs') /\ Cardinality(procs') = Cardinality(procs) + 1
  BY <1>1, <1>2, <1>4, FS_AddElement
<1>7. ThrottleTypeOK'
  BY <1>1, <1>3, <1>4, <1>5 DEF ThrottleTypeOK
<1>8. ListIsManaged'
  BY <1>1, <1>2, <1>4, <1>6 DEF ListIsManaged, ThrottleTypeOK
<1>9. WithinLimit'
  BY <1>3, <1>4, <1>8 DEF ListIsManaged, WithinLimit
<1>10. ThrottleBand'
  BY <1>3, <1>4, <1>5 DEF ThrottleBand
<1> QED BY <1>6, <1>7, <1>8, <1>9, <1>10 DEF ThrottleStrong, ThrottleInv

LEMMA ForkStep ==
  ASSUME ThrottleStrong, proc_throttled_fork
  PROVE  ThrottleStrong'
<1>1. CASE throttle_flag /\ UNCHANGED <<fcds, state, managed, ppc, waitfor, nohang>>
  BY <1>1 DEF ThrottleStrong, ThrottleInv, ThrottleTypeOK, ListIsManaged, WithinLimit, ThrottleBand, fcds
<1>2. CASE ~throttle_flag
  <2>1. PICK pid : /\ pid \in Children({"free"})
                   /\ state' = [state EXCEPT ![pid] = "running"]
                   /\ managed' = managed \cup {pid}
                   /\ fcds_throttle_increment(pid)
    BY <1>2 DEF proc_throttled_fork
  <2>2. pid \in Pids /\ state[pid] = "free"
    BY <2>1 DEF Children
  <2>3. UNCHANGED <<ppc, waitfor, nohang>>
    BY DEF proc_throttled_fork
  <2> QED BY <1>2, <2>1, <2>2, <2>3, Increment, Zenon
<1> QED BY <1>1, <1>2 DEF proc_throttled_fork

(* A managed child leaves the list and the count when it is reaped; an     *)
(* unmanaged one is in neither.                                            *)
LEMMA ReapStep ==
  ASSUME ThrottleStrong, NEW pid \in Pids, Reap(pid)
  PROVE  ThrottleStrong'
<1> USE DEF ThrottleStrong, ThrottleInv
<1>1. state' = [state EXCEPT ![pid] = "free"] /\ managed' = managed \ {pid}
  BY DEF Reap
<1>2. CASE /\ pid \in procs /\ fcds_throttle_decrement
           /\ procs' = search_procs(pid) /\ Return(pid)
  <2>1. procs' = procs \ {pid} /\ IsFiniteSet(procs')
        /\ Cardinality(procs') = Cardinality(procs) - 1
    BY <1>2, FS_RemoveElement DEF search_procs
  <2>2. Cardinality(procs') \in Nat
    BY <2>1, FS_CardinalityType
  <2>3. proc_count \in 0 .. proc_limit /\ proc_count = Cardinality(procs)
    BY DEF ThrottleTypeOK, ListIsManaged
  <2>4. proc_count > 0 /\ proc_count' = proc_count - 1
    BY <1>2, <2>1, <2>2, <2>3, Limits DEF fcds_throttle_decrement
  <2>5. throttle_flag' = (throttle_flag /\ proc_count' >= throttle_exit)
    BY <1>2, Zenon DEF fcds_throttle_decrement
  <2>6. throttle_flag' \in BOOLEAN /\ (throttle_flag' => proc_count' >= throttle_exit)
    <3>1. (throttle_flag /\ proc_count' >= throttle_exit) \in BOOLEAN
      BY Zenon
    <3> QED BY <2>5, <3>1, Zenon
  <2>7. nohang' \in BOOLEAN
    <3>1. nohang' = FALSE
      BY <1>2, Zenon DEF Return
    <3> QED BY <3>1, Zenon
  <2>8. ThrottleTypeOK'
    BY <1>1, <1>2, <2>1, <2>3, <2>4, <2>6, <2>7, Limits DEF ThrottleTypeOK, Return
  <2>9. ListIsManaged'
    BY <1>1, <2>1, <2>3, <2>4 DEF ListIsManaged, ThrottleTypeOK
  <2>10. WithinLimit' /\ ThrottleBand'
    BY <2>3, <2>4, <2>6, <2>9, Limits DEF ListIsManaged, WithinLimit, ThrottleBand
  <2> QED BY <2>1, <2>8, <2>9, <2>10
<1>3. CASE pid \notin procs /\ UNCHANGED fcds
  <2>1. managed' = managed
    BY <1>1, <1>3 DEF ListIsManaged
  <2>2. UNCHANGED <<proc_count, throttle_flag, procs>>
    BY <1>3 DEF fcds
  <2>3. ppc' \in {"app", "again"} /\ waitfor' \in Pids \cup {AnyChild}
    BY <1>3 DEF Reap, Return, ThrottleTypeOK
  <2>4. nohang' \in BOOLEAN
    <3>1. nohang' = FALSE \/ nohang' = nohang
      BY <1>3 DEF Reap, Return
    <3>2. nohang \in BOOLEAN
      BY Zenon DEF ThrottleTypeOK
    <3> QED BY <3>1, <3>2, Zenon
  <2>5. ThrottleTypeOK'
    BY <1>1, <2>1, <2>2, <2>3, <2>4 DEF ThrottleTypeOK
  <2>6. ListIsManaged'
    BY <1>1, <1>3, <2>1, <2>2 DEF ListIsManaged, ThrottleTypeOK
  <2> QED BY <2>1, <2>2, <2>5, <2>6 DEF WithinLimit, ThrottleBand
<1> QED BY <1>2, <1>3 DEF Reap

(* The other steps leave the list, the count and the flag alone.           *)
LEMMA ThrottleOther ==
  ASSUME ThrottleStrong, \/ fork \/ proc_throttled_wait \/ NoStatus
               \/ \E pid \in Pids : Exit(pid)
  PROVE  ThrottleStrong'
<1> USE DEF ThrottleStrong, ThrottleInv
<1>1. UNCHANGED <<proc_count, throttle_flag, procs, managed>>
  BY DEF fork, proc_throttled_wait, NoStatus, Exit, fcds
<1>2. nohang' \in BOOLEAN
  <2>1. nohang' = FALSE \/ nohang' \in BOOLEAN \/ nohang' = nohang
    BY Zenon DEF fork, proc_throttled_wait, NoStatus, Exit, Return
  <2>2. nohang \in BOOLEAN
    BY Zenon DEF ThrottleTypeOK
  <2> QED BY <2>1, <2>2, Zenon
<1>3. ppc' \in {"app", "wait", "again"} /\ waitfor' \in Pids \cup {AnyChild}
  BY DEF ThrottleTypeOK, fork, proc_throttled_wait, NoStatus, Exit, Return
<1>4. /\ state' \in [Pids -> {"free", "running", "zombie"}]
      /\ \A p \in procs : state'[p] # "free"
  BY DEF ThrottleTypeOK, ListIsManaged, fork, proc_throttled_wait, NoStatus, Exit, Children
<1>5. ThrottleTypeOK'
  BY <1>1, <1>2, <1>3, <1>4 DEF ThrottleTypeOK
<1> QED BY <1>1, <1>4, <1>5 DEF ListIsManaged, WithinLimit, ThrottleBand

LEMMA NextThrottle == ThrottleStrong /\ [ThrottleNext]_throttle_vars => ThrottleStrong'
<1> SUFFICES ASSUME ThrottleStrong, [ThrottleNext]_throttle_vars PROVE ThrottleStrong'
  OBVIOUS
<1>1. CASE UNCHANGED throttle_vars
  BY <1>1 DEF throttle_vars, fcds, ThrottleStrong, ThrottleInv, ThrottleTypeOK, ListIsManaged, WithinLimit, ThrottleBand
<1>2. CASE ThrottleNext
  BY <1>2, ForkStep, ReapStep, ThrottleOther DEF ThrottleNext
<1> QED BY <1>1, <1>2

(* The list of proc_new_fcds holds exactly the managed children that were  *)
(* not reaped, never more than the limit, and the flag stays between the   *)
(* two limits, after every order of forks, ends and waits.                 *)
THEOREM Throttled == ThrottleSpec => []ThrottleInv
<1>1. ThrottleStrong => ThrottleInv
  BY DEF ThrottleStrong
<1> QED BY <1>1, InitThrottle, NextThrottle, PTL DEF ThrottleSpec

(* Each managed child is reported by the wait that reaps it, and no other  *)
(* child ever is, although waitpid returns the children in any order.      *)
THEOREM Reported == ThrottleSpec => ReportsEachManaged
<1> DEFINE Reports ==
      /\ \A pid \in managed : pid \notin managed' => ret' = [op |-> "wait", pid |-> pid]
      /\ ppc # "app" /\ ppc' = "app" /\ ret'.pid > 0 => ret'.pid \in managed \ managed'
<1>1. ThrottleStrong /\ [ThrottleNext]_throttle_vars => [Reports]_throttle_vars
  <2> SUFFICES ASSUME ThrottleStrong, ThrottleNext PROVE Reports
    OBVIOUS
  <2>1. managed = procs
    BY DEF ThrottleStrong, ThrottleInv, ListIsManaged
  <2>2. CASE proc_throttled_fork \/ fork \/ proc_throttled_wait \/ \E pid \in Pids : Exit(pid)
    BY <2>2 DEF proc_throttled_fork, fork, proc_throttled_wait, Exit
  <2>3. CASE NoStatus
    BY <2>3 DEF NoStatus, Return, Answer, Null
  <2>4. CASE \E pid \in Pids : Reap(pid)
    <3> SUFFICES ASSUME NEW pid \in Pids, Reap(pid) PROVE Reports
      BY <2>4
    <3>1. CASE pid \in procs
      BY <2>1, <3>1 DEF Reap, Return, Answer
    <3>2. CASE pid \notin procs
      BY <2>1, <3>2 DEF Reap, Return, Answer
    <3> QED BY <3>1, <3>2
  <2> QED BY <2>2, <2>3, <2>4 DEF ThrottleNext
<1> QED BY <1>1, InitThrottle, NextThrottle, PTL DEF ThrottleSpec, ReportsEachManaged

(* A blocking proc_throttled_wait comes back with a managed child or for   *)
(* want of children, not because an unmanaged one ended.                   *)
THEOREM Blocks == ThrottleSpec => BlockingWaitBlocks
<1> DEFINE Blocking ==
      ppc # "app" /\ ppc' = "app" /\ ~nohang /\ ret'.pid \notin Pids => Waitable = {}
<1>1. [ThrottleNext]_throttle_vars => [Blocking]_throttle_vars
  <2> SUFFICES ASSUME ThrottleNext, ppc # "app", ppc' = "app", ~nohang, ret'.pid \notin Pids
               PROVE  Waitable = {}
    OBVIOUS
  <2>1. ~proc_throttled_fork /\ ~fork /\ ~proc_throttled_wait /\ \A pid \in Pids : ~Exit(pid)
    BY DEF proc_throttled_fork, fork, proc_throttled_wait, Exit
  <2>2. ASSUME NEW pid \in Pids, Reap(pid) PROVE FALSE
    <3>1. CASE pid \in procs
      BY <2>2, <3>1 DEF Reap, Return, Answer
    <3>2. CASE pid \notin procs
      BY <2>2, <3>2 DEF Reap
    <3>3. QED BY <3>1, <3>2
  <2>3. NoStatus
    BY <2>1, <2>2 DEF ThrottleNext
  <2>4. QED BY <2>3 DEF NoStatus
<1>2. QED BY <1>1, PTL DEF ThrottleSpec, BlockingWaitBlocks

-----------------------------------------------------------------------------
(* The forking server. *)

(* Between the load and the store of the increment the value loaded is not *)
(* below open_conns, which only the handler changes, and below the limit:  *)
(* this is what keeps the stored sum within it and the leak from shrinking. *)
LoadedInv == spc \in {"load", "store"} => open_conns <= reg /\ reg < max_open_conns

ServerStrong == ServerInv /\ LoadedInv

(* The invariant holds in the beginning. *)
LEMMA InitServer == ServerInit => ServerStrong
<1> USE SocketServerAssumption
<1> SUFFICES ASSUME ServerInit PROVE ServerStrong
  OBVIOUS
<1>1. ServerTypeOK
  <2>1. /\ loop_abort \in BOOLEAN /\ listenfd_forced_closed \in BOOLEAN
        /\ listening \in BOOLEAN /\ connfd \in BOOLEAN
        /\ handling \in BOOLEAN /\ sigchld \in BOOLEAN
    BY Zenon DEF ServerInit
  <2>2. /\ open_conns \in 0 .. max_open_conns /\ reg \in 0 .. max_open_conns
        /\ waiting \in 0 .. Backlog /\ live \in Nat /\ zombies \in Nat /\ leaked \in Nat
    BY DEF ServerInit
  <2> QED BY <2>1, <2>2 DEF ServerInit, ServerTypeOK
<1>2. ChildrenWithinLimit /\ CountAccounted /\ LoadedInv
  BY DEF ServerInit, ChildrenWithinLimit, CountAccounted, LoadedInv
<1>3. ParentHoldsNone
  BY Zenon DEF ServerInit, ParentHoldsNone
<1> QED BY <1>1, <1>2, <1>3 DEF ServerStrong, ServerInv

(* A step of the loop keeps the invariant. *)
LEMMA ServerParent ==
  ASSUME ServerStrong, Parent \/ AcceptError
  PROVE  ServerStrong'
<1> USE SocketServerAssumption DEF ServerStrong, ServerInv, ServerTypeOK, ChildrenWithinLimit, CountAccounted,
            ParentHoldsNone, LoadedInv, At, flags, sigstate, children
<1>1. CASE Start        BY <1>1 DEF Start
<1>2. CASE Loop         BY <1>2 DEF Loop
<1>3. CASE Accept       BY <1>3 DEF Accept
<1>4. CASE AcceptError  BY <1>4 DEF AcceptError
<1>5. CASE Accepted     BY <1>5 DEF Accepted
<1>6. CASE Check        BY <1>6 DEF Check, Full
<1>7. CASE Refuse       BY <1>7 DEF Refuse
<1>8. CASE Load         BY <1>8 DEF Load
<1>9. CASE Store        BY <1>9 DEF Store
<1>10. CASE Fork
  <2>1. connfd' = FALSE /\ UNCHANGED <<loop_abort, listenfd_forced_closed, listening,
                                        handling, sigchld, sigterm>>
    BY <1>10 DEF Fork
  <2>2. connfd' \in BOOLEAN
    BY <2>1
  <2>3. CASE live' = live + 1 /\ UNCHANGED leaked
    BY <1>10, <2>1, <2>2, <2>3 DEF Fork
  <2>4. CASE leaked' = leaked + 1 /\ UNCHANGED live
    BY <1>10, <2>1, <2>2, <2>4 DEF Fork
  <2> QED BY <1>10, <2>3, <2>4 DEF Fork
<1>11. CASE End         BY <1>11 DEF End
<1> QED BY <1>1, <1>2, <1>3, <1>4, <1>5, <1>6, <1>7, <1>8, <1>9, <1>10, <1>11 DEF Parent

(* So does a handler that interrupts it, and so do the processes around.   *)
LEMMA ServerOther ==
  ASSUME ServerStrong, Handlers \/ ChildExit \/ Connect \/ Terminate
  PROVE  ServerStrong'
<1> USE SocketServerAssumption DEF ServerStrong, ServerInv, ServerTypeOK, ChildrenWithinLimit, CountAccounted,
            ParentHoldsNone, LoadedInv, flags, sigstate, children
<1>1. CASE DeliverChild       BY <1>1 DEF DeliverChild
<1>2. CASE sig_child_handler  BY <1>2 DEF sig_child_handler
<1>3. CASE sig_term_handler   BY <1>3 DEF sig_term_handler
<1>4. CASE ChildExit          BY <1>4 DEF ChildExit
<1>5. CASE Connect            BY <1>5 DEF Connect
<1>6. CASE Terminate          BY <1>6 DEF Terminate
<1> QED BY <1>1, <1>2, <1>3, <1>4, <1>5, <1>6 DEF Handlers

(* There are never more children than max_open_conns, open_conns never     *)
(* falls behind them, and the parent waits without a connection, however   *)
(* the signal handlers interrupt the loop of ssrvr_start.                  *)
THEOREM Served == ServerSpec => []ServerInv
<1>1. ServerInit => ServerStrong
  BY InitServer
<1>2. ServerStrong /\ [ServerNext]_server_vars => ServerStrong'
  <2> SUFFICES ASSUME ServerStrong, [ServerNext]_server_vars PROVE ServerStrong'
    OBVIOUS
  <2>1. CASE UNCHANGED server_vars
    BY <2>1 DEF server_vars, flags, sigstate, children, ServerStrong, ServerInv, ServerTypeOK, ChildrenWithinLimit,
                CountAccounted, ParentHoldsNone, LoadedInv
  <2>2. CASE ServerNext
    BY <2>2, ServerParent, ServerOther DEF ServerNext
  <2> QED BY <2>1, <2>2
<1>3. ServerStrong => ServerInv
  BY DEF ServerStrong
<1> QED BY <1>1, <1>2, <1>3, PTL DEF ServerSpec
=============================================================================
