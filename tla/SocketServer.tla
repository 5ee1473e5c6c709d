---------------------------- MODULE SocketServer ----------------------------
(***************************************************************************)
(* The parent process of socketserver.c: the accept loop of ssrvr_start    *)
(* and the two signal handlers that interrupt it between any two of its    *)
(* steps.  Children serve one connection each and end when they like; the  *)
(* personality functions, the command line and the socket set up are left  *)
(* out.  Both handlers are installed with SA_RESTART (signalkit.c), so     *)
(* accept is never interrupted, it is restarted.                           *)
(*                                                                         *)
(* open_conns is a plain int that the SIGCHLD handler decrements, so the   *)
(* loop's increment is a load and a store with signals in between; an      *)
(* optimised build may store the sum of the value it compared before.      *)
(***************************************************************************)
EXTENDS Integers

CONSTANTS max_open_conns, \* the -m option
          Backlog         \* connections the kernel queues, the -b option

ASSUME SocketServerAssumption == /\ max_open_conns \in Nat \ {0}
                                 /\ Backlog \in Nat \ {0}

VARIABLES spc,          \* the next step of the loop
          loop_abort, listenfd_forced_closed, open_conns, \* the statics
          listening,   \* listenfd is an open descriptor
          connfd,      \* the parent holds a connection
          reg,         \* the value of open_conns the loop has loaded
          handling,    \* sig_child_handler runs
          sigchld,     \* SIGCHLD is pending
          sigterm,     \* SIGTERM: "none" yet, "pending", or "handled"
          waiting,     \* connections in the backlog
          live, zombies, \* children that serve, and that ended unreaped
          leaked       \* history: what open_conns counts beyond the children

flags    == <<loop_abort, listenfd_forced_closed, listening>>
sigstate  == <<handling, sigchld, sigterm>>
children == <<live, zombies>>
server_vars == <<spc, flags, open_conns, connfd, reg, sigstate, waiting, children, leaked>>

(* A step of the loop: no handler runs. *)
At(l, next) == ~handling /\ spc = l /\ spc' = next

-----------------------------------------------------------------------------
(* The loop of ssrvr_start. *)
Start == /\ At("start", "loop")
         /\ loop_abort' = FALSE
         /\ UNCHANGED <<listenfd_forced_closed, listening, open_conns, connfd, reg,
                        sigstate, waiting, children, leaked>>

Loop == /\ At("loop", IF loop_abort \/ listenfd_forced_closed THEN "end" ELSE "accept")
        /\ UNCHANGED <<flags, open_conns, connfd, reg, sigstate, waiting, children, leaked>>

Accept == /\ At("accept", "accepted")
          /\ listening /\ waiting > 0
          /\ waiting' = waiting - 1 /\ connfd' = TRUE
          /\ UNCHANGED <<flags, open_conns, reg, sigstate, children, leaked>>

(* accept fails for want of a listen socket or of some resource, and the   *)
(* loop ends.                                                              *)
AcceptError == /\ At("accept", "end")
               /\ UNCHANGED <<flags, open_conns, connfd, reg, sigstate, waiting, children, leaked>>

Accepted == /\ At("accepted", IF listenfd_forced_closed THEN "end" ELSE "check")
            /\ UNCHANGED <<flags, open_conns, connfd, reg, sigstate, waiting, children, leaked>>

Full == open_conns >= max_open_conns

Check == /\ At("check", IF Full THEN "refuse" ELSE "load")
         /\ reg' = open_conns
         /\ UNCHANGED <<flags, open_conns, connfd, sigstate, waiting, children, leaked>>

Refuse == /\ At("refuse", "loop")
          /\ connfd' = FALSE
          /\ UNCHANGED <<flags, open_conns, reg, sigstate, waiting, children, leaked>>

Load == /\ At("load", "store")
        /\ reg' \in {reg, open_conns}
        /\ UNCHANGED <<flags, open_conns, connfd, sigstate, waiting, children, leaked>>

(* The decrements since the load are lost. *)
Store == /\ At("store", "fork")
         /\ open_conns' = reg + 1
         /\ leaked' = leaked + (reg - open_conns)
         /\ UNCHANGED <<flags, connfd, reg, sigstate, waiting, children>>

(* The result of fork is compared with 0 only: after a failed fork the     *)
(* loop goes on as a parent.  It closes its descriptor of the connection.  *)
Fork == /\ At("fork", "loop")
        /\ connfd' = FALSE
        /\ \/ live' = live + 1 /\ UNCHANGED leaked
           \/ leaked' = leaked + 1 /\ UNCHANGED live
        /\ UNCHANGED <<flags, open_conns, reg, sigstate, waiting, zombies>>

(* The listen socket is closed, the personality function runs. *)
End == /\ At("end", "done")
       /\ listening' = FALSE
       /\ UNCHANGED <<loop_abort, listenfd_forced_closed, open_conns, connfd, reg,
                      sigstate, waiting, children, leaked>>

-----------------------------------------------------------------------------
(* SIGCHLD is blocked while its handler runs; SIGTERM is not. *)
DeliverChild ==
  /\ sigchld /\ ~handling /\ spc # "done"
  /\ sigchld' = FALSE /\ handling' = TRUE
  /\ UNCHANGED <<spc, flags, open_conns, connfd, reg, sigterm, waiting, children, leaked>>

(* Faulty: the handler reaps one child for each signal. *)
sig_child_handler_Once ==
  /\ handling /\ handling' = FALSE
  /\ IF zombies > 0
     THEN zombies' = zombies - 1 /\ open_conns' = open_conns - 1
     ELSE UNCHANGED <<zombies, open_conns>>
  /\ UNCHANGED <<spc, flags, connfd, reg, sigchld, sigterm, waiting, live, leaked>>

(* Faulty: a child is counted as gone once per signal, whatever is reaped. *)
sig_child_handler_CountsOnce ==
  /\ handling /\ handling' = FALSE
  /\ zombies' = 0 /\ open_conns' = IF zombies > 0 THEN open_conns - 1 ELSE open_conns
  /\ UNCHANGED <<spc, flags, connfd, reg, sigchld, sigterm, waiting, live, leaked>>

(* sig_child_handler: one turn of its loop. *)
sig_child_handler ==
  /\ handling /\ handling' = (zombies > 0)
  /\ IF zombies > 0
     THEN zombies' = zombies - 1 /\ open_conns' = open_conns - 1
     ELSE UNCHANGED <<zombies, open_conns>>
  /\ UNCHANGED <<spc, flags, connfd, reg, sigchld, sigterm, waiting, live, leaked>>

(* Faulty: the flags are set but accept is left to wait. *)
sig_term_handler_NoClose ==
  /\ sigterm = "pending" /\ spc # "done"
  /\ sigterm' = "handled"
  /\ loop_abort' = TRUE /\ listenfd_forced_closed' = TRUE
  /\ UNCHANGED <<spc, listening, open_conns, connfd, reg, handling, sigchld, waiting, children, leaked>>

sig_term_handler ==
  /\ sigterm = "pending" /\ spc # "done"
  /\ sigterm' = "handled"
  /\ loop_abort' = TRUE /\ listenfd_forced_closed' = TRUE /\ listening' = FALSE
  /\ UNCHANGED <<spc, open_conns, connfd, reg, handling, sigchld, waiting, children, leaked>>

-----------------------------------------------------------------------------
(* The children, the clients and whoever sends SIGTERM. *)
ChildExit ==
  /\ live > 0
  /\ live' = live - 1 /\ zombies' = zombies + 1 /\ sigchld' = TRUE
  /\ UNCHANGED <<spc, flags, open_conns, connfd, reg, handling, sigterm, waiting, leaked>>

Connect ==
  /\ listening /\ waiting < Backlog
  /\ waiting' = waiting + 1
  /\ UNCHANGED <<spc, flags, open_conns, connfd, reg, sigstate, children, leaked>>

Terminate ==
  /\ sigterm = "none"
  /\ sigterm' = "pending"
  /\ UNCHANGED <<spc, flags, open_conns, connfd, reg, handling, sigchld, waiting, children, leaked>>

-----------------------------------------------------------------------------
(* The listen socket and the handlers are set up, and the command line is  *)
(* parsed; no child was forked yet.                                        *)
ServerInit == /\ spc = "start"
              /\ loop_abort = FALSE /\ listenfd_forced_closed = FALSE /\ listening = TRUE
              /\ open_conns = 0 /\ connfd = FALSE /\ reg = 0
              /\ handling = FALSE /\ sigchld = FALSE /\ sigterm = "none"
              /\ waiting = 0 /\ live = 0 /\ zombies = 0 /\ leaked = 0

Parent == \/ Start \/ Loop \/ Accept \/ Accepted \/ Check \/ Refuse
          \/ Load \/ Store \/ Fork \/ End
          \/ ~listening /\ AcceptError

Handlers == DeliverChild \/ sig_child_handler \/ sig_term_handler

ServerNext == Parent \/ AcceptError \/ Handlers \/ ChildExit \/ Connect \/ Terminate

ServerSpec == ServerInit /\ [][ServerNext]_server_vars

(* The parent runs, and the kernel delivers its signals. Nothing makes a   *)
(* child end or a client connect.                                          *)
ServerFairSpec == /\ ServerSpec /\ WF_server_vars(Parent)
                  /\ WF_server_vars(DeliverChild) /\ WF_server_vars(sig_child_handler) /\ WF_server_vars(sig_term_handler)

-----------------------------------------------------------------------------
ServerTypeOK ==
  /\ spc \in {"start", "loop", "accept", "accepted", "check", "refuse", "load", "store",
             "fork", "end", "done"}
  /\ open_conns \in 0 .. max_open_conns /\ reg \in 0 .. max_open_conns
  /\ waiting \in 0 .. Backlog /\ live \in Nat /\ zombies \in Nat /\ leaked \in Nat
  /\ sigterm \in {"none", "pending", "handled"}
  /\ loop_abort \in BOOLEAN /\ listenfd_forced_closed \in BOOLEAN
  /\ listening \in BOOLEAN /\ connfd \in BOOLEAN
  /\ handling \in BOOLEAN /\ sigchld \in BOOLEAN

(* There are never more children than max_open_conns, however the handler  *)
(* interrupts the loop.                                                    *)
ChildrenWithinLimit == live + zombies <= max_open_conns

(* open_conns never falls behind the children, and counts beyond them only *)
(* what failed forks and decrements lost in an increment left behind.      *)
CountAccounted ==
  open_conns = live + zombies + leaked + (IF spc = "fork" THEN 1 ELSE 0)

(* The parent holds no connection while it waits for the next one. *)
ParentHoldsNone == spc \in {"start", "loop", "accept"} => ~connfd

(* The invariant of the accept loop.                                       *)
ServerInv == ServerTypeOK /\ ChildrenWithinLimit /\ CountAccounted /\ ParentHoldsNone

(* Children are reaped as long as the parent runs: no SIGCHLD that merged  *)
(* with another leaves a zombie behind.                                    *)
ChildrenReaped == zombies > 0 ~> (zombies = 0 \/ spc = "done")

(* The parent comes back to accept, whatever its children do. *)
KeepsAccepting == waiting > 0 ~> spc \in {"accepted", "done"}

(* The SIGCHLD handler reaps all that ended and waits for none that serves. *)
HandlerReturns == ChildrenReaped /\ KeepsAccepting

(* SIGTERM ends the loop, also when it comes just before accept waits or   *)
(* before the loop clears its flag (socketserver.c: "To terminate the      *)
(* accept loop, send a SIGTERM to the parent process").                    *)
TermEndsLoop == sigterm # "none" ~> spc = "done"

(* A connection is refused for the sake of a child that will end           *)
(* (socketserver.c: "no connection will be processed until a child process *)
(* terminates").                                                           *)
RefusedForAChild ==
  [][spc = "check" /\ spc' = "refuse" => live + zombies > 0]_server_vars
=============================================================================
