---------------------------- MODULE MCProcesses ----------------------------
(* Parents and their children: a parent that throttles what it forks, and  *)
(* a forking server; and the linked list of one process, which is here to  *)
(* keep MCStructures small.  A behaviour is about one of them (the         *)
(* subject), the others rest in their initial states.                      *)
EXTENDS ProcThrottle, SocketServer, LinkedList

CONSTANT Subjects
VARIABLE subject

FourPids == 1 .. 4

MCInit == subject \in Subjects /\ ThrottleInit /\ ServerInit /\ LLInit

MCNext == \/ subject = "throttle" /\ ThrottleNext /\ UNCHANGED <<subject, server_vars, llvars>>
          \/ subject = "server" /\ ServerNext /\ UNCHANGED <<subject, throttle_vars, llvars>>
          \/ subject = "list" /\ LLNext /\ UNCHANGED <<subject, throttle_vars, server_vars>>

(* ThrottleFairSpec and ServerFairSpec, each while its component is the    *)
(* subject: what could start in another one never does.                    *)
MCSpec ==
    /\ MCInit /\ [][MCNext]_<<subject, throttle_vars, server_vars, llvars>>
    /\ WF_throttle_vars(NoStatus) /\ SF_throttle_vars(subject = "throttle" /\ WaitAny)
    /\ \A pid \in Pids : WF_throttle_vars(Exit(pid)) /\ SF_throttle_vars(Reap(pid))
    /\ WF_server_vars(subject = "server" /\ Parent)
    /\ WF_server_vars(DeliverChild) /\ WF_server_vars(sig_child_handler)
    /\ WF_server_vars(sig_term_handler)
=============================================================================
