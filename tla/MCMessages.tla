----------------------------- MODULE MCMessages -----------------------------
(* Messages between processes: records through a deque, the semaphore cell *)
(* by itself, and the loops that move bytes over a connection.  A          *)
(* behaviour is about one of them (the subject), the others rest in one    *)
(* initial state.                                                          *)
EXTENDS MsgDeque, MsgCell, SocketIo

CONSTANT Subjects
VARIABLE subject

(* Two senders, two receivers, each a process. *)
MCSenders   == {"s1", "s2"}
MCReceivers == {"r1", "r2"}
MCProcs     == MCSenders \cup MCReceivers
Apart       == [t \in Threads |-> t]

(* SocketIo: lines, two in a write, and a part of one. *)
MCWrites == {<<"a", "LF">>, <<"b", "CR", "LF", "c">>, <<"d">>}

-----------------------------------------------------------------------------
MCInit == /\ subject \in Subjects
          /\ Init /\ (subject # "records" => sem = 0)
          /\ CellInit /\ (subject # "cell" => semaphore = 0)
          /\ SioInit

Others(s) == /\ s # "records" => UNCHANGED vars
             /\ s # "cell" => UNCHANGED cellvars
             /\ s # "connection" => UNCHANGED sio_vars

MCNext == /\ UNCHANGED subject /\ Others(subject)
          /\ \/ subject = "records" /\ Next
             \/ subject = "cell" /\ CellNext
             \/ subject = "connection" /\ SioNext

(* The FairSpec of MsgDeque, while it is the subject: its receivers are    *)
(* servers that call again.                                                *)
MCSpec ==
  /\ MCInit /\ [][MCNext]_<<subject, vars, cellvars, sio_vars>>
  /\ \A s \in Senders : WF_vars(SendStep(s))
  /\ \A r \in Receivers : WF_vars(subject = "records" /\ RecStep(r))
=============================================================================
