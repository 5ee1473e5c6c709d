----------------------------- MODULE MCMsgStream -----------------------------
(* An instance of MsgStream: room for two messages and a part of a third. *)
EXTENDS MsgStream
MCSenders   == {"s1", "s2"}
MCReceivers == {"r1", "r2"}
MCMessages  == {<< >>, <<7>>, <<1, 2>>}
=============================================================================
