------------------------------ MODULE SocketIo ------------------------------
(***************************************************************************)
(* The loops of socketio.c and ioutils.c that move a given number of bytes *)
(* or a line over one connection: system calls that move fewer bytes than  *)
(* asked for, that a signal interrupts, that would block or that fail,     *)
(* after any number of bytes.  A read or a write that fails moves nothing, *)
(* and what the connection holds stays there.                              *)
(*                                                                         *)
(* ioutils.c keeps the results of read and write in a size_t, so the error *)
(* -1 is no error to it: the loop counts one byte more to move, and moves  *)
(* back by one.  wild records that this happened; the model stops there    *)
(* (Calm), as the functions read and write outside of the caller's buffer: *)
(* of the functions of ioutils.c the module says something only as long as *)
(* no system call of theirs fails.                                         *)
(***************************************************************************)
EXTENDS Integers, Sequences, FiniteSets, SequencesExt

CONSTANTS Writes,        \* the bytes a call writes
          ReadSizes,     \* the sizes a call reads: a count, or the size of the buffer
          Newline, Return, \* the bytes '\n' and '\r'
          SockRoom,      \* what the connection holds
          MaxWrites, MaxReads, \* bounds on the calls
          MaxIntr        \* bound on the system calls that a signal interrupts

Counted == {"sio_readn", "ioutils_readn"}
Lines   == {"sio_readline", "ioutils_readln"}
Robust  == {"sio_writen", "sio_readn", "sio_readline"}

ASSUME SocketIoAssumption == /\ \A w \in Writes : w \in Seq(ToSet(w))
                             /\ ReadSizes \subseteq Nat \ {0} /\ SockRoom \in Nat \ {0}
                             /\ Newline # Return
                             /\ {MaxWrites, MaxReads, MaxIntr} \subseteq Nat

VARIABLES wire,   \* the bytes in the connection
          shut,   \* whether the writer closed its end
          wr,     \* the write in progress: function, data, what is left at ptr, and
                  \* history: the bytes it put into the connection
          wrote,  \* the last write: function, data, value returned, history as in wr
          rd,     \* the read in progress: function, size, n left, buffer, value of total
          done,   \* the last read: function, size, value returned, buffer
          wild,   \* whether an ioutils loop took an error for a count
          put,    \* history: the bytes of the writes that ended, as far as the value says
          took,   \* history: the bytes taken off the connection by the read
          before, \* history: those taken by the reads before it
          writes, reads, intr \* counters for the bounds

sio_vars == <<wire, shut, wr, wrote, rd, done, wild, put, took, before, writes, reads, intr>>

NoWr == [fn |-> "none", data |-> <<>>, rest |-> <<>>, sent |-> <<>>]
NoRd == [fn |-> "none", size |-> 0, left |-> 0, buf |-> <<>>, total |-> 0]
Nothing == [fn |-> "none", size |-> 0, value |-> 0, buf |-> <<>>, took |-> <<>>]
NoWrote == [fn |-> "none", data |-> <<>>, value |-> 0, sent |-> <<>>]

SioInit == /\ wire = <<>> /\ shut = FALSE /\ wr = NoWr /\ rd = NoRd
           /\ done = Nothing /\ wrote = NoWrote /\ wild = FALSE
           /\ put = <<>> /\ took = <<>> /\ before = <<>>
           /\ writes = 0 /\ reads = 0 /\ intr = 0

-----------------------------------------------------------------------------
(* sio_writen and ioutils_writen *)
StartWrite(fn, data) ==
  /\ wr = NoWr /\ ~shut /\ writes < MaxWrites
  /\ wr' = [NoWr EXCEPT !.fn = fn, !.data = data, !.rest = data]
  /\ writes' = writes + 1
  /\ UNCHANGED <<wire, shut, wrote, rd, done, wild, put, took, before, reads, intr>>

write(k) ==
  /\ wr.rest # <<>> /\ k <= Len(wr.rest) /\ Len(wire) + k <= SockRoom
  /\ wire' = wire \o SubSeq(wr.rest, 1, k)
  /\ wr' = [wr EXCEPT !.rest = SubSeq(@, k + 1, Len(@)), !.sent = @ \o SubSeq(wr.rest, 1, k)]
  /\ UNCHANGED <<shut, wrote, rd, done, wild, put, took, before, writes, reads, intr>>

(* The value tells the caller that all of data is written (n), or that the *)
(* write failed (-1), and then not how much of it is.                      *)
Wrote(value) ==
  /\ wrote' = [fn |-> wr.fn, data |-> wr.data, value |-> value, sent |-> wr.sent]
  /\ put' = put \o (IF value = -1 THEN wr.sent ELSE wr.data)
  /\ wr' = NoWr

WriteDone == /\ wr.fn # "none" /\ wr.rest = <<>>
             /\ Wrote(Len(wr.data))
             /\ UNCHANGED <<wire, shut, rd, done, wild, took, before, writes, reads, intr>>

(* write fails with another error than EINTR: the other end is gone, or    *)
(* the connection has no room and does not block.  sio_writen gives up,    *)
(* after whatever it has written.                                          *)
WriteFails ==
  /\ wr.rest # <<>>
  /\ \/ wr.fn \in Robust /\ Wrote(-1) /\ UNCHANGED wild
     \/ wr.fn \notin Robust /\ wild' = TRUE /\ UNCHANGED <<wr, wrote, put>>
  /\ UNCHANGED <<wire, shut, rd, done, took, before, writes, reads, intr>>

Shutdown == /\ wr = NoWr /\ ~shut /\ shut' = TRUE
            /\ UNCHANGED <<wire, wr, wrote, rd, done, wild, put, took, before, writes, reads, intr>>

-----------------------------------------------------------------------------
(* A line loop has room for one byte less than the buffer has. *)
StartRead(fn, size) ==
  /\ rd = NoRd /\ reads < MaxReads /\ reads' = reads + 1
  /\ rd' = [NoRd EXCEPT !.fn = fn, !.size = size,
                        !.left = IF fn \in Counted THEN size ELSE size - 1]
  /\ took' = <<>> /\ before' = before \o took
  /\ UNCHANGED <<wire, shut, wr, wrote, done, wild, put, writes, intr>>

Returns(value, buf, bytes) ==
  /\ done' = [fn |-> rd.fn, size |-> rd.size, value |-> value, buf |-> buf, took |-> bytes]
  /\ rd' = NoRd

(* What the loops return when they end by their condition. *)
ReadDone ==
  /\ rd.fn # "none" /\ rd.left = 0
  /\ Returns(IF rd.fn = "ioutils_readln" THEN rd.total ELSE rd.size, rd.buf, took)
  /\ UNCHANGED <<wire, shut, wr, wrote, wild, put, took, before, writes, reads, intr>>

(* read by sio_readn and ioutils_readn, of any part of what is there. *)
Read(k) ==
  /\ rd.fn \in Counted /\ rd.left > 0 /\ k <= rd.left /\ k <= Len(wire)
  /\ wire' = SubSeq(wire, k + 1, Len(wire))
  /\ took' = took \o SubSeq(wire, 1, k)
  /\ rd' = [rd EXCEPT !.left = @ - k, !.buf = @ \o SubSeq(wire, 1, k)]
  /\ UNCHANGED <<shut, wr, wrote, done, wild, put, before, writes, reads, intr>>

(* The line loops read a byte at a time.  sio_readline keeps the newline;  *)
(* ioutils_readln drops it and every '\r', and counts the others twice.    *)
ReadByte ==
  /\ rd.fn \in Lines /\ rd.left > 0 /\ wire # <<>>
  /\ wire' = Tail(wire) /\ took' = Append(took, Head(wire))
  /\ LET b    == Head(wire)
         kept == IF rd.fn = "ioutils_readln" /\ b \in {Newline, Return} THEN rd.buf
                 ELSE Append(rd.buf, b)
         t    == rd.total + (IF b \in {Newline, Return} THEN 1 ELSE 2)
     IN  IF b = Newline
         THEN Returns(IF rd.fn = "sio_readline" THEN rd.size - rd.left ELSE t, kept, took')
         ELSE UNCHANGED done /\ rd' = [rd EXCEPT !.left = @ - 1, !.buf = kept, !.total = t]
  /\ UNCHANGED <<shut, wr, wrote, wild, put, before, writes, reads, intr>>

(* read returns 0.  sio_readline goes on with the loop, reading nothing,   *)
(* unless it is at its first byte.                                         *)
ReadEof ==
  /\ rd.left > 0 /\ wire = <<>> /\ shut
  /\ \/ rd.fn \in Counted /\ Returns(rd.size - rd.left, rd.buf, took)
     \/ rd.fn = "ioutils_readln" /\ Returns(rd.total, rd.buf, took)
     \/ rd.fn = "sio_readline" /\ rd.left = rd.size - 1 /\ Returns(0, rd.buf, took)
     \/ /\ rd.fn = "sio_readline" /\ rd.left # rd.size - 1
        /\ rd' = [rd EXCEPT !.left = @ - 1] /\ UNCHANGED done
  /\ UNCHANGED <<wire, shut, wr, wrote, wild, put, took, before, writes, reads, intr>>

(* A socket that does not block: sio_readn returns -2 and forgets how much *)
(* it has read, sio_readline -1.                                           *)
WouldBlock ==
  /\ rd.fn \in {"sio_readn", "sio_readline"} /\ rd.left > 0 /\ wire = <<>> /\ ~shut
  /\ Returns(IF rd.fn = "sio_readn" THEN -2 ELSE -1, rd.buf, took)
  /\ UNCHANGED <<wire, shut, wr, wrote, wild, put, took, before, writes, reads, intr>>

(* read fails with another error: the bytes that the call has taken are in *)
(* the buffer, but the value does not say how many.                        *)
ReadFails ==
  /\ rd.left > 0
  /\ \/ rd.fn \in Robust /\ Returns(-1, rd.buf, took) /\ UNCHANGED wild
     \/ rd.fn \notin Robust /\ wild' = TRUE /\ UNCHANGED <<rd, done>>
  /\ UNCHANGED <<wire, shut, wr, wrote, put, took, before, writes, reads, intr>>

(* Faulty: an interrupted call starts over. *)
Interrupted_Restarts(call) == [call EXCEPT !.buf = <<>>, !.left = rd.size]

(* EINTR: the functions of socketio.c call again for the same bytes. *)
Interrupted(call) == call

Signalled ==
  /\ intr < MaxIntr /\ intr' = intr + 1
  /\ \/ /\ wr.rest # <<>>
        /\ wild' = (wr.fn \notin Robust) /\ UNCHANGED rd
     \/ /\ rd.left > 0
        /\ wild' = (rd.fn \notin Robust) /\ rd' = Interrupted(rd)
  /\ UNCHANGED <<wire, shut, wr, wrote, done, put, took, before, writes, reads>>

-----------------------------------------------------------------------------
Calm == ~wild
SioNext ==
  /\ Calm
  /\ \/ \E fn \in {"sio_writen", "ioutils_writen"}, w \in Writes : StartWrite(fn, w)
     \/ \E k \in 1 .. SockRoom : write(k) \/ Read(k)
     \/ WriteDone \/ WriteFails \/ Shutdown
     \/ \E fn \in Counted \cup Lines, n \in ReadSizes : StartRead(fn, n)
     \/ ReadDone \/ ReadByte \/ ReadEof \/ WouldBlock \/ ReadFails \/ Signalled
SioSpec == SioInit /\ [][SioNext]_sio_vars

-----------------------------------------------------------------------------
(* buf is s without the bytes that end a line: each of the others has its  *)
(* place, and there are no more.                                           *)
Kept(s) == {i \in 1 .. Len(s) : s[i] \notin {Newline, Return}}
Plain(buf, s) == /\ Len(buf) = Cardinality(Kept(s))
                 /\ \A i \in Kept(s) : buf[Cardinality({k \in Kept(s) : k <= i})] = s[i]

(* What the writers were told is written, and what the write in progress   *)
(* has put into the connection, is in it or was taken off; and that write  *)
(* goes on where it stopped.                                               *)
Conserved == /\ put \o wr.sent = before \o took \o wire
             /\ wr.sent \o wr.rest = wr.data

(* What the last write may say: that all of the data is written, or -1;    *)
(* then a part of it is, of which something is missing.                    *)
Delivered ==
  LET w == wrote IN
  /\ w.value >= 0 => w.value = Len(w.data) /\ w.sent = w.data
  /\ w.value < 0  => Len(w.sent) < Len(w.data) /\ w.sent = SubSeq(w.data, 1, Len(w.sent))

(* What the last read may say: sio_readn that it has all that it was asked *)
(* for unless the writer closed; a line loop takes no byte behind a        *)
(* newline and never more than fits.                                       *)
Reported ==
  LET r == done IN
  /\ r.fn \in Counted =>
       /\ r.buf = r.took
       /\ r.value >= 0 => r.value = Len(r.took) /\ (r.value < r.size => shut)
  /\ r.fn \in Lines /\ r.value > 0 =>
       /\ Len(r.took) < r.size
       /\ \A i \in 1 .. (Len(r.took) - 1) : r.took[i] # Newline
       /\ IF r.fn = "sio_readline" THEN r.buf = r.took ELSE Plain(r.buf, r.took)
       /\ r.fn = "sio_readline" /\ r.took # <<>> /\ Last(r.took) = Newline => r.value = Len(r.took)

(* No byte is lost, doubled or moved between the writers' buffers, the     *)
(* connection and the readers' buffers, however the system calls split     *)
(* the bytes, wherever signals interrupt them and wherever one fails; a    *)
(* write tells whether it is complete; and a read returns what it took: if *)
(* it fails the bytes are in the buffer, only their number is not told.    *)
(* The value of a line loop is the number of bytes only where a line ended.*)
SioInv == ~wild => Conserved /\ Delivered /\ Reported

(* "number of bytes read" (ioutils.c:123), the value of ioutils_readln.    *)
LengthOfLine == done.fn = "ioutils_readln" => done.value <= Len(done.took)
=============================================================================
