----------------------------- MODULE MmPacket ------------------------------
(***************************************************************************)
(* The packet functions of mmdeque.c: a packet is a header (sync bytes and *)
(* a length) and its bytes, put into a memory mapped deque of single bytes *)
(* by one mmdq_abd each and taken out by one mmdq_rtd each.                *)
(*                                                                         *)
(* Each byte is one atomic step (MmDeque!ImplementsDeque), so the calls of *)
(* several processes interleave between the bytes.  The sync bytes are one *)
(* cell here and the length is another; every cell is a number, so that a  *)
(* reader out of step takes data for a length, as the code does.           *)
(***************************************************************************)
EXTENDS Integers, Sequences, SequencesExt

CONSTANTS
    PProcs,     \* the processes that write and read packets
    Packets,    \* the packets that may be written: sequences of bytes
    Sync,       \* the sync bytes
    Room,       \* slots of the deque
    MaxPackets  \* bound: calls of mmdq_write_packet and, as many again, of mmdq_read_packet

ASSUME PacketAssumption == /\ \A k \in Packets : k \in Seq(Nat)
                           /\ Room \in Nat /\ MaxPackets \in Nat /\ Sync \in Nat

VARIABLES
    bytes,      \* the deque
    task,       \* what each process is doing: [op, todo, got, round]
    sent,       \* history: the packets written in full, in order
    received,   \* history: what mmdq_read_packet returned
    serial,     \* history: no call started while another was under way
    refused,    \* history: a write found no room
    begun       \* history: how many calls of each kind

pktvars == <<bytes, task, sent, received, serial, refused, begun>>

HeaderSize == 2
NoTask == [op |-> "none", todo |-> <<>>, got |-> <<>>, round |-> 0]

PktInit == /\ bytes = <<>> /\ task = [p \in PProcs |-> NoTask]
           /\ sent = <<>> /\ received = <<>> /\ serial = TRUE /\ refused = FALSE
           /\ begun = [write |-> 0, header |-> 0]

Starts(p, t) ==
    /\ task[p].op = "none" /\ begun[t.op] < MaxPackets
    /\ begun' = [begun EXCEPT ![t.op] = @ + 1]
    /\ task' = [task EXCEPT ![p] = t]
    /\ serial' = (serial /\ \A q \in PProcs : task[q].op = "none")
    /\ UNCHANGED <<bytes, sent, received, refused>>

Returns(p) == task' = [task EXCEPT ![p] = NoTask]

(* Faulty: the header is written behind the data. *)
mmdq_write_packet_Late(p, k) ==
    Starts(p, [NoTask EXCEPT !.op = "write", !.todo = k \o <<Sync, Len(k)>>, !.got = k])

\* mmdq_write_packet: the header, then the data.
Framed(k) == <<Sync, Len(k)>> \o k
mmdq_write_packet(p, k) ==
    Starts(p, [NoTask EXCEPT !.op = "write", !.todo = Framed(k), !.got = k])

\* push_packet: one byte; a full deque ends the call, and what was written of
\* the packet stays.
push_packet(p) ==
    /\ task[p].op = "write" /\ task[p].todo # <<>>
    /\ IF Len(bytes) < Room
       THEN /\ bytes' = Append(bytes, Head(task[p].todo))
            /\ task' = [task EXCEPT ![p].todo = Tail(@)]
            /\ UNCHANGED refused
       ELSE /\ Returns(p) /\ refused' = TRUE /\ UNCHANGED bytes
    /\ UNCHANGED <<sent, received, serial, begun>>

WriteReturns(p) ==
    /\ task[p].op = "write" /\ task[p].todo = <<>>
    /\ sent' = Append(sent, task[p].got) /\ Returns(p)
    /\ UNCHANGED <<bytes, received, serial, refused, begun>>

\* mmdq_read_packet.  The loop around the second pop_packet reads a packet's
\* length of bytes once for every byte of it, to the same place.
mmdq_read_packet(p) == Starts(p, [NoTask EXCEPT !.op = "header"])

\* pop_packet: one byte; an empty deque ends the call, and what was read of
\* the packet is lost.
pop_packet(p, wanted) ==
    /\ Len(task[p].got) < wanted
    /\ IF bytes # <<>>
       THEN /\ bytes' = Tail(bytes)
            /\ task' = [task EXCEPT ![p].got = Append(@, Head(bytes))]
            /\ UNCHANGED received
       ELSE /\ Returns(p) /\ UNCHANGED <<bytes, received>>
    /\ UNCHANGED <<sent, serial, refused, begun>>

\* sync_check finds a false header and only traces it.
ReadHeader(p) ==
    /\ task[p].op = "header"
    /\ \/ pop_packet(p, HeaderSize)
       \/ /\ Len(task[p].got) = HeaderSize
          /\ task' = [task EXCEPT ![p] = [op |-> "data", todo |-> <<task[p].got[2]>>,
                                          got |-> <<>>, round |-> 0]]
          /\ UNCHANGED <<bytes, sent, received, serial, refused, begun>>

packet_len(p) == task[p].todo[1]

ReadData(p) ==
    /\ task[p].op = "data" /\ task[p].round < packet_len(p)
    /\ \/ pop_packet(p, packet_len(p))
       \/ /\ Len(task[p].got) = packet_len(p)
          /\ task' = [task EXCEPT ![p].round = @ + 1,
                          ![p].got = IF task[p].round + 1 < packet_len(p) THEN <<>> ELSE @]
          /\ UNCHANGED <<bytes, sent, received, serial, refused, begun>>

ReadReturns(p) ==
    /\ task[p].op = "data" /\ task[p].round = packet_len(p)
    /\ received' = Append(received, task[p].got) /\ Returns(p)
    /\ UNCHANGED <<bytes, sent, serial, refused, begun>>

PktNext ==
    \E p \in PProcs :
        \/ \E k \in Packets : mmdq_write_packet(p, k)
        \/ push_packet(p) \/ WriteReturns(p)
        \/ mmdq_read_packet(p) \/ ReadHeader(p) \/ ReadData(p) \/ ReadReturns(p)

PktSpec == PktInit /\ [][PktNext]_pktvars

----------------------------------------------------------------------------
\* The bytes of the packets behind the first n.
Unread(s, n) ==
    LET last[i \in 0..Len(s)] == IF i = 0 THEN <<>>
                                 ELSE LET rest == last[i - 1] IN Framed(s[Len(s) - i + 1]) \o rest
    IN last[Len(s) - n]

\* Packets of at most one byte, in calls that do not overlap, with room for
\* each, come out whole and in order, and the deque holds the rest of them
\* and nothing else: all three conditions are needed (see PacketsArrive).
PacketInv ==
    /\ Len(bytes) <= Room
    /\ (serial /\ ~refused /\ \A i \in DOMAIN sent : Len(sent[i]) <= 1) =>
          /\ IsPrefix(received, sent)
          /\ (\A p \in PProcs : task[p].op = "none") =>
                bytes = Unread(sent, Len(received))

\* "Read a packet of data from memory mapped deque" (mmdeque.c:440), taken
\* for calls that do not overlap: what is read is what was written.
\* Violated: a packet of two bytes or more is read as many times as it has
\* bytes, out of the packets behind it.
PacketsArrive == serial /\ ~refused => IsPrefix(received, sent)
=============================================================================
