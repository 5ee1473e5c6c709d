----------------------------- MODULE MsgStream -----------------------------
(***************************************************************************)
(* The byte streams of msgdeque.c: messages of any length through a deque  *)
(* of single bytes.                                                        *)
(*                                                                         *)
(* A sender pushes four bytes of length and then the data, a receiver pops *)
(* four bytes, decodes them and pops as many more; both hold the lock file *)
(* throughout, and every byte is a deque call of its own.  A push into a   *)
(* full deque ends the send where it is: what was pushed stays there.      *)
(* A process killed in between leaves its part of a message as well.       *)
(*                                                                         *)
(* Each process has one thread (MsgDeque shows what two would do), and the *)
(* deque calls are atomic (MmDeque).                                       *)
(***************************************************************************)
EXTENDS Integers, Sequences, FiniteSets

CONSTANTS Senders, Receivers, \* the processes that send and that receive
          Messages,    \* the messages: sequences of bytes
          Slots,       \* the capacity of the deque: byte_capacity + 4, a ushort
          SemMax,      \* SEM_VALUE_MAX
          MaxSends,    \* bound on the calls of msgdeque_send_byte_stream
          MaxKills     \* bound on the processes that die

Byte  == 0 .. 255
USHRT_MAX == 65535
Procs == Senders \cup Receivers

ASSUME MsgStreamAssumption == /\ Senders \cap Receivers = {} /\ "none" \notin Procs
                              /\ Messages \subseteq Seq(Byte)
                              /\ Slots \in 0 .. USHRT_MAX /\ SemMax \in Nat \ {0}
                              /\ MaxSends \in Nat /\ MaxKills \in Nat

VARIABLES q,       \* the bytes in the deque, oldest first
          sem,     \* the value of the semaphore
          lock,    \* the process that locks the lock file, or "none"
          pc,      \* the next step of each process
          todo,    \* the bytes a sender has still to push
          buff,    \* the bytes a receiver popped of the field it reads
          need,    \* how many it pops
          retval,  \* whether the last deque call of a process failed
          out,     \* history: the message each sender is sending
          pending, \* history: the messages in the deque, oldest first
          torn,    \* history: whether part of a message was left behind
          sends, kills  \* counters for the bounds

local   == <<todo, buff, need, retval>>
history == <<out, pending, torn>>
counted == <<sends, kills>>
vars == <<q, sem, lock, pc, local, history, counted>>

(* encode_uint and decode_uint: the low byte first, read into an int.      *)
encode_uint(n) == <<n % 256, (n \div 256) % 256, (n \div 65536) % 256, (n \div 16777216) % 256>>
decode_uint(b) ==
  b[1] + 256 * (b[2] + 256 * (b[3] + 256 * (IF b[4] < 128 THEN b[4] ELSE b[4] - 256)))

Frame(m) == encode_uint(Len(m)) \o m

datacheck     == q # << >>
Goto(p, step) == pc' = [pc EXCEPT ![p] = step]

-----------------------------------------------------------------------------
(* Faulty: the lock is not waited for.                                     *)
LockFile_NoWait(p) ==
  /\ pc[p] = "lock"
  /\ lock' = p
  /\ Goto(p, IF p \in Senders THEN "push" ELSE "stats")
  /\ UNCHANGED <<q, sem, local, history, counted>>

LockFile(p) ==
  /\ pc[p] = "lock" /\ lock = "none"
  /\ lock' = p
  /\ Goto(p, IF p \in Senders THEN "push" ELSE "stats")
  /\ UNCHANGED <<q, sem, local, history, counted>>

msgdeque_send_byte_stream(s) ==
  /\ pc[s] = "idle" /\ sends < MaxSends
  /\ sends' = sends + 1
  /\ \E m \in Messages : /\ out' = [out EXCEPT ![s] = m]
                         /\ todo' = [todo EXCEPT ![s] = Frame(m)]
  /\ retval' = [retval EXCEPT ![s] = FALSE]
  /\ Goto(s, "lock")
  /\ UNCHANGED <<q, sem, lock, buff, need, pending, torn, kills>>

(* The two loops of mmdq_abd calls; a full deque ends them.                *)
Push(s) ==
  /\ pc[s] = "push"
  /\ \/ /\ todo[s] = << >>
        /\ Goto(s, "unlock")
        /\ UNCHANGED <<q, todo, retval>>
     \/ /\ todo[s] # << >> /\ Len(q) < Slots
        /\ q' = Append(q, Head(todo[s]))
        /\ todo' = [todo EXCEPT ![s] = Tail(@)]
        /\ UNCHANGED <<pc, retval>>
     \/ /\ todo[s] # << >> /\ Len(q) = Slots
        /\ retval' = [retval EXCEPT ![s] = TRUE]
        /\ Goto(s, "unlock")
        /\ UNCHANGED <<q, todo>>
  /\ UNCHANGED <<sem, lock, buff, need, history, counted>>

(* The receivers are signalled in any case.                                *)
UnlockSend(s) ==
  /\ pc[s] = "unlock"
  /\ lock' = "none"
  /\ pending' = IF retval[s] THEN pending ELSE Append(pending, out[s])
  /\ torn' = (torn \/ (retval[s] /\ todo[s] # Frame(out[s])))
  /\ todo' = [todo EXCEPT ![s] = << >>]
  /\ out' = [out EXCEPT ![s] = << >>]
  /\ Goto(s, "check")
  /\ UNCHANGED <<q, sem, buff, need, retval, counted>>

(* Faulty: a post only for a deque with nothing else in it.                *)
CheckSend_Sole(s) ==
  /\ pc[s] = "check"
  /\ Goto(s, IF datacheck /\ Len(pending) < 2 THEN "post" ELSE "idle")
  /\ UNCHANGED <<q, sem, lock, local, history, counted>>

(* msgcell_send *)
CheckSend(s) ==
  /\ pc[s] = "check"
  /\ Goto(s, IF datacheck THEN "post" ELSE "idle")
  /\ UNCHANGED <<q, sem, lock, local, history, counted>>

Post(s) ==
  /\ pc[s] = "post"
  /\ sem' = IF sem < SemMax THEN sem + 1 ELSE sem
  /\ Goto(s, "idle")
  /\ UNCHANGED <<q, lock, local, history, counted>>

-----------------------------------------------------------------------------
msgdeque_rec_byte_stream(r) ==
  /\ pc[r] = "idle"
  /\ Goto(r, "lock")
  /\ UNCHANGED <<q, sem, lock, local, history, counted>>

(* Fewer than four bytes are left alone.                                   *)
Stats(r) ==
  /\ pc[r] = "stats"
  /\ buff' = [buff EXCEPT ![r] = << >>]
  /\ need' = [need EXCEPT ![r] = 4]
  /\ retval' = [retval EXCEPT ![r] = FALSE]
  /\ Goto(r, IF Len(q) >= 4 THEN "size" ELSE "unlock")
  /\ UNCHANGED <<q, sem, lock, todo, history, counted>>

(* mmdq_rtd: an empty deque ends the loop the receiver is in.              *)
Pop(r) ==
  /\ pc[r] \in {"size", "data"} /\ Len(buff[r]) < need[r]
  /\ IF q # << >>
     THEN /\ buff' = [buff EXCEPT ![r] = Append(@, Head(q))]
          /\ q' = Tail(q)
          /\ UNCHANGED <<pc, need, retval>>
     ELSE /\ retval' = [retval EXCEPT ![r] = TRUE]
          /\ buff' = [buff EXCEPT ![r] = << >>] /\ need' = [need EXCEPT ![r] = 4]
          /\ Goto(r, "unlock")
          /\ UNCHANGED q
  /\ UNCHANGED <<sem, lock, todo, history, counted>>

(* The oldest message is no longer in the deque.                           *)
Taken == pending' = IF pending = << >> THEN << >> ELSE Tail(pending)

(* A size of zero, or one that is negative as an int, is read over.        *)
Decode(r) ==
  LET datalen == decode_uint(buff[r])
  IN  /\ pc[r] = "size" /\ Len(buff[r]) = need[r]
      /\ IF datalen > 0
         THEN /\ need' = [need EXCEPT ![r] = datalen]
              /\ Goto(r, "data")
              /\ UNCHANGED pending
         ELSE /\ need' = [need EXCEPT ![r] = 4]
              /\ Goto(r, "unlock")
              /\ Taken
      /\ buff' = [buff EXCEPT ![r] = << >>]
      /\ UNCHANGED <<q, sem, lock, todo, retval, out, torn, counted>>

(* With a message the function returns, without one it waits.              *)
UnlockRec(r) ==
  /\ \/ pc[r] = "unlock"
     \/ pc[r] = "data" /\ Len(buff[r]) = need[r]
  /\ lock' = "none"
  /\ IF pc[r] = "data"
     THEN Goto(r, "idle") /\ Taken
     ELSE Goto(r, "cell") /\ UNCHANGED pending
  /\ buff' = [buff EXCEPT ![r] = << >>] /\ need' = [need EXCEPT ![r] = 4]
  /\ UNCHANGED <<q, sem, todo, retval, out, torn, counted>>

(* msgcell_rec returns at once while any byte is left.                     *)
CheckRec(r) ==
  /\ pc[r] = "cell"
  /\ Goto(r, IF datacheck THEN "lock" ELSE "wait")
  /\ UNCHANGED <<q, sem, lock, local, history, counted>>

Wait(r) ==
  /\ pc[r] = "wait" /\ sem > 0
  /\ sem' = sem - 1
  /\ Goto(r, "cell")
  /\ UNCHANGED <<q, lock, local, history, counted>>

(* Whether a process that has the lock has moved a byte.                   *)
Moved(p) ==
  IF p \in Senders THEN todo[p] # Frame(out[p])
                   ELSE pc[p] # "stats" /\ (pc[p] = "size" => buff[p] # << >>)

Kill(p) ==
  /\ kills < MaxKills /\ pc[p] \notin {"idle", "dead"}
  /\ kills' = kills + 1
  /\ Goto(p, "dead")
  /\ lock' = IF lock = p THEN "none" ELSE lock
  /\ torn' = (torn \/ (lock = p /\ Moved(p)))
  /\ UNCHANGED <<q, sem, local, out, pending, sends>>

-----------------------------------------------------------------------------
Init ==
  /\ q = << >> /\ sem \in 0 .. SemMax /\ lock = "none"
  /\ pc = [p \in Procs |-> "idle"]
  /\ todo = [s \in Senders |-> << >>] /\ out = [s \in Senders |-> << >>]
  /\ buff = [r \in Receivers |-> << >>] /\ need = [r \in Receivers |-> 4]
  /\ retval = [p \in Procs |-> FALSE]
  /\ pending = << >> /\ torn = FALSE
  /\ sends = 0 /\ kills = 0

SendStep(s) == LockFile(s) \/ Push(s) \/ UnlockSend(s) \/ CheckSend(s) \/ Post(s)
RecStep(r)  == \/ msgdeque_rec_byte_stream(r) \/ LockFile(r) \/ Stats(r)
               \/ Pop(r) \/ Decode(r) \/ UnlockRec(r) \/ CheckRec(r) \/ Wait(r)

Next == \/ \E s \in Senders : msgdeque_send_byte_stream(s) \/ SendStep(s)
        \/ \E r \in Receivers : RecStep(r)
        \/ \E p \in Procs : Kill(p)

Spec == Init /\ [][Next]_vars

(* Calls in progress continue, and receivers, being servers, call again.   *)
FairSpec == /\ Spec
            /\ \A s \in Senders : WF_vars(SendStep(s))
            /\ \A r \in Receivers : WF_vars(RecStep(r))

-----------------------------------------------------------------------------
TypeOK ==
  /\ q \in Seq(Byte) /\ Len(q) <= Slots
  /\ sem \in 0 .. SemMax
  /\ lock \in Procs \cup {"none"}
  /\ pc \in [Procs -> {"idle", "dead", "lock", "push", "unlock", "check", "post",
                       "stats", "size", "data", "cell", "wait"}]
  /\ \A s \in Senders : todo[s] \in Seq(Byte)
  /\ \A r \in Receivers : buff[r] \in Seq(Byte) /\ need[r] \in Nat \ {0}

(* The bytes of the frames before the i-th of ms, and a deque that holds    *)
(* the frames of ms, one after the other, and nothing else.                *)
Before(ms, i) == Cardinality(UNION {{j} \X DOMAIN Frame(ms[j]) : j \in 1 .. i - 1})
Holds(bytes, ms) ==
  /\ Len(bytes) = Before(ms, Len(ms) + 1)
  /\ \A i \in DOMAIN ms : \A k \in DOMAIN Frame(ms[i]) :
       bytes[Before(ms, i) + k] = Frame(ms[i])[k]

(* Whenever the lock file is free the deque holds whole messages, those    *)
(* accepted and not taken, in the order their senders had the lock: frames *)
(* of several senders never mix, and a receiver takes all of one.  Only a  *)
(* send that ran into a full deque, or a death inside the locked section,  *)
(* ends this.                                                              *)
FramesWhole == lock = "none" /\ ~torn => Holds(q, pending)

(* A message is returned whole, unchanged and in the order of the sends.   *)
ReturnsOldest ==
  \A r \in Receivers :
    pc[r] = "data" /\ Len(buff[r]) = need[r] /\ ~torn => buff[r] = Head(pending)

(* A receiver that saw four bytes gets the bytes it asks for (msgdeque.c:  *)
(* "Error popping encoded size of byte stream").                           *)
PopsSucceed == \A r \in Receivers : retval[r] => torn

(* The deque is a sequence of frames, and receivers take them apart again. *)
StreamInv == TypeOK /\ FramesWhole /\ ReturnsOldest /\ PopsSucceed

(* Every accepted message is taken out of the deque.                       *)
Drained == pending # << >> ~> pending = << >> \/ torn \/ kills > 0
=============================================================================
