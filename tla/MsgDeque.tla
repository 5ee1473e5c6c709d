------------------------------ MODULE MsgDeque ------------------------------
(***************************************************************************)
(* msgdeque.c over msgcell.c: fixed length records from senders to         *)
(* receivers through a memory mapped deque and a POSIX semaphore.          *)
(*                                                                         *)
(* A sender inserts its record (mmdq_abd locks the deque file itself) and  *)
(* then, in a step of its own, posts if it still sees data.  A receiver    *)
(* takes a record under the lock file, and waits in msgcell_rec while it   *)
(* sees none.  The deque calls are atomic here (MmDeque); dquse is read    *)
(* without the lock of the deque, as mmdq_stats does.                      *)
(*                                                                         *)
(* The semaphore outlives the processes: msgcell_create opens one that     *)
(* exists without setting its value, so it starts with any count.          *)
(***************************************************************************)
EXTENDS Integers, Sequences, FiniteSets

CONSTANTS Senders, Receivers, \* the threads that send and that receive
          Procs, ProcOf,      \* their processes
          Slots,       \* the capacity of the deque
          SemMax,      \* SEM_VALUE_MAX
          MaxSends,    \* bound on the calls of msgdeque_send
          MaxSignals,  \* bound on the signals that interrupt a sem_wait
          MaxKills     \* bound on the threads that die with their process

Threads == Senders \cup Receivers

ASSUME MsgDequeAssumption == /\ Senders \cap Receivers = {}
                             /\ ProcOf \in [Threads -> Procs] /\ "none" \notin Procs
                             /\ Slots \in Nat /\ SemMax \in Nat \ {0}
                             /\ MaxSends \in Nat /\ MaxSignals \in Nat
                             /\ MaxKills \in Nat

VARIABLES q,        \* the records in the deque, bottom first
          sem,      \* the value of the semaphore
          lock,     \* the process that locks the lock file, or "none"
          pc,       \* the next step of each thread
          rec,      \* the record a receiver took, 0 for NULL
          retval,   \* whether msgcell_rec had an error
          got,      \* history: the records returned to each receiver
          accepted, \* history: the number of records inserted
          failed,   \* history: whether mmdq_rtd failed after dquse # 0
          sends, signals, kills  \* counters for the bounds

counted == <<sends, signals, kills>>
vars == <<q, sem, lock, pc, rec, retval, got, accepted, failed, counted>>

Goto(t, step) == pc' = [pc EXCEPT ![t] = step]
datacheck     == q # << >>

-----------------------------------------------------------------------------
(* Faulty: inserted at the end the receivers take from.                    *)
msgdeque_send_Atd(s) ==
  /\ pc[s] = "idle" /\ sends < MaxSends
  /\ sends' = sends + 1
  /\ IF Len(q) < Slots
     THEN /\ q' = Append(q, accepted + 1)
          /\ accepted' = accepted + 1
          /\ Goto(s, "check")
     ELSE UNCHANGED <<q, accepted, pc>>
  /\ UNCHANGED <<sem, lock, rec, retval, got, failed, signals, kills>>

(* msgdeque_send: a record that does not fit is refused.                   *)
msgdeque_send(s) ==
  /\ pc[s] = "idle" /\ sends < MaxSends
  /\ sends' = sends + 1
  /\ IF Len(q) < Slots
     THEN /\ q' = <<accepted + 1>> \o q
          /\ accepted' = accepted + 1
          /\ Goto(s, "check")
     ELSE UNCHANGED <<q, accepted, pc>>
  /\ UNCHANGED <<sem, lock, rec, retval, got, failed, signals, kills>>

(* Faulty: only the first record of a deque is announced.                  *)
CheckSend_OnlyFirst(s) ==
  /\ pc[s] = "check"
  /\ Goto(s, IF Len(q) = 1 THEN "post" ELSE "idle")
  /\ UNCHANGED <<q, sem, lock, rec, retval, got, accepted, failed, counted>>

(* msgcell_send: no post when the record is gone again (ENODATA) ...       *)
CheckSend(s) ==
  /\ pc[s] = "check"
  /\ Goto(s, IF datacheck THEN "post" ELSE "idle")
  /\ UNCHANGED <<q, sem, lock, rec, retval, got, accepted, failed, counted>>

(* ... and no effect of a post at the limit (EOVERFLOW).                   *)
Post(s) ==
  /\ pc[s] = "post"
  /\ sem' = IF sem < SemMax THEN sem + 1 ELSE sem
  /\ Goto(s, "idle")
  /\ UNCHANGED <<q, lock, rec, retval, got, accepted, failed, counted>>

-----------------------------------------------------------------------------
(* msgdeque_rec: the loop starts with the lock of the lock file.           *)
msgdeque_rec(r) ==
  /\ pc[r] = "idle"
  /\ Goto(r, "lock")
  /\ UNCHANGED <<q, sem, lock, rec, retval, got, accepted, failed, counted>>

LockFile(r) ==
  /\ pc[r] = "lock"
  /\ lock \in {"none", ProcOf[r]}
  /\ lock' = ProcOf[r]
  /\ Goto(r, "stats")
  /\ UNCHANGED <<q, sem, rec, retval, got, accepted, failed, counted>>

Stats(r) ==
  /\ pc[r] = "stats"
  /\ Goto(r, IF datacheck THEN "rtd" ELSE "unlock")
  /\ UNCHANGED <<q, sem, lock, rec, retval, got, accepted, failed, counted>>

Take(r) ==
  /\ pc[r] = "rtd"
  /\ IF q # << >>
     THEN /\ rec' = [rec EXCEPT ![r] = q[Len(q)]]
          /\ q' = SubSeq(q, 1, Len(q) - 1)
          /\ UNCHANGED failed
     ELSE failed' = TRUE /\ UNCHANGED <<rec, q>>
  /\ Goto(r, "unlock")
  /\ UNCHANGED <<sem, lock, retval, got, accepted, counted>>

(* With a record the function returns, without one it waits for a signal.  *)
UnlockFile(r) ==
  /\ pc[r] = "unlock"
  /\ lock' = "none"
  /\ IF rec[r] # 0
     THEN /\ got' = [got EXCEPT ![r] = Append(@, rec[r])]
          /\ rec' = [rec EXCEPT ![r] = 0]
          /\ Goto(r, "idle")
     ELSE Goto(r, "cell") /\ UNCHANGED <<got, rec>>
  /\ UNCHANGED <<q, sem, retval, accepted, failed, counted>>

(* msgcell_rec: its loop ends with data only, and an error of sem_wait is  *)
(* reported then; msgdeque_rec answers the error with NULL.                *)
CheckRec(r) ==
  /\ pc[r] = "cell"
  /\ IF ~datacheck
     THEN Goto(r, "wait") /\ UNCHANGED retval
     ELSE /\ Goto(r, IF retval[r] THEN "idle" ELSE "lock")
          /\ retval' = [retval EXCEPT ![r] = FALSE]
  /\ UNCHANGED <<q, sem, lock, rec, got, accepted, failed, counted>>

Wait(r) ==
  /\ pc[r] = "wait" /\ sem > 0
  /\ sem' = sem - 1
  /\ Goto(r, "cell")
  /\ UNCHANGED <<q, lock, rec, retval, got, accepted, failed, counted>>

(* sem_wait is interrupted by a signal handler (EINTR).                    *)
Interrupt(r) ==
  /\ pc[r] = "wait" /\ signals < MaxSignals
  /\ signals' = signals + 1
  /\ retval' = [retval EXCEPT ![r] = TRUE]
  /\ Goto(r, "cell")
  /\ UNCHANGED <<q, sem, lock, rec, got, accepted, failed, sends, kills>>

(* The process of a thread dies: a record taken and not returned is lost,  *)
(* and the kernel drops the lock.                                          *)
Kill(p) ==
  /\ kills < MaxKills
  /\ \E t \in Threads : ProcOf[t] = p /\ pc[t] \notin {"idle", "dead"}
  /\ kills' = kills + 1
  /\ pc' = [t \in Threads |-> IF ProcOf[t] = p THEN "dead" ELSE pc[t]]
  /\ lock' = IF lock = p THEN "none" ELSE lock
  /\ UNCHANGED <<q, sem, rec, retval, got, accepted, failed, sends, signals>>

-----------------------------------------------------------------------------
Init ==
  /\ q = << >> /\ sem \in 0 .. SemMax /\ lock = "none"
  /\ pc = [t \in Threads |-> "idle"]
  /\ rec = [r \in Receivers |-> 0] /\ retval = [r \in Receivers |-> FALSE]
  /\ got = [r \in Receivers |-> << >>]
  /\ accepted = 0 /\ failed = FALSE
  /\ sends = 0 /\ signals = 0 /\ kills = 0

SendStep(s) == CheckSend(s) \/ Post(s)
RecStep(r)  == \/ msgdeque_rec(r) \/ LockFile(r) \/ Stats(r) \/ Take(r)
               \/ UnlockFile(r) \/ CheckRec(r) \/ Wait(r)

Next == \/ \E s \in Senders : msgdeque_send(s) \/ SendStep(s)
        \/ \E r \in Receivers : RecStep(r) \/ Interrupt(r)
        \/ \E p \in Procs : Kill(p)

Spec == Init /\ [][Next]_vars

(* Calls in progress continue, and receivers, being servers, call again.   *)
FairSpec == /\ Spec
            /\ \A s \in Senders : WF_vars(SendStep(s))
            /\ \A r \in Receivers : WF_vars(RecStep(r))

-----------------------------------------------------------------------------
TypeOK ==
  /\ q \in Seq(1 .. MaxSends) /\ Len(q) <= Slots
  /\ sem \in 0 .. SemMax
  /\ lock \in Procs \cup {"none"}
  /\ pc \in [Threads -> {"idle", "dead", "check", "post", "lock", "stats", "rtd",
                         "unlock", "cell", "wait"}]
  /\ rec \in [Receivers -> 0 .. MaxSends] /\ retval \in [Receivers -> BOOLEAN]
  /\ accepted \in 0 .. MaxSends

(* Receivers are not all asleep over a record: once no sender is between   *)
(* its insertion and its post, a record in the deque means a positive      *)
(* semaphore or a receiver that is awake (msgdeque.c: "The function blocks *)
(* until a record is available").                                          *)
WakeupPending ==
  /\ q # << >>
  /\ \A s \in Senders : pc[s] \in {"idle", "dead"}
  /\ \E r \in Receivers : pc[r] = "wait"
  => sem > 0 \/ \E r \in Receivers : pc[r] \notin {"wait", "dead"}

(* No wakeup is lost while no process dies inside a call.                  *)
NoLostWakeup == kills = 0 => WakeupPending

(* A receiver that saw dquse # 0 under the lock file gets a record         *)
(* (msgdeque.c: "This should never happen").                               *)
TakeSucceeds == ~failed

(* Each receiver gets records in the order they were inserted, and no      *)
(* record is returned to two calls.                                        *)
InOrderOnce ==
  /\ \A r \in Receivers : \A i, j \in DOMAIN got[r] : i < j => got[r][i] < got[r][j]
  /\ \A r, u \in Receivers : \A i \in DOMAIN got[r], j \in DOMAIN got[u] :
       r # u => got[r][i] # got[u][j]

(* A thread that dies loses the record it took and did not return, and     *)
(* nothing else: the others stay in the deque or are returned.             *)
InFlight == { r \in Receivers : rec[r] # 0 /\ pc[r] # "dead" }
Returned == UNION { { got[r][i] : i \in DOMAIN got[r] } : r \in Receivers }

LossBoundedByKills ==
  LET kept == Cardinality(Returned) + Len(q) + Cardinality(InFlight)
  IN  kept <= accepted /\ accepted <= kept + kills

(* Types, order and number of the records, and removals that succeed.      *)
OrderInv == TypeOK /\ InOrderOnce /\ TakeSucceeds /\ LossBoundedByKills

(* Every record msgdeque_send accepted is returned to some receiver, as    *)
(* long as no process dies inside a call.                                  *)
EveryRecordReceived ==
  \A n \in 1 .. MaxSends :
    accepted >= n ~> kills > 0 \/ \E r \in Receivers : \E i \in DOMAIN got[r] : got[r][i] = n
=============================================================================
