----------------------------- MODULE MsgProofs ------------------------------
(***************************************************************************)
(* Proofs about the messages: the records of MsgDeque, for any number of   *)
(* senders and receivers, any capacity of the deque and limit of the       *)
(* semaphore, any signals and kills; and the semaphore cell of MsgCell.    *)
(*                                                                         *)
(* What is counted, or removed under the lock file, needs receivers in     *)
(* processes of their own (ApartReceivers), as fcntl locks do not exclude  *)
(* the threads of one; the wakeups do not.                                 *)
(***************************************************************************)
EXTENDS MsgDeque, MsgCell, FiniteSetTheorems, SequenceTheorems, TLAPS

(* Each receiver is in a process of its own.                               *)
ApartReceivers == \A r, u \in Receivers : ProcOf[r] = ProcOf[u] => r = u

InFile == {"stats", "rtd", "unlock"}
SendSteps == {"idle", "dead", "check", "post"}
RecSteps  == {"idle", "dead", "lock", "cell", "wait"} \cup InFile

Types ==
  /\ q \in Seq(Nat \ {0}) /\ Len(q) <= Slots
  /\ sem \in Nat /\ sem <= SemMax
  /\ lock \in Procs \cup {"none"}
  /\ pc \in [Threads -> SendSteps \cup RecSteps]
  /\ \A s \in Senders : pc[s] \in SendSteps
  /\ \A r \in Receivers : pc[r] \in RecSteps
  /\ rec \in [Receivers -> Nat] /\ retval \in [Receivers -> BOOLEAN]
  /\ got \in [Receivers -> Seq(Nat)]
  /\ accepted \in Nat /\ accepted <= sends
  /\ failed \in BOOLEAN
  /\ sends \in Nat /\ sends <= MaxSends /\ signals \in Nat /\ kills \in Nat

(* Who takes a record is alone with the lock file, and sees what is there. *)
FileLock ==
  /\ \A r \in Receivers : pc[r] \in InFile => lock = ProcOf[r]
  /\ \A r \in Receivers : pc[r] = "rtd" => q # << >>
  /\ \A r \in Receivers : pc[r] \notin {"unlock", "dead"} => rec[r] = 0

FileInv == Types /\ FileLock /\ TakeSucceeds

(* The records that were returned to a receiver, and all it took.          *)
Past(r)  == { got[r][i] : i \in 1 .. Len(got[r]) }
Taken(r) == Past(r) \cup ({rec[r]} \ {0})

(* The deque holds the youngest records, the oldest on top; a receiver     *)
(* takes them in turn, and no two take the same.                           *)
SequenceInv ==
  /\ \A i, j \in 1 .. Len(q) : i < j => q[i] > q[j]
  /\ \A i \in 1 .. Len(q) : q[i] <= accepted
  /\ \A r \in Receivers : \A n \in Taken(r) : /\ n # 0 /\ n <= accepted
                                              /\ \A i \in 1 .. Len(q) : n < q[i]
  /\ \A r, u \in Receivers : r # u => Taken(r) \cap Taken(u) = {}
  /\ \A r \in Receivers : \A i, j \in 1 .. Len(got[r]) : i < j => got[r][i] < got[r][j]
  /\ \A r \in Receivers : rec[r] # 0 => \A n \in Past(r) : n < rec[r]

(* Every record is in the deque, was returned or is in the local of a      *)
(* receiver, some of which are dead.                                       *)
Holding == { r \in Receivers : rec[r] # 0 }
Lost    == { r \in Holding : pc[r] = "dead" }
AllPast == UNION { Past(r) : r \in Receivers }

CountInv ==
  /\ IsFiniteSet(Holding) /\ IsFiniteSet(AllPast)
  /\ accepted = Cardinality(AllPast) + Len(q) + Cardinality(Holding)
  /\ Cardinality(Lost) <= kills

-----------------------------------------------------------------------------
(* The constants.                                                          *)
LEMMA Constants ==
  /\ Senders \cap Receivers = {} /\ Threads = Senders \cup Receivers
  /\ \A t \in Threads : ProcOf[t] \in Procs /\ ProcOf[t] # "none"
  /\ Slots \in Nat /\ SemMax \in Nat /\ SemMax > 0 /\ MaxSends \in Nat
  /\ MaxSignals \in Nat /\ MaxKills \in Nat
BY MsgDequeAssumption DEF Threads

(* A record inserted at the bottom of the deque.                           *)
LEMMA Insert ==
  ASSUME NEW s \in Seq(Nat \ {0}), NEW n \in Nat \ {0}
  PROVE  LET t == <<n>> \o s
         IN  /\ t \in Seq(Nat \ {0}) /\ Len(t) = Len(s) + 1 /\ t # << >>
             /\ t[1] = n /\ \A i \in 2 .. Len(t) : t[i] = s[i - 1]
OBVIOUS

(* A record removed from the top.                                          *)
LEMMA Remove ==
  ASSUME NEW s \in Seq(Nat \ {0}), s # << >>
  PROVE  LET t == SubSeq(s, 1, Len(s) - 1)
         IN  /\ t \in Seq(Nat \ {0}) /\ Len(t) = Len(s) - 1 /\ Len(s) \in Nat /\ Len(s) > 0
             /\ \A i \in 1 .. Len(t) : t[i] = s[i]
             /\ s[Len(s)] \in Nat \ {0}
<1>1. Len(s) \in Nat /\ Len(s) > 0
  OBVIOUS
<1>2. Len(s) - 1 \in Nat /\ \A i \in 1 .. Len(s) - 1 : s[i] \in Nat \ {0}
  BY <1>1
<1>3. PICK n \in Nat : n = Len(s) - 1
  BY <1>2
<1>4. \A i \in 1 .. n : s[i] \in Nat \ {0}
  BY <1>2, <1>3
<1>5. /\ SubSeq(s, 1, n) \in Seq(Nat \ {0})
      /\ Len(SubSeq(s, 1, n)) = n
      /\ \A i \in 1 .. n : SubSeq(s, 1, n)[i] = s[i]
  <2>1. 1 \in Int /\ n \in Int
    OBVIOUS
  <2>2. \A i \in 1 .. n : s[i] \in Nat \ {0}
    BY <1>4
  <2>3. /\ SubSeq(s, 1, n) \in Seq(Nat \ {0})
        /\ Len(SubSeq(s, 1, n)) = IF 1 <= n THEN n - 1 + 1 ELSE 0
        /\ \A i \in 1 .. n - 1 + 1 : SubSeq(s, 1, n)[i] = s[1 + i - 1]
    BY <2>1, <2>2, SubSeqProperties
  <2>4. (IF 1 <= n THEN n - 1 + 1 ELSE 0) = n /\ n - 1 + 1 = n /\ \A i \in 1 .. n : 1 + i - 1 = i
    OBVIOUS
  <2>5. QED BY <2>3, <2>4
<1>6. s[Len(s)] \in Nat \ {0}
  BY <1>1
<1>7. QED BY <1>1, <1>3, <1>5, <1>6

(* A step of a thread, seen from the lock file.                            *)
LEMMA FileStep ==
  ASSUME FileInv, NEW t \in Threads, NEW step \in SendSteps \cup RecSteps,
         pc' = [pc EXCEPT ![t] = step]
  PROVE  /\ pc' \in [Threads -> SendSteps \cup RecSteps]
         /\ \A u \in Threads : pc'[u] = IF u = t THEN step ELSE pc[u]
BY DEF FileInv, Types

(* The start.                                                              *)
LEMMA InitFile == Init => FileInv
<1> SUFFICES ASSUME Init PROVE FileInv
  OBVIOUS
<1>1. q = << >> /\ sem \in Nat /\ sem <= SemMax /\ lock = "none"
  BY Constants DEF Init
<1>2. q \in Seq(Nat \ {0}) /\ Len(q) <= Slots /\ << >> \in Seq(Nat)
  BY <1>1, Constants
<1>3. \A t \in Threads : pc[t] = "idle"
  BY DEF Init
<1>4. Types
  <2>1. pc \in [Threads -> SendSteps \cup RecSteps]
    BY DEF Init, SendSteps
  <2>2. /\ \A s \in Senders : pc[s] \in SendSteps
        /\ \A r \in Receivers : pc[r] \in RecSteps
    BY <1>3, Constants DEF SendSteps, RecSteps
  <2>3. /\ rec \in [Receivers -> Nat] /\ retval \in [Receivers -> BOOLEAN]
        /\ got \in [Receivers -> Seq(Nat)]
    BY <1>2 DEF Init
  <2>4. /\ accepted \in Nat /\ sends \in Nat /\ signals \in Nat /\ kills \in Nat
        /\ accepted <= sends /\ sends <= MaxSends /\ failed \in BOOLEAN
        /\ lock \in Procs \cup {"none"}
    <3>1. MaxSends \in Nat
      BY Constants
    <3>2. accepted = 0 /\ sends = 0 /\ signals = 0 /\ kills = 0 /\ failed = FALSE /\ lock = "none"
      BY DEF Init
    <3>3. accepted \in Nat /\ sends \in Nat /\ signals \in Nat /\ kills \in Nat
      BY <3>2
    <3>4. accepted <= sends /\ sends <= MaxSends
      BY <3>1, <3>2
    <3>5. failed \in BOOLEAN
      BY <3>2
    <3>6. lock \in Procs \cup {"none"}
      BY <3>2
    <3>7. QED BY <3>3, <3>4, <3>5, <3>6
  <2>5. QED BY <1>1, <1>2, <2>1, <2>2, <2>3, <2>4 DEF Types
<1>5. FileLock /\ TakeSucceeds
  BY <1>3, Constants DEF Init, FileLock, InFile, TakeSucceeds
<1>6. QED BY <1>4, <1>5 DEF FileInv

(* The steps of a sender.                                                  *)
LEMMA SendFile ==
  ASSUME FileInv, NEW s \in Senders, msgdeque_send(s) \/ CheckSend(s) \/ Post(s)
  PROVE  FileInv'
<1>1. s \in Threads /\ s \notin Receivers
  BY Constants
<1>2. /\ UNCHANGED <<lock, rec, retval, got, failed, signals, kills>>
      /\ sends' \in Nat /\ sends' <= MaxSends /\ sends <= sends'
  BY Constants DEF msgdeque_send, CheckSend, Post, counted, FileInv, Types
<1>3. PICK step \in SendSteps : pc' = [pc EXCEPT ![s] = step]
  <2>1. pc = [pc EXCEPT ![s] = pc[s]] /\ pc[s] \in SendSteps
    BY <1>1 DEF FileInv, Types
  <2>2. QED BY <2>1 DEF msgdeque_send, CheckSend, Post, Goto, SendSteps
<1>4. \A u \in Threads : pc'[u] = IF u = s THEN step ELSE pc[u]
  BY <1>1, <1>3, FileStep
<1>5. /\ q' \in Seq(Nat \ {0}) /\ Len(q') <= Slots /\ (q # << >> => q' # << >>)
      /\ accepted' \in Nat /\ accepted' <= sends'
  <2>1. CASE UNCHANGED <<q, accepted>>
    BY <1>2, <2>1 DEF FileInv, Types
  <2>2. CASE /\ q' = <<accepted + 1>> \o q /\ accepted' = accepted + 1 /\ Len(q) < Slots
             /\ sends' = sends + 1
    <3>1. accepted + 1 \in Nat \ {0} /\ q \in Seq(Nat \ {0}) /\ accepted <= sends /\ accepted \in Nat /\ sends \in Nat
      BY DEF FileInv, Types
    <3>2. q' \in Seq(Nat \ {0}) /\ Len(q') = Len(q) + 1 /\ q' # << >>
      BY <2>2, <3>1, Insert
    <3>3. Len(q) \in Nat
      BY <3>1
    <3>4. QED BY <2>2, <3>1, <3>2, <3>3, Constants
  <2>3. QED BY <2>1, <2>2 DEF msgdeque_send, CheckSend, Post
<1>6. sem' \in Nat /\ sem' <= SemMax
  BY Constants DEF msgdeque_send, CheckSend, Post, FileInv, Types
<1>7. Types'
  <2>1. pc' \in [Threads -> SendSteps \cup RecSteps]
    BY <1>1, <1>3, FileStep
  <2>2. \A u \in Senders : pc'[u] \in SendSteps
    BY <1>4, Constants DEF FileInv, Types
  <2>3. \A u \in Receivers : pc'[u] \in RecSteps
    BY <1>1, <1>4, Constants DEF FileInv, Types
  <2>4. QED BY <1>2, <1>5, <1>6, <2>1, <2>2, <2>3 DEF FileInv, Types
<1>8. FileLock' /\ TakeSucceeds'
  <2>1. \A r \in Receivers : pc'[r] = pc[r]
    BY <1>1, <1>4, Constants
  <2>2. QED BY <1>2, <1>5, <2>1 DEF FileInv, FileLock, TakeSucceeds
<1>9. QED BY <1>7, <1>8 DEF FileInv

(* A step of a receiver that ends at step.                                 *)
LEMMA RecFrame ==
  ASSUME FileInv, NEW r \in Receivers, NEW step \in RecSteps,
         pc' = [pc EXCEPT ![r] = step]
  PROVE  /\ pc' \in [Threads -> SendSteps \cup RecSteps]
         /\ \A u \in Receivers : pc'[u] = IF u = r THEN step ELSE pc[u]
         /\ \A s \in Senders : pc'[s] \in SendSteps
         /\ \A u \in Receivers : pc'[u] \in RecSteps
<1>1. r \in Threads /\ r \notin Senders
  BY Constants
<1>2. step \in SendSteps \cup RecSteps
  OBVIOUS
<1>3. pc' \in [Threads -> SendSteps \cup RecSteps]
  BY <1>1, <1>2, FileStep
<1>4. \A u \in Threads : pc'[u] = IF u = r THEN step ELSE pc[u]
  BY <1>1, <1>2, FileStep
<1>5. \A u \in Receivers : pc'[u] = IF u = r THEN step ELSE pc[u]
  BY <1>4, Constants
<1>6. \A s \in Senders : pc'[s] = pc[s]
  BY <1>1, <1>4, Constants
<1>7. QED BY <1>3, <1>5, <1>6 DEF FileInv, Types

(* The steps of a receiver that leave deque and records alone.             *)
LEMMA QuietFile ==
  ASSUME FileInv, ApartReceivers, NEW r \in Receivers,
         \/ msgdeque_rec(r) \/ LockFile(r) \/ Stats(r) \/ CheckRec(r) \/ Wait(r) \/ Interrupt(r)
  PROVE  FileInv'
<1>1. /\ UNCHANGED <<q, rec, got, accepted, sends, kills>>
      /\ signals' \in Nat /\ retval' \in [Receivers -> BOOLEAN]
  <2>1. UNCHANGED <<q, rec, got, accepted, sends, kills>> /\ (signals' = signals \/ signals' = signals + 1)
    BY DEF msgdeque_rec, LockFile, Stats, CheckRec, Wait, Interrupt, counted
  <2>2. \/ retval' = retval
        \/ retval' = [retval EXCEPT ![r] = TRUE]
        \/ retval' = [retval EXCEPT ![r] = FALSE]
    BY DEF msgdeque_rec, LockFile, Stats, CheckRec, Wait, Interrupt
  <2>3. retval \in [Receivers -> BOOLEAN] /\ signals \in Nat
    BY DEF FileInv, Types
  <2>4. retval' \in [Receivers -> BOOLEAN]
    BY <2>2, <2>3
  <2>5. QED BY <2>1, <2>3, <2>4
<1>2. failed' = failed
  BY DEF msgdeque_rec, LockFile, Stats, CheckRec, Wait, Interrupt, counted
<1>3. sem' \in Nat /\ sem' <= SemMax
  <2>1. sem' = sem \/ (sem > 0 /\ sem' = sem - 1)
    BY DEF msgdeque_rec, LockFile, Stats, CheckRec, Wait, Interrupt
  <2>2. sem \in Nat /\ sem <= SemMax
    BY DEF FileInv, Types
  <2>3. QED BY <2>1, <2>2, Constants
<1>4. PICK step \in RecSteps :
        /\ pc' = [pc EXCEPT ![r] = step]
        /\ step = "unlock" => rec[r] = 0
        /\ \/ step \notin InFile /\ lock' = lock
           \/ /\ pc[r] = "lock" /\ step = "stats"
              /\ lock \in {"none", ProcOf[r]} /\ lock' = ProcOf[r]
           \/ /\ pc[r] = "stats" /\ step \in {"rtd", "unlock"} /\ lock' = lock
              /\ step = "rtd" => q # << >>
  <2>1. pc[r] \notin {"unlock", "dead"} => rec[r] = 0
    BY DEF FileInv, FileLock
  <2>2. CASE msgdeque_rec(r) \/ CheckRec(r) \/ Wait(r) \/ Interrupt(r)
    BY <2>2 DEF msgdeque_rec, CheckRec, Wait, Interrupt, Goto, RecSteps, InFile
  <2>3. CASE LockFile(r)
    BY <2>3 DEF LockFile, Goto, RecSteps, InFile
  <2>4. CASE Stats(r)
    <3>1. pc[r] = "stats" /\ lock' = lock /\ rec[r] = 0
      BY <2>1, <2>4 DEF Stats
    <3>2. CASE q # << >>
      BY <2>4, <3>1, <3>2 DEF Stats, Goto, datacheck, RecSteps, InFile
    <3>3. CASE q = << >>
      BY <2>4, <3>1, <3>3 DEF Stats, Goto, datacheck, RecSteps, InFile
    <3>4. QED BY <3>2, <3>3
  <2>5. QED BY <2>2, <2>3, <2>4
<1>5. /\ pc' \in [Threads -> SendSteps \cup RecSteps]
      /\ \A u \in Receivers : pc'[u] = IF u = r THEN step ELSE pc[u]
      /\ \A s \in Senders : pc'[s] \in SendSteps
      /\ \A u \in Receivers : pc'[u] \in RecSteps
  BY <1>4, RecFrame
<1>6. \A u \in Receivers : ProcOf[u] # "none" /\ ProcOf[u] \in Procs /\ (u # r => ProcOf[u] # ProcOf[r])
  BY Constants DEF ApartReceivers
<1>7. lock' \in Procs \cup {"none"}
  BY <1>4, <1>6 DEF FileInv, Types
<1>8. Types'
  BY <1>1, <1>2, <1>3, <1>5, <1>7 DEF FileInv, Types
<1>9. FileLock'
  <2>1. ASSUME NEW u \in Receivers, pc'[u] \in InFile PROVE lock' = ProcOf[u]
    <3>1. CASE u = r
      BY <1>4, <1>5, <2>1, <3>1 DEF FileInv, FileLock, InFile
    <3>2. CASE u # r
      <4>1. pc[u] \in InFile /\ lock = ProcOf[u]
        BY <1>5, <2>1, <3>2 DEF FileInv, FileLock
      <4>2. QED BY <1>4, <1>6, <3>2, <4>1
    <3>3. QED BY <3>1, <3>2
  <2>2. \A u \in Receivers : pc'[u] = "rtd" => q' # << >>
    BY <1>1, <1>4, <1>5 DEF FileInv, FileLock, InFile
  <2>3. \A u \in Receivers : pc'[u] \notin {"unlock", "dead"} => rec'[u] = 0
    <3>1. pc[r] # "dead" /\ pc[r] # "unlock"
      BY DEF msgdeque_rec, LockFile, Stats, CheckRec, Wait, Interrupt
    <3>2. QED BY <1>1, <1>5, <3>1 DEF FileInv, FileLock
  <2>4. QED BY <2>1, <2>2, <2>3 DEF FileLock
<1>10. QED BY <1>2, <1>8, <1>9 DEF FileInv, TakeSucceeds

(* Under the lock file the removal finds a record.                         *)
LEMMA TakeStep ==
  ASSUME FileInv, NEW r \in Receivers, Take(r)
  PROVE  /\ pc[r] = "rtd" /\ q # << >> /\ rec[r] = 0 /\ lock = ProcOf[r]
         /\ q' = SubSeq(q, 1, Len(q) - 1) /\ rec' = [rec EXCEPT ![r] = q[Len(q)]]
         /\ failed' = failed /\ pc' = [pc EXCEPT ![r] = "unlock"]
         /\ UNCHANGED <<sem, lock, retval, got, accepted, sends, signals, kills>>
<1>1. pc[r] = "rtd"
  BY DEF Take
<1>2. q # << >> /\ rec[r] = 0 /\ lock = ProcOf[r]
  BY <1>1 DEF FileInv, FileLock, InFile
<1>3. QED BY <1>1, <1>2 DEF Take, Goto, counted

(* The removal of a record.                                                *)
LEMMA TakeFile ==
  ASSUME FileInv, ApartReceivers, NEW r \in Receivers, Take(r)
  PROVE  FileInv'
<1>1. /\ pc[r] = "rtd" /\ q # << >> /\ rec[r] = 0 /\ lock = ProcOf[r]
      /\ q' = SubSeq(q, 1, Len(q) - 1) /\ rec' = [rec EXCEPT ![r] = q[Len(q)]]
      /\ failed' = failed /\ pc' = [pc EXCEPT ![r] = "unlock"]
      /\ UNCHANGED <<sem, lock, retval, got, accepted, sends, signals, kills>>
  BY TakeStep
<1>2. /\ q' \in Seq(Nat \ {0}) /\ Len(q') = Len(q) - 1 /\ Len(q) \in Nat /\ Len(q) > 0
      /\ q[Len(q)] \in Nat \ {0}
  BY <1>1, Remove DEF FileInv, Types
<1>3. /\ pc' \in [Threads -> SendSteps \cup RecSteps]
      /\ \A u \in Receivers : pc'[u] = IF u = r THEN "unlock" ELSE pc[u]
      /\ \A s \in Senders : pc'[s] \in SendSteps
      /\ \A u \in Receivers : pc'[u] \in RecSteps
  <2>1. "unlock" \in RecSteps
    BY DEF RecSteps, InFile
  <2>2. QED BY <1>1, <2>1, RecFrame
<1>4. rec' \in [Receivers -> Nat] /\ \A u \in Receivers \ {r} : rec'[u] = rec[u]
  BY <1>1, <1>2 DEF FileInv, Types
<1>5. Len(q') <= Slots
  BY <1>2, Constants DEF FileInv, Types
<1>6. Types'
  BY <1>1, <1>2, <1>3, <1>4, <1>5 DEF FileInv, Types
<1>7. \A u \in Receivers \ {r} : pc[u] \notin InFile
  BY <1>1 DEF FileInv, FileLock, ApartReceivers
<1>8. FileLock'
  BY <1>1, <1>3, <1>4, <1>7 DEF FileInv, FileLock, InFile
<1>9. QED BY <1>1, <1>6, <1>8 DEF FileInv, TakeSucceeds

(* The end of a call, or its wait.                                         *)
LEMMA UnlockStep ==
  ASSUME FileInv, NEW r \in Receivers, UnlockFile(r)
  PROVE  /\ pc[r] = "unlock" /\ lock' = "none"
         /\ UNCHANGED <<q, sem, retval, accepted, failed, sends, signals, kills>>
         /\ \/ /\ rec[r] # 0 /\ pc' = [pc EXCEPT ![r] = "idle"]
               /\ rec' = [rec EXCEPT ![r] = 0]
               /\ got' = [got EXCEPT ![r] = Append(got[r], rec[r])]
            \/ /\ rec[r] = 0 /\ pc' = [pc EXCEPT ![r] = "cell"]
               /\ UNCHANGED <<rec, got>>
BY DEF UnlockFile, Goto, counted

(* The unlock of the lock file.                                            *)
LEMMA UnlockFileFile ==
  ASSUME FileInv, ApartReceivers, NEW r \in Receivers, UnlockFile(r)
  PROVE  FileInv'
<1>1. /\ pc[r] = "unlock" /\ lock' = "none" /\ failed' = failed
      /\ UNCHANGED <<q, sem, retval, accepted, sends, signals, kills>>
  BY UnlockStep
<1>2. PICK step \in {"idle", "cell"} : pc' = [pc EXCEPT ![r] = step]
  BY UnlockStep
<1>3. /\ pc' \in [Threads -> SendSteps \cup RecSteps]
      /\ \A u \in Receivers : pc'[u] = IF u = r THEN step ELSE pc[u]
      /\ \A s \in Senders : pc'[s] \in SendSteps
      /\ \A u \in Receivers : pc'[u] \in RecSteps
  <2>1. step \in RecSteps
    BY <1>2 DEF RecSteps
  <2>2. QED BY <1>2, <2>1, RecFrame
<1>4. rec' \in [Receivers -> Nat] /\ rec'[r] = 0 /\ \A u \in Receivers \ {r} : rec'[u] = rec[u]
  BY UnlockStep DEF FileInv, Types
<1>5. got' \in [Receivers -> Seq(Nat)]
  <2>1. got \in [Receivers -> Seq(Nat)] /\ Append(got[r], rec[r]) \in Seq(Nat)
    BY DEF FileInv, Types
  <2>2. QED BY <2>1, UnlockStep
<1>6. Types'
  BY <1>1, <1>3, <1>4, <1>5 DEF FileInv, Types
<1>7. lock = ProcOf[r]
  BY <1>1 DEF FileInv, FileLock, InFile
<1>8. \A u \in Receivers \ {r} : pc[u] \notin InFile
  BY <1>7 DEF FileInv, FileLock, ApartReceivers
<1>9. FileLock'
  BY <1>1, <1>2, <1>3, <1>4, <1>8 DEF FileInv, FileLock, InFile
<1>10. QED BY <1>1, <1>6, <1>9 DEF FileInv, TakeSucceeds

(* The death of a process, with all its threads.                           *)
LEMMA KillFile ==
  ASSUME FileInv, NEW p \in Procs, Kill(p)
  PROVE  FileInv'
<1>1. /\ pc' = [t \in Threads |-> IF ProcOf[t] = p THEN "dead" ELSE pc[t]]
      /\ lock' = IF lock = p THEN "none" ELSE lock
      /\ kills' = kills + 1
      /\ UNCHANGED <<q, sem, rec, retval, got, accepted, failed, sends, signals>>
  BY DEF Kill
<1>2. \A t \in Threads : pc'[t] = IF ProcOf[t] = p THEN "dead" ELSE pc[t]
  BY <1>1
<1>3. /\ pc' \in [Threads -> SendSteps \cup RecSteps]
      /\ \A s \in Senders : pc'[s] \in SendSteps
      /\ \A r \in Receivers : pc'[r] \in RecSteps
  BY <1>1, <1>2, Constants DEF FileInv, Types, SendSteps, RecSteps
<1>4. Types'
  BY <1>1, <1>3 DEF FileInv, Types
<1>5. FileLock'
  <2>1. \A r \in Receivers : r \in Threads
    BY Constants
  <2>2. \A r \in Receivers : pc'[r] # "dead" => pc'[r] = pc[r] /\ ProcOf[r] # p
    BY <1>2, <2>1
  <2>3. QED BY <1>1, <2>2 DEF FileInv, FileLock, InFile
<1>6. QED BY <1>1, <1>4, <1>5 DEF FileInv, TakeSucceeds

(* Every step.                                                             *)
LEMMA NextFile ==
  ASSUME FileInv, ApartReceivers, [Next]_vars
  PROVE  FileInv'
<1>1. CASE UNCHANGED vars
  BY <1>1 DEF vars, counted, FileInv, Types, FileLock, TakeSucceeds
<1>2. ASSUME NEW s \in Senders, msgdeque_send(s) \/ SendStep(s) PROVE FileInv'
  BY <1>2, SendFile DEF SendStep
<1>3. ASSUME NEW r \in Receivers, RecStep(r) \/ Interrupt(r) PROVE FileInv'
  BY <1>3, QuietFile, TakeFile, UnlockFileFile DEF RecStep
<1>4. ASSUME NEW p \in Procs, Kill(p) PROVE FileInv'
  BY <1>4, KillFile
<1>5. QED BY <1>1, <1>2, <1>3, <1>4 DEF Next

-----------------------------------------------------------------------------
(* What the steps do that neither insert, remove nor return a record.      *)
LEMMA QuietStep ==
  ASSUME FileInv,
         \/ UNCHANGED vars
         \/ \E s \in Senders : SendStep(s)
         \/ \E r \in Receivers : \/ msgdeque_rec(r) \/ LockFile(r) \/ Stats(r) \/ CheckRec(r)
                                 \/ Wait(r) \/ Interrupt(r)
  PROVE  UNCHANGED <<q, rec, got, accepted, kills>>
BY DEF SendStep, CheckSend, Post, msgdeque_rec, LockFile, Stats, CheckRec, Wait, Interrupt,
       vars, counted

(* The insertion of a record, or its refusal.                              *)
LEMMA SendInsert ==
  ASSUME FileInv, NEW s \in Senders, msgdeque_send(s)
  PROVE  /\ UNCHANGED <<rec, got, kills>>
         /\ \/ UNCHANGED <<q, accepted>>
            \/ q' = <<accepted + 1>> \o q /\ accepted' = accepted + 1
BY DEF msgdeque_send

(* The numbers of the records.                                             *)
LEMMA RecordFacts ==
  ASSUME FileInv, NEW r \in Receivers
  PROVE  /\ Len(got[r]) \in Nat /\ got[r] \in Seq(Nat) /\ rec[r] \in Nat
         /\ Past(r) \subseteq Nat /\ Taken(r) \subseteq Nat
         /\ Len(q) \in Nat /\ accepted \in Nat /\ \A i \in 1 .. Len(q) : q[i] \in Nat \ {0}
         /\ DOMAIN got[r] = 1 .. Len(got[r])
<1>1. got[r] \in Seq(Nat) /\ rec[r] \in Nat /\ q \in Seq(Nat \ {0}) /\ accepted \in Nat
  BY DEF FileInv, Types
<1>2. Past(r) \subseteq Nat
  BY <1>1 DEF Past
<1>3. QED BY <1>1, <1>2 DEF Taken

(* The start.                                                              *)
LEMMA InitSequence == Init => SequenceInv
<1> SUFFICES ASSUME Init PROVE SequenceInv
  OBVIOUS
<1>1. q = << >> /\ Len(q) = 0 /\ \A r \in Receivers : rec[r] = 0 /\ got[r] = << >>
  BY DEF Init
<1>2. \A r \in Receivers : Past(r) = {} /\ Taken(r) = {} /\ Len(got[r]) = 0
  BY <1>1 DEF Past, Taken
<1>3. QED BY <1>1, <1>2 DEF SequenceInv

(* A new record is younger than all.                                       *)
LEMMA SendSequence ==
  ASSUME FileInv, SequenceInv, NEW s \in Senders, msgdeque_send(s)
  PROVE  SequenceInv'
<1>1. UNCHANGED <<rec, got>>
  BY SendInsert
<1>2. \A r \in Receivers : (Past(r))' = Past(r) /\ (Taken(r))' = Taken(r)
  BY <1>1 DEF Past, Taken
<1>3. CASE UNCHANGED <<q, accepted>>
  BY <1>1, <1>2, <1>3 DEF SequenceInv
<1>4. CASE q' = <<accepted + 1>> \o q /\ accepted' = accepted + 1
  <2>1. accepted \in Nat /\ accepted + 1 \in Nat \ {0} /\ q \in Seq(Nat \ {0}) /\ Len(q) \in Nat
    BY DEF FileInv, Types
  <2>2. /\ Len(q') = Len(q) + 1 /\ q'[1] = accepted + 1
        /\ \A i \in 2 .. Len(q') : q'[i] = q[i - 1]
    BY <1>4, <2>1, Insert
  <2>3. \A i \in 1 .. Len(q) : q[i] \in Nat /\ q[i] <= accepted
    BY <2>1 DEF SequenceInv
  <2>4. ASSUME NEW i \in 1 .. Len(q') PROVE i = 1 \/ (i - 1 \in 1 .. Len(q) /\ q'[i] = q[i - 1])
    BY <2>1, <2>2
  <2>5. ASSUME NEW i \in 1 .. Len(q'), NEW j \in 1 .. Len(q'), i < j PROVE q'[i] > q'[j]
    <3>1. j # 1 /\ j - 1 \in 1 .. Len(q) /\ q'[j] = q[j - 1]
      BY <2>1, <2>2, <2>5
    <3>2. CASE i = 1
      BY <2>1, <2>2, <2>3, <3>1, <3>2
    <3>3. CASE i # 1
      <4>1. i - 1 \in 1 .. Len(q) /\ q'[i] = q[i - 1] /\ i - 1 < j - 1
        BY <2>1, <2>2, <2>5, <3>3
      <4>2. QED BY <3>1, <4>1 DEF SequenceInv
    <3>4. QED BY <3>2, <3>3
  <2>6. ASSUME NEW i \in 1 .. Len(q') PROVE q'[i] <= accepted'
    <3>1. CASE i = 1
      BY <1>4, <2>1, <2>2, <3>1
    <3>2. CASE i # 1
      <4>1. i - 1 \in 1 .. Len(q) /\ q'[i] = q[i - 1]
        BY <2>4, <3>2
      <4>2. q[i - 1] \in Nat /\ q[i - 1] <= accepted
        BY <2>3, <4>1
      <4>3. QED BY <1>4, <2>1, <4>1, <4>2
    <3>3. QED BY <3>1, <3>2
  <2>7. ASSUME NEW r \in Receivers, NEW n \in Taken(r)
        PROVE  n # 0 /\ n <= accepted' /\ \A i \in 1 .. Len(q') : n < q'[i]
    <3>1. n # 0 /\ n <= accepted /\ n \in Nat /\ \A i \in 1 .. Len(q) : n < q[i]
      BY RecordFacts DEF SequenceInv
    <3>2. \A i \in 1 .. Len(q') : n < q'[i]
      BY <2>1, <2>2, <2>4, <3>1
    <3>3. QED BY <1>4, <2>1, <3>1, <3>2
  <2>8. \A r, u \in Receivers : r # u => (Taken(r))' \cap (Taken(u))' = {}
    BY <1>2 DEF SequenceInv
  <2>9. /\ \A r \in Receivers : \A i, j \in 1 .. Len(got'[r]) : i < j => got'[r][i] < got'[r][j]
        /\ \A r \in Receivers : rec'[r] # 0 => \A n \in (Past(r))' : n < rec'[r]
    BY <1>1, <1>2 DEF SequenceInv
  <2>10. QED BY <1>2, <2>5, <2>6, <2>7, <2>8, <2>9 DEF SequenceInv
<1>5. QED BY <1>3, <1>4, SendInsert

(* A receiver takes the oldest record there is.                            *)
LEMMA TakeSequence ==
  ASSUME FileInv, SequenceInv, NEW r \in Receivers, Take(r)
  PROVE  SequenceInv'
<1>1. /\ q # << >> /\ rec[r] = 0 /\ q' = SubSeq(q, 1, Len(q) - 1)
      /\ rec' = [rec EXCEPT ![r] = q[Len(q)]] /\ UNCHANGED <<got, accepted>>
  BY TakeStep
<1>2. PICK n \in Nat \ {0} : n = q[Len(q)]
  BY <1>1, Remove DEF FileInv, Types
<1>3. /\ Len(q') = Len(q) - 1 /\ Len(q) \in Nat /\ Len(q) > 0
      /\ \A i \in 1 .. Len(q') : q'[i] = q[i]
  BY <1>1, Remove DEF FileInv, Types
<1>4. rec'[r] = n /\ \A u \in Receivers \ {r} : rec'[u] = rec[u]
  BY <1>1, <1>2 DEF FileInv, Types
<1>5. /\ (Taken(r))' = Past(r) \cup {n} /\ Taken(r) = Past(r)
      /\ \A u \in Receivers : (Past(u))' = Past(u)
      /\ \A u \in Receivers \ {r} : (Taken(u))' = Taken(u)
  BY <1>1, <1>2, <1>4 DEF Taken, Past
<1>6. Len(q) \in 1 .. Len(q) /\ \A i \in 1 .. Len(q') : i \in 1 .. Len(q) /\ i < Len(q)
  BY <1>3
<1>7. \A u \in Receivers : \A m \in Taken(u) : m < n
  BY <1>2, <1>6 DEF SequenceInv
<1>8. \A i \in 1 .. Len(q') : n < q'[i]
  <2>1. ASSUME NEW i \in 1 .. Len(q') PROVE n < q'[i]
    <3>1. q[i] > q[Len(q)]
      BY <1>6 DEF SequenceInv
    <3>2. q'[i] = q[i] /\ q[i] \in Nat
      BY <1>3, <1>6, RecordFacts
    <3>3. QED BY <1>2, <3>1, <3>2
  <2>2. QED BY <2>1
<1>9. \A i, j \in 1 .. Len(q') : i < j => q'[i] > q'[j]
  BY <1>3, <1>6 DEF SequenceInv
<1>10. \A i \in 1 .. Len(q') : q'[i] <= accepted'
  BY <1>1, <1>3, <1>6 DEF SequenceInv
<1>11. n <= accepted
  BY <1>2, <1>6 DEF SequenceInv
<1>12. ASSUME NEW u \in Receivers, NEW m \in (Taken(u))'
       PROVE  m # 0 /\ m <= accepted' /\ \A i \in 1 .. Len(q') : m < q'[i]
  <2>1. CASE m = n
    BY <1>1, <1>2, <1>8, <1>11, <2>1
  <2>2. CASE m # n
    <3>1. m \in Taken(u)
      BY <1>5, <1>12, <2>2
    <3>2. QED BY <1>1, <1>3, <1>6, <3>1 DEF SequenceInv
  <2>3. QED BY <2>1, <2>2
<1>13. ASSUME NEW u \in Receivers, NEW v \in Receivers, u # v
       PROVE  (Taken(u))' \cap (Taken(v))' = {}
  <2>1. \A w \in Receivers : n \notin Taken(w)
    BY <1>2, <1>7
  <2>2. Taken(u) \cap Taken(v) = {}
    BY <1>13 DEF SequenceInv
  <2>3. CASE u = r
    BY <1>5, <1>13, <2>1, <2>2, <2>3
  <2>4. CASE v = r
    BY <1>5, <1>13, <2>1, <2>2, <2>4
  <2>5. CASE u # r /\ v # r
    BY <1>5, <2>2, <2>5
  <2>6. QED BY <2>3, <2>4, <2>5
<1>14. \A u \in Receivers : \A i, j \in 1 .. Len(got'[u]) : i < j => got'[u][i] < got'[u][j]
  BY <1>1 DEF SequenceInv
<1>15. \A u \in Receivers : rec'[u] # 0 => \A m \in (Past(u))' : m < rec'[u]
  BY <1>4, <1>5, <1>7 DEF SequenceInv
<1>16. QED BY <1>9, <1>10, <1>12, <1>13, <1>14, <1>15 DEF SequenceInv

(* A record that is appended to those that were returned.                  *)
LEMMA AppendFacts ==
  ASSUME NEW s \in Seq(Nat), NEW n \in Nat
  PROVE  /\ Len(Append(s, n)) = Len(s) + 1 /\ Len(s) \in Nat
         /\ \A i \in 1 .. Len(s) : Append(s, n)[i] = s[i]
         /\ Append(s, n)[Len(s) + 1] = n
         /\ { Append(s, n)[i] : i \in 1 .. Len(Append(s, n)) } = { s[i] : i \in 1 .. Len(s) } \cup {n}
<1> DEFINE t == Append(s, n)
<1>1. /\ Len(t) = Len(s) + 1 /\ Len(s) \in Nat
      /\ \A i \in 1 .. Len(s) : t[i] = s[i]
      /\ t[Len(s) + 1] = n
  OBVIOUS
<1> HIDE DEF t
<1>2. \A i \in 1 .. Len(t) : i \in 1 .. Len(s) \/ i = Len(s) + 1
  BY <1>1
<1>3. \A i \in 1 .. Len(s) : i \in 1 .. Len(t)
  BY <1>1
<1>4. Len(s) + 1 \in 1 .. Len(t)
  BY <1>1
<1>5. ASSUME NEW m \in { t[i] : i \in 1 .. Len(t) } PROVE m \in { s[i] : i \in 1 .. Len(s) } \cup {n}
  BY <1>1, <1>2
<1>6. ASSUME NEW m \in { s[i] : i \in 1 .. Len(s) } PROVE m \in { t[i] : i \in 1 .. Len(t) }
  BY <1>1, <1>3
<1>7. n \in { t[i] : i \in 1 .. Len(t) }
  BY <1>1, <1>4
<1>8. { t[i] : i \in 1 .. Len(t) } = { s[i] : i \in 1 .. Len(s) } \cup {n}
  BY <1>5, <1>6, <1>7
<1>9. QED BY <1>1, <1>8 DEF t

(* The record it took is returned to the receiver.                         *)
LEMMA ReturnSequence ==
  ASSUME FileInv, SequenceInv, NEW r \in Receivers, UnlockFile(r)
  PROVE  SequenceInv'
<1>1. UNCHANGED <<q, accepted>>
  BY UnlockStep
<1>2. CASE UNCHANGED <<rec, got>>
  <2>1. \A u \in Receivers : (Past(u))' = Past(u) /\ (Taken(u))' = Taken(u)
    BY <1>2 DEF Past, Taken
  <2>2. QED BY <1>1, <1>2, <2>1 DEF SequenceInv
<1>3. CASE /\ rec[r] # 0 /\ rec' = [rec EXCEPT ![r] = 0]
           /\ got' = [got EXCEPT ![r] = Append(got[r], rec[r])]
  <2>1. got \in [Receivers -> Seq(Nat)] /\ rec \in [Receivers -> Nat] /\ got[r] \in Seq(Nat) /\ rec[r] \in Nat
    BY DEF FileInv, Types
  <2>2. PICK n \in Nat : n = rec[r]
    BY <2>1
  <2>3. /\ rec'[r] = 0 /\ got'[r] = Append(got[r], n)
        /\ \A u \in Receivers \ {r} : rec'[u] = rec[u] /\ got'[u] = got[u]
    BY <1>3, <2>1, <2>2
  <2>4. (Past(r))' = Past(r) \cup {n}
    <3>1. PICK s \in Seq(Nat) : s = got[r]
      BY <2>1
    <3>2. Past(r) = { s[i] : i \in 1 .. Len(s) }
      BY <3>1 DEF Past
    <3>3. (Past(r))' = { Append(s, n)[i] : i \in 1 .. Len(Append(s, n)) }
      BY <2>3, <3>1 DEF Past
    <3>4. QED BY <3>2, <3>3, AppendFacts
  <2>5. \A u \in Receivers : (Taken(u))' = Taken(u)
    <3>1. (Taken(r))' = Taken(r)
      BY <1>3, <2>2, <2>3, <2>4 DEF Taken
    <3>2. \A u \in Receivers \ {r} : (Taken(u))' = Taken(u)
      BY <2>3 DEF Taken, Past
    <3>3. QED BY <3>1, <3>2
  <2>6. \A m \in Past(r) : m < n
    BY <1>3, <2>2 DEF SequenceInv
  <2>7. ASSUME NEW i \in 1 .. Len(got'[r]), NEW j \in 1 .. Len(got'[r]), i < j
        PROVE  got'[r][i] < got'[r][j]
    <3>1. /\ Len(got'[r]) = Len(got[r]) + 1 /\ Len(got[r]) \in Nat
          /\ \A k \in 1 .. Len(got[r]) : got'[r][k] = got[r][k]
          /\ got'[r][Len(got[r]) + 1] = n
      BY <2>1, <2>2, <2>3, AppendFacts
    <3>2. i \in 1 .. Len(got[r]) /\ got'[r][i] = got[r][i]
      BY <2>7, <3>1
    <3>3. CASE j = Len(got[r]) + 1
      <4>1. got[r][i] \in Past(r)
        BY <3>2 DEF Past
      <4>2. QED BY <2>6, <3>1, <3>2, <3>3, <4>1
    <3>4. CASE j # Len(got[r]) + 1
      <4>1. j \in 1 .. Len(got[r]) /\ got'[r][j] = got[r][j]
        BY <2>7, <3>1, <3>4
      <4>2. QED BY <2>7, <3>2, <4>1 DEF SequenceInv
    <3>5. QED BY <3>3, <3>4
  <2>8. \A u \in Receivers : \A i, j \in 1 .. Len(got'[u]) : i < j => got'[u][i] < got'[u][j]
    <3>1. \A u \in Receivers \ {r} : \A i, j \in 1 .. Len(got'[u]) : i < j => got'[u][i] < got'[u][j]
      BY <2>3 DEF SequenceInv
    <3>2. QED BY <2>7, <3>1
  <2>9. \A u \in Receivers : rec'[u] # 0 => \A m \in (Past(u))' : m < rec'[u]
    <3>1. \A u \in Receivers \ {r} : (Past(u))' = Past(u)
      BY <2>3 DEF Past
    <3>2. QED BY <2>3, <3>1 DEF SequenceInv
  <2>10. QED BY <1>1, <2>5, <2>8, <2>9 DEF SequenceInv
<1>4. QED BY <1>2, <1>3, UnlockStep

(* Every step.                                                             *)
LEMMA NextSequence ==
  ASSUME FileInv, SequenceInv, [Next]_vars
  PROVE  SequenceInv'
<1>1. CASE UNCHANGED <<q, rec, got, accepted>>
  BY <1>1 DEF SequenceInv, Past, Taken
<1>2. ASSUME NEW p \in Procs, Kill(p) PROVE SequenceInv'
  BY <1>1, <1>2 DEF Kill
<1>3. ASSUME NEW s \in Senders, msgdeque_send(s) PROVE SequenceInv'
  BY <1>3, SendSequence
<1>4. ASSUME NEW r \in Receivers, Take(r) \/ UnlockFile(r) PROVE SequenceInv'
  BY <1>4, TakeSequence, ReturnSequence
<1>5. QED BY <1>1, <1>2, <1>3, <1>4, QuietStep DEF Next, RecStep

-----------------------------------------------------------------------------
(* The steps that leave the records alone and kill nobody.                 *)
LEMMA QuietCount ==
  ASSUME FileInv, CountInv, UNCHANGED <<q, rec, got, accepted, kills>>,
         \A r \in Receivers : pc'[r] = "dead" => pc[r] = "dead"
  PROVE  CountInv'
<1>1. Holding' = Holding /\ AllPast' = AllPast
  <2>1. \A r \in Receivers : (Past(r))' = Past(r)
    BY DEF Past
  <2>2. QED BY <2>1 DEF Holding, AllPast
<1>2. Lost' \subseteq Lost
  BY <1>1 DEF Lost, Holding
<1>3. Lost \subseteq Holding /\ IsFiniteSet(Lost)
  BY FS_Subset DEF Lost, CountInv
<1>4. Cardinality(Lost') <= Cardinality(Lost) /\ Cardinality(Lost') \in Nat /\ Cardinality(Lost) \in Nat
  BY <1>2, <1>3, FS_Subset, FS_CardinalityType
<1>5. Cardinality(Lost') <= kills'
  BY <1>4 DEF CountInv, FileInv, Types
<1>6. QED BY <1>1, <1>5 DEF CountInv

(* Nobody is dead after a step that is not a kill who was not before.      *)
LEMMA StaysAlive ==
  ASSUME FileInv,
         \/ UNCHANGED vars
         \/ \E s \in Senders : msgdeque_send(s) \/ SendStep(s)
         \/ \E r \in Receivers : RecStep(r) \/ Interrupt(r)
  PROVE  \A t \in Threads : pc'[t] = "dead" => pc[t] = "dead"
<1>1. CASE UNCHANGED vars
  BY <1>1 DEF vars
<1>2. ASSUME NEW t \in Threads, NEW step \in SendSteps \cup RecSteps, step # "dead",
             pc' = [pc EXCEPT ![t] = step]
      PROVE  \A u \in Threads : pc'[u] = "dead" => pc[u] = "dead"
  BY <1>2, FileStep
<1>3. ASSUME NEW s \in Senders, msgdeque_send(s) \/ SendStep(s)
      PROVE  \A t \in Threads : pc'[t] = "dead" => pc[t] = "dead"
  <2>1. pc' = pc \/ \E step \in {"idle", "check", "post"} : pc' = [pc EXCEPT ![s] = step]
    BY <1>3 DEF msgdeque_send, SendStep, CheckSend, Post, Goto
  <2>2. s \in Threads /\ \A step \in {"idle", "check", "post"} : step \in SendSteps \cup RecSteps /\ step # "dead"
    BY Constants DEF SendSteps
  <2>3. QED BY <1>2, <2>1, <2>2
<1>4. ASSUME NEW r \in Receivers, RecStep(r) \/ Interrupt(r)
      PROVE  \A t \in Threads : pc'[t] = "dead" => pc[t] = "dead"
  <2>1. \E step \in {"idle", "lock", "cell", "wait"} \cup InFile : pc' = [pc EXCEPT ![r] = step]
    BY <1>4 DEF RecStep, Interrupt, msgdeque_rec, LockFile, Stats, Take, UnlockFile, CheckRec,
                Wait, Goto, InFile
  <2>2. r \in Threads
    BY Constants
  <2>3. \A step \in {"idle", "lock", "cell", "wait"} \cup InFile :
          step \in SendSteps \cup RecSteps /\ step # "dead"
    BY DEF RecSteps, InFile
  <2>4. QED BY <1>2, <2>1, <2>2, <2>3
<1>5. QED BY <1>1, <1>3, <1>4

(* The start: no record anywhere.                                          *)
LEMMA InitCount == Init => CountInv
<1> SUFFICES ASSUME Init PROVE CountInv
  OBVIOUS
<1>1. /\ Len(q) = 0 /\ accepted = 0 /\ kills = 0
      /\ \A r \in Receivers : rec[r] = 0 /\ got[r] = << >>
  BY DEF Init
<1>2. \A r \in Receivers : Past(r) = {}
  BY <1>1 DEF Past
<1>3. Holding = {} /\ AllPast = {} /\ Lost = {}
  BY <1>1, <1>2 DEF Holding, AllPast, Lost
<1>4. QED BY <1>1, <1>3, FS_EmptySet DEF CountInv

(* One more record in the deque.                                           *)
LEMMA SendCount ==
  ASSUME FileInv, CountInv, NEW s \in Senders, msgdeque_send(s)
  PROVE  CountInv'
<1>1. UNCHANGED <<rec, got, kills>> /\ \A r \in Receivers : pc'[r] = "dead" => pc[r] = "dead"
  BY SendInsert, StaysAlive, Constants
<1>2. CASE UNCHANGED <<q, accepted>>
  BY <1>1, <1>2, QuietCount
<1>3. CASE q' = <<accepted + 1>> \o q /\ accepted' = accepted + 1
  <2>1. accepted \in Nat /\ accepted + 1 \in Nat \ {0} /\ q \in Seq(Nat \ {0}) /\ Len(q) \in Nat
    BY DEF FileInv, Types
  <2>2. Len(q') = Len(q) + 1
    BY <1>3, <2>1, Insert
  <2>3. Holding' = Holding /\ AllPast' = AllPast /\ Lost' \subseteq Lost
    <3>1. \A r \in Receivers : (Past(r))' = Past(r)
      BY <1>1 DEF Past
    <3>2. QED BY <1>1, <3>1 DEF Holding, AllPast, Lost
  <2>4. Lost \subseteq Holding /\ IsFiniteSet(Lost)
    BY FS_Subset DEF Lost, CountInv
  <2>5. Cardinality(Lost') <= Cardinality(Lost) /\ Cardinality(Lost') \in Nat /\ Cardinality(Lost) \in Nat
    BY <2>3, <2>4, FS_Subset, FS_CardinalityType
  <2>6. Cardinality(AllPast) \in Nat /\ Cardinality(Holding) \in Nat
    BY FS_CardinalityType DEF CountInv
  <2>7. accepted' = Cardinality(AllPast') + Len(q') + Cardinality(Holding')
    BY <1>3, <2>1, <2>2, <2>3, <2>6 DEF CountInv
  <2>8. Cardinality(Lost') <= kills'
    BY <1>1, <2>5 DEF CountInv, FileInv, Types
  <2>9. QED BY <2>3, <2>7, <2>8 DEF CountInv
<1>4. QED BY <1>2, <1>3, SendInsert

(* A record moves from the deque to a receiver.                            *)
LEMMA TakeCount ==
  ASSUME FileInv, CountInv, NEW r \in Receivers, Take(r)
  PROVE  CountInv'
<1>1. /\ q # << >> /\ rec[r] = 0 /\ q' = SubSeq(q, 1, Len(q) - 1)
      /\ rec' = [rec EXCEPT ![r] = q[Len(q)]] /\ UNCHANGED <<got, accepted, kills>>
      /\ pc' = [pc EXCEPT ![r] = "unlock"]
  BY TakeStep
<1>2. /\ Len(q') = Len(q) - 1 /\ Len(q) \in Nat /\ Len(q) > 0 /\ q[Len(q)] \in Nat \ {0}
  BY <1>1, Remove DEF FileInv, Types
<1>3. rec'[r] # 0 /\ \A u \in Receivers \ {r} : rec'[u] = rec[u]
  BY <1>1, <1>2 DEF FileInv, Types
<1>4. Holding' = Holding \cup {r} /\ r \notin Holding
  BY <1>1, <1>3 DEF Holding
<1>5. AllPast' = AllPast
  <2>1. \A u \in Receivers : (Past(u))' = Past(u)
    BY <1>1 DEF Past
  <2>2. QED BY <2>1 DEF AllPast
<1>6. Lost' \subseteq Lost
  <2>1. pc'[r] = "unlock" /\ \A u \in Receivers \ {r} : pc'[u] = pc[u]
    BY <1>1, Constants DEF FileInv, Types
  <2>2. Holding \subseteq Receivers
    BY DEF Holding
  <2>3. QED BY <1>4, <2>1, <2>2 DEF Lost
<1>7. Lost \subseteq Holding /\ IsFiniteSet(Lost)
  BY FS_Subset DEF Lost, CountInv
<1>8. Cardinality(Lost') <= Cardinality(Lost) /\ Cardinality(Lost') \in Nat /\ Cardinality(Lost) \in Nat
  BY <1>6, <1>7, FS_Subset, FS_CardinalityType
<1>9. /\ IsFiniteSet(Holding') /\ Cardinality(Holding') = Cardinality(Holding) + 1
      /\ Cardinality(Holding) \in Nat /\ Cardinality(AllPast) \in Nat
  BY <1>4, FS_AddElement, FS_CardinalityType DEF CountInv
<1>10. accepted' = Cardinality(AllPast') + Len(q') + Cardinality(Holding')
  <2>1. accepted = Cardinality(AllPast) + Len(q) + Cardinality(Holding)
    BY DEF CountInv
  <2>2. accepted' = accepted
    BY <1>1
  <2>3. QED BY <1>2, <1>5, <1>9, <2>1, <2>2
<1>11. Cardinality(Lost') <= kills'
  BY <1>1, <1>8 DEF CountInv, FileInv, Types
<1>12. QED BY <1>5, <1>9, <1>10, <1>11 DEF CountInv

(* A record moves from a receiver to its caller.                           *)
LEMMA ReturnCount ==
  ASSUME FileInv, SequenceInv, CountInv, NEW r \in Receivers, UnlockFile(r)
  PROVE  CountInv'
<1>1. UNCHANGED <<q, accepted, kills>>
  BY UnlockStep
<1>2. \A u \in Receivers : pc'[u] = "dead" => pc[u] = "dead"
  BY StaysAlive, Constants DEF RecStep
<1>3. CASE UNCHANGED <<rec, got>>
  BY <1>1, <1>2, <1>3, QuietCount
<1>4. CASE /\ rec[r] # 0 /\ rec' = [rec EXCEPT ![r] = 0]
           /\ got' = [got EXCEPT ![r] = Append(got[r], rec[r])]
  <2>1. /\ got \in [Receivers -> Seq(Nat)] /\ rec \in [Receivers -> Nat]
        /\ Len(q) \in Nat /\ accepted \in Nat
    BY DEF FileInv, Types
  <2>2. PICK n \in Nat : n = rec[r]
    BY <2>1
  <2>3. PICK s \in Seq(Nat) : s = got[r]
    BY <2>1
  <2>4. /\ rec'[r] = 0 /\ got'[r] = Append(s, n)
        /\ \A u \in Receivers \ {r} : rec'[u] = rec[u] /\ got'[u] = got[u]
    BY <1>4, <2>1, <2>2, <2>3
  <2>5. (Past(r))' = Past(r) \cup {n} /\ \A u \in Receivers \ {r} : (Past(u))' = Past(u)
    <3>1. Past(r) = { s[i] : i \in 1 .. Len(s) }
      BY <2>3 DEF Past
    <3>2. (Past(r))' = { Append(s, n)[i] : i \in 1 .. Len(Append(s, n)) }
      BY <2>4 DEF Past
    <3>3. \A u \in Receivers \ {r} : (Past(u))' = Past(u)
      BY <2>4 DEF Past
    <3>4. QED BY <3>1, <3>2, <3>3, AppendFacts
  <2>6. Holding' = Holding \ {r} /\ r \in Holding
    BY <1>4, <2>4 DEF Holding
  <2>7. AllPast' = AllPast \cup {n}
    BY <2>5 DEF AllPast
  <2>8. n \notin AllPast
    <3>1. n \notin Past(r)
      BY <1>4, <2>2 DEF SequenceInv
    <3>2. n \in Taken(r)
      BY <1>4, <2>2 DEF Taken
    <3>3. ASSUME NEW u \in Receivers, u # r PROVE n \notin Past(u)
      BY <3>2, <3>3 DEF SequenceInv, Taken
    <3>4. QED BY <3>1, <3>3 DEF AllPast
  <2>9. /\ IsFiniteSet(Holding') /\ Cardinality(Holding') = Cardinality(Holding) - 1
        /\ Cardinality(Holding) \in Nat
    BY <2>6, FS_RemoveElement, FS_CardinalityType DEF CountInv
  <2>10. /\ IsFiniteSet(AllPast') /\ Cardinality(AllPast') = Cardinality(AllPast) + 1
         /\ Cardinality(AllPast) \in Nat
    BY <2>7, <2>8, FS_AddElement, FS_CardinalityType DEF CountInv
  <2>11. Lost' \subseteq Lost
    <3>1. Holding \subseteq Receivers
      BY DEF Holding
    <3>2. QED BY <1>2, <2>6, <3>1 DEF Lost
  <2>12. Lost \subseteq Holding /\ IsFiniteSet(Lost)
    BY FS_Subset DEF Lost, CountInv
  <2>13. Cardinality(Lost') <= Cardinality(Lost) /\ Cardinality(Lost') \in Nat /\ Cardinality(Lost) \in Nat
    BY <2>11, <2>12, FS_Subset, FS_CardinalityType
  <2>14. accepted' = Cardinality(AllPast') + Len(q') + Cardinality(Holding')
    BY <1>1, <2>1, <2>9, <2>10 DEF CountInv
  <2>15. Cardinality(Lost') <= kills'
    BY <1>1, <2>13 DEF CountInv, FileInv, Types
  <2>16. QED BY <2>9, <2>10, <2>14, <2>15 DEF CountInv
<1>5. QED BY <1>3, <1>4, UnlockStep

(* A kill loses at most the record of the receiver in the process.         *)
LEMMA KillCount ==
  ASSUME FileInv, ApartReceivers, CountInv, NEW p \in Procs, Kill(p)
  PROVE  CountInv'
<1>1. /\ UNCHANGED <<q, rec, got, accepted>> /\ kills' = kills + 1
      /\ \A t \in Threads : pc'[t] = IF ProcOf[t] = p THEN "dead" ELSE pc[t]
  BY DEF Kill
<1>2. Holding' = Holding /\ AllPast' = AllPast
  <2>1. \A r \in Receivers : (Past(r))' = Past(r)
    BY <1>1 DEF Past
  <2>2. QED BY <1>1, <2>1 DEF Holding, AllPast
<1>3. Lost \subseteq Holding /\ IsFiniteSet(Lost)
  BY FS_Subset DEF Lost, CountInv
<1>4. \A r \in Holding : r \in Threads /\ r \in Receivers
  BY Constants DEF Holding
<1>5. \E r : Lost' \subseteq Lost \cup {r}
  <2>1. CASE \E r \in Receivers : ProcOf[r] = p
    <3>1. PICK r \in Receivers : ProcOf[r] = p
      BY <2>1
    <3>2. \A u \in Receivers : ProcOf[u] = p => u = r
      BY <3>1 DEF ApartReceivers
    <3>3. Lost' \subseteq Lost \cup {r}
      BY <1>1, <1>2, <1>4, <3>2 DEF Lost
    <3>4. QED BY <3>3
  <2>2. CASE \A r \in Receivers : ProcOf[r] # p
    <3>1. Lost' \subseteq Lost
      BY <1>1, <1>2, <1>4, <2>2 DEF Lost
    <3>2. QED BY <3>1
  <2>3. QED BY <2>1, <2>2
<1>6. PICK r : Lost' \subseteq Lost \cup {r}
  BY <1>5
<1>7. /\ IsFiniteSet(Lost \cup {r}) /\ Cardinality(Lost) \in Nat
      /\ Cardinality(Lost \cup {r}) <= Cardinality(Lost) + 1
      /\ Cardinality(Lost \cup {r}) \in Nat
  <2>1. Cardinality(Lost) \in Nat
    BY <1>3, FS_CardinalityType
  <2>2. IsFiniteSet(Lost \cup {r}) /\ Cardinality(Lost \cup {r}) \in {Cardinality(Lost), Cardinality(Lost) + 1}
    <3>1. CASE r \in Lost
      <4>1. Lost \cup {r} = Lost
        BY <3>1
      <4>2. QED BY <1>3, <4>1
    <3>2. CASE r \notin Lost
      BY <1>3, <3>2, FS_AddElement
    <3>3. QED BY <3>1, <3>2
  <2>3. QED BY <2>1, <2>2
<1>8. Cardinality(Lost') <= Cardinality(Lost \cup {r}) /\ Cardinality(Lost') \in Nat
  BY <1>6, <1>7, FS_Subset, FS_CardinalityType
<1>9. Cardinality(Lost') <= kills'
  BY <1>1, <1>7, <1>8 DEF CountInv, FileInv, Types
<1>10. QED BY <1>1, <1>2, <1>9 DEF CountInv

(* Every step.                                                             *)
LEMMA NextCount ==
  ASSUME FileInv, ApartReceivers, SequenceInv, CountInv, [Next]_vars
  PROVE  CountInv'
<1>1. ASSUME \/ UNCHANGED vars
             \/ \E s \in Senders : SendStep(s)
             \/ \E r \in Receivers : \/ msgdeque_rec(r) \/ LockFile(r) \/ Stats(r) \/ CheckRec(r)
                                     \/ Wait(r) \/ Interrupt(r)
      PROVE  CountInv'
  <2>1. UNCHANGED <<q, rec, got, accepted, kills>>
    BY <1>1, QuietStep
  <2>2. \A t \in Threads : pc'[t] = "dead" => pc[t] = "dead"
    BY <1>1, StaysAlive DEF RecStep
  <2>3. QED BY <2>1, <2>2, QuietCount, Constants
<1>2. ASSUME NEW p \in Procs, Kill(p) PROVE CountInv'
  BY <1>2, KillCount
<1>3. ASSUME NEW s \in Senders, msgdeque_send(s) PROVE CountInv'
  BY <1>3, SendCount
<1>4. ASSUME NEW r \in Receivers, Take(r) \/ UnlockFile(r) PROVE CountInv'
  BY <1>4, TakeCount, ReturnCount
<1>5. QED BY <1>1, <1>2, <1>3, <1>4 DEF Next, RecStep

-----------------------------------------------------------------------------
(* Receivers that all wait over a record have a post, or a sender on its   *)
(* way to one.                                                             *)
WakeTypes ==
  /\ pc \in [Threads -> SendSteps \cup RecSteps]
  /\ sem \in Nat /\ kills \in Nat
  /\ kills = 0 => \A t \in Threads : pc[t] # "dead"

Posted == sem > 0 \/ \E s \in Senders : pc[s] \in {"check", "post"}

WakeInv ==
  /\ WakeTypes
  /\ kills = 0 /\ q # << >> /\ (\A r \in Receivers : pc[r] = "wait") => Posted

(* The start: the deque is empty.                                          *)
LEMMA InitWake == Init => WakeInv
<1> SUFFICES ASSUME Init PROVE WakeInv
  OBVIOUS
<1>1. q = << >> /\ kills = 0 /\ sem \in Nat
  BY Constants DEF Init
<1>2. pc \in [Threads -> SendSteps \cup RecSteps] /\ \A t \in Threads : pc[t] = "idle"
  BY DEF Init, SendSteps
<1>3. QED BY <1>1, <1>2 DEF WakeInv, WakeTypes

(* A step of a thread that is not killed.                                  *)
LEMMA WakeStep ==
  ASSUME WakeTypes, NEW t \in Threads,
         NEW step \in (SendSteps \cup RecSteps) \ {"dead"},
         pc' = [pc EXCEPT ![t] = step], sem' \in Nat, kills' = kills
  PROVE  /\ WakeTypes'
         /\ \A u \in Threads : pc'[u] = IF u = t THEN step ELSE pc[u]
        /\ pc'[t] = step
<1>1. pc' \in [Threads -> SendSteps \cup RecSteps]
  BY DEF WakeTypes
<1>2. \A u \in Threads : pc'[u] = IF u = t THEN step ELSE pc[u]
  BY DEF WakeTypes
<1>3. kills' = 0 => \A u \in Threads : pc'[u] # "dead"
  BY <1>2 DEF WakeTypes
<1>4. QED BY <1>1, <1>2, <1>3 DEF WakeTypes

(* The steps of a sender: what is inserted is followed by a check, what is *)
(* still there at the check by a post.                                     *)
LEMMA SendWake ==
  ASSUME WakeInv, NEW s \in Senders, msgdeque_send(s) \/ SendStep(s)
  PROVE  WakeInv'
<1>1. s \in Threads /\ s \notin Receivers /\ \A r \in Receivers : r \in Threads
  BY Constants
<1>2. WakeTypes
  BY DEF WakeInv
<1>3. CASE UNCHANGED <<q, sem, pc, kills>>
  BY <1>3 DEF WakeInv, WakeTypes, Posted
<1>4. CASE msgdeque_send(s) /\ ~UNCHANGED <<q, sem, pc, kills>>
  <2>1. pc' = [pc EXCEPT ![s] = "check"] /\ UNCHANGED <<sem, kills>>
    BY <1>4 DEF msgdeque_send, Goto
  <2>2. "check" \in (SendSteps \cup RecSteps) \ {"dead"} /\ sem' \in Nat
    BY <1>2, <2>1 DEF SendSteps, WakeTypes
  <2>3. WakeTypes' /\ pc'[s] = "check"
    BY <1>1, <1>2, <2>1, <2>2, WakeStep
  <2>4. Posted'
    BY <2>3 DEF Posted
  <2>5. QED BY <2>3, <2>4 DEF WakeInv
<1>5. CASE CheckSend(s)
  <2>1. UNCHANGED <<q, sem, kills>>
    BY <1>5 DEF CheckSend, counted
  <2>2. CASE q # << >>
    <3>1. pc' = [pc EXCEPT ![s] = "post"]
      BY <1>5, <2>2 DEF CheckSend, Goto, datacheck
    <3>2. "post" \in (SendSteps \cup RecSteps) \ {"dead"} /\ sem' \in Nat
      BY <1>2, <2>1 DEF SendSteps, WakeTypes
    <3>3. WakeTypes' /\ pc'[s] = "post"
      BY <1>1, <1>2, <2>1, <3>1, <3>2, WakeStep
    <3>4. Posted'
      BY <3>3 DEF Posted
    <3>5. QED BY <3>3, <3>4 DEF WakeInv
  <2>3. CASE q = << >>
    <3>1. pc' = [pc EXCEPT ![s] = "idle"]
      BY <1>5, <2>3 DEF CheckSend, Goto, datacheck
    <3>2. "idle" \in (SendSteps \cup RecSteps) \ {"dead"} /\ sem' \in Nat
      BY <1>2, <2>1 DEF SendSteps, WakeTypes
    <3>3. WakeTypes'
      BY <1>1, <1>2, <2>1, <3>1, <3>2, WakeStep
    <3>4. QED BY <2>1, <2>3, <3>3 DEF WakeInv
  <2>4. QED BY <2>2, <2>3
<1>6. CASE Post(s)
  <2>1. kills' = kills /\ pc' = [pc EXCEPT ![s] = "idle"]
    BY <1>6 DEF Post, Goto, counted
  <2>2. sem' \in Nat /\ sem' > 0
    <3>1. sem' = IF sem < SemMax THEN sem + 1 ELSE sem
      BY <1>6 DEF Post
    <3>2. sem \in Nat
      BY <1>2 DEF WakeTypes
    <3>3. QED BY <3>1, <3>2, Constants
  <2>3. "idle" \in (SendSteps \cup RecSteps) \ {"dead"}
    BY DEF SendSteps
  <2>4. WakeTypes'
    BY <1>1, <1>2, <2>1, <2>2, <2>3, WakeStep
  <2>5. QED BY <2>2, <2>4 DEF WakeInv, Posted
<1>7. QED BY <1>3, <1>4, <1>5, <1>6 DEF SendStep

(* The steps of a receiver: it waits when it saw no record only.           *)
LEMMA RecWake ==
  ASSUME WakeInv, NEW r \in Receivers, RecStep(r) \/ Interrupt(r)
  PROVE  WakeInv'
<1>1. r \in Threads
  BY Constants
<1>2. WakeTypes
  BY DEF WakeInv
<1>3. kills' = kills /\ sem' \in Nat
  <2>1. kills' = kills
    BY DEF RecStep, Interrupt, msgdeque_rec, LockFile, Stats, Take, UnlockFile, CheckRec, Wait, counted
  <2>2. sem' = sem \/ (sem > 0 /\ sem' = sem - 1)
    BY DEF RecStep, Interrupt, msgdeque_rec, LockFile, Stats, Take, UnlockFile, CheckRec, Wait
  <2>3. sem \in Nat
    BY <1>2 DEF WakeTypes
  <2>4. QED BY <2>1, <2>2, <2>3
<1>4. PICK step \in (SendSteps \cup RecSteps) \ {"dead"} :
        /\ pc' = [pc EXCEPT ![r] = step]
        /\ step = "wait" => q' = << >>
  <2>1. CASE CheckRec(r)
    <3>1. CASE q = << >>
      BY <2>1, <3>1 DEF CheckRec, Goto, datacheck, RecSteps
    <3>2. CASE q # << >>
      BY <2>1, <3>2 DEF CheckRec, Goto, datacheck, RecSteps
    <3>3. QED BY <3>1, <3>2
  <2>2. CASE msgdeque_rec(r) \/ LockFile(r) \/ Stats(r) \/ Take(r) \/ UnlockFile(r) \/ Wait(r) \/ Interrupt(r)
    <3>1. \E step \in {"lock", "stats", "rtd", "unlock", "cell", "idle"} : pc' = [pc EXCEPT ![r] = step]
      BY <2>2 DEF Interrupt, msgdeque_rec, LockFile, Stats, Take, UnlockFile, Wait, Goto
    <3>2. \A step \in {"lock", "stats", "rtd", "unlock", "cell", "idle"} :
            step \in (SendSteps \cup RecSteps) \ {"dead"} /\ step # "wait"
      BY DEF RecSteps, InFile
    <3>3. QED BY <3>1, <3>2
  <2>3. QED BY <2>1, <2>2 DEF RecStep
<1>5. WakeTypes' /\ pc'[r] = step
  BY <1>1, <1>2, <1>3, <1>4, WakeStep
<1>6. QED BY <1>4, <1>5 DEF WakeInv

(* A kill is counted.                                                      *)
LEMMA KillWake ==
  ASSUME WakeInv, NEW p \in Procs, Kill(p)
  PROVE  WakeInv'
<1>1. WakeTypes
  BY DEF WakeInv
<1>2. /\ pc' = [t \in Threads |-> IF ProcOf[t] = p THEN "dead" ELSE pc[t]]
      /\ kills' = kills + 1 /\ sem' = sem
  BY DEF Kill
<1>3. pc' \in [Threads -> SendSteps \cup RecSteps]
  BY <1>1, <1>2 DEF WakeTypes, SendSteps
<1>4. kills' \in Nat /\ kills' # 0
  BY <1>1, <1>2 DEF WakeTypes
<1>5. QED BY <1>1, <1>2, <1>3, <1>4 DEF WakeInv, WakeTypes

(* Every step.                                                             *)
LEMMA NextWake == WakeInv /\ [Next]_vars => WakeInv'
<1> SUFFICES ASSUME WakeInv, [Next]_vars PROVE WakeInv'
  OBVIOUS
<1>1. CASE UNCHANGED vars
  BY <1>1 DEF vars, counted, WakeInv, WakeTypes, Posted
<1>2. CASE Next
  BY <1>2, SendWake, RecWake, KillWake DEF Next
<1>3. QED BY <1>1, <1>2

(* What the wakeups need is what the property says.                        *)
LEMMA WakeSafe == WakeInv => NoLostWakeup
<1> SUFFICES ASSUME WakeInv, kills = 0, q # << >>,
                    \A s \in Senders : pc[s] \in {"idle", "dead"},
                    \A r \in Receivers : pc[r] \in {"wait", "dead"}
             PROVE  sem > 0
  BY DEF NoLostWakeup, WakeupPending
<1>1. \A r \in Receivers : pc[r] = "wait"
  BY Constants DEF WakeInv, WakeTypes
<1>2. Posted
  BY <1>1 DEF WakeInv
<1>3. QED BY <1>2 DEF Posted

-----------------------------------------------------------------------------
(* The numbers of the records, and what is not lost.                       *)
LEMMA NumberSafe ==
  ASSUME FileInv, SequenceInv, CountInv
  PROVE  LossBoundedByKills
<1>1. Returned = AllPast
  <2>1. \A r \in Receivers : Past(r) = { got[r][i] : i \in DOMAIN got[r] }
    BY RecordFacts DEF Past
  <2>2. QED BY <2>1 DEF Returned, AllPast
<1>2. Holding = InFlight \cup Lost /\ InFlight \cap Lost = {} /\ InFlight \subseteq Holding /\ Lost \subseteq Holding
  BY DEF Holding, InFlight, Lost
<1>3. IsFiniteSet(InFlight) /\ IsFiniteSet(Lost) /\ IsFiniteSet(Holding)
  BY <1>2, FS_Subset DEF CountInv
<1>4. PICK h \in Nat : h = Cardinality(Holding)
  BY <1>3, FS_CardinalityType
<1>5. PICK f \in Nat : f = Cardinality(InFlight)
  BY <1>3, FS_CardinalityType
<1>6. PICK l \in Nat : l = Cardinality(Lost)
  BY <1>3, FS_CardinalityType
<1>7. h = f + l
  <2>1. Cardinality(InFlight \cup Lost) = Cardinality(InFlight) + Cardinality(Lost) - Cardinality(InFlight \cap Lost)
    BY <1>3, FS_Union
  <2>2. Cardinality(InFlight \cap Lost) = 0
    BY <1>2, FS_EmptySet
  <2>3. QED BY <1>2, <1>4, <1>5, <1>6, <2>1, <2>2
<1>8. PICK a \in Nat : a = Cardinality(AllPast)
  BY FS_CardinalityType DEF CountInv
<1>9. Len(q) \in Nat /\ accepted \in Nat /\ kills \in Nat /\ accepted = a + Len(q) + h /\ l <= kills
  <2>1. Len(q) \in Nat /\ accepted \in Nat /\ kills \in Nat
    BY DEF FileInv, Types
  <2>2. accepted = Cardinality(AllPast) + Len(q) + Cardinality(Holding) /\ Cardinality(Lost) <= kills
    BY DEF CountInv
  <2>3. QED BY <1>4, <1>6, <1>8, <2>1, <2>2
<1>10. a + Len(q) + f <= accepted /\ accepted <= a + Len(q) + f + kills
  BY <1>7, <1>9
<1>11. QED BY <1>1, <1>5, <1>8, <1>10 DEF LossBoundedByKills

(* The order of the records.                                               *)
LEMMA OrderSafeState ==
  ASSUME FileInv, SequenceInv
  PROVE  InOrderOnce
<1>1. \A r \in Receivers : DOMAIN got[r] = 1 .. Len(got[r])
  BY RecordFacts
<1>2. \A r \in Receivers : \A i, j \in DOMAIN got[r] : i < j => got[r][i] < got[r][j]
  BY <1>1 DEF SequenceInv
<1>3. ASSUME NEW r \in Receivers, NEW u \in Receivers, r # u,
             NEW i \in DOMAIN got[r], NEW j \in DOMAIN got[u]
      PROVE  got[r][i] # got[u][j]
  <2>1. got[r][i] \in Taken(r) /\ got[u][j] \in Taken(u)
    BY <1>1 DEF Taken, Past
  <2>2. Taken(r) \cap Taken(u) = {}
    BY <1>3 DEF SequenceInv
  <2>3. QED BY <2>1, <2>2
<1>4. QED BY <1>2, <1>3 DEF InOrderOnce

(* The types of the runs.                                                  *)
LEMMA TypeSafe ==
  ASSUME FileInv, SequenceInv
  PROVE  TypeOK
<1>1. accepted \in 0 .. MaxSends /\ sem \in 0 .. SemMax
  BY Constants DEF FileInv, Types
<1>2. q \in Seq(1 .. MaxSends) /\ Len(q) <= Slots
  <2>1. q \in Seq(Nat \ {0}) /\ Len(q) <= Slots /\ Len(q) \in Nat
    BY DEF FileInv, Types
  <2>2. ASSUME NEW i \in 1 .. Len(q) PROVE q[i] \in 1 .. MaxSends
    <3>1. q[i] <= accepted /\ q[i] \in Nat \ {0}
      BY RecordFacts, <2>1 DEF SequenceInv
    <3>2. QED BY <1>1, <3>1, Constants
  <2>3. q \in [1 .. Len(q) -> 1 .. MaxSends]
    BY <2>1, <2>2
  <2>4. q \in Seq(1 .. MaxSends)
    <3>1. PICK S : S = 1 .. MaxSends
      OBVIOUS
    <3>2. q \in UNION { [1 .. n -> S] : n \in Nat }
      BY <2>1, <2>3, <3>1
    <3>3. q \in Seq(S)
      BY <3>2, SeqDef
    <3>4. QED BY <3>1, <3>3
  <2>5. QED BY <2>1, <2>4
<1>3. rec \in [Receivers -> 0 .. MaxSends]
  <2>1. rec \in [Receivers -> Nat]
    BY DEF FileInv, Types
  <2>2. ASSUME NEW r \in Receivers PROVE rec[r] \in 0 .. MaxSends
    <3>1. rec[r] \in Nat /\ (rec[r] # 0 => rec[r] <= accepted)
      BY <2>1 DEF SequenceInv, Taken
    <3>2. QED BY <1>1, <3>1, Constants
  <2>3. QED BY <2>1, <2>2
<1>4. pc \in [Threads -> {"idle", "dead", "check", "post", "lock", "stats", "rtd",
                          "unlock", "cell", "wait"}]
  BY DEF FileInv, Types, SendSteps, RecSteps, InFile
<1>5. lock \in Procs \cup {"none"} /\ retval \in [Receivers -> BOOLEAN]
  BY DEF FileInv, Types
<1>6. QED BY <1>1, <1>2, <1>3, <1>4, <1>5 DEF TypeOK

(* msgdeque_send and msgdeque_rec, with receivers of processes of their    *)
(* own and kills of any process at any step: every record accepted is in   *)
(* the deque, returned once, or with one receiver; a receiver's records    *)
(* come in the order they were sent; a removal under the lock file finds   *)
(* the record dquse promised; a kill loses one record at most.             *)
THEOREM OrderSafe == ASSUME ApartReceivers PROVE Spec => []OrderInv
<1>1. Init => FileInv /\ SequenceInv /\ CountInv
  BY InitFile, InitSequence, InitCount
<1>2. FileInv /\ SequenceInv /\ CountInv /\ [Next]_vars => FileInv' /\ SequenceInv' /\ CountInv'
  BY NextFile, NextSequence, NextCount
<1>3. FileInv /\ SequenceInv /\ CountInv => OrderInv
  <2>1. FileInv => TakeSucceeds
    BY DEF FileInv
  <2>2. QED BY <2>1, NumberSafe, OrderSafeState, TypeSafe DEF OrderInv
<1>4. QED BY <1>1, <1>2, <1>3, PTL DEF Spec

(* Wherever msgcell's semaphore stood and however the threads share        *)
(* processes, no receiver sleeps over a record with no post behind it, as  *)
(* long as no process died inside a call.                                  *)
THEOREM Wakeups == Spec => []NoLostWakeup
<1>1. Init => WakeInv
  BY InitWake
<1>2. WakeInv /\ [Next]_vars => WakeInv'
  BY NextWake
<1>3. WakeInv => NoLostWakeup
  BY WakeSafe
<1>4. QED BY <1>1, <1>2, <1>3, PTL DEF Spec

-----------------------------------------------------------------------------
(* The cell: an item that is there was announced, or a process is about to *)
(* announce it, to look or to take it.                                     *)
BusySteps == {"send", "post", "rec", "timedrec", "take"}
CellSteps == {"idle", "wait", "timedwait", "reset"} \cup BusySteps
Busy == { p \in CProcs : at[p] \in BusySteps }

CellTypes ==
  /\ at \in [CProcs -> CellSteps] /\ cell \in [CProcs -> BOOLEAN]
  /\ answer \in [CProcs -> {0, 1}] /\ unheard \in BOOLEAN
  /\ semaphore \in Int /\ -1 <= semaphore /\ semaphore <= CellMax
  /\ items \in Nat /\ items <= MaxItems
  /\ \A p \in CProcs : at[p] # "idle" => cell[p]
  /\ \A p \in CProcs : cell[p] => semaphore >= 0
  /\ semaphore = -1 => items = 0

Announced ==
  /\ IsFiniteSet(Busy)
  /\ unheard = FALSE /\ semaphore >= 0 => items <= semaphore + Cardinality(Busy)

CellStrong == CellTypes /\ Announced

(* The constants of the cell.                                              *)
LEMMA CellConstants ==
  /\ IsFiniteSet(CProcs) /\ CellMax \in Nat /\ CellMax > 0
  /\ MaxItems \in Nat /\ MaxItems <= CellMax /\ NoSem = -1
BY MsgCellAssumption DEF NoSem

(* A step of a process, and the number of the busy ones.                   *)
LEMMA BusyMove ==
  ASSUME CellStrong, NEW p \in CProcs, NEW step \in CellSteps,
         at' = [at EXCEPT ![p] = step]
  PROVE  /\ at' \in [CProcs -> CellSteps]
         /\ \A r \in CProcs : at'[r] = IF r = p THEN step ELSE at[r]
         /\ IsFiniteSet(Busy') /\ Cardinality(Busy) \in Nat /\ Cardinality(Busy') \in Nat
         /\ (step \in BusySteps <=> at[p] \in BusySteps) => Cardinality(Busy') = Cardinality(Busy)
         /\ step \in BusySteps /\ at[p] \notin BusySteps => Cardinality(Busy') = Cardinality(Busy) + 1
         /\ step \notin BusySteps /\ at[p] \in BusySteps => Cardinality(Busy') = Cardinality(Busy) - 1
<1>1. at \in [CProcs -> CellSteps] /\ IsFiniteSet(Busy)
  BY DEF CellStrong, CellTypes, Announced
<1>2. at' \in [CProcs -> CellSteps] /\ \A r \in CProcs : at'[r] = IF r = p THEN step ELSE at[r]
  BY <1>1
<1>3. IsFiniteSet(Busy')
  <2>1. Busy' \subseteq CProcs
    BY DEF Busy
  <2>2. QED BY <2>1, CellConstants, FS_Subset
<1>4. Cardinality(Busy) \in Nat /\ Cardinality(Busy') \in Nat
  BY <1>1, <1>3, FS_CardinalityType
<1>5. ASSUME step \in BusySteps <=> at[p] \in BusySteps PROVE Cardinality(Busy') = Cardinality(Busy)
  <2>1. Busy' = Busy
    BY <1>2, <1>5 DEF Busy
  <2>2. QED BY <2>1
<1>6. ASSUME step \in BusySteps, at[p] \notin BusySteps PROVE Cardinality(Busy') = Cardinality(Busy) + 1
  <2>1. Busy' = Busy \cup {p} /\ p \notin Busy
    BY <1>2, <1>6 DEF Busy
  <2>2. QED BY <1>1, <2>1, FS_AddElement
<1>7. ASSUME step \notin BusySteps, at[p] \in BusySteps PROVE Cardinality(Busy') = Cardinality(Busy) - 1
  <2>1. Busy' = Busy \ {p} /\ p \in Busy
    BY <1>2, <1>7 DEF Busy
  <2>2. QED BY <1>1, <2>1, FS_RemoveElement
<1>8. QED BY <1>2, <1>3, <1>4, <1>5, <1>6, <1>7

(* A step of a process that has the semaphore open.                        *)
LEMMA CellMove ==
  ASSUME CellStrong, NEW p \in CProcs, NEW step \in CellSteps,
         at' = [at EXCEPT ![p] = step], cell[p], cell' = cell,
         answer' \in [CProcs -> {0, 1}], unheard' \in BOOLEAN,
         semaphore' \in Nat, semaphore' <= CellMax, items' \in Nat, items' <= MaxItems,
         unheard' = FALSE => items' <= semaphore' + Cardinality(Busy')
  PROVE  CellStrong'
<1>1. /\ at' \in [CProcs -> CellSteps] /\ IsFiniteSet(Busy')
      /\ \A r \in CProcs : at'[r] = IF r = p THEN step ELSE at[r]
  BY BusyMove
<1>2. \A r \in CProcs : at'[r] # "idle" => cell'[r]
  BY <1>1 DEF CellStrong, CellTypes
<1>3. semaphore' \in Int /\ -1 <= semaphore' /\ semaphore' # -1 /\ semaphore' >= 0
  OBVIOUS
<1>4. CellTypes'
  BY <1>1, <1>2, <1>3 DEF CellStrong, CellTypes
<1>5. Announced'
  BY <1>1 DEF Announced
<1>6. QED BY <1>4, <1>5 DEF CellStrong

(* The start.                                                              *)
LEMMA InitCell == CellInit => CellStrong
<1> SUFFICES ASSUME CellInit PROVE CellStrong
  OBVIOUS
<1>1. items = 0 /\ unheard = FALSE /\ semaphore \in Int /\ -1 <= semaphore /\ semaphore <= CellMax
  BY CellConstants DEF CellInit
<1>2. /\ at \in [CProcs -> CellSteps] /\ cell \in [CProcs -> BOOLEAN] /\ answer \in [CProcs -> {0, 1}]
      /\ \A p \in CProcs : at[p] = "idle" /\ ~cell[p]
  BY DEF CellInit, CellSteps
<1>3. items \in Nat /\ items <= MaxItems
  BY <1>1, CellConstants
<1>4. unheard \in BOOLEAN
  BY <1>1
<1>5. CellTypes
  BY <1>1, <1>2, <1>3, <1>4 DEF CellTypes
<1>6. Busy = {}
  BY <1>2 DEF Busy, BusySteps
<1>7. Announced
  BY <1>1, <1>6, FS_EmptySet DEF Announced
<1>8. QED BY <1>5, <1>7 DEF CellStrong

(* The semaphore is opened, closed, and not deleted.                       *)
LEMMA OpenCell ==
  ASSUME CellStrong, NEW p \in CProcs,
         msgcell_create(p) \/ msgcell_attach(p) \/ msgcell_close(p) \/ msgcell_delete(p)
  PROVE  CellStrong'
<1>1. /\ at' = at /\ at[p] = "idle" /\ items' = items
      /\ UNCHANGED <<answer, unheard>>
  BY DEF msgcell_create, msgcell_attach, msgcell_close, msgcell_delete, CellCall
<1>2. CellTypes
  BY DEF CellStrong
<1>3. PICK b \in BOOLEAN : cell' = [cell EXCEPT ![p] = b] /\ (b => semaphore' # -1)
  <2>1. CASE msgcell_create(p)
    <3>1. cell' = [cell EXCEPT ![p] = TRUE] /\ semaphore' = IF semaphore = NoSem THEN 0 ELSE semaphore
      BY <2>1 DEF msgcell_create
    <3>2. semaphore' # -1
      BY <3>1, CellConstants
    <3>3. QED BY <3>1, <3>2
  <2>2. CASE msgcell_attach(p)
    <3>1. CASE semaphore = NoSem
      <4>1. cell' = cell /\ ~cell[p]
        BY <2>2, <3>1 DEF msgcell_attach
      <4>2. cell' = [cell EXCEPT ![p] = FALSE]
        BY <1>2, <4>1 DEF CellTypes
      <4>3. QED BY <4>2
    <3>2. CASE semaphore # NoSem
      <4>1. cell' = [cell EXCEPT ![p] = TRUE] /\ semaphore' = semaphore
        BY <2>2, <3>2 DEF msgcell_attach
      <4>2. QED BY <3>2, <4>1, CellConstants
    <3>3. QED BY <3>1, <3>2
  <2>3. CASE msgcell_close(p)
    <3>1. cell' = [cell EXCEPT ![p] = FALSE]
      BY <2>3 DEF msgcell_close
    <3>2. QED BY <3>1
  <2>4. CASE msgcell_delete(p)
    <3>1. cell' = cell /\ ~cell[p]
      BY <2>4 DEF msgcell_delete
    <3>2. cell' = [cell EXCEPT ![p] = FALSE]
      BY <1>2, <3>1 DEF CellTypes
    <3>3. QED BY <3>2
  <2>5. QED BY <2>1, <2>2, <2>3, <2>4
<1>4. \/ semaphore' = semaphore
      \/ semaphore = -1 /\ semaphore' = 0
  BY CellConstants DEF msgcell_create, msgcell_attach, msgcell_close, msgcell_delete
<1>5. cell' \in [CProcs -> BOOLEAN] /\ \A r \in CProcs : cell'[r] = IF r = p THEN b ELSE cell[r]
  BY <1>2, <1>3 DEF CellTypes
<1>6. semaphore' \in Int /\ -1 <= semaphore' /\ semaphore' <= CellMax /\ (semaphore' = -1 => items' = 0)
  BY <1>1, <1>2, <1>4, CellConstants DEF CellTypes
<1>7. \A r \in CProcs : cell'[r] => semaphore' >= 0
  <2>1. semaphore >= 0 => semaphore' >= 0
    BY <1>2, <1>4 DEF CellTypes
  <2>2. b => semaphore' >= 0
    BY <1>3, <1>6
  <2>3. QED BY <1>2, <1>5, <2>1, <2>2 DEF CellTypes
<1>8. \A r \in CProcs : at'[r] # "idle" => cell'[r]
  BY <1>1, <1>2, <1>5 DEF CellTypes
<1>9. CellTypes'
  BY <1>1, <1>2, <1>5, <1>6, <1>7, <1>8 DEF CellTypes
<1>10. Announced'
  <2>1. Busy' = Busy
    BY <1>1 DEF Busy
  <2>2. IsFiniteSet(Busy) /\ Cardinality(Busy) \in Nat
    BY FS_CardinalityType DEF CellStrong, Announced
  <2>3. ASSUME unheard' = FALSE, semaphore' >= 0 PROVE items' <= semaphore' + Cardinality(Busy')
    <3>1. unheard = FALSE
      BY <1>1, <2>3
    <3>2. CASE semaphore' = semaphore
      BY <1>1, <2>1, <2>3, <3>1, <3>2 DEF CellStrong, Announced
    <3>3. CASE semaphore = -1 /\ semaphore' = 0
      BY <1>1, <1>2, <2>1, <2>2, <3>3 DEF CellTypes
    <3>4. QED BY <1>4, <3>2, <3>3
  <2>4. QED BY <2>1, <2>2, <2>3 DEF Announced
<1>11. QED BY <1>9, <1>10 DEF CellStrong

(* What a process inside a call may rely on.                               *)
LEMMA OpenFacts ==
  ASSUME CellStrong, NEW p \in CProcs, cell[p]
  PROVE  /\ semaphore \in Nat /\ semaphore <= CellMax /\ items \in Nat /\ items <= MaxItems
         /\ answer \in [CProcs -> {0, 1}] /\ answer[p] \in {0, 1} /\ unheard \in BOOLEAN
         /\ Cardinality(Busy) \in Nat
         /\ unheard = FALSE => items <= semaphore + Cardinality(Busy)
<1>1. CellTypes /\ Announced
  BY DEF CellStrong
<1>2. semaphore >= 0
  BY <1>1 DEF CellTypes
<1>3. /\ semaphore \in Nat /\ semaphore <= CellMax /\ items \in Nat /\ items <= MaxItems
  BY <1>1, <1>2 DEF CellTypes
<1>4. answer \in [CProcs -> {0, 1}] /\ answer[p] \in {0, 1} /\ unheard \in BOOLEAN
  BY <1>1 DEF CellTypes
<1>5. Cardinality(Busy) \in Nat
  BY <1>1, FS_CardinalityType DEF Announced
<1>6. unheard = FALSE => items <= semaphore + Cardinality(Busy)
  BY <1>1, <1>2 DEF Announced
<1>7. QED BY <1>3, <1>4, <1>5, <1>6

(* An item is put there by a process that then announces it.               *)
LEMMA SupplyCell ==
  ASSUME CellStrong, NEW p \in CProcs, Supply(p)
  PROVE  CellStrong'
<1>1. /\ cell[p] /\ at[p] = "idle" /\ items < MaxItems /\ items' = items + 1
      /\ at' = [at EXCEPT ![p] = "send"] /\ UNCHANGED <<semaphore, cell, answer, unheard>>
  BY DEF Supply, CellCall, CellGoto
<1>2. "send" \in CellSteps /\ "send" \in BusySteps /\ at[p] \notin BusySteps
  BY <1>1 DEF CellSteps, BusySteps
<1>3. Cardinality(Busy') = Cardinality(Busy) + 1
  BY <1>1, <1>2, BusyMove
<1>4. items' \in Nat /\ items' <= MaxItems /\ semaphore' \in Nat /\ semaphore' <= CellMax
  <2>1. items \in Nat /\ semaphore \in Nat /\ semaphore <= CellMax
    BY <1>1, OpenFacts
  <2>2. items < MaxItems /\ items' = items + 1 /\ semaphore' = semaphore
    BY <1>1
  <2>3. QED BY <2>1, <2>2, CellConstants
<1>5. unheard' = FALSE => items' <= semaphore' + Cardinality(Busy')
  <2>1. ASSUME unheard' = FALSE PROVE items' <= semaphore' + Cardinality(Busy')
    <3>1. unheard = FALSE
      BY <1>1, <2>1
    <3>2. /\ items <= semaphore + Cardinality(Busy)
          /\ items \in Nat /\ semaphore \in Nat /\ Cardinality(Busy) \in Nat
      BY <1>1, <3>1, OpenFacts
    <3>3. items' = items + 1 /\ semaphore' = semaphore
      BY <1>1
    <3>4. QED BY <1>3, <3>2, <3>3
  <2>2. QED BY <2>1
<1>6. answer' \in [CProcs -> {0, 1}] /\ unheard' \in BOOLEAN
  BY <1>1, OpenFacts
<1>7. QED BY <1>1, <1>2, <1>4, <1>5, <1>6, CellMove

(* The steps that leave items, semaphore and the number of the busy        *)
(* processes alone, or add to it.                                          *)
LEMMA EasyMove ==
  ASSUME CellStrong, NEW p \in CProcs, NEW step \in CellSteps, cell[p],
         at' = [at EXCEPT ![p] = step], UNCHANGED <<semaphore, items, cell>>,
         answer' \in [CProcs -> {0, 1}], unheard' \in BOOLEAN,
         unheard' = FALSE => unheard = FALSE,
         unheard' = FALSE /\ items # 0 /\ at[p] \in BusySteps => step \in BusySteps
  PROVE  CellStrong'
<1>1. semaphore' \in Nat /\ semaphore' <= CellMax /\ items' \in Nat /\ items' <= MaxItems
  BY OpenFacts
<1>2. ASSUME unheard' = FALSE PROVE items' <= semaphore' + Cardinality(Busy')
  <2>1. /\ items <= semaphore + Cardinality(Busy)
        /\ items \in Nat /\ semaphore \in Nat /\ Cardinality(Busy) \in Nat
    BY <1>2, OpenFacts
  <2>2. Cardinality(Busy') \in Nat
    BY BusyMove
  <2>3. CASE items = 0
    BY <2>1, <2>2, <2>3
  <2>4. CASE items # 0
    <3>1. at[p] \in BusySteps => step \in BusySteps
      BY <1>2, <2>4
    <3>2. Cardinality(Busy') = Cardinality(Busy) \/ Cardinality(Busy') = Cardinality(Busy) + 1
      BY <3>1, BusyMove
    <3>3. QED BY <2>1, <3>2
  <2>5. QED BY <2>3, <2>4
<1>3. QED BY <1>1, <1>2, CellMove

(* The beginnings of the calls but Supply, and their ends that give up.    *)
LEMMA CallCell ==
  ASSUME CellStrong, NEW p \in CProcs,
         msgcell_rec(p) \/ msgcell_timedrec(p) \/ msgcell_reset(p)
  PROVE  CellStrong'
<1>1. /\ cell[p] /\ at[p] = "idle" /\ UNCHANGED <<semaphore, items, cell, unheard>>
      /\ answer' = [answer EXCEPT ![p] = 0] \/ answer' = answer
  BY DEF msgcell_rec, msgcell_timedrec, Receive, msgcell_reset, CellCall
<1>2. PICK step \in CellSteps : at' = [at EXCEPT ![p] = step]
  BY DEF msgcell_rec, msgcell_timedrec, Receive, msgcell_reset, CellGoto, CellSteps, BusySteps
<1>3. answer' \in [CProcs -> {0, 1}] /\ unheard' \in BOOLEAN
  BY <1>1, OpenFacts
<1>4. at[p] \notin BusySteps
  BY <1>1 DEF BusySteps
<1>5. QED BY <1>1, <1>2, <1>3, <1>4, EasyMove

(* The wait that ends without a post.                                      *)
LEMMA GiveUpCell ==
  ASSUME CellStrong, NEW p \in CProcs, WaitInterrupted(p) \/ TimedOut(p)
  PROVE  CellStrong'
<1>1. /\ at[p] \in {"wait", "timedwait"} /\ UNCHANGED <<semaphore, items, cell, unheard>>
      /\ answer' = [answer EXCEPT ![p] = 1]
  BY DEF WaitInterrupted, TimedOut
<1>2. cell[p]
  BY <1>1 DEF CellStrong, CellTypes
<1>3. PICK step \in {"rec", "idle"} : at' = [at EXCEPT ![p] = step]
  BY DEF WaitInterrupted, TimedOut, CellGoto
<1>4. step \in CellSteps
  BY DEF CellSteps, BusySteps
<1>5. answer' \in [CProcs -> {0, 1}] /\ unheard' \in BOOLEAN
  BY <1>1, <1>2, OpenFacts
<1>6. at[p] \notin BusySteps
  BY <1>1 DEF BusySteps
<1>7. QED BY <1>1, <1>2, <1>3, <1>4, <1>5, <1>6, EasyMove

(* msgcell_send finds the data, or nothing is there.                       *)
LEMMA SendCell ==
  ASSUME CellStrong, NEW p \in CProcs, msgcell_send(p)
  PROVE  CellStrong'
<1>1. at[p] = "send" /\ UNCHANGED <<semaphore, items, cell, answer, unheard>>
  BY DEF msgcell_send
<1>2. cell[p]
  BY <1>1 DEF CellStrong, CellTypes
<1>3. items \in Nat
  BY <1>2, OpenFacts
<1>4. PICK step \in {"post", "idle"} : /\ at' = [at EXCEPT ![p] = step]
                                       /\ items # 0 => step = "post"
  <2>1. CASE items > 0
    BY <2>1 DEF msgcell_send, CellGoto, datacheckfunc
  <2>2. CASE items = 0
    <3>1. ~datacheckfunc
      BY <2>2 DEF datacheckfunc
    <3>2. QED BY <2>2, <3>1 DEF msgcell_send, CellGoto
  <2>3. QED BY <1>3, <2>1, <2>2
<1>5. step \in CellSteps /\ (items # 0 => step \in BusySteps)
  BY <1>4 DEF CellSteps, BusySteps
<1>6. answer' \in [CProcs -> {0, 1}] /\ unheard' \in BOOLEAN
  BY <1>1, <1>2, OpenFacts
<1>7. QED BY <1>1, <1>2, <1>4, <1>5, <1>6, EasyMove

(* A receive that saw data takes them, or returns an error: that is a      *)
(* wakeup nobody heard.                                                    *)
LEMMA CheckCell ==
  ASSUME CellStrong, NEW p \in CProcs, DataCheck(p)
  PROVE  CellStrong'
<1>1. /\ at[p] \in {"rec", "timedrec"} /\ UNCHANGED <<semaphore, items, cell, answer>>
      /\ unheard' = (unheard \/ (datacheckfunc /\ answer[p] = 1))
  BY DEF DataCheck
<1>2. cell[p]
  BY <1>1 DEF CellStrong, CellTypes
<1>3. items \in Nat /\ answer[p] \in {0, 1} /\ unheard \in BOOLEAN /\ answer' \in [CProcs -> {0, 1}]
  BY <1>1, <1>2, OpenFacts
<1>4. unheard' \in BOOLEAN /\ (unheard' = FALSE => unheard = FALSE /\ ~(datacheckfunc /\ answer[p] = 1))
  BY <1>1, <1>3
<1>5. PICK step \in CellSteps :
        /\ at' = [at EXCEPT ![p] = step]
        /\ unheard' = FALSE /\ items # 0 => step \in BusySteps
  <2>1. CASE ~datacheckfunc
    <3>1. items = 0
      BY <1>3, <2>1 DEF datacheckfunc
    <3>2. at' = [at EXCEPT ![p] = IF at[p] = "rec" THEN "wait" ELSE "timedwait"]
      BY <2>1 DEF DataCheck, CellGoto
    <3>3. QED BY <3>1, <3>2 DEF CellSteps
  <2>2. CASE datacheckfunc /\ answer[p] = 0
    <3>1. at' = [at EXCEPT ![p] = "take"]
      BY <2>2 DEF DataCheck, CellGoto
    <3>2. QED BY <3>1 DEF CellSteps, BusySteps
  <2>3. CASE datacheckfunc /\ answer[p] # 0
    <3>1. at' = [at EXCEPT ![p] = "idle"]
      BY <2>3 DEF DataCheck, CellGoto
    <3>2. unheard' # FALSE
      BY <1>3, <1>4, <2>3
    <3>3. QED BY <3>1, <3>2 DEF CellSteps
  <2>4. QED BY <2>1, <2>2, <2>3
<1>6. QED BY <1>1, <1>2, <1>3, <1>4, <1>5, EasyMove

(* A post; at the limit of the semaphore there are as many posts as items  *)
(* can be.                                                                 *)
LEMMA PostCell ==
  ASSUME CellStrong, NEW p \in CProcs, sem_post(p)
  PROVE  CellStrong'
<1>1. /\ at[p] = "post" /\ UNCHANGED <<items, cell, answer, unheard>>
      /\ at' = [at EXCEPT ![p] = "idle"]
      /\ \/ semaphore < CellMax /\ semaphore' = semaphore + 1
         \/ ~(semaphore < CellMax) /\ semaphore' = semaphore
  BY DEF sem_post, CellGoto
<1>2. cell[p]
  BY <1>1 DEF CellStrong, CellTypes
<1>3. /\ semaphore \in Nat /\ semaphore <= CellMax /\ items \in Nat /\ items <= MaxItems
      /\ Cardinality(Busy) \in Nat
  BY <1>2, OpenFacts
<1>4. "idle" \in CellSteps /\ "idle" \notin BusySteps /\ at[p] \in BusySteps
  BY <1>1 DEF CellSteps, BusySteps
<1>5. Cardinality(Busy') = Cardinality(Busy) - 1 /\ Cardinality(Busy') \in Nat
  BY <1>1, <1>4, BusyMove
<1>6. semaphore' \in Nat /\ semaphore' <= CellMax
  BY <1>1, <1>3, CellConstants
<1>7. ASSUME unheard' = FALSE PROVE items' <= semaphore' + Cardinality(Busy')
  <2>1. unheard = FALSE /\ items' = items
    BY <1>1, <1>7
  <2>2. items <= semaphore + Cardinality(Busy)
    BY <1>2, <2>1, OpenFacts
  <2>3. CASE semaphore < CellMax /\ semaphore' = semaphore + 1
    BY <1>3, <1>5, <2>1, <2>2, <2>3
  <2>4. CASE ~(semaphore < CellMax) /\ semaphore' = semaphore
    BY <1>3, <1>5, <2>1, <2>4, CellConstants
  <2>5. QED BY <1>1, <2>3, <2>4
<1>8. answer' \in [CProcs -> {0, 1}] /\ unheard' \in BOOLEAN /\ items' \in Nat /\ items' <= MaxItems
  BY <1>1, <1>2, OpenFacts
<1>9. QED BY <1>1, <1>2, <1>4, <1>6, <1>7, <1>8, CellMove

(* A post is heard by a process that then looks or takes.                  *)
LEMMA WaitCell ==
  ASSUME CellStrong, NEW p \in CProcs, sem_wait(p)
  PROVE  CellStrong'
<1>1. /\ at[p] \in {"wait", "timedwait"} /\ semaphore > 0 /\ semaphore' = semaphore - 1
      /\ UNCHANGED <<items, cell, answer, unheard>>
  BY DEF sem_wait
<1>2. PICK step \in {"rec", "take"} : at' = [at EXCEPT ![p] = step]
  BY DEF sem_wait, CellGoto
<1>3. cell[p]
  BY <1>1 DEF CellStrong, CellTypes
<1>4. /\ semaphore \in Nat /\ semaphore <= CellMax /\ items \in Nat /\ items <= MaxItems
      /\ Cardinality(Busy) \in Nat
  BY <1>3, OpenFacts
<1>5. step \in CellSteps /\ step \in BusySteps /\ at[p] \notin BusySteps
  BY <1>1 DEF CellSteps, BusySteps
<1>6. Cardinality(Busy') = Cardinality(Busy) + 1
  BY <1>2, <1>5, BusyMove
<1>7. semaphore' \in Nat /\ semaphore' <= CellMax
  BY <1>1, <1>4, CellConstants
<1>8. ASSUME unheard' = FALSE PROVE items' <= semaphore' + Cardinality(Busy')
  <2>1. unheard = FALSE /\ items' = items
    BY <1>1, <1>8
  <2>2. items <= semaphore + Cardinality(Busy)
    BY <1>3, <2>1, OpenFacts
  <2>3. QED BY <1>1, <1>4, <1>6, <2>1, <2>2
<1>9. answer' \in [CProcs -> {0, 1}] /\ unheard' \in BOOLEAN /\ items' \in Nat /\ items' <= MaxItems
  BY <1>1, <1>3, OpenFacts
<1>10. QED BY <1>1, <1>2, <1>3, <1>5, <1>7, <1>8, <1>9, CellMove

(* An item less, and one less who was to take it.                          *)
LEMMA TakeCell ==
  ASSUME CellStrong, NEW p \in CProcs, TakeItem(p)
  PROVE  CellStrong'
<1>1. /\ at[p] = "take" /\ UNCHANGED <<semaphore, cell, answer, unheard>>
      /\ at' = [at EXCEPT ![p] = "idle"]
      /\ items' = IF items > 0 THEN items - 1 ELSE items
  BY DEF TakeItem, CellGoto, datacheckfunc
<1>2. cell[p]
  BY <1>1 DEF CellStrong, CellTypes
<1>3. /\ semaphore \in Nat /\ semaphore <= CellMax /\ items \in Nat /\ items <= MaxItems
      /\ Cardinality(Busy) \in Nat
  BY <1>2, OpenFacts
<1>4. "idle" \in CellSteps /\ "idle" \notin BusySteps /\ at[p] \in BusySteps
  BY <1>1 DEF CellSteps, BusySteps
<1>5. Cardinality(Busy') = Cardinality(Busy) - 1 /\ Cardinality(Busy') \in Nat
  BY <1>1, <1>4, BusyMove
<1>6. items' \in Nat /\ items' <= MaxItems /\ semaphore' \in Nat /\ semaphore' <= CellMax
  BY <1>1, <1>3, CellConstants
<1>7. ASSUME unheard' = FALSE PROVE items' <= semaphore' + Cardinality(Busy')
  <2>1. unheard = FALSE /\ semaphore' = semaphore
    BY <1>1, <1>7
  <2>2. items <= semaphore + Cardinality(Busy)
    BY <1>2, <2>1, OpenFacts
  <2>3. QED BY <1>1, <1>3, <1>5, <2>1, <2>2
<1>8. answer' \in [CProcs -> {0, 1}] /\ unheard' \in BOOLEAN
  BY <1>1, <1>2, OpenFacts
<1>9. QED BY <1>1, <1>2, <1>4, <1>6, <1>7, <1>8, CellMove

(* A reset takes posts away, and says so in unheard.                       *)
LEMMA ResetCell ==
  ASSUME CellStrong, NEW p \in CProcs, sem_trywait(p)
  PROVE  CellStrong'
<1>1. at[p] = "reset" /\ UNCHANGED <<items, cell, answer>>
  BY DEF sem_trywait
<1>2. cell[p]
  BY <1>1 DEF CellStrong, CellTypes
<1>3. /\ semaphore \in Nat /\ semaphore <= CellMax /\ items \in Nat /\ items <= MaxItems
      /\ answer' \in [CProcs -> {0, 1}] /\ unheard \in BOOLEAN
  BY <1>1, <1>2, OpenFacts
<1>4. CASE semaphore > 0
  <2>1. semaphore' = semaphore - 1 /\ unheard' = TRUE /\ at' = at
    BY <1>4 DEF sem_trywait
  <2>2. at' = [at EXCEPT ![p] = "reset"] /\ "reset" \in CellSteps
    BY <1>1, <2>1 DEF CellStrong, CellTypes, CellSteps
  <2>3. semaphore' \in Nat /\ semaphore' <= CellMax /\ items' \in Nat /\ items' <= MaxItems
    BY <1>1, <1>3, <1>4, <2>1, CellConstants
  <2>4. unheard' \in BOOLEAN /\ unheard' # FALSE
    BY <2>1
  <2>5. QED BY <1>1, <1>2, <1>3, <2>2, <2>3, <2>4, CellMove
<1>5. CASE ~(semaphore > 0)
  <2>1. UNCHANGED <<semaphore, unheard>> /\ at' = [at EXCEPT ![p] = "idle"]
    BY <1>5 DEF sem_trywait, CellGoto
  <2>2. "idle" \in CellSteps /\ at[p] \notin BusySteps
    BY <1>1 DEF CellSteps, BusySteps
  <2>3. QED BY <1>1, <1>2, <1>3, <2>1, <2>2, EasyMove
<1>6. QED BY <1>4, <1>5

(* Every step.                                                             *)
LEMMA NextCell == CellStrong /\ [CellNext]_cellvars => CellStrong'
<1> SUFFICES ASSUME CellStrong, [CellNext]_cellvars PROVE CellStrong'
  OBVIOUS
<1>1. CASE UNCHANGED cellvars
  <2>1. Busy' = Busy
    BY <1>1 DEF cellvars, Busy
  <2>2. QED BY <1>1, <2>1 DEF cellvars, CellStrong, CellTypes, Announced
<1>2. CASE CellNext
  BY <1>2, OpenCell, SupplyCell, CallCell, GiveUpCell, SendCell, CheckCell, PostCell, WaitCell,
     TakeCell, ResetCell DEF CellNext, CellStep
<1>3. QED BY <1>1, <1>2

(* Posts that nobody took, and processes on their way, cover the items.    *)
LEMMA CellSafeState == CellStrong => CellInv
<1> SUFFICES ASSUME CellStrong PROVE CellInv
  OBVIOUS
<1>1. CellTypes /\ Announced
  BY DEF CellStrong
<1>2. semaphore \in {NoSem} \cup 0 .. CellMax /\ items \in 0 .. MaxItems
  BY <1>1, CellConstants DEF CellTypes
<1>3. \A p \in CProcs : at[p] # "idle" => cell[p] /\ semaphore # NoSem
  BY <1>1, CellConstants DEF CellTypes
<1>4. ASSUME ~unheard, items > 0, \A p \in CProcs : at[p] \in {"idle", "wait", "timedwait"}
      PROVE  semaphore > 0
  <2>1. Busy = {}
    BY <1>4 DEF Busy, BusySteps
  <2>2. Cardinality(Busy) = 0
    BY <2>1, FS_EmptySet
  <2>3. unheard = FALSE
    BY <1>1, <1>4 DEF CellTypes
  <2>4. semaphore \in Int /\ semaphore >= 0 /\ items \in Nat
    BY <1>1, <1>4 DEF CellTypes
  <2>5. items <= semaphore + Cardinality(Busy)
    BY <1>1, <2>3, <2>4 DEF Announced
  <2>6. QED BY <1>4, <2>2, <2>4, <2>5
<1>5. QED BY <1>2, <1>3, <1>4 DEF CellInv

(* msgcell: while no receive failed after a signal and no reset took a     *)
(* post away, no process sleeps over an item: there is a post for it, or   *)
(* a process on its way; and the semaphore a call needs is there.          *)
THEOREM CellSafe == CellSpec => []CellInv
<1>1. CellInit => CellStrong
  BY InitCell
<1>2. CellStrong /\ [CellNext]_cellvars => CellStrong'
  BY NextCell
<1>3. CellStrong => CellInv
  BY CellSafeState
<1>4. QED BY <1>1, <1>2, <1>3, PTL DEF CellSpec
=============================================================================
