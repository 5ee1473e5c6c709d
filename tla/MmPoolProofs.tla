---------------------------- MODULE MmPoolProofs ----------------------------
(***************************************************************************)
(* Proofs about the shared buffer pool, for any capacity a ushort can      *)
(* count, any number of processes and of kills, and both builds of         *)
(* search_deque.  Every theorem assumes Alone: a pool is defined and       *)
(* zapped by its only user.  Neither call takes the lock, and with another *)
(* user in between NoDoubleAllocation and PoolAccounted are false.         *)
(*                                                                         *)
(* The invariant is built in layers, each kept by a step that starts where *)
(* the layers below it hold:                                               *)
(*   LockInv     the lock, who is inside a call, what a call carries       *)
(*   RingInv     where each index is: a deque, a local, an application     *)
(*   BalanceInv  how many there are of them, and the count the pool keeps  *)
(*   LossInv     what is not lost while no process was killed              *)
(* A layer has a lemma on what a step of one process leaves of the others, *)
(* a lemma for each action, and one that puts them together.               *)
(***************************************************************************)
EXTENDS MmPool, FiniteSetTheorems, SequenceTheorems, TLAPS

(* The steps under the lock of the pool, those that may change its files,  *)
(* and all steps.                                                          *)
Locked == {"get_rtd", "get_abd", "get_count", "got",
           "search", "search_abd", "put_abd", "put_count", "returned"}
Busy   == Locked \cup Defining \cup Zapping
Steps  == Busy \cup {"idle", "get", "put"}
Putting == {"put", "search", "search_abd", "put_abd", "put_count", "returned"}

(* The items of a deque, and that it holds each of them once.              *)
Elems(q)    == { q[i] : i \in 1 .. Len(q) }
Distinct(q) == \A i, j \in 1 .. Len(q) : q[i] = q[j] => i = j

(* The types of the state, of the bookkeeping of a call too.               *)
Types ==
  /\ bpmf \in BOOLEAN /\ bpcf \in BOOLEAN
  /\ inpool \in Seq(Buffers) /\ outpool \in Seq(Buffers)
  /\ Len(inpool) <= Capacity /\ Len(outpool) <= Capacity
  /\ remaining \in Nat
  /\ lock \in Procs \cup {"none"} /\ opened \subseteq Procs
  /\ pc \in [Procs -> Steps]
  /\ bpx \in [Procs -> 0 .. NoBuffer] /\ x \in [Procs -> 0 .. NoBuffer]
  /\ left \in [Procs -> 0 .. Capacity] /\ error \in [Procs -> BOOLEAN]
  /\ held \in [Procs -> SUBSET Buffers]
  /\ cut \in BOOLEAN /\ kills \in Nat /\ damage \in Nat

(* The lock is that of the process inside the locked part of a call, which *)
(* has the pool open.                                                      *)
LockExclusive ==
  /\ \A p \in Procs : pc[p] \in Locked <=> lock = p
  /\ \A p \in Procs : pc[p] \in Locked \cup Zapping \cup {"get", "put"} => p \in opened

(* A process that defines or zaps the pool is its only user.               *)
UserAlone ==
  \A p \in Procs : pc[p] \in Defining \cup Zapping =>
    \A o \in Procs \ {p} : o \notin opened /\ pc[o] = "idle" /\ held[o] = {}

(* The buffers file comes last; until it is there nobody uses the pool.    *)
Files ==
  /\ \A p \in Procs : pc[p] \in Defining => p \notin opened /\ held[p] = {}
  /\ \A p \in Procs : pc[p] \in {"new_bpmf", "new_bpcf"} => ~bpcf
  /\ \A p \in Procs : pc[p] = "new_bpcf" => bpmf /\ remaining = Capacity
  /\ bpcf => bpmf
  /\ ~bpcf => /\ opened = {} /\ inpool = << >> /\ outpool = << >>
              /\ \A p \in Procs : held[p] = {} /\ pc[p] # "allocate"

(* What a process carries through a call.                                  *)
InCall(p) ==
  /\ pc[p] \in Defining \cup {"idle", "get", "get_rtd"} => bpx[p] = NoBuffer
  /\ pc[p] \in {"get_abd", "get_count", "zap_abd"} => bpx[p] \in Buffers
  /\ pc[p] = "got" /\ bpx[p] = NoBuffer => inpool = << >>
  /\ pc[p] \in Putting => bpx[p] \in held[p]
  /\ error[p] => pc[p] = "returned"
  /\ pc[p] = "search" => left[p] <= Len(outpool)
  /\ pc[p] = "search_abd" => 0 < left[p] /\ left[p] <= Len(outpool) + 1 /\ x[p] \in Buffers
  /\ pc[p] = "allocate" => outpool = << >> /\ \A b \in Elems(inpool) : b < Capacity - left[p]

LockInv == Types /\ LockExclusive /\ UserAlone /\ Files /\ \A p \in Procs : InCall(p)

-----------------------------------------------------------------------------
(* A buffer pushed onto the bottom of a deque.                             *)
LEMMA Push ==
  ASSUME NEW q \in Seq(Buffers), NEW b \in Buffers
  PROVE  LET r == <<b>> \o q
         IN  /\ r \in Seq(Buffers) /\ Len(r) = Len(q) + 1
             /\ r[1] = b /\ \A i \in 1 .. Len(q) : r[i + 1] = q[i]
             /\ Elems(r) = Elems(q) \cup {b}
             /\ b \notin Elems(q) /\ Distinct(q) => Distinct(r)
<1> DEFINE r == <<b>> \o q
<1>1. r \in Seq(Buffers) /\ Len(r) = Len(q) + 1 /\ r[1] = b /\ \A i \in 2 .. Len(r) : r[i] = q[i - 1]
  OBVIOUS
<1> HIDE DEF r
<1>2. \A i \in 1 .. Len(q) : r[i + 1] = q[i]
  BY <1>1
<1>3. Elems(r) = Elems(q) \cup {b}
  <2>1. ASSUME NEW e \in Elems(r) PROVE e \in Elems(q) \cup {b}
    <3>1. PICK i \in 1 .. Len(r) : e = r[i]
      BY DEF Elems
    <3>2. CASE i = 1
      BY <1>1, <3>1, <3>2
    <3>3. CASE i # 1
      <4>1. i - 1 \in 1 .. Len(q) /\ e = q[i - 1]
        BY <1>1, <3>1, <3>3
      <4>2. QED BY <4>1 DEF Elems
    <3>4. QED BY <3>2, <3>3
  <2>2. ASSUME NEW e \in Elems(q) PROVE e \in Elems(r)
    <3>1. PICK i \in 1 .. Len(q) : e = q[i]
      BY DEF Elems
    <3>2. i + 1 \in 1 .. Len(r) /\ r[i + 1] = e
      BY <1>1, <1>2, <3>1
    <3>3. QED BY <3>2 DEF Elems
  <2>3. 1 \in 1 .. Len(r)
    BY <1>1
  <2>4. b \in Elems(r)
    BY <1>1, <2>3 DEF Elems
  <2>5. QED BY <2>1, <2>2, <2>4
<1>4. ASSUME b \notin Elems(q), Distinct(q) PROVE Distinct(r)
  <2>1. ASSUME NEW i \in 1 .. Len(r), NEW j \in 1 .. Len(r), r[i] = r[j], i # j PROVE FALSE
    <3>1. \A k \in 1 .. Len(q) : q[k] # b
      BY <1>4 DEF Elems
    <3>2. CASE i = 1
      BY <1>1, <2>1, <3>1, <3>2
    <3>3. CASE j = 1
      BY <1>1, <2>1, <3>1, <3>3
    <3>4. CASE i # 1 /\ j # 1
      <4>1. i - 1 \in 1 .. Len(q) /\ j - 1 \in 1 .. Len(q) /\ q[i - 1] = q[j - 1]
        BY <1>1, <2>1, <3>4
      <4>2. i - 1 = j - 1
        BY <1>4, <4>1 DEF Distinct
      <4>3. QED BY <2>1, <4>2
    <3>5. QED BY <3>2, <3>3, <3>4
  <2>2. QED BY <2>1 DEF Distinct
<1>5. QED BY <1>1, <1>2, <1>3, <1>4 DEF r

(* The first items of a sequence.                                         *)
LEMMA Prefix ==
  ASSUME NEW S, NEW s, NEW n \in Nat, \A i \in 1 .. n : s[i] \in S
  PROVE  /\ SubSeq(s,1,n) \in Seq(S) /\ Len(SubSeq(s,1,n)) = n
       /\ \A i \in 1 .. n : SubSeq(s,1,n)[i] = s[i]
<1>1. 1 \in Int /\ n \in Int
  OBVIOUS
<1>2. /\ SubSeq(s, 1, n) \in Seq(S)
      /\ Len(SubSeq(s, 1, n)) = IF 1 <= n THEN n - 1 + 1 ELSE 0
      /\ \A i \in 1 .. n - 1 + 1 : SubSeq(s, 1, n)[i] = s[1 + i - 1]
  BY <1>1, SubSeqProperties
<1>3. (IF 1 <= n THEN n - 1 + 1 ELSE 0) = n /\ n - 1 + 1 = n
  OBVIOUS
<1>4. \A i \in 1 .. n : 1 + i - 1 = i
  OBVIOUS
<1>5. QED BY <1>2, <1>3, <1>4

(* The buffer popped off the top of a deque.                               *)
LEMMA Pop ==
  ASSUME NEW q \in Seq(Buffers), q # << >>
  PROVE  /\ Rtd(q) \in Seq(Buffers) /\ Len(Rtd(q)) = Len(q) - 1 /\ Len(q) > 0
         /\ \A i \in 1 .. Len(q) - 1 : Rtd(q)[i] = q[i]
         /\ Top(q) \in Buffers /\ Top(q) \in Elems(q) /\ Top(q) = q[Len(q)]
         /\ Elems(Rtd(q)) \subseteq Elems(q)
         /\ Distinct(q) => /\ Distinct(Rtd(q))
                           /\ Elems(Rtd(q)) = Elems(q) \ {Top(q)}
<1> DEFINE r == Rtd(q)
           top == Top(q)
<1>1. Len(q) \in Nat /\ Len(q) > 0
  OBVIOUS
<1>2. r \in Seq(Buffers) /\ Len(r) = Len(q) - 1 /\ \A i \in 1 .. Len(q) - 1 : r[i] = q[i]
  <2>1. Len(q) - 1 \in Nat /\ \A i \in 1 .. Len(q) - 1 : q[i] \in Buffers
    OBVIOUS
  <2>2. PICK n \in Nat : n = Len(q) - 1
    BY <2>1
  <2>3. Rtd(q) = SubSeq(q, 1, n) /\ \A i \in 1 .. n : q[i] \in Buffers
    BY <2>1, <2>2 DEF Rtd
  <2>4. QED BY <2>2, <2>3, Prefix
<1>3. top = q[Len(q)] /\ top \in Buffers /\ Len(q) \in 1 .. Len(q)
  BY <1>1 DEF Top
<1> HIDE DEF r, top
<1>4. top \in Elems(q)
  BY <1>3 DEF Elems
<1>5. Elems(r) \subseteq Elems(q)
  <2>1. ASSUME NEW e \in Elems(r) PROVE e \in Elems(q)
    <3>1. PICK i \in 1 .. Len(r) : e = r[i]
      BY DEF Elems
    <3>2. i \in 1 .. Len(q) /\ e = q[i]
      BY <1>1, <1>2, <3>1
    <3>3. QED BY <3>2 DEF Elems
  <2>2. QED BY <2>1
<1>6. ASSUME Distinct(q) PROVE Distinct(r) /\ Elems(r) = Elems(q) \ {top}
  <2>1. Distinct(r)
    BY <1>1, <1>2, <1>6 DEF Distinct
  <2>2. ASSUME NEW e \in Elems(r) PROVE e # top
    <3>1. PICK i \in 1 .. Len(r) : e = r[i]
      BY DEF Elems
    <3>2. i \in 1 .. Len(q) /\ e = q[i] /\ i # Len(q)
      BY <1>1, <1>2, <3>1
    <3>3. QED BY <1>3, <1>6, <3>2 DEF Distinct
  <2>3. ASSUME NEW e \in Elems(q), e # top PROVE e \in Elems(r)
    <3>1. PICK i \in 1 .. Len(q) : e = q[i]
      BY DEF Elems
    <3>2. i \in 1 .. Len(r) /\ e = r[i]
      BY <1>1, <1>2, <1>3, <2>3, <3>1
    <3>3. QED BY <3>2 DEF Elems
  <2>4. QED BY <1>5, <2>1, <2>2, <2>3
<1>7. QED BY <1>1, <1>2, <1>3, <1>4, <1>5, <1>6 DEF r, top

(* What an insertion does that a full deque may refuse.                    *)
LEMMA AbdFacts ==
  ASSUME NEW q \in Seq(Buffers), NEW b \in Buffers
  PROVE  /\ Abd(q, b) \in Seq(Buffers)
         /\ Elems(Abd(q, b)) \subseteq Elems(q) \cup {b}
         /\ b \notin Elems(q) /\ Distinct(q) => Distinct(Abd(q, b))
         /\ Len(q) < Capacity => /\ Abd(q, b) = <<b>> \o q
                                 /\ Len(Abd(q, b)) = Len(q) + 1
                                 /\ Elems(Abd(q, b)) = Elems(q) \cup {b}
         /\ Len(q) >= Capacity => Abd(q, b) = q
         /\ Len(q) <= Capacity => Len(Abd(q, b)) <= Capacity
<1>1. CASE Len(q) < Capacity
  <2>1. Abd(q, b) = <<b>> \o q
    BY <1>1 DEF Abd
  <2>2. ~(Len(q) >= Capacity)
    BY <1>1, MmPoolAssumption
  <2>3. Len(q) + 1 <= Capacity
    BY <1>1, MmPoolAssumption
  <2>4. QED BY <1>1, <2>1, <2>2, <2>3, Push
<1>2. CASE ~(Len(q) < Capacity)
  BY <1>2 DEF Abd
<1>3. QED BY <1>1, <1>2

(* A deque that holds each buffer once has as many slots in use as buffers.*)
LEMMA CountElems ==
  ASSUME NEW q \in Seq(Buffers), Distinct(q)
  PROVE  IsFiniteSet(Elems(q)) /\ Cardinality(Elems(q)) = Len(q) /\ Elems(q) \subseteq Buffers
<1>1. Len(q) \in Nat /\ q \in [1 .. Len(q) -> Buffers] /\ DOMAIN q = 1 .. Len(q)
  OBVIOUS
<1> DEFINE S == 1 .. Len(q)
           T == Elems(q)
<1>2. IsFiniteSet(S) /\ Cardinality(S) = Len(q)
  BY <1>1, FS_Interval
<1>3. q \in [S -> T] /\ T \subseteq Buffers
  BY <1>1 DEF Elems
<1>4. q \in Surjection(S, T)
  BY <1>3 DEF Surjection, Elems
<1>5. q \in Injection(S, T)
  BY <1>3 DEF Injection, IsInjective, Distinct
<1> HIDE DEF S, T
<1>6. IsFiniteSet(T) /\ (Cardinality(T) = Cardinality(S) <=> q \in Injection(S, T))
  BY <1>2, <1>4, FS_Surjection
<1>7. QED BY <1>2, <1>3, <1>5, <1>6 DEF T

-----------------------------------------------------------------------------
(* Facts about one process that the invariant gives.                       *)
LEMMA ProcFacts ==
  ASSUME LockInv, NEW p \in Procs
  PROVE  /\ InCall(p) /\ p # "none"
         /\ pc[p] \in Steps
         /\ bpx[p] \in 0 .. NoBuffer /\ x[p] \in 0 .. NoBuffer
         /\ left[p] \in 0 .. Capacity /\ error[p] \in BOOLEAN /\ held[p] \subseteq Buffers
         /\ inpool \in Seq(Buffers) /\ outpool \in Seq(Buffers)
         /\ Len(inpool) <= Capacity /\ Len(outpool) <= Capacity
<1>1. p # "none"
  BY MmPoolAssumption
<1>2. QED BY <1>1 DEF LockInv, Types

(* One process at a time is in a step that may change the files.           *)
LEMMA Unique ==
  ASSUME LockInv, NEW p \in Procs, pc[p] \in Busy
  PROVE  \A o \in Procs \ {p} : pc[o] \notin Busy /\ pc[o] \in {"idle", "get", "put"}
<1>1. ASSUME NEW o \in Procs \ {p} PROVE pc[o] \notin Busy
  <2>1. CASE pc[p] \in Locked
    <3>1. lock = p /\ lock # o
      BY <2>1 DEF LockInv, LockExclusive
    <3>2. pc[o] \notin Locked
      BY <3>1 DEF LockInv, LockExclusive
    <3>3. pc[p] # "idle"
      BY <2>1 DEF Locked
    <3>4. pc[o] \notin Defining \cup Zapping
      BY <3>3 DEF LockInv, UserAlone
    <3>5. QED BY <3>2, <3>4 DEF Busy
  <2>2. CASE pc[p] \in Defining \cup Zapping
    <3>1. pc[o] = "idle"
      BY <2>2 DEF LockInv, UserAlone
    <3>2. QED BY <3>1 DEF Busy, Locked, Defining, Zapping
  <2>3. QED BY <2>1, <2>2 DEF Busy
<1>2. \A o \in Procs : pc[o] \in Steps
  BY DEF LockInv, Types
<1>3. QED BY <1>1, <1>2 DEF Steps

(* What a step of p leaves alone.                                          *)
Others(p) ==
  \A o \in Procs \ {p} :
    /\ pc'[o] = pc[o] /\ bpx'[o] = bpx[o] /\ x'[o] = x[o]
    /\ left'[o] = left[o] /\ error'[o] = error[o] /\ held'[o] = held[o]

(* What a process carries does not depend on what another process does in  *)
(* a step of its own.                                                      *)
LEMMA Frame ==
  ASSUME LockInv, NEW p \in Procs, Types', LockExclusive', UserAlone', Files', InCall(p)',
         Others(p), pc[p] \in Busy \/ UNCHANGED <<inpool, outpool>>
  PROVE  LockInv'
<1>1. ASSUME NEW o \in Procs, o # p PROVE InCall(o)'
  <2>1. InCall(o)
    BY DEF LockInv
  <2>2. CASE pc[p] \in Busy
    <3>1. pc[o] \in {"idle", "get", "put"}
      BY <1>1, <2>2, Unique
    <3>2. QED BY <1>1, <2>1, <3>1 DEF InCall, Others, Putting, Defining
  <2>3. CASE UNCHANGED <<inpool, outpool>>
    BY <1>1, <2>1, <2>3 DEF InCall, Others
  <2>4. QED BY <2>2, <2>3
<1>2. QED BY <1>1 DEF LockInv

(* A step from one step under the lock to another, or inside zap_pool.     *)
LEMMA InsideStep ==
  ASSUME LockInv, NEW p \in Procs, NEW step,
         \/ pc[p] \in Locked /\ step \in Locked
         \/ pc[p] \in Zapping /\ step \in Zapping,
         pc' = [pc EXCEPT ![p] = step],
         UNCHANGED <<bpmf, bpcf, lock, opened, held>>
  PROVE  LockExclusive' /\ UserAlone' /\ Files'
<1>1. pc \in [Procs -> Steps] /\ pc'[p] = step /\ \A o \in Procs \ {p} : pc'[o] = pc[o]
  BY DEF LockInv, Types
<1>2. \A o \in Procs : (pc'[o] \in Locked <=> pc[o] \in Locked) /\ (pc'[o] \in Zapping <=> pc[o] \in Zapping)
                       /\ (pc'[o] \in Defining <=> pc[o] \in Defining) /\ (pc'[o] = "idle" <=> pc[o] = "idle")
                       /\ (pc'[o] \in {"get", "put"} <=> pc[o] \in {"get", "put"})
  BY <1>1 DEF Locked, Zapping, Defining
<1>3. p \in opened /\ bpcf
  BY DEF LockInv, LockExclusive, Files
<1>4. LockExclusive'
  BY <1>2 DEF LockInv, LockExclusive
<1>5. UserAlone'
  BY <1>2 DEF LockInv, UserAlone
<1>6. pc'[p] \notin Defining /\ \A o \in Procs : pc'[o] = "new_bpcf" => o # p /\ pc[o] = "new_bpcf"
  BY <1>1 DEF Locked, Zapping, Defining
<1>7. \A o \in Procs : pc[o] # "new_bpcf" /\ pc[o] # "new_bpmf" 
  BY <1>3 DEF LockInv, Files
<1>8. Files'
  BY <1>1, <1>2, <1>3, <1>6, <1>7 DEF LockInv, Files, Defining
<1>9. QED BY <1>4, <1>5, <1>8

(* The pool as it is at the start satisfies the locking invariant.         *)
LEMMA InitLock == Init => LockInv
<1> SUFFICES ASSUME Init PROVE LockInv
  OBVIOUS
<1>1. Capacity \in Nat /\ Capacity > 0 /\ Defined \in BOOLEAN /\ "none" \notin Procs
  BY MmPoolAssumption
<1>2. inpool \in Seq(Buffers) /\ Len(inpool) <= Capacity
  <2>1. [i \in 1 .. Capacity |-> Capacity - i] \in Seq(Buffers) /\ Len([i \in 1 .. Capacity |-> Capacity - i]) = Capacity
    <3>1. \A i \in 1 .. Capacity : Capacity - i \in Buffers
      BY <1>1 DEF Buffers
    <3>2. QED BY <1>1, <3>1
  <2>2. << >> \in Seq(Buffers) /\ Len(<< >>) <= Capacity /\ Capacity <= Capacity
    BY <1>1
  <2>3. QED BY <2>1, <2>2 DEF Init
<1>3. Types
  <2>1. NoBuffer \in 0 .. NoBuffer /\ 0 \in 0 .. Capacity /\ "idle" \in Steps
    BY <1>1 DEF NoBuffer, Steps
  <2>2. << >> \in Seq(Buffers) /\ Len(<< >>) <= Capacity /\ remaining \in Nat
    BY <1>1 DEF Init
  <2>3. /\ bpx \in [Procs -> 0 .. NoBuffer] /\ x \in [Procs -> 0 .. NoBuffer]
        /\ left \in [Procs -> 0 .. Capacity] /\ error \in [Procs -> BOOLEAN]
        /\ held \in [Procs -> SUBSET Buffers] /\ pc \in [Procs -> Steps]
    BY <2>1 DEF Init
  <2>4. QED BY <1>1, <1>2, <2>2, <2>3 DEF Init, Types
<1>4. LockExclusive /\ UserAlone
  BY <1>1 DEF Init, LockExclusive, UserAlone, Locked, Defining, Zapping
<1>5. Files
  BY <1>1 DEF Init, Files, Defining
<1>6. \A p \in Procs : InCall(p)
  BY <1>1 DEF Init, InCall, Putting
<1>7. QED BY <1>3, <1>4, <1>5, <1>6 DEF LockInv

(* mmpool_define_pool, of a pool that is there or that is to be created.   *)
LEMMA DefineLock ==
  ASSUME LockInv, Alone, NEW p \in Procs, mmpool_define_pool(p)
  PROVE  LockInv'
<1>1. /\ pc[p] = "idle" /\ p \notin opened /\ pc \in [Procs -> Steps]
      /\ UNCHANGED <<bpmf, bpcf, inpool, outpool, remaining, lock, bpx, x, left, error, held, cut, kills, damage>>
  BY DEF mmpool_define_pool, LockInv, Types, files, locals, history
<1>2. CASE bpmf /\ bpcf /\ Admitted(p) /\ opened' = opened \cup {p} /\ pc' = pc
  <2>1. \A o \in Procs : pc[o] \notin Defining \cup Zapping
    BY <1>2 DEF Admitted
  <2>2. Types' /\ LockExclusive' /\ UserAlone' /\ Files' /\ InCall(p)'
    BY <1>1, <1>2, <2>1, ProcFacts DEF LockInv, Types, LockExclusive, UserAlone, Files, InCall, Defining
  <2>3. QED BY <1>1, <1>2, <2>2, Frame DEF Others
<1>3. CASE ~(bpmf /\ bpcf) /\ OnlyUser(p) /\ Goto(p, "new_bpmf") /\ opened' = opened
  <2>1. /\ \A o \in Procs \ {p} : o \notin opened /\ pc[o] = "idle" /\ held[o] = {}
        /\ pc' = [pc EXCEPT ![p] = "new_bpmf"] /\ ~bpcf
    BY <1>3 DEF OnlyUser, Goto, LockInv, Files
  <2>2. \A o \in Procs : pc'[o] = IF o = p THEN "new_bpmf" ELSE pc[o]
    BY <1>1, <2>1
  <2>3. Types'
    BY <1>1, <1>3, <2>1 DEF LockInv, Types, Steps, Busy, Defining
  <2>4. LockExclusive'
    BY <1>1, <1>3, <2>2 DEF LockInv, LockExclusive, Locked, Zapping
  <2>5. UserAlone'
    BY <1>1, <1>3, <2>1, <2>2 DEF LockInv, UserAlone, Defining, Zapping
  <2>6. Files'
    BY <1>1, <1>3, <2>1, <2>2 DEF LockInv, Files, Defining
  <2>7. InCall(p)'
    BY <1>1, <2>2, ProcFacts DEF InCall, Putting, Defining
  <2>8. QED BY <1>1, <2>2, <2>3, <2>4, <2>5, <2>6, <2>7, Frame DEF Others
<1>4. QED BY <1>2, <1>3 DEF mmpool_define_pool

(* The creation of the first file.                                         *)
LEMMA NewBpmfLock ==
  ASSUME LockInv, NEW p \in Procs, new_bpmf(p)
  PROVE  LockInv'
<1>1. /\ pc[p] = "new_bpmf" /\ pc' = [pc EXCEPT ![p] = "new_bpcf"] /\ pc \in [Procs -> Steps]
      /\ bpmf' = TRUE /\ inpool' = << >> /\ outpool' = << >> /\ remaining' = Capacity
      /\ UNCHANGED <<bpcf, lock, opened, bpx, x, left, error, held, cut, kills, damage>>
  BY DEF new_bpmf, Goto, LockInv, Types, locals, history
<1>2. \A o \in Procs : pc'[o] = IF o = p THEN "new_bpcf" ELSE pc[o]
  BY <1>1
<1>3. /\ \A o \in Procs \ {p} : o \notin opened /\ pc[o] = "idle" /\ held[o] = {}
      /\ ~bpcf /\ p \notin opened /\ held[p] = {}
  BY <1>1 DEF LockInv, UserAlone, Files, Defining
<1>4. Types'
  <2>1. << >> \in Seq(Buffers) /\ Len(<< >>) <= Capacity /\ Capacity \in Nat
    BY MmPoolAssumption
  <2>2. QED BY <1>1, <2>1 DEF LockInv, Types, Steps, Busy, Defining
<1>5. LockExclusive'
  BY <1>1, <1>2 DEF LockInv, LockExclusive, Locked, Zapping
<1>6. UserAlone'
  BY <1>1, <1>2, <1>3 DEF LockInv, UserAlone, Defining, Zapping
<1>7. Files'
  BY <1>1, <1>2, <1>3 DEF LockInv, Files, Defining
<1>8. InCall(p)'
  BY <1>1, <1>2, ProcFacts DEF InCall, Putting, Defining
<1>9. QED BY <1>1, <1>2, <1>4, <1>5, <1>6, <1>7, <1>8, Frame DEF Others, Busy, Defining

(* The creation of the second file.                                        *)
LEMMA NewBpcfLock ==
  ASSUME LockInv, NEW p \in Procs, new_bpcf(p)
  PROVE  LockInv'
<1>1. /\ pc[p] = "new_bpcf" /\ pc' = [pc EXCEPT ![p] = "allocate"] /\ pc \in [Procs -> Steps]
      /\ bpcf' = TRUE /\ left' = [left EXCEPT ![p] = Capacity]
      /\ UNCHANGED <<bpmf, inpool, outpool, remaining, lock, opened, bpx, x, error, held, cut, kills, damage>>
  BY DEF new_bpcf, Goto, LockInv, Types, locals, history
<1>2. \A o \in Procs : pc'[o] = IF o = p THEN "allocate" ELSE pc[o]
  BY <1>1
<1>3. /\ \A o \in Procs \ {p} : o \notin opened /\ pc[o] = "idle" /\ held[o] = {}
      /\ ~bpcf /\ bpmf /\ p \notin opened /\ held[p] = {}
      /\ inpool = << >> /\ outpool = << >>
  BY <1>1 DEF LockInv, UserAlone, Files, Defining
<1>4. Types'
  <2>1. Capacity \in 0 .. Capacity
    BY MmPoolAssumption
  <2>2. QED BY <1>1, <2>1 DEF LockInv, Types, Steps, Busy, Defining
<1>5. LockExclusive'
  BY <1>1, <1>2 DEF LockInv, LockExclusive, Locked, Zapping
<1>6. UserAlone'
  BY <1>1, <1>2, <1>3 DEF LockInv, UserAlone, Defining, Zapping
<1>7. Files'
  BY <1>1, <1>2, <1>3 DEF LockInv, Files, Defining
<1>8. InCall(p)'
  <2>1. Elems(inpool') = {}
    BY <1>1, <1>3 DEF Elems
  <2>2. QED BY <1>1, <1>2, <1>3, <2>1, ProcFacts DEF InCall, Putting, Defining
<1>9. QED BY <1>1, <1>2, <1>4, <1>5, <1>6, <1>7, <1>8, Frame DEF Others

(* A step of allocate_buffers: the next buffer, or the end.                *)
LEMMA AllocateLock ==
  ASSUME LockInv, NEW p \in Procs, allocate_buffers(p)
  PROVE  LockInv'
<1>1. /\ pc[p] = "allocate" /\ pc \in [Procs -> Steps] /\ left \in [Procs -> 0 .. Capacity]
      /\ UNCHANGED <<bpmf, bpcf, outpool, remaining, lock, bpx, x, error, held, cut, kills, damage>>
  BY DEF allocate_buffers, LockInv, Types, history
<1>2. /\ \A o \in Procs \ {p} : o \notin opened /\ pc[o] = "idle" /\ held[o] = {}
      /\ p \notin opened /\ held[p] = {} /\ bpcf /\ bpmf
  BY <1>1 DEF LockInv, UserAlone, Files, Defining
<1>3. outpool = << >> /\ \A b \in Elems(inpool) : b < Capacity - left[p]
  BY <1>1, ProcFacts DEF InCall
<1>4. CASE left[p] > 0
  <2>1. /\ pc' = pc /\ opened' = opened
        /\ inpool' = Abd(inpool, Capacity - left[p]) /\ left' = [left EXCEPT ![p] = left[p] - 1]
    BY <1>4 DEF allocate_buffers
  <2>2. /\ left[p] \in Nat /\ left[p] <= Capacity /\ Capacity \in Nat
        /\ Capacity - left[p] \in Buffers
    BY <1>1, <1>4, MmPoolAssumption DEF Buffers
  <2>3. inpool' \in Seq(Buffers) /\ Len(inpool') <= Capacity /\ Elems(inpool') \subseteq Elems(inpool) \cup {Capacity - left[p]}
    BY <2>1, <2>2, AbdFacts, ProcFacts
  <2>4. left' \in [Procs -> 0 .. Capacity] /\ left'[p] = left[p] - 1
    BY <1>1, <1>4, <2>1, <2>2
  <2>5. Types'
    BY <1>1, <2>1, <2>3, <2>4 DEF LockInv, Types
  <2>6. LockExclusive' /\ UserAlone'
    BY <1>1, <2>1 DEF LockInv, LockExclusive, UserAlone
  <2>7. Files'
    BY <1>1, <1>2, <2>1 DEF LockInv, Files
  <2>8. \A b \in Elems(inpool') : b < Capacity - left'[p]
    <3>1. \A b \in Elems(inpool) : b \in Int
      <4>1. Elems(inpool) \subseteq Buffers
        BY ProcFacts, ElementOfSeq DEF Elems
      <4>2. QED BY <4>1, MmPoolAssumption DEF Buffers
    <3>2. QED BY <1>3, <2>2, <2>3, <2>4, <3>1
  <2>9. InCall(p)'
    BY <1>1, <1>3, <2>1, <2>4, <2>8, ProcFacts DEF InCall, Putting, Defining
  <2>10. QED BY <1>1, <2>1, <2>5, <2>6, <2>7, <2>9, Frame DEF Others, Busy, Defining
<1>5. CASE ~(left[p] > 0)
  <2>1. /\ opened' = opened \cup {p} /\ pc' = [pc EXCEPT ![p] = "idle"]
        /\ inpool' = inpool /\ left' = left
    BY <1>5 DEF allocate_buffers, Goto
  <2>2. \A o \in Procs : pc'[o] = "idle"
    BY <1>1, <1>2, <2>1
  <2>3. Types'
    BY <1>1, <2>1 DEF LockInv, Types, Steps
  <2>4. LockExclusive' /\ UserAlone'
    BY <1>1, <1>2, <2>1, <2>2 DEF LockInv, LockExclusive, UserAlone, Locked, Zapping, Defining
  <2>5. Files'
    BY <1>1, <1>2, <2>1, <2>2 DEF LockInv, Files, Defining
  <2>6. InCall(p)' /\ Others(p)
    <3>1. bpx[p] = NoBuffer
      BY <1>1, <2>1, ProcFacts DEF InCall, Defining
    <3>2. QED BY <1>1, <1>2, <2>1, <2>2, <3>1, ProcFacts DEF InCall, Putting, Others, Defining
  <2>7. QED BY <1>1, <2>1, <2>3, <2>4, <2>5, <2>6, Frame
<1>6. QED BY <1>4, <1>5

(* Opening and closing the pool.                                           *)
LEMMA OpenCloseLock ==
  ASSUME LockInv, Alone, NEW p \in Procs, mmpool_open(p) \/ mmpool_close(p)
  PROVE  LockInv'
<1>1. /\ pc[p] = "idle" /\ pc' = pc
      /\ UNCHANGED <<bpmf, bpcf, inpool, outpool, remaining, lock, bpx, x, left, error, held, cut, kills, damage>>
      /\ \/ /\ opened' = opened \cup {p} /\ bpmf /\ bpcf
            /\ \A o \in Procs : pc[o] \notin Defining \cup Zapping
         \/ opened' = opened \ {p}
  BY DEF mmpool_open, mmpool_close, Admitted, files, locals, history
<1>2. Types' /\ InCall(p)'
  BY <1>1, ProcFacts DEF LockInv, Types, InCall
<1>3. LockExclusive'
  BY <1>1 DEF LockInv, LockExclusive, Locked, Zapping
<1>4. UserAlone' /\ Files'
  BY <1>1 DEF LockInv, UserAlone, Files, Defining
<1>5. QED BY <1>1, <1>2, <1>3, <1>4, Frame DEF Others

(* The start of mmpool_getbuff and of mmpool_putbuff.                      *)
LEMMA CallLock ==
  ASSUME LockInv, NEW p \in Procs, mmpool_getbuff(p) \/ mmpool_putbuff(p)
  PROVE  LockInv'
<1>1. /\ pc[p] = "idle" /\ p \in opened /\ pc \in [Procs -> Steps] /\ bpx \in [Procs -> 0 .. NoBuffer]
      /\ UNCHANGED <<bpmf, bpcf, inpool, outpool, remaining, lock, opened, x, left, error, held, cut, kills, damage>>
      /\ \/ pc' = [pc EXCEPT ![p] = "get"] /\ bpx' = bpx
         \/ /\ pc' = [pc EXCEPT ![p] = "put"]
            /\ \E b \in held[p] : bpx' = [bpx EXCEPT ![p] = b]
  BY DEF mmpool_getbuff, mmpool_putbuff, Goto, LockInv, Types, files, locals, history
<1>2. PICK step \in {"get", "put"} :
        /\ pc' = [pc EXCEPT ![p] = step]
        /\ step = "get" => bpx' = bpx
        /\ step = "put" => \E b \in held[p] : bpx' = [bpx EXCEPT ![p] = b]
  BY <1>1
<1>3. /\ bpx' \in [Procs -> 0 .. NoBuffer] /\ (step = "put" => bpx'[p] \in held[p])
      /\ \A o \in Procs \ {p} : bpx'[o] = bpx[o]
  <2>1. Buffers \subseteq 0 .. NoBuffer
    BY MmPoolAssumption DEF Buffers, NoBuffer
  <2>2. held[p] \subseteq 0 .. NoBuffer
    BY <2>1, ProcFacts
  <2>3. CASE step = "get"
    BY <1>1, <1>2, <2>3
  <2>4. CASE step = "put"
    <3>1. PICK b \in held[p] : bpx' = [bpx EXCEPT ![p] = b]
      BY <1>2, <2>4
    <3>2. QED BY <1>1, <2>2, <3>1
  <2>5. QED BY <2>3, <2>4
<1>4. \A o \in Procs : pc'[o] = IF o = p THEN step ELSE pc[o]
  BY <1>1, <1>2
<1>5. Types'
  BY <1>1, <1>2, <1>3 DEF LockInv, Types, Steps
<1>6. LockExclusive'
  BY <1>1, <1>4 DEF LockInv, LockExclusive, Locked, Zapping
<1>7. UserAlone'
  BY <1>1, <1>4 DEF LockInv, UserAlone, Defining, Zapping
<1>8. Files'
  BY <1>1, <1>4 DEF LockInv, Files, Defining
<1>9. InCall(p)'
  BY <1>1, <1>2, <1>3, <1>4, ProcFacts DEF InCall, Putting, Defining
<1>10. QED BY <1>1, <1>3, <1>4, <1>5, <1>6, <1>7, <1>8, <1>9, Frame DEF Others

(* lock_pool, when no other process has the lock.                          *)
LEMMA LockPoolLock ==
  ASSUME LockInv, NEW p \in Procs, lock_pool(p)
  PROVE  LockInv'
<1>1. /\ pc[p] \in {"get", "put"} /\ lock = "none" /\ lock' = p
      /\ pc \in [Procs -> Steps] /\ left \in [Procs -> 0 .. Capacity]
      /\ pc' = [pc EXCEPT ![p] = IF pc[p] = "get" THEN "get_rtd" ELSE "search"]
      /\ left' = [left EXCEPT ![p] = IF pc[p] = "put" THEN Len(outpool) ELSE 0]
      /\ UNCHANGED <<bpmf, bpcf, inpool, outpool, remaining, opened, bpx, x, error, held, cut, kills, damage>>
  BY DEF lock_pool, Goto, LockInv, Types, files, history
<1>2. /\ Len(outpool) \in 0 .. Capacity /\ 0 \in 0 .. Capacity
      /\ \A o \in Procs : lock # o
  BY <1>1, ProcFacts, MmPoolAssumption
<1>3. PICK step \in {"get_rtd", "search"} :
        /\ pc' = [pc EXCEPT ![p] = step]
        /\ step = "get_rtd" => pc[p] = "get"
  BY <1>1
<1>4. /\ \A o \in Procs : pc'[o] = IF o = p THEN step ELSE pc[o]
      /\ left' \in [Procs -> 0 .. Capacity]
      /\ \A o \in Procs \ {p} : left'[o] = left[o]
      /\ step = "search" => left'[p] = Len(outpool)
  BY <1>1, <1>2, <1>3
<1>5. Types'
  BY <1>1, <1>3, <1>4 DEF LockInv, Types, Steps, Busy, Locked
<1>6. \A o \in Procs : pc[o] \notin Locked
  BY <1>2 DEF LockInv, LockExclusive
<1>7. p \in opened /\ \A o \in Procs : pc[o] \notin Defining \cup Zapping
  BY <1>1 DEF LockInv, LockExclusive, UserAlone, Defining, Zapping
<1>8. LockExclusive'
  BY <1>1, <1>4, <1>6, <1>7 DEF LockInv, LockExclusive, Locked, Zapping
<1>9. UserAlone'
  BY <1>4, <1>7 DEF UserAlone, Defining, Zapping
<1>10. Files'
  BY <1>1, <1>4, <1>7 DEF LockInv, Files, Defining
<1>11. InCall(p)'
  BY <1>1, <1>2, <1>3, <1>4, ProcFacts DEF InCall, Putting, Defining
<1>12. QED BY <1>1, <1>4, <1>5, <1>8, <1>9, <1>10, <1>11, Frame DEF Others

(* getbuff pops the top of the pool, or finds it empty.                    *)
LEMMA GetRtdLock ==
  ASSUME LockInv, NEW p \in Procs, get_rtd(p)
  PROVE  LockInv'
<1>1. /\ pc[p] = "get_rtd" /\ pc \in [Procs -> Steps] /\ bpx \in [Procs -> 0 .. NoBuffer]
      /\ UNCHANGED <<bpmf, bpcf, outpool, remaining, lock, opened, x, left, error, held, cut, kills, damage>>
  BY DEF get_rtd, LockInv, Types, history
<1>2. PICK step \in {"get_abd", "got"} :
        /\ pc' = [pc EXCEPT ![p] = step]
        /\ step = "get_abd" => /\ inpool # << >> /\ inpool' = Rtd(inpool)
                               /\ bpx' = [bpx EXCEPT ![p] = Top(inpool)]
        /\ step = "got" => inpool = << >> /\ inpool' = inpool /\ bpx' = bpx
  <2>1. CASE inpool # << >>
    BY <2>1 DEF get_rtd, Goto
  <2>2. CASE inpool = << >>
    BY <2>2 DEF get_rtd, Goto
  <2>3. QED BY <2>1, <2>2
<1>3. /\ inpool' \in Seq(Buffers) /\ Len(inpool') <= Capacity
      /\ bpx' \in [Procs -> 0 .. NoBuffer]
      /\ \A o \in Procs \ {p} : bpx'[o] = bpx[o]
      /\ step = "get_abd" => bpx'[p] \in Buffers
      /\ step = "got" => inpool' = << >>
  <2>1. CASE step = "get_abd"
    <3>1. /\ Rtd(inpool) \in Seq(Buffers) /\ Len(Rtd(inpool)) = Len(inpool) - 1 /\ Top(inpool) \in Buffers
      BY <1>2, <2>1, Pop, ProcFacts
    <3>2. Len(inpool) - 1 <= Capacity /\ Buffers \subseteq 0 .. NoBuffer
      BY MmPoolAssumption, ProcFacts DEF Buffers, NoBuffer
    <3>3. QED BY <1>1, <1>2, <2>1, <3>1, <3>2
  <2>2. CASE step = "got"
    BY <1>1, <1>2, <2>2, ProcFacts
  <2>3. QED BY <2>1, <2>2
<1>4. pc'[p] = step /\ \A o \in Procs \ {p} : pc'[o] = pc[o]
  BY <1>1, <1>2
<1>5. Types'
  BY <1>1, <1>2, <1>3 DEF LockInv, Types, Steps, Busy, Locked
<1>6. LockExclusive' /\ UserAlone' /\ Files'
  <2>1. \/ pc[p] \in Locked /\ step \in Locked
        \/ pc[p] \in Zapping /\ step \in Zapping
    BY <1>1 DEF Locked
  <2>2. /\ pc' = [pc EXCEPT ![p] = step]
        /\ UNCHANGED <<bpmf, bpcf, lock, opened, held>>
    BY <1>1, <1>2
  <2>3. QED BY <2>1, <2>2, InsideStep
<1>7. InCall(p)'
  BY <1>1, <1>3, <1>4, ProcFacts DEF InCall, Putting, Defining
<1>8. QED BY <1>1, <1>3, <1>4, <1>5, <1>6, <1>7, Frame DEF Others, Busy, Locked

(* The steps of getbuff that store the buffer and the count.               *)
LEMMA GetLock ==
  ASSUME LockInv, NEW p \in Procs, get_abd(p) \/ get_count(p)
  PROVE  LockInv'
<1>1. /\ pc[p] \in {"get_abd", "get_count"} /\ pc \in [Procs -> Steps]
      /\ UNCHANGED <<bpmf, bpcf, inpool, lock, opened, bpx, x, left, error, held, cut, kills, damage>>
  BY DEF get_abd, get_count, LockInv, Types, locals, history
<1>2. bpx[p] \in Buffers
  BY <1>1, ProcFacts DEF InCall
<1>3. outpool' \in Seq(Buffers) /\ Len(outpool') <= Capacity /\ remaining' \in Nat
  <2>1. CASE get_abd(p)
    <3>1. outpool' = Abd(outpool, bpx[p]) /\ remaining' = remaining
      BY <2>1 DEF get_abd
    <3>2. QED BY <1>2, <3>1, AbdFacts, ProcFacts DEF LockInv, Types
  <2>2. CASE get_count(p)
    <3>1. outpool' = outpool /\ remaining' = (remaining + (-1)) % UShort
      BY <2>2 DEF get_count, Bump
    <3>2. QED BY <3>1, ProcFacts DEF LockInv, Types, UShort
  <2>3. QED BY <2>1, <2>2
<1>4. PICK step \in {"get_count", "got"} :
        pc' = [pc EXCEPT ![p] = step] /\ (step = "get_count" => pc[p] = "get_abd")
  BY DEF get_abd, get_count, Goto
<1>5. pc'[p] = step /\ \A o \in Procs \ {p} : pc'[o] = pc[o]
  BY <1>1, <1>4
<1>6. Types'
  BY <1>1, <1>3, <1>4 DEF LockInv, Types, Steps, Busy, Locked
<1>7. LockExclusive' /\ UserAlone' /\ Files'
  <2>1. \/ pc[p] \in Locked /\ step \in Locked
        \/ pc[p] \in Zapping /\ step \in Zapping
    BY <1>1 DEF Locked
  <2>2. /\ pc' = [pc EXCEPT ![p] = step]
        /\ UNCHANGED <<bpmf, bpcf, lock, opened, held>>
    BY <1>1, <1>4
  <2>3. QED BY <2>1, <2>2, InsideStep
<1>8. InCall(p)'
  <2>1. bpx[p] # NoBuffer
    BY <1>2, MmPoolAssumption DEF Buffers, NoBuffer
  <2>2. QED BY <1>1, <1>2, <1>5, <2>1, ProcFacts DEF InCall, Putting, Defining
<1>9. QED BY <1>1, <1>5, <1>6, <1>7, <1>8, Frame DEF Others, Busy, Locked

(* The loop of search_deque: while items are left the deque is not empty,  *)
(* so a pop does not fail.                                                 *)
LEMMA SearchStep ==
  ASSUME LockInv, NEW p \in Procs, search_deque(p)
  PROVE  /\ pc[p] = "search"
         /\ UNCHANGED <<bpmf, bpcf, inpool, remaining, lock, opened, bpx, left, held, cut, kills, damage>>
         /\ \/ /\ left[p] = 0 /\ error' = [error EXCEPT ![p] = TRUE]
               /\ pc' = [pc EXCEPT ![p] = "returned"] /\ outpool' = outpool /\ x' = x
            \/ /\ left[p] > 0 /\ error' = error
               /\ outpool # << >> /\ outpool' = Rtd(outpool)
               /\ x' = [x EXCEPT ![p] = Top(outpool)]
               /\ pc' = [pc EXCEPT ![p] = IF Top(outpool) = bpx[p] THEN "put_abd" ELSE "search_abd"]
<1>1. /\ pc[p] = "search"
      /\ UNCHANGED <<bpmf, bpcf, inpool, remaining, lock, opened, bpx, left, held, cut, kills, damage>>
  BY DEF search_deque, history
<1>2. left[p] <= Len(outpool) /\ left[p] \in 0 .. Capacity /\ Capacity \in Nat
  BY <1>1, ProcFacts, MmPoolAssumption DEF InCall
<1>3. CASE left[p] = 0
  BY <1>1, <1>3 DEF search_deque, Goto
<1>4. CASE left[p] # 0
  <2>1. left[p] > 0 /\ outpool # << >>
    BY <1>2, <1>4, ProcFacts
  <2>2. QED BY <1>1, <1>4, <2>1 DEF search_deque, Goto
<1>5. QED BY <1>3, <1>4

(* A step of the search.                                                   *)
LEMMA SearchLock ==
  ASSUME LockInv, NEW p \in Procs, search_deque(p)
  PROVE  LockInv'
<1>1. /\ pc[p] = "search" /\ pc \in [Procs -> Steps] /\ error \in [Procs -> BOOLEAN]
      /\ x \in [Procs -> 0 .. NoBuffer]
      /\ UNCHANGED <<bpmf, bpcf, inpool, remaining, lock, opened, bpx, left, held, cut, kills, damage>>
  BY SearchStep DEF LockInv, Types
<1>2. PICK step \in {"returned", "put_abd", "search_abd"} :
        /\ pc' = [pc EXCEPT ![p] = step]
        /\ step = "returned" => /\ error' = [error EXCEPT ![p] = TRUE]
                                /\ outpool' = outpool /\ x' = x
        /\ step # "returned" => /\ left[p] > 0 /\ error' = error
                                /\ outpool # << >> /\ outpool' = Rtd(outpool)
                                /\ x' = [x EXCEPT ![p] = Top(outpool)]
  BY SearchStep
<1>3. /\ pc'[p] = step /\ \A o \in Procs \ {p} : pc'[o] = pc[o] /\ x'[o] = x[o] /\ error'[o] = error[o]
      /\ error' \in [Procs -> BOOLEAN] /\ (error'[p] => step = "returned" \/ error[p])
  BY <1>1, <1>2
<1>4. /\ outpool' \in Seq(Buffers) /\ Len(outpool') <= Capacity /\ x' \in [Procs -> 0 .. NoBuffer]
      /\ step # "returned" => 0 < left[p] /\ left[p] <= Len(outpool') + 1 /\ x'[p] \in Buffers
  <2>1. CASE step = "returned"
    BY <1>1, <1>2, <2>1, ProcFacts
  <2>2. CASE step # "returned"
    <3>1. Rtd(outpool) \in Seq(Buffers) /\ Len(Rtd(outpool)) = Len(outpool) - 1 /\ Top(outpool) \in Buffers
      BY <1>2, <2>2, Pop, ProcFacts
    <3>2. Len(outpool) - 1 <= Capacity /\ Buffers \subseteq 0 .. NoBuffer
      BY MmPoolAssumption, ProcFacts DEF Buffers, NoBuffer
    <3>3. left[p] <= Len(outpool) /\ left[p] \in Nat
      BY <1>1, ProcFacts DEF InCall
    <3>4. Len(outpool') \in Nat /\ Len(outpool') = Len(outpool) - 1 /\ Len(outpool) \in Nat
      BY <1>2, <2>2, <3>1, ProcFacts
    <3>5. left[p] <= Len(outpool') + 1
      BY <3>3, <3>4
    <3>6. QED BY <1>1, <1>2, <2>2, <3>1, <3>2, <3>5
  <2>3. QED BY <2>1, <2>2
<1>5. Types'
  BY <1>1, <1>2, <1>3, <1>4 DEF LockInv, Types, Steps, Busy, Locked
<1>6. LockExclusive' /\ UserAlone' /\ Files'
  <2>1. \/ pc[p] \in Locked /\ step \in Locked
        \/ pc[p] \in Zapping /\ step \in Zapping
    BY <1>1 DEF Locked
  <2>2. /\ pc' = [pc EXCEPT ![p] = step]
        /\ UNCHANGED <<bpmf, bpcf, lock, opened, held>>
    BY <1>1, <1>2
  <2>3. QED BY <2>1, <2>2, InsideStep
<1>7. InCall(p)'
  BY <1>1, <1>3, <1>4, ProcFacts DEF InCall, Putting, Defining
<1>8. QED BY <1>1, <1>3, <1>5, <1>6, <1>7, Frame DEF Others, Busy, Locked

(* The item that was not looked for goes back.                             *)
LEMMA SearchAbdLock ==
  ASSUME LockInv, NEW p \in Procs, search_abd(p)
  PROVE  LockInv'
<1>1. /\ pc[p] = "search_abd" /\ pc' = [pc EXCEPT ![p] = "search"] /\ pc \in [Procs -> Steps]
      /\ left \in [Procs -> 0 .. Capacity]
      /\ outpool' = Abd(outpool, x[p])
      /\ UNCHANGED <<bpmf, bpcf, inpool, remaining, lock, opened, bpx, x, error, held, kills, damage>>
  BY DEF search_abd, Goto, LockInv, Types
<1>2. PICK behind \in AfterX :
        /\ left' = [left EXCEPT ![p] = IF behind = "nitems" THEN 0 ELSE left[p] - 1]
        /\ cut' = (cut \/ behind = "nitems")
  BY DEF search_abd
<1>3. /\ left[p] \in Nat /\ left[p] <= Capacity /\ Capacity \in Nat
      /\ 0 < left[p] /\ left[p] <= Len(outpool) + 1 /\ Len(outpool) \in Nat /\ Len(outpool) <= Capacity
  BY <1>1, ProcFacts, MmPoolAssumption DEF InCall
<1>12. x[p] \in Buffers
  BY <1>1, ProcFacts DEF InCall
<1> DEFINE l == IF behind = "nitems" THEN 0 ELSE left[p] - 1
<1>4. l \in 0 .. Capacity /\ l <= left[p] - 1 /\ left' = [left EXCEPT ![p] = l]
  BY <1>2, <1>3
<1> HIDE DEF l
<1>5. outpool' \in Seq(Buffers) /\ Len(outpool') <= Capacity /\ l <= Len(outpool')
  <2>1. /\ outpool' \in Seq(Buffers) /\ Len(outpool') <= Capacity
        /\ Len(outpool) < Capacity => Len(outpool') = Len(outpool) + 1
        /\ Len(outpool) >= Capacity => outpool' = outpool
    BY <1>1, <1>12, AbdFacts, ProcFacts
  <2>2. QED BY <1>3, <1>4, <2>1
<1>6. left' \in [Procs -> 0 .. Capacity] /\ left'[p] = l /\ \A o \in Procs \ {p} : left'[o] = left[o]
  BY <1>1, <1>4
<1>7. pc'[p] = "search" /\ \A o \in Procs \ {p} : pc'[o] = pc[o]
  BY <1>1
<1>8. Types'
  BY <1>1, <1>2, <1>5, <1>6 DEF LockInv, Types, Steps, Busy, Locked
<1>9. LockExclusive' /\ UserAlone' /\ Files'
  <2>1. \/ pc[p] \in Locked /\ "search" \in Locked
        \/ pc[p] \in Zapping /\ "search" \in Zapping
    BY <1>1 DEF Locked
  <2>2. /\ pc' = [pc EXCEPT ![p] = "search"]
        /\ UNCHANGED <<bpmf, bpcf, lock, opened, held>>
    BY <1>1
  <2>3. QED BY <2>1, <2>2, InsideStep
<1>10. InCall(p)'
  BY <1>1, <1>5, <1>6, <1>7, ProcFacts DEF InCall, Putting, Defining
<1>11. QED BY <1>1, <1>6, <1>7, <1>8, <1>9, <1>10, Frame DEF Others, Busy, Locked

(* The steps of putbuff that store the buffer and the count.               *)
LEMMA PutLock ==
  ASSUME LockInv, NEW p \in Procs, put_abd(p) \/ put_count(p)
  PROVE  LockInv'
<1>1. /\ pc[p] \in {"put_abd", "put_count"} /\ pc \in [Procs -> Steps]
      /\ UNCHANGED <<bpmf, bpcf, outpool, lock, opened, bpx, x, left, error, held, cut, kills, damage>>
  BY DEF put_abd, put_count, LockInv, Types, locals, history
<1>2. bpx[p] \in held[p] /\ bpx[p] \in Buffers
  BY <1>1, ProcFacts DEF InCall, Putting
<1>3. inpool' \in Seq(Buffers) /\ Len(inpool') <= Capacity /\ remaining' \in Nat
  <2>1. CASE put_abd(p)
    <3>1. inpool' = Abd(inpool, bpx[p]) /\ remaining' = remaining
      BY <2>1 DEF put_abd
    <3>2. QED BY <1>2, <3>1, AbdFacts, ProcFacts DEF LockInv, Types
  <2>2. CASE put_count(p)
    <3>1. inpool' = inpool /\ remaining' = (remaining + 1) % UShort
      BY <2>2 DEF put_count, Bump
    <3>2. QED BY <3>1, ProcFacts DEF LockInv, Types, UShort
  <2>3. QED BY <2>1, <2>2
<1>4. PICK step \in {"put_count", "returned"} : pc' = [pc EXCEPT ![p] = step]
  BY DEF put_abd, put_count, Goto
<1>5. pc'[p] = step /\ \A o \in Procs \ {p} : pc'[o] = pc[o]
  BY <1>1, <1>4
<1>6. Types'
  BY <1>1, <1>3, <1>4 DEF LockInv, Types, Steps, Busy, Locked
<1>7. LockExclusive' /\ UserAlone' /\ Files'
  <2>1. \/ pc[p] \in Locked /\ step \in Locked
        \/ pc[p] \in Zapping /\ step \in Zapping
    BY <1>1 DEF Locked
  <2>2. /\ pc' = [pc EXCEPT ![p] = step]
        /\ UNCHANGED <<bpmf, bpcf, lock, opened, held>>
    BY <1>1, <1>4
  <2>3. QED BY <2>1, <2>2, InsideStep
<1>8. InCall(p)'
  BY <1>1, <1>2, <1>5, ProcFacts DEF InCall, Putting, Defining
<1>9. QED BY <1>1, <1>5, <1>6, <1>7, <1>8, Frame DEF Others, Busy, Locked

(* unlock_pool: what the process has from now on.                          *)
LEMMA UnlockStep ==
  ASSUME LockInv, NEW p \in Procs, unlock_pool(p)
  PROVE  /\ pc[p] \in {"got", "returned"} /\ lock = p /\ lock' = "none"
         /\ pc' = [pc EXCEPT ![p] = "idle"] /\ bpx' = [bpx EXCEPT ![p] = NoBuffer]
         /\ x' = [x EXCEPT ![p] = NoBuffer] /\ left' = [left EXCEPT ![p] = 0]
         /\ error' = [error EXCEPT ![p] = FALSE]
         /\ UNCHANGED <<bpmf, bpcf, inpool, outpool, remaining, opened, cut, kills, damage>>
         /\ held' \in [Procs -> SUBSET Buffers] /\ \A o \in Procs \ {p} : held'[o] = held[o]
         /\ held' = [held EXCEPT ![p] = held'[p]]
         /\ pc[p] = "got" => held'[p] = held[p] \cup ({bpx[p]} \ {NoBuffer})
         /\ pc[p] = "returned" /\ error[p] => held'[p] = held[p]
         /\ pc[p] = "returned" /\ ~error[p] => held'[p] = held[p] \ {bpx[p]}
<1>1. /\ pc[p] \in {"got", "returned"} /\ lock' = "none"
      /\ pc' = [pc EXCEPT ![p] = "idle"] /\ bpx' = [bpx EXCEPT ![p] = NoBuffer]
      /\ x' = [x EXCEPT ![p] = NoBuffer] /\ left' = [left EXCEPT ![p] = 0]
      /\ error' = [error EXCEPT ![p] = FALSE]
      /\ UNCHANGED <<bpmf, bpcf, inpool, outpool, remaining, opened, cut, kills, damage>>
  BY DEF unlock_pool, Goto, files
<1>2. lock = p
  BY <1>1 DEF LockInv, LockExclusive, Locked
<1>3. PICK h : /\ held' = [held EXCEPT ![p] = h]
               /\ pc[p] = "got" => h = held[p] \cup ({bpx[p]} \ {NoBuffer})
               /\ pc[p] = "returned" /\ error[p] => h = held[p]
               /\ pc[p] = "returned" /\ ~error[p] => h = held[p] \ {bpx[p]}
  <2>1. CASE pc[p] = "got"
    <3>1. ~error[p]
      BY <2>1, ProcFacts DEF InCall
    <3>2. QED BY <2>1, <3>1 DEF unlock_pool
  <2>2. CASE pc[p] = "returned" /\ error[p]
    BY <2>2 DEF unlock_pool
  <2>3. CASE pc[p] = "returned" /\ ~error[p]
    BY <2>3 DEF unlock_pool
  <2>4. QED BY <1>1, <2>1, <2>2, <2>3
<1>4. h \in SUBSET Buffers
  <2>1. {bpx[p]} \ {NoBuffer} \subseteq Buffers
    BY MmPoolAssumption, ProcFacts DEF Buffers, NoBuffer
  <2>2. QED BY <1>1, <1>3, <2>1, ProcFacts
<1>5. held \in [Procs -> SUBSET Buffers]
  BY DEF LockInv, Types
<1>6. held'[p] = h /\ held' \in [Procs -> SUBSET Buffers] /\ \A o \in Procs \ {p} : held'[o] = held[o]
  BY <1>3, <1>4, <1>5
<1>7. QED BY <1>1, <1>2, <1>3, <1>6

(* The return from the call.                                               *)
LEMMA UnlockLock ==
  ASSUME LockInv, NEW p \in Procs, unlock_pool(p)
  PROVE  LockInv'
<1>1. /\ pc[p] \in {"got", "returned"} /\ lock = p /\ lock' = "none"
      /\ pc' = [pc EXCEPT ![p] = "idle"] /\ bpx' = [bpx EXCEPT ![p] = NoBuffer]
      /\ x' = [x EXCEPT ![p] = NoBuffer] /\ left' = [left EXCEPT ![p] = 0]
      /\ error' = [error EXCEPT ![p] = FALSE]
      /\ UNCHANGED <<bpmf, bpcf, inpool, outpool, remaining, opened, cut, kills, damage>>
      /\ held' \in [Procs -> SUBSET Buffers] /\ \A o \in Procs \ {p} : held'[o] = held[o]
  BY UnlockStep
<1>2. /\ pc'[p] = "idle" /\ bpx'[p] = NoBuffer /\ ~error'[p]
      /\ \A o \in Procs \ {p} : pc'[o] = pc[o] /\ lock # o /\ bpx'[o] = bpx[o] /\ x'[o] = x[o]
                                /\ left'[o] = left[o] /\ error'[o] = error[o]
  BY <1>1 DEF LockInv, Types
<1>3. NoBuffer \in 0 .. NoBuffer /\ 0 \in 0 .. Capacity /\ "idle" \in Steps
  BY MmPoolAssumption DEF NoBuffer, Steps
<1>4. Types'
  BY <1>1, <1>3 DEF LockInv, Types
<1>5. p # "none" /\ p \in opened
  BY <1>1, ProcFacts DEF LockInv, LockExclusive, Locked
<1>6. LockExclusive'
  BY <1>1, <1>2, <1>5, ProcFacts DEF LockInv, LockExclusive, Locked, Zapping
<1>7. UserAlone'
  BY <1>1, <1>2, <1>5 DEF LockInv, UserAlone, Defining, Zapping
<1>8. Files'
  BY <1>1, <1>2, <1>5 DEF LockInv, Files, Defining
<1>9. InCall(p)'
  BY <1>2 DEF InCall, Putting, Defining
<1>10. QED BY <1>1, <1>2, <1>4, <1>6, <1>7, <1>8, <1>9, Frame DEF Others

(* The start of mmpool_zap_pool.                                           *)
LEMMA ZapPoolLock ==
  ASSUME LockInv, Alone, NEW p \in Procs, mmpool_zap_pool(p)
  PROVE  LockInv'
<1>1. /\ pc[p] = "idle" /\ p \in opened /\ pc' = [pc EXCEPT ![p] = "zap_rtd"] /\ pc \in [Procs -> Steps]
      /\ UNCHANGED <<bpmf, bpcf, inpool, outpool, remaining, lock, opened, bpx, x, left, error, held, cut, kills, damage>>
      /\ \A o \in Procs \ {p} : o \notin opened /\ pc[o] = "idle" /\ held[o] = {}
  BY DEF mmpool_zap_pool, OnlyUser, Goto, LockInv, Types, files, locals, history
<1>2. \A o \in Procs : pc'[o] = IF o = p THEN "zap_rtd" ELSE pc[o]
  BY <1>1
<1>3. Types'
  BY <1>1 DEF LockInv, Types, Steps, Busy, Zapping
<1>4. LockExclusive'
  BY <1>1, <1>2 DEF LockInv, LockExclusive, Locked, Zapping
<1>5. UserAlone'
  BY <1>1, <1>2 DEF LockInv, UserAlone, Defining, Zapping
<1>6. Files'
  BY <1>1, <1>2 DEF LockInv, Files, Defining
<1>7. InCall(p)'
  BY <1>1, <1>2, ProcFacts DEF InCall, Putting, Defining
<1>8. QED BY <1>1, <1>2, <1>3, <1>4, <1>5, <1>6, <1>7, Frame DEF Others

(* zap_pool pops a buffer that is out, or ends.                            *)
LEMMA ZapRtdLock ==
  ASSUME LockInv, NEW p \in Procs, zap_rtd(p)
  PROVE  LockInv'
<1>1. /\ pc[p] = "zap_rtd" /\ pc \in [Procs -> Steps] /\ bpx \in [Procs -> 0 .. NoBuffer]
      /\ held \in [Procs -> SUBSET Buffers]
      /\ UNCHANGED <<bpmf, bpcf, inpool, remaining, lock, opened, x, left, error, cut, kills, damage>>
  BY DEF zap_rtd, LockInv, Types
<1>2. /\ \A o \in Procs \ {p} : o \notin opened /\ pc[o] = "idle" /\ held[o] = {}
      /\ p \in opened /\ bpcf
  BY <1>1 DEF LockInv, LockExclusive, UserAlone, Files, Zapping
<1>3. CASE outpool # << >>
  <2>1. /\ pc' = [pc EXCEPT ![p] = "zap_abd"] /\ held' = held
        /\ bpx' = [bpx EXCEPT ![p] = Top(outpool)] /\ outpool' = Rtd(outpool)
    BY <1>3 DEF zap_rtd, Goto
  <2>2. /\ Rtd(outpool) \in Seq(Buffers) /\ Len(Rtd(outpool)) = Len(outpool) - 1 /\ Top(outpool) \in Buffers
    BY <1>3, Pop, ProcFacts
  <2>3. Len(outpool) - 1 <= Capacity /\ Buffers \subseteq 0 .. NoBuffer
    BY MmPoolAssumption, ProcFacts DEF Buffers, NoBuffer
  <2>4. Types'
    BY <1>1, <2>1, <2>2, <2>3 DEF LockInv, Types, Steps, Busy, Zapping
  <2>5. LockExclusive' /\ UserAlone' /\ Files'
    <3>1. \/ pc[p] \in Locked /\ "zap_abd" \in Locked
          \/ pc[p] \in Zapping /\ "zap_abd" \in Zapping
      BY <1>1 DEF Zapping
    <3>2. /\ pc' = [pc EXCEPT ![p] = "zap_abd"]
          /\ UNCHANGED <<bpmf, bpcf, lock, opened, held>>
      BY <1>1, <2>1
    <3>3. QED BY <3>1, <3>2, InsideStep
  <2>6. pc'[p] = "zap_abd" /\ bpx'[p] \in Buffers /\ \A o \in Procs \ {p} : pc'[o] = pc[o] /\ bpx'[o] = bpx[o]
    BY <1>1, <2>1, <2>2
  <2>7. InCall(p)'
    BY <1>1, <2>1, <2>6, ProcFacts DEF InCall, Putting, Defining
  <2>8. QED BY <1>1, <2>1, <2>4, <2>5, <2>6, <2>7, Frame DEF Others, Busy, Zapping
<1>4. CASE outpool = << >>
  <2>1. /\ pc' = [pc EXCEPT ![p] = "idle"] /\ held' = [held EXCEPT ![p] = {}]
        /\ bpx' = [bpx EXCEPT ![p] = NoBuffer] /\ outpool' = outpool
    BY <1>4 DEF zap_rtd, Goto
  <2>2. /\ \A o \in Procs : pc'[o] = "idle" /\ held'[o] = {} /\ pc'[p] = "idle"
        /\ bpx'[p] = NoBuffer /\ \A o \in Procs \ {p} : bpx'[o] = bpx[o]
    BY <1>1, <1>2, <2>1
  <2>3. Types'
    <3>1. NoBuffer \in 0 .. NoBuffer /\ "idle" \in Steps
      BY MmPoolAssumption DEF NoBuffer, Steps
    <3>2. QED BY <1>1, <2>1, <3>1 DEF LockInv, Types
  <2>4. LockExclusive'
    <3>1. \A o \in Procs : lock # o
      BY <1>1, <1>2 DEF LockInv, LockExclusive, Locked
    <3>2. QED BY <1>1, <2>2, <3>1 DEF LockExclusive, Locked, Zapping
  <2>5. UserAlone' /\ Files'
    BY <1>1, <1>2, <2>2 DEF LockInv, UserAlone, Files, Zapping, Defining
  <2>6. InCall(p)'
    BY <1>1, <2>2, ProcFacts DEF InCall, Putting, Defining
  <2>7. QED BY <1>1, <1>2, <2>1, <2>2, <2>3, <2>4, <2>5, <2>6, Frame DEF Others
<1>5. QED BY <1>3, <1>4

(* zap_pool puts the buffer into the pool and counts it.                   *)
LEMMA ZapLock ==
  ASSUME LockInv, NEW p \in Procs, zap_abd(p) \/ zap_count(p)
  PROVE  LockInv'
<1>1. /\ pc[p] \in {"zap_abd", "zap_count"} /\ pc \in [Procs -> Steps]
      /\ UNCHANGED <<bpmf, bpcf, outpool, lock, opened, bpx, x, left, error, held, cut, kills, damage>>
  BY DEF zap_abd, zap_count, LockInv, Types, locals, history
<1>2. inpool' \in Seq(Buffers) /\ Len(inpool') <= Capacity /\ remaining' \in Nat
  <2>1. CASE zap_abd(p)
    <3>1. inpool' = Abd(inpool, bpx[p]) /\ remaining' = remaining /\ pc[p] = "zap_abd"
      BY <2>1 DEF zap_abd
    <3>2. bpx[p] \in Buffers
      BY <3>1, ProcFacts DEF InCall
    <3>3. QED BY <3>1, <3>2, AbdFacts, ProcFacts DEF LockInv, Types
  <2>2. CASE zap_count(p)
    <3>1. inpool' = inpool /\ remaining' = (remaining + 1) % UShort
      BY <2>2 DEF zap_count, Bump
    <3>2. QED BY <3>1, ProcFacts DEF LockInv, Types, UShort
  <2>3. QED BY <2>1, <2>2
<1>3. PICK step \in {"zap_count", "zap_rtd"} : pc' = [pc EXCEPT ![p] = step]
  BY DEF zap_abd, zap_count, Goto
<1>4. pc'[p] = step /\ \A o \in Procs \ {p} : pc'[o] = pc[o]
  BY <1>1, <1>3
<1>5. Types'
  BY <1>1, <1>2, <1>3 DEF LockInv, Types, Steps, Busy, Zapping
<1>6. LockExclusive' /\ UserAlone' /\ Files'
  <2>1. \/ pc[p] \in Locked /\ step \in Locked
        \/ pc[p] \in Zapping /\ step \in Zapping
    BY <1>1 DEF Zapping
  <2>2. /\ pc' = [pc EXCEPT ![p] = step]
        /\ UNCHANGED <<bpmf, bpcf, lock, opened, held>>
    BY <1>1, <1>3
  <2>3. QED BY <2>1, <2>2, InsideStep
<1>7. InCall(p)'
  BY <1>1, <1>4, ProcFacts DEF InCall, Putting, Defining
<1>8. QED BY <1>1, <1>4, <1>5, <1>6, <1>7, Frame DEF Others, Busy, Zapping

(* A process is killed: its lock and its handle go, the files stay.        *)
LEMMA KillLock ==
  ASSUME LockInv, NEW p \in Procs, Kill(p)
  PROVE  LockInv'
<1>1. /\ pc' = [pc EXCEPT ![p] = "idle"] /\ bpx' = [bpx EXCEPT ![p] = NoBuffer]
      /\ x' = [x EXCEPT ![p] = NoBuffer] /\ left' = [left EXCEPT ![p] = 0]
      /\ error' = [error EXCEPT ![p] = FALSE] /\ held' = [held EXCEPT ![p] = {}]
      /\ opened' = opened \ {p} /\ lock' = IF lock = p THEN "none" ELSE lock
      /\ UNCHANGED <<bpmf, bpcf, inpool, outpool, remaining, cut>>
  BY DEF Kill, Goto, files
<1>2. /\ pc'[p] = "idle" /\ bpx'[p] = NoBuffer /\ ~error'[p] /\ held'[p] = {}
      /\ \A o \in Procs \ {p} : pc'[o] = pc[o] /\ bpx'[o] = bpx[o] /\ x'[o] = x[o]
                                /\ left'[o] = left[o] /\ error'[o] = error[o] /\ held'[o] = held[o]
  BY <1>1 DEF LockInv, Types
<1>3. kills' \in Nat /\ damage' \in Nat
  <2>1. Capacity \in Nat /\ kills \in Nat /\ damage \in Nat
    BY MmPoolAssumption DEF LockInv, Types
  <2>2. QED BY <2>1 DEF Kill
<1>4. Types'
  <2>1. NoBuffer \in 0 .. NoBuffer /\ 0 \in 0 .. Capacity /\ "idle" \in Steps
    BY MmPoolAssumption DEF NoBuffer, Steps
  <2>2. QED BY <1>1, <1>3, <2>1 DEF LockInv, Types
<1>5. LockExclusive'
  BY <1>1, <1>2, ProcFacts DEF LockInv, LockExclusive, Locked, Zapping
<1>6. UserAlone'
  BY <1>1, <1>2 DEF LockInv, UserAlone, Defining, Zapping
<1>7. Files'
  BY <1>1, <1>2 DEF LockInv, Files, Defining
<1>8. InCall(p)'
  BY <1>2 DEF InCall, Putting, Defining
<1>9. QED BY <1>1, <1>2, <1>4, <1>5, <1>6, <1>7, <1>8, Frame DEF Others

(* Every step preserves the locking invariant.                             *)
LEMMA NextLock ==
  ASSUME Alone, LockInv, [Next]_vars
  PROVE  LockInv'
<1>1. CASE UNCHANGED vars
  BY <1>1 DEF vars, files, locals, history, LockInv, Types, LockExclusive, UserAlone, Files, InCall
<1>2. ASSUME NEW p \in Procs, Step(p) PROVE LockInv'
  BY <1>2, NewBpmfLock, NewBpcfLock, AllocateLock, LockPoolLock, GetRtdLock, GetLock, SearchLock,
     SearchAbdLock, PutLock, UnlockLock, ZapRtdLock, ZapLock DEF Step
<1>3. ASSUME NEW p \in Procs,
             \/ mmpool_define_pool(p) \/ mmpool_open(p) \/ mmpool_close(p)
             \/ mmpool_getbuff(p) \/ mmpool_putbuff(p) \/ mmpool_zap_pool(p) \/ Kill(p)
      PROVE  LockInv'
  BY <1>3, DefineLock, OpenCloseLock, CallLock, ZapPoolLock, KillLock
<1>4. QED BY <1>1, <1>2, <1>3 DEF Next

-----------------------------------------------------------------------------
(* A step of a process changes its own locals and buffers only.            *)
LEMMA Local ==
  ASSUME LockInv, NEW p \in Procs,
         \/ mmpool_define_pool(p) \/ mmpool_open(p) \/ mmpool_close(p)
         \/ mmpool_getbuff(p) \/ mmpool_putbuff(p) \/ mmpool_zap_pool(p)
         \/ Step(p) \/ Kill(p)
  PROVE  Others(p)
<1> USE DEF Others, Goto, files, locals, history
<1>1. /\ pc \in [Procs -> Steps] /\ bpx \in [Procs -> 0 .. NoBuffer] /\ x \in [Procs -> 0 .. NoBuffer]
      /\ left \in [Procs -> 0 .. Capacity] /\ error \in [Procs -> BOOLEAN]
      /\ held \in [Procs -> SUBSET Buffers]
  BY DEF LockInv, Types
<1>2. CASE mmpool_define_pool(p) \/ mmpool_open(p) \/ mmpool_close(p)
  BY <1>1, <1>2 DEF mmpool_define_pool, mmpool_open, mmpool_close
<1>3. CASE mmpool_getbuff(p) \/ mmpool_putbuff(p) \/ mmpool_zap_pool(p)
  BY <1>1, <1>3 DEF mmpool_getbuff, mmpool_putbuff, mmpool_zap_pool
<1>4. CASE new_bpmf(p) \/ new_bpcf(p) \/ allocate_buffers(p)
  BY <1>1, <1>4 DEF new_bpmf, new_bpcf, allocate_buffers
<1>5. CASE lock_pool(p)
  BY <1>1, <1>5 DEF lock_pool
<1>6. CASE get_rtd(p) \/ get_abd(p) \/ get_count(p)
  BY <1>1, <1>6 DEF get_rtd, get_abd, get_count
<1>7. CASE search_deque(p)
  <2>1. UNCHANGED <<bpx, left, held>>
    BY <1>7, SearchStep
  <2>2. PICK step : pc' = [pc EXCEPT ![p] = step]
    BY <1>7, SearchStep
  <2>3. \A o \in Procs \ {p} : x'[o] = x[o] /\ error'[o] = error[o]
    <3>1. /\ x' = x \/ x' = [x EXCEPT ![p] = Top(outpool)]
          /\ error' = error \/ error' = [error EXCEPT ![p] = TRUE]
      BY <1>7, SearchStep
    <3>2. QED BY <1>1, <3>1
  <2>4. QED BY <1>1, <2>1, <2>2, <2>3
<1>8. CASE search_abd(p)
  BY <1>1, <1>8 DEF search_abd
<1>9. CASE put_abd(p) \/ put_count(p)
  BY <1>1, <1>9 DEF put_abd, put_count
<1>10. CASE unlock_pool(p)
  BY <1>1, <1>10, UnlockStep
<1>11. CASE zap_rtd(p) \/ zap_abd(p) \/ zap_count(p)
  BY <1>1, <1>11 DEF zap_rtd, zap_abd, zap_count
<1>12. CASE Kill(p)
  BY <1>1, <1>12 DEF Kill
<1>13. QED BY <1>2, <1>3, <1>4, <1>5, <1>6, <1>7, <1>8, <1>9, <1>10, <1>11, <1>12 DEF Step

(* Between a pop and a push an index is in neither deque but in a local.   *)
Drifts(p) == pc[p] \in {"get_abd", "put_abd", "zap_abd", "search_abd"}
Drift(p)  == IF pc[p] = "search_abd" THEN x[p] ELSE bpx[p]

(* The buffers of an application, from the pop of the call that gets one   *)
(* to the push of the call that puts one.                                  *)
Getting  == {"get_abd", "get_count", "got"}
Owned(p) ==
  IF pc[p] \in Getting THEN held[p] \cup ({bpx[p]} \ {NoBuffer})
  ELSE IF pc[p] = "put_count" \/ (pc[p] = "returned" /\ ~error[p]) THEN held[p] \ {bpx[p]}
  ELSE IF pc[p] \in Zapping THEN {}
  ELSE held[p]

Fresh(p) == pc[p] \in Getting => bpx[p] \notin held[p]

(* No index is in two places: the two deques, the local of a process.      *)
DequesDisjoint ==
  /\ Distinct(inpool) /\ Distinct(outpool)
  /\ Elems(inpool) \cap Elems(outpool) = {}
  /\ \A p \in Procs : Drifts(p) => Drift(p) \notin Elems(inpool) \cup Elems(outpool)

(* A buffer belongs to one application, and not while it is in the pool.   *)
Ownership ==
  /\ \A p, q \in Procs : p # q => Owned(p) \cap Owned(q) = {}
  /\ \A p \in Procs : Owned(p) \cap Elems(inpool) = {}
  /\ \A p \in Procs : Fresh(p)

RingInv == DequesDisjoint /\ Ownership

(* The locals of a process that is not inside a call do not matter.        *)
LEMMA OwnedIdle ==
  ASSUME NEW p \in Procs, pc[p] \notin Busy
  PROVE  Owned(p) = held[p] /\ ~Drifts(p) /\ Fresh(p)
BY DEF Owned, Drifts, Fresh, Getting, Busy, Locked, Zapping

(* What a step of another process leaves as it is.                         *)
LEMMA OwnedOthers ==
  ASSUME NEW p, Others(p), NEW o \in Procs \ {p}
  PROVE  (Owned(o))' = Owned(o) /\ (Drifts(o))' = Drifts(o) /\ (Drift(o))' = Drift(o) /\ (Fresh(o))' = Fresh(o)
BY DEF Others, Owned, Drifts, Drift, Fresh

(* A step that leaves the deques alone and gives its process no buffer.    *)
LEMMA QuietRing ==
  ASSUME LockInv, RingInv, NEW p \in Procs, Others(p), UNCHANGED <<inpool, outpool>>,
         ~(Drifts(p))', (Owned(p))' \subseteq Owned(p), (Fresh(p))'
  PROVE  RingInv'
<1>1. \A o \in Procs \ {p} : /\ (Owned(o))' = Owned(o) /\ (Drifts(o))' = Drifts(o)
                             /\ (Drift(o))' = Drift(o) /\ (Fresh(o))' = Fresh(o)
  BY OwnedOthers
<1>2. DequesDisjoint'
  BY <1>1 DEF RingInv, DequesDisjoint
<1>3. Ownership'
  BY <1>1 DEF RingInv, Ownership
<1>4. QED BY <1>2, <1>3 DEF RingInv

(* A step inside a call that moves an index.                               *)
LEMMA MoveRing ==
  ASSUME LockInv, RingInv, NEW p \in Procs, pc[p] \in Busy, Others(p),
         Distinct(inpool'), Distinct(outpool'), Elems(inpool') \cap Elems(outpool') = {},
         (Drifts(p))' => (Drift(p))' \notin Elems(inpool') \cup Elems(outpool'),
         \A o \in Procs \ {p} : (Owned(p))' \cap held[o] = {} /\ held[o] \cap Elems(inpool') = {},
         (Owned(p))' \cap Elems(inpool') = {}, (Fresh(p))'
  PROVE  RingInv'
<1>1. \A o \in Procs \ {p} : (Owned(o))' = Owned(o) /\ Owned(o) = held[o] /\ ~(Drifts(o))' /\ (Fresh(o))'
  <2>1. \A o \in Procs \ {p} : pc[o] \notin Busy
    BY Unique
  <2>2. QED BY <2>1, OwnedOthers, OwnedIdle
<1>2. DequesDisjoint'
  BY <1>1 DEF DequesDisjoint
<1>3. Ownership'
  <2>1. ASSUME NEW o \in Procs, NEW q \in Procs, o # q PROVE (Owned(o))' \cap (Owned(q))' = {}
    <3>1. CASE o = p
      BY <1>1, <2>1, <3>1
    <3>2. CASE q = p
      BY <1>1, <2>1, <3>2
    <3>3. CASE o # p /\ q # p
      BY <1>1, <2>1, <3>3 DEF RingInv, Ownership
    <3>4. QED BY <3>1, <3>2, <3>3
  <2>2. \A o \in Procs : (Owned(o))' \cap Elems(inpool') = {} /\ (Fresh(o))'
    BY <1>1
  <2>3. QED BY <2>1, <2>2 DEF Ownership
<1>4. QED BY <1>2, <1>3 DEF RingInv

(* What the invariant says while p is inside a call.                       *)
LEMMA RingFacts ==
  ASSUME LockInv, RingInv, NEW p \in Procs, pc[p] \in Busy
  PROVE  /\ Distinct(inpool) /\ Distinct(outpool)
         /\ Elems(inpool) \cap Elems(outpool) = {}
         /\ Drifts(p) => Drift(p) \notin Elems(inpool) \cup Elems(outpool)
         /\ Owned(p) \cap Elems(inpool) = {} /\ Fresh(p)
         /\ \A o \in Procs \ {p} : Owned(p) \cap held[o] = {} /\ held[o] \cap Elems(inpool) = {}
         /\ inpool \in Seq(Buffers) /\ outpool \in Seq(Buffers)
         /\ Elems(inpool) \subseteq Buffers /\ Elems(outpool) \subseteq Buffers
<1>1. \A o \in Procs \ {p} : Owned(o) = held[o]
  BY Unique, OwnedIdle
<1>2. Elems(inpool) \subseteq Buffers /\ Elems(outpool) \subseteq Buffers
  BY CountElems, ProcFacts DEF RingInv, DequesDisjoint
<1>3. QED BY <1>1, <1>2, ProcFacts DEF RingInv, DequesDisjoint, Ownership

(* The pool at the start.                                                  *)
LEMMA InitRing == Init => RingInv
<1> SUFFICES ASSUME Init PROVE RingInv
  OBVIOUS
<1>1. Distinct(inpool)
  <2>1. Capacity \in Nat
    BY MmPoolAssumption
  <2>2. CASE Defined
    <3>1. inpool = [i \in 1 .. Capacity |-> Capacity - i] /\ Len(inpool) = Capacity
      BY <2>1, <2>2 DEF Init
    <3>2. QED BY <2>1, <3>1 DEF Distinct
  <2>3. CASE ~Defined
    BY <2>3 DEF Init, Distinct
  <2>4. QED BY <2>2, <2>3
<1>2. Elems(outpool) = {} /\ Distinct(outpool)
  BY DEF Init, Elems, Distinct
<1>3. \A p \in Procs : pc[p] \notin Busy /\ held[p] = {}
  BY DEF Init, Busy, Locked, Defining, Zapping
<1>4. \A p \in Procs : Owned(p) = {} /\ ~Drifts(p) /\ Fresh(p)
  BY <1>3, OwnedIdle
<1>5. QED BY <1>1, <1>2, <1>4 DEF RingInv, DequesDisjoint, Ownership

(* The steps that move no index: definition, open, close, the start of a   *)
(* call, the lock, the counts, the returns.                                *)
LEMMA QuietStepsRing ==
  ASSUME LockInv, RingInv, NEW p \in Procs,
         \/ mmpool_define_pool(p) \/ mmpool_open(p) \/ mmpool_close(p)
         \/ mmpool_getbuff(p) \/ mmpool_putbuff(p) \/ mmpool_zap_pool(p) \/ lock_pool(p)
         \/ new_bpmf(p) \/ new_bpcf(p) \/ get_count(p) \/ put_count(p) \/ zap_count(p)
         \/ unlock_pool(p) \/ Kill(p)
  PROVE  RingInv'
<1>1. Others(p)
  BY Local DEF Step
<1>2. /\ pc \in [Procs -> Steps] /\ bpx \in [Procs -> 0 .. NoBuffer]
      /\ held \in [Procs -> SUBSET Buffers]
  BY DEF LockInv, Types
<1>3. CASE mmpool_define_pool(p) \/ mmpool_open(p) \/ mmpool_close(p)
  <2>1. /\ UNCHANGED <<inpool, outpool, held>> /\ pc[p] = "idle" /\ pc'[p] \in {"idle", "new_bpmf"}
    BY <1>2, <1>3 DEF mmpool_define_pool, mmpool_open, mmpool_close, Goto, files, history
  <2>2. Owned(p) = held[p] /\ (Owned(p))' = held[p] /\ ~(Drifts(p))' /\ (Fresh(p))'
    BY <2>1 DEF Owned, Drifts, Fresh, Getting, Zapping
  <2>3. QED BY <1>1, <2>1, <2>2, QuietRing
<1>4. CASE mmpool_getbuff(p) \/ mmpool_putbuff(p) \/ mmpool_zap_pool(p) \/ lock_pool(p)
  <2>1. /\ UNCHANGED <<inpool, outpool, held>> /\ pc[p] \in {"idle", "get", "put"}
        /\ pc'[p] \in {"get", "put", "zap_rtd", "search"} \/ (pc'[p] = "get_rtd")
    BY <1>2, <1>4 DEF mmpool_getbuff, mmpool_putbuff, mmpool_zap_pool, lock_pool, Goto, files, history
  <2>2. Owned(p) = held[p] /\ (Owned(p))' \subseteq held[p] /\ ~(Drifts(p))' /\ (Fresh(p))'
    BY <2>1 DEF Owned, Drifts, Fresh, Getting, Zapping
  <2>3. QED BY <1>1, <2>1, <2>2, QuietRing
<1>5. CASE new_bpmf(p) \/ new_bpcf(p)
  <2>1. /\ pc[p] \in {"new_bpmf", "new_bpcf"} /\ pc'[p] \in {"new_bpcf", "allocate"} /\ held' = held
        /\ inpool' = << >> \/ inpool' = inpool
        /\ outpool' = << >> \/ outpool' = outpool
    BY <1>2, <1>5 DEF new_bpmf, new_bpcf, Goto, history
  <2>2. inpool = << >> /\ outpool = << >>
    BY <2>1 DEF LockInv, Files
  <2>3. Owned(p) = held[p] /\ (Owned(p))' = held[p] /\ ~(Drifts(p))' /\ (Fresh(p))'
    BY <2>1 DEF Owned, Drifts, Fresh, Getting, Zapping
  <2>4. QED BY <1>1, <2>1, <2>2, <2>3, QuietRing
<1>6. CASE get_count(p)
  <2>1. /\ UNCHANGED <<inpool, outpool, held, bpx>> /\ pc[p] = "get_count" /\ pc'[p] = "got"
    BY <1>2, <1>6 DEF get_count, Goto, locals, history
  <2>2. (Owned(p))' = Owned(p) /\ ~(Drifts(p))' /\ (Fresh(p))'
    BY <2>1 DEF Owned, Drifts, Fresh, Getting, Zapping, RingInv, Ownership
  <2>3. QED BY <1>1, <2>1, <2>2, QuietRing
<1>7. CASE put_count(p) \/ zap_count(p)
  <2>1. /\ UNCHANGED <<inpool, outpool, held, bpx, error>>
        /\ \/ pc[p] = "put_count" /\ pc'[p] = "returned"
           \/ pc[p] = "zap_count" /\ pc'[p] = "zap_rtd"
    BY <1>2, <1>7 DEF put_count, zap_count, Goto, locals, history
  <2>2. ~error[p]
    BY <2>1, ProcFacts DEF InCall
  <2>3. (Owned(p))' = Owned(p) /\ ~(Drifts(p))' /\ (Fresh(p))'
    BY <2>1, <2>2 DEF Owned, Drifts, Fresh, Getting, Zapping
  <2>4. QED BY <1>1, <2>1, <2>3, QuietRing
<1>8. CASE unlock_pool(p)
  <2>1. /\ UNCHANGED <<inpool, outpool>> /\ pc[p] \in {"got", "returned"} /\ pc'[p] = "idle"
        /\ pc[p] = "got" => held'[p] = held[p] \cup ({bpx[p]} \ {NoBuffer})
        /\ pc[p] = "returned" /\ error[p] => held'[p] = held[p]
        /\ pc[p] = "returned" /\ ~error[p] => held'[p] = held[p] \ {bpx[p]}
    BY <1>2, <1>8, UnlockStep
  <2>2. (Owned(p))' = Owned(p) /\ ~(Drifts(p))' /\ (Fresh(p))'
    BY <2>1 DEF Owned, Drifts, Fresh, Getting, Zapping
  <2>3. QED BY <1>1, <2>1, <2>2, QuietRing
<1>9. CASE Kill(p)
  <2>1. UNCHANGED <<inpool, outpool>> /\ pc'[p] = "idle" /\ held'[p] = {}
    BY <1>2, <1>9 DEF Kill, Goto, files
  <2>2. (Owned(p))' = {} /\ ~(Drifts(p))' /\ (Fresh(p))'
    BY <2>1 DEF Owned, Drifts, Fresh, Getting, Zapping
  <2>3. QED BY <1>1, <2>1, <2>2, QuietRing
<1>10. QED BY <1>3, <1>4, <1>5, <1>6, <1>7, <1>8, <1>9

(* allocate_buffers puts a new index into the pool.                        *)
LEMMA AllocateRing ==
  ASSUME LockInv, RingInv, NEW p \in Procs, allocate_buffers(p)
  PROVE  RingInv'
<1>1. /\ pc[p] = "allocate" /\ pc[p] \in Busy /\ Others(p)
      /\ pc \in [Procs -> Steps] /\ UNCHANGED <<outpool, held>>
  BY Local DEF allocate_buffers, Step, LockInv, Types, history, Busy, Defining
<1>2. /\ outpool = << >> /\ \A b \in Elems(inpool) : b < Capacity - left[p]
      /\ held[p] = {} /\ \A o \in Procs \ {p} : held[o] = {}
  BY <1>1, ProcFacts DEF InCall, LockInv, UserAlone, Files, Defining
<1>3. CASE left[p] > 0
  <2>1. pc' = pc /\ inpool' = Abd(inpool, Capacity - left[p])
    BY <1>3 DEF allocate_buffers
  <2>2. Capacity - left[p] \in Buffers /\ Capacity - left[p] \in Int
    BY <1>3, ProcFacts, MmPoolAssumption DEF Buffers
  <2>3. Capacity - left[p] \notin Elems(inpool)
    BY <1>2, <2>2
  <2>4. Distinct(inpool')
    BY <1>1, <2>1, <2>2, <2>3, AbdFacts, RingFacts
  <2>5. Elems(outpool') = {} /\ Distinct(outpool')
    BY <1>1, <1>2 DEF Elems, Distinct
  <2>6. (Owned(p))' = {} /\ ~(Drifts(p))' /\ (Fresh(p))'
    BY <1>1, <1>2, <2>1 DEF Owned, Drifts, Fresh, Getting, Zapping
  <2>7. QED BY <1>1, <1>2, <2>4, <2>5, <2>6, MoveRing
<1>4. CASE ~(left[p] > 0)
  <2>1. inpool' = inpool /\ pc'[p] = "idle"
    BY <1>1, <1>4 DEF allocate_buffers, Goto
  <2>2. (Owned(p))' = held[p] /\ Owned(p) = held[p] /\ ~(Drifts(p))' /\ (Fresh(p))'
    BY <1>1, <2>1 DEF Owned, Drifts, Fresh, Getting, Zapping
  <2>3. QED BY <1>1, <2>1, <2>2, QuietRing
<1>5. QED BY <1>3, <1>4

(* getbuff takes an index off the pool: it becomes its buffer.             *)
LEMMA GetRtdRing ==
  ASSUME LockInv, RingInv, NEW p \in Procs, get_rtd(p)
  PROVE  RingInv'
<1>1. /\ pc[p] = "get_rtd" /\ pc[p] \in Busy /\ Others(p)
      /\ pc \in [Procs -> Steps] /\ bpx \in [Procs -> 0 .. NoBuffer] /\ UNCHANGED <<outpool, held>>
      /\ Owned(p) = held[p]
  BY Local DEF get_rtd, Step, LockInv, Types, history, Busy, Locked, Owned, Getting, Zapping
<1>2. CASE inpool # << >>
  <2>1. /\ pc'[p] = "get_abd" /\ bpx'[p] = Top(inpool) /\ inpool' = Rtd(inpool)
    BY <1>1, <1>2 DEF get_rtd, Goto
  <2>2. /\ Distinct(Rtd(inpool)) /\ Elems(Rtd(inpool)) = Elems(inpool) \ {Top(inpool)}
        /\ Top(inpool) \in Elems(inpool) /\ Top(inpool) \in Buffers
    BY <1>1, <1>2, Pop, RingFacts
  <2>3. Top(inpool) # NoBuffer
    BY <2>2, MmPoolAssumption DEF Buffers, NoBuffer
  <2>4. /\ (Owned(p))' = held[p] \cup {Top(inpool)} /\ (Drift(p))' = Top(inpool)
        /\ (Fresh(p))' <=> Top(inpool) \notin held[p]
    BY <1>1, <2>1, <2>3 DEF Owned, Drift, Fresh, Getting
  <2>5. QED BY <1>1, <2>1, <2>2, <2>4, RingFacts, MoveRing
<1>3. CASE inpool = << >>
  <2>1. pc'[p] = "got" /\ bpx' = bpx /\ inpool' = inpool
    BY <1>1, <1>3 DEF get_rtd, Goto
  <2>2. bpx[p] = NoBuffer /\ NoBuffer \notin held[p]
    BY <1>1, ProcFacts, MmPoolAssumption DEF InCall, Buffers, NoBuffer
  <2>3. (Owned(p))' = held[p] /\ ~(Drifts(p))' /\ (Fresh(p))'
    BY <1>1, <2>1, <2>2 DEF Owned, Drifts, Fresh, Getting
  <2>4. QED BY <1>1, <2>1, <2>3, QuietRing
<1>4. QED BY <1>2, <1>3

(* getbuff puts it into the deque of the buffers that are out.             *)
LEMMA GetAbdRing ==
  ASSUME LockInv, RingInv, NEW p \in Procs, get_abd(p)
  PROVE  RingInv'
<1>1. /\ pc[p] = "get_abd" /\ pc[p] \in Busy /\ Others(p)
      /\ pc'[p] = "get_count" /\ outpool' = Abd(outpool, bpx[p]) /\ UNCHANGED <<inpool, held, bpx>>
  BY Local DEF get_abd, Goto, Step, LockInv, Types, locals, history, Busy, Locked
<1>2. bpx[p] \in Buffers /\ bpx[p] \notin Elems(inpool) \cup Elems(outpool)
  BY <1>1, ProcFacts, RingFacts DEF InCall, Drifts, Drift
<1>3. Distinct(outpool') /\ Elems(outpool') \subseteq Elems(outpool) \cup {bpx[p]}
  BY <1>1, <1>2, AbdFacts, RingFacts
<1>4. (Owned(p))' = Owned(p) /\ ~(Drifts(p))' /\ ((Fresh(p))' <=> Fresh(p))
  BY <1>1 DEF Owned, Drifts, Fresh, Getting
<1>5. QED BY <1>1, <1>2, <1>3, <1>4, RingFacts, MoveRing

(* The search pops an index.                                               *)
LEMMA SearchRing ==
  ASSUME LockInv, RingInv, NEW p \in Procs, search_deque(p)
  PROVE  RingInv'
<1>1. /\ pc[p] = "search" /\ pc[p] \in Busy /\ Others(p) /\ pc \in [Procs -> Steps]
      /\ x \in [Procs -> 0 .. NoBuffer] /\ error \in [Procs -> BOOLEAN] /\ ~error[p]
      /\ UNCHANGED <<inpool, held, bpx>> /\ Owned(p) = held[p]
  BY Local, SearchStep, ProcFacts DEF Step, LockInv, Types, InCall, Busy, Locked, Owned, Getting, Zapping
<1>2. CASE left[p] = 0
  <2>1. outpool' = outpool /\ pc'[p] = "returned" /\ error'[p]
    BY <1>1, <1>2, SearchStep
  <2>2. (Owned(p))' = held[p] /\ ~(Drifts(p))' /\ (Fresh(p))'
    BY <1>1, <2>1 DEF Owned, Drifts, Fresh, Getting, Zapping
  <2>3. QED BY <1>1, <2>1, <2>2, QuietRing
<1>3. CASE left[p] # 0
  <2>1. /\ outpool # << >> /\ outpool' = Rtd(outpool) /\ x' = [x EXCEPT ![p] = Top(outpool)] /\ error' = error
        /\ pc' = [pc EXCEPT ![p] = IF Top(outpool) = bpx[p] THEN "put_abd" ELSE "search_abd"]
    BY <1>3, SearchStep
  <2>2. /\ Distinct(Rtd(outpool)) /\ Elems(Rtd(outpool)) = Elems(outpool) \ {Top(outpool)}
        /\ Top(outpool) \in Elems(outpool)
    BY <1>1, <2>1, Pop, RingFacts
  <2>3. /\ pc'[p] \in {"put_abd", "search_abd"} /\ x'[p] = Top(outpool)
        /\ pc'[p] = "put_abd" => bpx'[p] = Top(outpool)
    BY <1>1, <2>1
  <2>4. (Owned(p))' = held[p] /\ (Drift(p))' = Top(outpool) /\ (Fresh(p))'
    BY <1>1, <2>3 DEF Owned, Drift, Fresh, Getting, Zapping
  <2>5. QED BY <1>1, <2>1, <2>2, <2>4, RingFacts, MoveRing
<1>4. QED BY <1>2, <1>3

(* The search puts it back.                                                *)
LEMMA SearchAbdRing ==
  ASSUME LockInv, RingInv, NEW p \in Procs, search_abd(p)
  PROVE  RingInv'
<1>1. /\ pc[p] = "search_abd" /\ pc[p] \in Busy /\ Others(p)
      /\ pc'[p] = "search" /\ outpool' = Abd(outpool, x[p]) /\ UNCHANGED <<inpool, held, bpx>>
  BY Local DEF search_abd, Goto, Step, LockInv, Types, Busy, Locked
<1>2. x[p] \in Buffers /\ x[p] \notin Elems(inpool) \cup Elems(outpool)
  BY <1>1, ProcFacts, RingFacts DEF InCall, Drifts, Drift
<1>3. Distinct(outpool') /\ Elems(outpool') \subseteq Elems(outpool) \cup {x[p]}
  BY <1>1, <1>2, AbdFacts, RingFacts
<1>4. (Owned(p))' = Owned(p) /\ ~(Drifts(p))' /\ (Fresh(p))'
  BY <1>1 DEF Owned, Drifts, Fresh, Getting, Zapping
<1>5. QED BY <1>1, <1>2, <1>3, <1>4, RingFacts, MoveRing

(* putbuff puts the index into the pool: it is no longer a buffer of the   *)
(* application, and was that of no other.                                  *)
LEMMA PutAbdRing ==
  ASSUME LockInv, RingInv, NEW p \in Procs, put_abd(p)
  PROVE  RingInv'
<1>1. /\ pc[p] = "put_abd" /\ pc[p] \in Busy /\ Others(p)
      /\ pc'[p] = "put_count" /\ inpool' = Abd(inpool, bpx[p]) /\ UNCHANGED <<outpool, held, bpx>>
  BY Local DEF put_abd, Goto, Step, LockInv, Types, locals, history, Busy, Locked
<1>2. bpx[p] \in held[p] /\ bpx[p] \in Buffers /\ bpx[p] \notin Elems(inpool) \cup Elems(outpool)
  BY <1>1, ProcFacts, RingFacts DEF InCall, Putting, Drifts, Drift
<1>3. Distinct(inpool') /\ Elems(inpool') \subseteq Elems(inpool) \cup {bpx[p]}
  BY <1>1, <1>2, AbdFacts, RingFacts
<1>4. (Owned(p))' = held[p] \ {bpx[p]} /\ Owned(p) = held[p] /\ ~(Drifts(p))' /\ (Fresh(p))'
  BY <1>1 DEF Owned, Drifts, Fresh, Getting, Zapping
<1>5. \A o \in Procs \ {p} : bpx[p] \notin held[o]
  BY <1>1, <1>2, <1>4, RingFacts
<1>6. QED BY <1>1, <1>2, <1>3, <1>4, <1>5, RingFacts, MoveRing

(* zap_pool pops an index that is out, or ends.                            *)
LEMMA ZapRtdRing ==
  ASSUME LockInv, RingInv, NEW p \in Procs, zap_rtd(p)
  PROVE  RingInv'
<1>1. /\ pc[p] = "zap_rtd" /\ pc[p] \in Busy /\ Others(p) /\ pc \in [Procs -> Steps]
      /\ bpx \in [Procs -> 0 .. NoBuffer] /\ held \in [Procs -> SUBSET Buffers]
      /\ inpool' = inpool /\ Owned(p) = {}
  BY Local DEF zap_rtd, Step, LockInv, Types, Busy, Zapping, Owned, Getting
<1>2. CASE outpool # << >>
  <2>1. /\ pc'[p] = "zap_abd" /\ bpx'[p] = Top(outpool) /\ outpool' = Rtd(outpool)
    BY <1>1, <1>2 DEF zap_rtd, Goto
  <2>2. /\ Distinct(Rtd(outpool)) /\ Elems(Rtd(outpool)) = Elems(outpool) \ {Top(outpool)}
        /\ Top(outpool) \in Elems(outpool)
    BY <1>1, <1>2, Pop, RingFacts
  <2>3. (Owned(p))' = {} /\ (Drift(p))' = Top(outpool) /\ (Fresh(p))'
    BY <1>1, <2>1 DEF Owned, Drift, Fresh, Getting, Zapping
  <2>4. QED BY <1>1, <2>1, <2>2, <2>3, RingFacts, MoveRing
<1>3. CASE outpool = << >>
  <2>1. pc'[p] = "idle" /\ held'[p] = {} /\ outpool' = outpool
    BY <1>1, <1>3 DEF zap_rtd, Goto
  <2>2. (Owned(p))' = {} /\ ~(Drifts(p))' /\ (Fresh(p))'
    BY <2>1 DEF Owned, Drifts, Fresh, Getting, Zapping
  <2>3. QED BY <1>1, <2>1, <2>2, QuietRing
<1>4. QED BY <1>2, <1>3

(* zap_pool puts it into the pool.                                         *)
LEMMA ZapAbdRing ==
  ASSUME LockInv, RingInv, NEW p \in Procs, zap_abd(p)
  PROVE  RingInv'
<1>1. /\ pc[p] = "zap_abd" /\ pc[p] \in Busy /\ Others(p)
      /\ pc'[p] = "zap_count" /\ inpool' = Abd(inpool, bpx[p]) /\ UNCHANGED <<outpool, held, bpx>>
  BY Local DEF zap_abd, Goto, Step, LockInv, Types, locals, history, Busy, Zapping
<1>2. bpx[p] \in Buffers /\ bpx[p] \notin Elems(inpool) \cup Elems(outpool)
  BY <1>1, ProcFacts, RingFacts DEF InCall, Drifts, Drift
<1>3. Distinct(inpool') /\ Elems(inpool') \subseteq Elems(inpool) \cup {bpx[p]}
  BY <1>1, <1>2, AbdFacts, RingFacts
<1>4. (Owned(p))' = {} /\ ~(Drifts(p))' /\ (Fresh(p))' /\ \A o \in Procs \ {p} : held[o] = {}
  BY <1>1 DEF Owned, Drifts, Fresh, Getting, Zapping, LockInv, UserAlone
<1>5. QED BY <1>1, <1>2, <1>3, <1>4, RingFacts, MoveRing

(* Every step keeps the indices in one place each.                         *)
LEMMA NextRing ==
  ASSUME LockInv, RingInv, [Next]_vars
  PROVE  RingInv'
<1>1. CASE UNCHANGED vars
  BY <1>1 DEF vars, files, locals, history, RingInv, DequesDisjoint, Ownership, Drifts, Drift, Owned, Fresh
<1>2. ASSUME NEW p \in Procs, Step(p) PROVE RingInv'
  BY <1>2, QuietStepsRing, AllocateRing, GetRtdRing, GetAbdRing, SearchRing, SearchAbdRing,
     PutAbdRing, ZapRtdRing, ZapAbdRing DEF Step
<1>3. ASSUME NEW p \in Procs,
             \/ mmpool_define_pool(p) \/ mmpool_open(p) \/ mmpool_close(p)
             \/ mmpool_getbuff(p) \/ mmpool_putbuff(p) \/ mmpool_zap_pool(p) \/ Kill(p)
      PROVE  RingInv'
  BY <1>3, QuietStepsRing
<1>4. QED BY <1>1, <1>2, <1>3 DEF Next

-----------------------------------------------------------------------------
(* The balance of a pool with n buffers in it, m out, a count r of the     *)
(* first and a damage d, while a indices are adrift and u not yet counted. *)
Level(n, m, r, d, a, u) ==
  /\ n + m + a <= Capacity /\ Capacity <= n + m + a + d
  /\ \E off \in - d .. d : r = (n + off + u) % UShort

Balanced(a, u) == bpcf => Level(Len(inpool), Len(outpool), remaining, damage, a, u)

(* The indices a process has in a local, and by how much the buffers in    *)
(* the pool fall short of the count.                                       *)
Adrift(p) == IF pc[p] = "allocate" THEN left[p] ELSE IF Drifts(p) THEN 1 ELSE 0
Uncounted(p) ==
  IF pc[p] = "allocate" THEN left[p]
  ELSE IF pc[p] \in {"get_abd", "get_count"} THEN 1
  ELSE IF pc[p] \in {"put_count", "zap_count"} THEN -1
  ELSE 0

Even(p) == Balanced(Adrift(p), Uncounted(p))

(* Every buffer is in a deque, adrift or lost with a killed process.       *)
BalanceInv ==
  /\ remaining < UShort
  /\ kills <= MaxKills /\ (kills = 0 => damage = 0)
  /\ \A p \in Procs : pc[p] \in Busy => Even(p)
  /\ (\A p \in Procs : pc[p] \notin Busy) => Balanced(0, 0)

(* A buffer that moves keeps the balance.                                  *)
LEMMA LevelMove ==
  ASSUME NEW n \in Nat, NEW m \in Nat, NEW r, NEW d \in Nat, NEW a \in Int, NEW u \in Int,
         NEW n1 \in Nat, NEW m1 \in Nat, NEW a1 \in Int, NEW u1 \in Int,
         Level(n, m, r, d, a, u), n + m + a = n1 + m1 + a1, n + u = n1 + u1
  PROVE  Level(n1, m1, r, d, a1, u1)
<1>1. n + m + a <= Capacity /\ Capacity <= n + m + a + d
  BY DEF Level
<1>2. PICK off \in - d .. d : r = (n + off + u) % UShort
  BY DEF Level
<1>3. n + off + u = n1 + off + u1
  OBVIOUS
<1>4. r = (n1 + off + u1) % UShort
  BY <1>2, <1>3
<1>5. QED BY <1>1, <1>4 DEF Level

(* An update of the count, which is a ushort.                              *)
LEMMA LevelCount ==
  ASSUME NEW n \in Nat, NEW m \in Nat, NEW r, NEW d \in Nat, NEW a \in Int, NEW u \in Int,
         NEW k \in Int, Level(n, m, r, d, a, u)
  PROVE  Level(n, m, (r + k) % UShort, d, a, u + k)
<1>1. PICK off \in - d .. d : r = (n + off + u) % UShort
  BY DEF Level
<1>2. n + off + u \in Int
  OBVIOUS
<1>3. \A i \in Int : ((i % UShort) + k) % UShort = (i + k) % UShort
  BY DEF UShort
<1>4. (r + k) % UShort = (n + off + u + k) % UShort
  BY <1>1, <1>2, <1>3
<1>5. n + off + u + k = n + off + (u + k)
  OBVIOUS
<1>6. (r + k) % UShort = (n + off + (u + k)) % UShort
  BY <1>4, <1>5
<1>7. QED BY <1>6 DEF Level

(* The indices adrift are lost with their process.                         *)
LEMMA LevelLose ==
  ASSUME NEW n \in Nat, NEW m \in Nat, NEW r, NEW d \in Nat, NEW a \in Nat, NEW u \in Int,
         NEW e \in Nat, NEW a1 \in Nat, NEW u1 \in Int,
         a1 <= a, a - a1 <= e, u - u1 <= e, u1 - u <= e, Level(n, m, r, d, a, u), Capacity \in Nat
  PROVE  Level(n, m, r, d + e, a1, u1)
<1>1. PICK off \in - d .. d : r = (n + off + u) % UShort
  BY DEF Level
<1>2. off + u - u1 \in - (d + e) .. d + e /\ n + off + u = n + (off + u - u1) + u1
  OBVIOUS
<1>3. r = (n + (off + u - u1) + u1) % UShort
  BY <1>1, <1>2
<1>4. n + m + a1 <= Capacity /\ Capacity <= n + m + a1 + (d + e)
  BY DEF Level
<1>5. QED BY <1>2, <1>3, <1>4 DEF Level

(* The numbers of a process.                                               *)
LEMMA CountFacts ==
  ASSUME LockInv, NEW p \in Procs
  PROVE  /\ Adrift(p) \in Nat /\ Uncounted(p) \in Int
         /\ Len(inpool) \in Nat /\ Len(outpool) \in Nat /\ remaining \in Nat /\ damage \in Nat
         /\ pc[p] \notin Busy => Adrift(p) = 0 /\ Uncounted(p) = 0
<1>1. left[p] \in Nat
  BY ProcFacts, MmPoolAssumption
<1>2. pc[p] \notin Busy => Adrift(p) = 0 /\ Uncounted(p) = 0
  BY DEF Adrift, Uncounted, Drifts, Busy, Locked, Defining, Zapping
<1>3. QED BY <1>1, <1>2, ProcFacts DEF Adrift, Uncounted, LockInv, Types

(* A step inside a call.                                                   *)
LEMMA BusyBalance ==
  ASSUME LockInv, BalanceInv, NEW p \in Procs, pc[p] \in Busy, Others(p),
         UNCHANGED <<kills, damage>>, remaining' < UShort, (Even(p))'
  PROVE  BalanceInv'
<1>1. \A o \in Procs \ {p} : pc'[o] \notin Busy
  BY Unique DEF Others
<1>2. pc'[p] \notin Busy => (Balanced(0, 0))'
  <2>1. pc'[p] \notin Busy => (Adrift(p))' = 0 /\ (Uncounted(p))' = 0
    BY DEF Adrift, Uncounted, Drifts, Busy, Locked, Defining, Zapping
  <2>2. QED BY <2>1 DEF Even
<1>3. QED BY <1>1, <1>2 DEF BalanceInv

(* What the invariant says while p is inside a call.                       *)
LEMMA BalanceFacts ==
  ASSUME LockInv, BalanceInv, NEW p \in Procs, pc[p] \in Busy, bpcf
  PROVE  Level(Len(inpool), Len(outpool), remaining, damage, Adrift(p), Uncounted(p))
BY DEF BalanceInv, Even, Balanced

(* The pool at the start.                                                  *)
LEMMA InitBalance == Init => BalanceInv
<1> SUFFICES ASSUME Init PROVE BalanceInv
  OBVIOUS
<1>1. Capacity \in Nat /\ Capacity < 65536 /\ MaxKills \in Nat /\ Defined \in BOOLEAN
  BY MmPoolAssumption
<1>2. \A p \in Procs : pc[p] \notin Busy
  BY DEF Init, Busy, Locked, Defining, Zapping
<1>3. Balanced(0, 0)
  <2>1. CASE Defined
    <3>1. inpool = [i \in 1 .. Capacity |-> Capacity - i] /\ outpool = << >> /\ remaining = Capacity /\ damage = 0
      BY <2>1 DEF Init
    <3>2. Len(inpool) = Capacity /\ Len(outpool) = 0
      BY <1>1, <3>1
    <3>3. Capacity = (Capacity + 0 + 0) % UShort
      BY <1>1 DEF UShort
    <3>4. Level(Capacity, 0, Capacity, 0, 0, 0)
      BY <1>1, <3>3 DEF Level
    <3>5. QED BY <3>1, <3>2, <3>4 DEF Balanced
  <2>2. CASE ~Defined
    BY <2>2 DEF Init, Balanced
  <2>3. QED BY <2>1, <2>2
<1>4. remaining < UShort
  BY <1>1 DEF Init, UShort
<1>5. QED BY <1>1, <1>2, <1>3, <1>4 DEF BalanceInv, Init

(* A step outside the locked part of a call.                               *)
LEMMA StartBalance ==
  ASSUME LockInv, BalanceInv, NEW p \in Procs, Others(p), pc[p] \notin Busy,
         UNCHANGED <<bpcf, inpool, outpool, remaining, kills, damage>>,
         (Adrift(p))' = 0, (Uncounted(p))' = 0,
         pc'[p] \in Busy => \A o \in Procs : pc[o] \notin Busy
  PROVE  BalanceInv'
<1>1. \A o \in Procs \ {p} : pc'[o] = pc[o] /\ ((Even(o))' <=> Even(o))
  BY DEF Others, Even, Balanced, Adrift, Uncounted, Drifts
<1>2. pc'[p] \in Busy => (Even(p))'
  BY DEF BalanceInv, Even, Balanced
<1>3. (\A o \in Procs : pc'[o] \notin Busy) => (Balanced(0, 0))'
  <2>1. (Balanced(0, 0))' <=> Balanced(0, 0)
    BY DEF Balanced
  <2>2. QED BY <1>1, <2>1 DEF BalanceInv
<1>4. \A o \in Procs : pc'[o] \in Busy => (Even(o))'
  BY <1>1, <1>2 DEF BalanceInv
<1>5. QED BY <1>3, <1>4 DEF BalanceInv

(* Nobody is inside a call when a process locks the pool or becomes its    *)
(* only user.                                                              *)
LEMMA StartsAlone ==
  ASSUME LockInv, Alone, NEW p \in Procs,
         \/ lock_pool(p)
         \/ mmpool_zap_pool(p)
         \/ mmpool_define_pool(p) /\ OnlyUser(p)
  PROVE  \A o \in Procs : pc[o] \notin Busy
<1>1. CASE lock_pool(p)
  <2>1. lock = "none" /\ pc[p] \in {"get", "put"}
    BY <1>1 DEF lock_pool
  <2>2. \A o \in Procs : pc[o] \notin Locked
    BY <2>1, MmPoolAssumption DEF LockInv, LockExclusive
  <2>3. \A o \in Procs : pc[o] \notin Defining \cup Zapping
    BY <2>1 DEF LockInv, UserAlone, Defining, Zapping
  <2>4. QED BY <2>2, <2>3 DEF Busy
<1>2. CASE mmpool_zap_pool(p) \/ (mmpool_define_pool(p) /\ OnlyUser(p))
  <2>1. \A o \in Procs : pc[o] = "idle"
    BY <1>2 DEF mmpool_zap_pool, mmpool_define_pool, OnlyUser
  <2>2. QED BY <2>1 DEF Busy, Locked, Defining, Zapping
<1>3. QED BY <1>1, <1>2

(* Definition, open, close, the start of a call and the lock.              *)
LEMMA QuietBalance ==
  ASSUME LockInv, Alone, BalanceInv, NEW p \in Procs,
         \/ mmpool_define_pool(p) \/ mmpool_open(p) \/ mmpool_close(p)
         \/ mmpool_getbuff(p) \/ mmpool_putbuff(p) \/ mmpool_zap_pool(p) \/ lock_pool(p)
  PROVE  BalanceInv'
<1>1. Others(p) /\ pc \in [Procs -> Steps]
  BY Local DEF Step, LockInv, Types
<1>2. UNCHANGED <<bpcf, inpool, outpool, remaining, kills, damage>>
  BY DEF mmpool_define_pool, mmpool_open, mmpool_close, mmpool_getbuff, mmpool_putbuff,
         mmpool_zap_pool, lock_pool, files, history
<1>3. /\ pc[p] \in {"idle", "get", "put"}
      /\ \/ pc'[p] \in {"idle", "get", "put"}
         \/ /\ pc'[p] \in {"new_bpmf", "zap_rtd", "get_rtd", "search"}
            /\ \/ lock_pool(p)
               \/ mmpool_zap_pool(p)
               \/ mmpool_define_pool(p) /\ OnlyUser(p)
  <2>1. CASE mmpool_define_pool(p)
    BY <1>1, <2>1 DEF mmpool_define_pool, Goto
  <2>2. CASE mmpool_open(p) \/ mmpool_close(p)
    BY <1>1, <2>2 DEF mmpool_open, mmpool_close
  <2>3. CASE mmpool_getbuff(p) \/ mmpool_putbuff(p) \/ mmpool_zap_pool(p) \/ lock_pool(p)
    BY <1>1, <2>3 DEF mmpool_getbuff, mmpool_putbuff, mmpool_zap_pool, lock_pool, Goto
  <2>4. QED BY <2>1, <2>2, <2>3
<1>4. pc[p] \notin Busy /\ (Adrift(p))' = 0 /\ (Uncounted(p))' = 0
  BY <1>3 DEF Adrift, Uncounted, Drifts, Busy, Locked, Defining, Zapping
<1>5. pc'[p] \in Busy => \A o \in Procs : pc[o] \notin Busy
  BY <1>3, StartsAlone DEF Busy, Locked, Defining, Zapping
<1>6. QED BY <1>1, <1>2, <1>4, <1>5, StartBalance

(* The files of a new pool: what is in it, the count and what is to come.  *)
LEMMA NewBalance ==
  ASSUME LockInv, BalanceInv, NEW p \in Procs, new_bpmf(p) \/ new_bpcf(p)
  PROVE  BalanceInv'
<1>1. Others(p) /\ pc[p] \in Busy /\ pc \in [Procs -> Steps]
  BY Local DEF Step, LockInv, Types, new_bpmf, new_bpcf, Busy, Defining
<1>2. Capacity \in Nat /\ Capacity < 65536
  BY MmPoolAssumption
<1>3. CASE new_bpmf(p)
  <2>1. /\ pc[p] = "new_bpmf" /\ bpcf' = bpcf /\ remaining' = Capacity /\ UNCHANGED <<kills, damage>>
    BY <1>3 DEF new_bpmf, history
  <2>2. ~bpcf
    BY <2>1 DEF LockInv, Files
  <2>3. remaining' < UShort /\ (Even(p))'
    BY <1>2, <2>1, <2>2 DEF Even, Balanced, UShort
  <2>4. QED BY <1>1, <2>1, <2>3, BusyBalance
<1>4. CASE new_bpcf(p)
  <2>1. /\ pc[p] = "new_bpcf" /\ pc'[p] = "allocate" /\ left'[p] = Capacity
        /\ UNCHANGED <<inpool, outpool, remaining, kills, damage>>
    BY <1>1, <1>4 DEF new_bpcf, Goto, history, LockInv, Types
  <2>2. inpool = << >> /\ outpool = << >> /\ remaining = Capacity
    BY <2>1 DEF LockInv, Files
  <2>3. (Adrift(p))' = Capacity /\ (Uncounted(p))' = Capacity
    BY <2>1 DEF Adrift, Uncounted
  <2>4. Level(0, 0, Capacity, damage, Capacity, Capacity)
    <3>1. Capacity = (0 + 0 + Capacity) % UShort
      BY <1>2 DEF UShort
    <3>2. damage \in Nat /\ 0 \in - damage .. damage
      BY DEF LockInv, Types
    <3>3. QED BY <1>2, <3>1, <3>2 DEF Level
  <2>5. (Even(p))'
    BY <2>1, <2>2, <2>3, <2>4 DEF Even, Balanced
  <2>6. remaining' < UShort
    BY <2>1 DEF BalanceInv
  <2>7. QED BY <1>1, <2>1, <2>5, <2>6, BusyBalance
<1>5. QED BY <1>3, <1>4

(* A step that moves a buffer between a deque and a local, with the count  *)
(* as it is.                                                               *)
LEMMA MoveBalance ==
  ASSUME LockInv, BalanceInv, NEW p \in Procs, pc[p] \in Busy, Others(p), bpcf, bpcf',
         UNCHANGED <<remaining, kills, damage>>,
         Len(inpool') \in Nat, Len(outpool') \in Nat, (Adrift(p))' \in Int, (Uncounted(p))' \in Int,
         Len(inpool) + Len(outpool) + Adrift(p) = Len(inpool') + Len(outpool') + (Adrift(p))',
         Len(inpool) + Uncounted(p) = Len(inpool') + (Uncounted(p))'
  PROVE  BalanceInv'
<1> DEFINE n == Len(inpool)
           m == Len(outpool)
           a == Adrift(p)
           u == Uncounted(p)
           n1 == Len(inpool')
           m1 == Len(outpool')
           a1 == (Adrift(p))'
           u1 == (Uncounted(p))'
<1>1. n \in Nat /\ m \in Nat /\ a \in Int /\ u \in Int /\ damage \in Nat
  BY CountFacts
<1>2. Level(n, m, remaining, damage, a, u)
  BY BalanceFacts
<1>3. n1 \in Nat /\ m1 \in Nat /\ a1 \in Int /\ u1 \in Int /\ n + m + a = n1 + m1 + a1 /\ n + u = n1 + u1
  OBVIOUS
<1>4. (Even(p))' <=> Level(n1, m1, remaining, damage, a1, u1)
  BY DEF Even, Balanced
<1> HIDE DEF n, m, a, u, n1, m1, a1, u1
<1>5. Level(n1, m1, remaining, damage, a1, u1)
  BY <1>1, <1>2, <1>3, LevelMove
<1>6. remaining' < UShort
  BY DEF BalanceInv
<1>7. QED BY <1>4, <1>5, <1>6, BusyBalance

(* A step of the count.                                                    *)
LEMMA CountBalance ==
  ASSUME LockInv, BalanceInv, NEW p \in Procs, pc[p] \in Busy, Others(p), bpcf,
         UNCHANGED <<bpcf, inpool, outpool, kills, damage>>,
         NEW k \in Int, Bump(k), (Adrift(p))' = Adrift(p), (Uncounted(p))' = Uncounted(p) + k
  PROVE  BalanceInv'
<1> DEFINE n == Len(inpool)
           m == Len(outpool)
           a == Adrift(p)
           u == Uncounted(p)
<1>1. n \in Nat /\ m \in Nat /\ a \in Int /\ u \in Int /\ damage \in Nat /\ remaining \in Nat
  BY CountFacts
<1>2. Level(n, m, remaining, damage, a, u)
  BY BalanceFacts
<1>3. remaining' = (remaining + k) % UShort
  BY DEF Bump
<1>4. (Even(p))' <=> Level(n, m, remaining', damage, a, u + k)
  BY DEF Even, Balanced
<1> HIDE DEF n, m, a, u
<1>5. Level(n, m, (remaining + k) % UShort, damage, a, u + k)
  BY <1>1, <1>2, LevelCount
<1>6. remaining' < UShort
  BY <1>1, <1>3 DEF UShort
<1>7. QED BY <1>3, <1>4, <1>5, <1>6, BusyBalance

(* Inside a call that has a buffer adrift no deque is full.                *)
LEMMA Room ==
  ASSUME LockInv, BalanceInv, NEW p \in Procs, pc[p] \in Busy, bpcf, Adrift(p) > 0
  PROVE  Len(inpool) < Capacity /\ Len(outpool) < Capacity
<1>1. Level(Len(inpool), Len(outpool), remaining, damage, Adrift(p), Uncounted(p))
  BY BalanceFacts
<1>2. Len(inpool) \in Nat /\ Len(outpool) \in Nat /\ Adrift(p) \in Nat /\ Capacity \in Nat
  BY CountFacts, MmPoolAssumption
<1>3. QED BY <1>1, <1>2 DEF Level

(* Where the pool is open, or being filled, its files are there.           *)
LEMMA FilesThere ==
  ASSUME LockInv, NEW p \in Procs, pc[p] \in Locked \cup Zapping \cup {"allocate"}
  PROVE  bpcf /\ pc[p] \in Busy
BY DEF LockInv, LockExclusive, Files, Busy, Defining

(* The push of an index that is adrift.                                    *)
LEMMA PushFacts ==
  ASSUME LockInv, BalanceInv, NEW p \in Procs, pc[p] \in Busy, bpcf, Adrift(p) > 0, NEW b \in Buffers
  PROVE  /\ Len(Abd(inpool, b)) = Len(inpool) + 1 /\ Len(Abd(outpool, b)) = Len(outpool) + 1
         /\ Elems(Abd(inpool, b)) = Elems(inpool) \cup {b}
         /\ Elems(Abd(outpool, b)) = Elems(outpool) \cup {b}
         /\ Abd(outpool, b) = <<b>> \o outpool
         /\ Len(inpool) + 1 \in Nat /\ Len(outpool) + 1 \in Nat
BY Room, AbdFacts, ProcFacts

(* allocate_buffers.                                                       *)
LEMMA AllocateBalance ==
  ASSUME LockInv, BalanceInv, NEW p \in Procs, allocate_buffers(p)
  PROVE  BalanceInv'
<1>1. /\ pc[p] = "allocate" /\ Others(p) /\ bpcf /\ pc[p] \in Busy
      /\ pc \in [Procs -> Steps] /\ left \in [Procs -> 0 .. Capacity]
      /\ UNCHANGED <<bpcf, outpool, remaining, kills, damage>>
  BY Local, FilesThere DEF allocate_buffers, Step, LockInv, Types, history
<1>2. Adrift(p) = left[p] /\ Uncounted(p) = left[p] /\ left[p] \in Nat /\ left[p] <= Capacity
  BY <1>1, ProcFacts, MmPoolAssumption DEF Adrift, Uncounted
<1>3. Len(inpool) \in Nat /\ Len(outpool) \in Nat
  BY CountFacts
<1>4. CASE left[p] > 0
  <2>1. pc' = pc /\ inpool' = Abd(inpool, Capacity - left[p]) /\ left'[p] = left[p] - 1
    BY <1>1, <1>4 DEF allocate_buffers
  <2>2. Capacity - left[p] \in Buffers
    BY <1>2, <1>4, MmPoolAssumption DEF Buffers
  <2>3. Len(inpool') = Len(inpool) + 1 /\ Len(inpool) + 1 \in Nat
    BY <1>1, <1>2, <1>4, <2>1, <2>2, PushFacts
  <2>4. (Adrift(p))' = left[p] - 1 /\ (Uncounted(p))' = left[p] - 1
    BY <1>1, <2>1 DEF Adrift, Uncounted
  <2>5. /\ Len(inpool') \in Nat /\ Len(outpool') \in Nat /\ (Adrift(p))' \in Int /\ (Uncounted(p))' \in Int
        /\ Len(inpool) + Len(outpool) + Adrift(p) = Len(inpool') + Len(outpool') + (Adrift(p))'
        /\ Len(inpool) + Uncounted(p) = Len(inpool') + (Uncounted(p))'
    BY <1>1, <1>2, <1>3, <2>3, <2>4
  <2>6. QED BY <1>1, <2>5, MoveBalance
<1>5. CASE ~(left[p] > 0)
  <2>1. pc'[p] = "idle" /\ inpool' = inpool
    BY <1>1, <1>5 DEF allocate_buffers, Goto
  <2>2. (Adrift(p))' = 0 /\ (Uncounted(p))' = 0 /\ left[p] = 0
    BY <1>2, <1>5, <2>1 DEF Adrift, Uncounted, Drifts
  <2>3. /\ Len(inpool') \in Nat /\ Len(outpool') \in Nat /\ (Adrift(p))' \in Int /\ (Uncounted(p))' \in Int
        /\ Len(inpool) + Len(outpool) + Adrift(p) = Len(inpool') + Len(outpool') + (Adrift(p))'
        /\ Len(inpool) + Uncounted(p) = Len(inpool') + (Uncounted(p))'
    BY <1>1, <1>2, <1>3, <2>1, <2>2
  <2>4. QED BY <1>1, <2>3, MoveBalance
<1>6. QED BY <1>4, <1>5

(* A pop: of getbuff, of the search, of zap_pool.                          *)
LEMMA PopBalance ==
  ASSUME LockInv, BalanceInv, NEW p \in Procs, get_rtd(p) \/ search_deque(p) \/ zap_rtd(p)
  PROVE  BalanceInv'
<1>1. /\ pc[p] \in {"get_rtd", "search", "zap_rtd"} /\ Others(p) /\ bpcf /\ pc[p] \in Busy
      /\ pc \in [Procs -> Steps] /\ UNCHANGED <<bpcf, remaining, kills, damage>>
  <2>1. /\ pc[p] \in {"get_rtd", "search", "zap_rtd"} /\ Others(p)
        /\ pc \in [Procs -> Steps] /\ UNCHANGED <<bpcf, remaining, kills, damage>>
    BY Local DEF get_rtd, search_deque, zap_rtd, Step, LockInv, Types, history
  <2>2. QED BY <2>1, FilesThere DEF Locked, Zapping
<1>2. Adrift(p) = 0 /\ Uncounted(p) = 0 /\ Len(inpool) \in Nat /\ Len(outpool) \in Nat
  BY <1>1, CountFacts DEF Adrift, Uncounted, Drifts
<1>3. \/ /\ UNCHANGED <<inpool, outpool>> /\ pc'[p] \in {"got", "returned", "idle"}
      \/ /\ pc'[p] = "get_abd" /\ inpool # << >> /\ inpool' = Rtd(inpool) /\ outpool' = outpool
      \/ /\ pc'[p] \in {"put_abd", "search_abd", "zap_abd"} /\ inpool' = inpool
         /\ outpool # << >> /\ outpool' = Rtd(outpool)
  <2>1. CASE get_rtd(p)
    BY <1>1, <2>1 DEF get_rtd, Goto
  <2>2. CASE search_deque(p)
    BY <1>1, <2>2, SearchStep
  <2>3. CASE zap_rtd(p)
    BY <1>1, <2>3 DEF zap_rtd, Goto
  <2>4. QED BY <2>1, <2>2, <2>3
<1>4. CASE UNCHANGED <<inpool, outpool>> /\ pc'[p] \in {"got", "returned", "idle"}
  <2>1. (Adrift(p))' = 0 /\ (Uncounted(p))' = 0
    BY <1>4 DEF Adrift, Uncounted, Drifts
  <2>2. /\ Len(inpool') \in Nat /\ Len(outpool') \in Nat /\ (Adrift(p))' \in Int /\ (Uncounted(p))' \in Int
        /\ Len(inpool) + Len(outpool) + Adrift(p) = Len(inpool') + Len(outpool') + (Adrift(p))'
        /\ Len(inpool) + Uncounted(p) = Len(inpool') + (Uncounted(p))'
    BY <1>2, <1>4, <2>1
  <2>3. QED BY <1>1, <2>2, MoveBalance
<1>5. CASE pc'[p] = "get_abd" /\ inpool # << >> /\ inpool' = Rtd(inpool) /\ outpool' = outpool
  <2>1. (Adrift(p))' = 1 /\ (Uncounted(p))' = 1
    BY <1>5 DEF Adrift, Uncounted, Drifts
  <2>2. Len(inpool') = Len(inpool) - 1 /\ Len(inpool) - 1 \in Nat
    BY <1>2, <1>5, Pop, ProcFacts
  <2>3. /\ Len(inpool') \in Nat /\ Len(outpool') \in Nat /\ (Adrift(p))' \in Int /\ (Uncounted(p))' \in Int
        /\ Len(inpool) + Len(outpool) + Adrift(p) = Len(inpool') + Len(outpool') + (Adrift(p))'
        /\ Len(inpool) + Uncounted(p) = Len(inpool') + (Uncounted(p))'
    BY <1>2, <1>5, <2>1, <2>2
  <2>4. QED BY <1>1, <2>3, MoveBalance
<1>6. CASE /\ pc'[p] \in {"put_abd", "search_abd", "zap_abd"} /\ inpool' = inpool
           /\ outpool # << >> /\ outpool' = Rtd(outpool)
  <2>1. (Adrift(p))' = 1 /\ (Uncounted(p))' = 0
    BY <1>6 DEF Adrift, Uncounted, Drifts
  <2>2. Len(outpool') = Len(outpool) - 1 /\ Len(outpool) - 1 \in Nat
    BY <1>2, <1>6, Pop, ProcFacts
  <2>3. /\ Len(inpool') \in Nat /\ Len(outpool') \in Nat /\ (Adrift(p))' \in Int /\ (Uncounted(p))' \in Int
        /\ Len(inpool) + Len(outpool) + Adrift(p) = Len(inpool') + Len(outpool') + (Adrift(p))'
        /\ Len(inpool) + Uncounted(p) = Len(inpool') + (Uncounted(p))'
    BY <1>2, <1>6, <2>1, <2>2
  <2>4. QED BY <1>1, <2>3, MoveBalance
<1>7. QED BY <1>3, <1>4, <1>5, <1>6

(* A push: of getbuff, of the search, of putbuff, of zap_pool.             *)
LEMMA PushBalance ==
  ASSUME LockInv, BalanceInv, NEW p \in Procs,
         get_abd(p) \/ search_abd(p) \/ put_abd(p) \/ zap_abd(p)
  PROVE  BalanceInv'
<1>1. /\ pc[p] \in {"get_abd", "search_abd", "put_abd", "zap_abd"} /\ Others(p) /\ bpcf /\ pc[p] \in Busy
      /\ pc \in [Procs -> Steps] /\ UNCHANGED <<bpcf, remaining, kills, damage>>
  <2>1. /\ pc[p] \in {"get_abd", "search_abd", "put_abd", "zap_abd"} /\ Others(p)
        /\ pc \in [Procs -> Steps] /\ UNCHANGED <<bpcf, remaining, kills, damage>>
    BY Local DEF get_abd, search_abd, put_abd, zap_abd, Step, LockInv, Types, history
  <2>2. QED BY <2>1, FilesThere DEF Locked, Zapping
<1>2. Adrift(p) = 1 /\ Len(inpool) \in Nat /\ Len(outpool) \in Nat /\ Adrift(p) > 0
  BY <1>1, CountFacts DEF Adrift, Drifts
<1>3. Drift(p) \in Buffers
  <2>1. held[p] \subseteq Buffers /\ InCall(p)
    BY ProcFacts
  <2>2. QED BY <1>1, <2>1 DEF Drift, InCall, Putting
<1>4. \/ /\ pc[p] \in {"get_abd", "search_abd"} /\ inpool' = inpool /\ outpool' = Abd(outpool, Drift(p))
         /\ (pc[p] = "get_abd" /\ pc'[p] = "get_count") \/ (pc[p] = "search_abd" /\ pc'[p] = "search")
      \/ /\ pc[p] \in {"put_abd", "zap_abd"} /\ outpool' = outpool /\ inpool' = Abd(inpool, Drift(p))
         /\ pc'[p] \in {"put_count", "zap_count"}
  BY <1>1 DEF get_abd, search_abd, put_abd, zap_abd, Goto, Drift
<1>5. CASE /\ pc[p] \in {"get_abd", "search_abd"} /\ inpool' = inpool /\ outpool' = Abd(outpool, Drift(p))
           /\ (pc[p] = "get_abd" /\ pc'[p] = "get_count") \/ (pc[p] = "search_abd" /\ pc'[p] = "search")
  <2>1. (Adrift(p))' = 0 /\ (Uncounted(p))' = Uncounted(p) /\ Uncounted(p) \in Int
    BY <1>5 DEF Adrift, Uncounted, Drifts
  <2>2. Len(outpool') = Len(outpool) + 1 /\ Len(outpool) + 1 \in Nat
    BY <1>1, <1>2, <1>3, <1>5, PushFacts
  <2>3. /\ Len(inpool') \in Nat /\ Len(outpool') \in Nat /\ (Adrift(p))' \in Int /\ (Uncounted(p))' \in Int
        /\ Len(inpool) + Len(outpool) + Adrift(p) = Len(inpool') + Len(outpool') + (Adrift(p))'
        /\ Len(inpool) + Uncounted(p) = Len(inpool') + (Uncounted(p))'
    BY <1>2, <1>5, <2>1, <2>2
  <2>4. QED BY <1>1, <2>3, MoveBalance
<1>6. CASE /\ pc[p] \in {"put_abd", "zap_abd"} /\ outpool' = outpool /\ inpool' = Abd(inpool, Drift(p))
           /\ pc'[p] \in {"put_count", "zap_count"}
  <2>1. (Adrift(p))' = 0 /\ (Uncounted(p))' = -1 /\ Uncounted(p) = 0
    BY <1>6 DEF Adrift, Uncounted, Drifts
  <2>2. Len(inpool') = Len(inpool) + 1 /\ Len(inpool) + 1 \in Nat
    BY <1>1, <1>2, <1>3, <1>6, PushFacts
  <2>3. /\ Len(inpool') \in Nat /\ Len(outpool') \in Nat /\ (Adrift(p))' \in Int /\ (Uncounted(p))' \in Int
        /\ Len(inpool) + Len(outpool) + Adrift(p) = Len(inpool') + Len(outpool') + (Adrift(p))'
        /\ Len(inpool) + Uncounted(p) = Len(inpool') + (Uncounted(p))'
    BY <1>2, <1>6, <2>1, <2>2
  <2>4. QED BY <1>1, <2>3, MoveBalance
<1>7. QED BY <1>4, <1>5, <1>6

(* The counts, and the return from a call.                                 *)
LEMMA BumpBalance ==
  ASSUME LockInv, BalanceInv, NEW p \in Procs,
         get_count(p) \/ put_count(p) \/ zap_count(p) \/ unlock_pool(p)
  PROVE  BalanceInv'
<1>1. Others(p) /\ pc \in [Procs -> Steps]
  BY Local DEF Step, LockInv, Types
<1>2. CASE get_count(p)
  <2>1. /\ pc[p] = "get_count" /\ pc'[p] = "got" /\ Bump(-1)
        /\ UNCHANGED <<bpcf, inpool, outpool, kills, damage>>
    BY <1>1, <1>2 DEF get_count, Goto, history
  <2>2. Adrift(p) = 0 /\ Uncounted(p) = 1 /\ (Adrift(p))' = 0 /\ (Uncounted(p))' = 0
    BY <2>1 DEF Adrift, Uncounted, Drifts
  <2>3. bpcf /\ pc[p] \in Busy /\ 0 = 1 + (-1) /\ -1 \in Int
    BY <2>1, FilesThere DEF Locked
  <2>4. QED BY <1>1, <2>1, <2>2, <2>3, CountBalance
<1>3. CASE put_count(p) \/ zap_count(p)
  <2>1. /\ \/ pc[p] = "put_count" /\ pc'[p] = "returned"
           \/ pc[p] = "zap_count" /\ pc'[p] = "zap_rtd"
        /\ Bump(1) /\ UNCHANGED <<bpcf, inpool, outpool, kills, damage>>
    BY <1>1, <1>3 DEF put_count, zap_count, Goto, history
  <2>2. Adrift(p) = 0 /\ Uncounted(p) = -1 /\ (Adrift(p))' = 0 /\ (Uncounted(p))' = 0
    BY <2>1 DEF Adrift, Uncounted, Drifts
  <2>3. bpcf /\ pc[p] \in Busy /\ 0 = -1 + 1 /\ 1 \in Int
    BY <2>1, FilesThere DEF Locked, Zapping
  <2>4. QED BY <1>1, <2>1, <2>2, <2>3, CountBalance
<1>4. CASE unlock_pool(p)
  <2>1. /\ pc[p] \in {"got", "returned"} /\ pc'[p] = "idle"
        /\ UNCHANGED <<bpcf, inpool, outpool, remaining, kills, damage>>
    BY <1>1, <1>4, UnlockStep
  <2>2. Adrift(p) = 0 /\ Uncounted(p) = 0 /\ (Adrift(p))' = 0 /\ (Uncounted(p))' = 0
    BY <2>1 DEF Adrift, Uncounted, Drifts
  <2>3. bpcf /\ pc[p] \in Busy
    BY <2>1, FilesThere DEF Locked
  <2>4. Len(inpool) \in Nat /\ Len(outpool) \in Nat
    BY CountFacts
  <2>5. /\ Len(inpool') \in Nat /\ Len(outpool') \in Nat /\ (Adrift(p))' \in Int /\ (Uncounted(p))' \in Int
        /\ Len(inpool) + Len(outpool) + Adrift(p) = Len(inpool') + Len(outpool') + (Adrift(p))'
        /\ Len(inpool) + Uncounted(p) = Len(inpool') + (Uncounted(p))'
    BY <2>1, <2>2, <2>4
  <2>6. QED BY <1>1, <2>1, <2>3, <2>5, MoveBalance
<1>5. QED BY <1>2, <1>3, <1>4

(* A kill: what the process had adrift is the damage.                      *)
LEMMA KillBalance ==
  ASSUME LockInv, BalanceInv, NEW p \in Procs, Kill(p)
  PROVE  BalanceInv'
<1>1. /\ Others(p) /\ pc'[p] = "idle" /\ kills < MaxKills /\ kills' = kills + 1
      /\ UNCHANGED <<bpcf, inpool, outpool, remaining>>
      /\ damage' = damage + (IF pc[p] \in Defining THEN Capacity ELSE 1)
  BY Local DEF Kill, Goto, files, LockInv, Types
<1>2. PICK e \in Nat : damage' = damage + e /\ e >= 1 /\ (pc[p] \in Defining => e = Capacity)
  <2>1. Capacity \in Nat /\ Capacity >= 1
    BY MmPoolAssumption
  <2>2. QED BY <1>1, <2>1
<1>3. kills' <= MaxKills /\ (kills' = 0 => damage' = 0) /\ remaining' < UShort
  BY <1>1, MmPoolAssumption DEF BalanceInv, LockInv, Types
<1>4. /\ Len(inpool) \in Nat /\ Len(outpool) \in Nat /\ damage \in Nat /\ Capacity \in Nat
      /\ \A o \in Procs : Adrift(o) \in Nat /\ Uncounted(o) \in Int
  BY CountFacts, MmPoolAssumption DEF LockInv, Types
<1>5. \A o \in Procs \ {p} : pc'[o] = pc[o] /\ (Adrift(o))' = Adrift(o) /\ (Uncounted(o))' = Uncounted(o)
  BY <1>1 DEF Others, Adrift, Uncounted, Drifts
<1>6. ASSUME NEW o \in Procs, pc'[o] \in Busy PROVE (Even(o))'
  <2>1. o # p /\ pc[o] \in Busy
    BY <1>1, <1>5, <1>6 DEF Busy, Locked, Defining, Zapping
  <2>2. ASSUME bpcf PROVE Level(Len(inpool), Len(outpool), remaining, damage + e, Adrift(o), Uncounted(o))
    <3>1. Level(Len(inpool), Len(outpool), remaining, damage, Adrift(o), Uncounted(o))
      BY <2>1, <2>2, BalanceFacts
    <3>2. /\ Adrift(o) - Adrift(o) <= e /\ Uncounted(o) - Uncounted(o) <= e /\ Adrift(o) <= Adrift(o)
          /\ Adrift(o) \in Nat /\ Uncounted(o) \in Int
      BY <1>4
    <3>3. QED BY <1>4, <3>1, <3>2, LevelLose
  <2>3. QED BY <1>1, <1>2, <1>5, <2>1, <2>2 DEF Even, Balanced
<1>7. ASSUME \A o \in Procs : pc'[o] \notin Busy PROVE (Balanced(0, 0))'
  <2>1. \A o \in Procs \ {p} : pc[o] \notin Busy
    BY <1>5, <1>7
  <2>2. ASSUME bpcf PROVE Level(Len(inpool), Len(outpool), remaining, damage + e, 0, 0)
    <3>1. Level(Len(inpool), Len(outpool), remaining, damage, Adrift(p), Uncounted(p))
      <4>1. CASE pc[p] \in Busy
        BY <2>2, <4>1, BalanceFacts
      <4>2. CASE pc[p] \notin Busy
        <5>1. Balanced(0, 0) /\ Adrift(p) = 0 /\ Uncounted(p) = 0
          BY <2>1, <4>2, CountFacts DEF BalanceInv
        <5>2. QED BY <2>2, <5>1 DEF Balanced
      <4>3. QED BY <4>1, <4>2
    <3>2. /\ Adrift(p) - 0 <= e /\ Uncounted(p) - 0 <= e /\ 0 - Uncounted(p) <= e /\ 0 <= Adrift(p)
      <4>1. CASE pc[p] = "allocate"
        <5>1. e = Capacity /\ Adrift(p) = left[p] /\ Uncounted(p) = left[p] /\ left[p] \in Nat /\ left[p] <= Capacity
          BY <1>2, <1>4, <4>1, ProcFacts DEF Defining, Adrift, Uncounted
        <5>2. QED BY <1>4, <5>1
      <4>2. CASE pc[p] # "allocate"
        <5>1. Adrift(p) \in {0, 1} /\ Uncounted(p) \in {-1, 0, 1}
          BY <4>2 DEF Adrift, Uncounted
        <5>2. QED BY <1>2, <5>1
      <4>3. QED BY <4>1, <4>2
    <3>3. PICK a \in Nat, u \in Int : a = Adrift(p) /\ u = Uncounted(p)
      BY <1>4
    <3>4. PICK z \in Nat : z = 0
      OBVIOUS
    <3>5. /\ z <= a /\ a - z <= e /\ u - z <= e /\ z - u <= e /\ z \in Int
          /\ Level(Len(inpool), Len(outpool), remaining, damage, a, u)
      BY <3>1, <3>2, <3>3, <3>4
    <3>6. Level(Len(inpool), Len(outpool), remaining, damage + e, z, z)
      BY <1>4, <3>5, LevelLose
    <3>7. QED BY <3>4, <3>6
  <2>3. QED BY <1>1, <1>2, <2>2 DEF Balanced
<1>8. QED BY <1>3, <1>6, <1>7 DEF BalanceInv

(* Every step keeps the balance.                                           *)
LEMMA NextBalance ==
  ASSUME LockInv, Alone, BalanceInv, [Next]_vars
  PROVE  BalanceInv'
<1>1. CASE UNCHANGED vars
  BY <1>1 DEF vars, files, locals, history, BalanceInv, Even, Balanced, Adrift, Uncounted, Drifts
<1>2. ASSUME NEW p \in Procs, Step(p) PROVE BalanceInv'
  BY <1>2, QuietBalance, NewBalance, AllocateBalance, PopBalance, PushBalance, BumpBalance DEF Step
<1>3. ASSUME NEW p \in Procs,
             \/ mmpool_define_pool(p) \/ mmpool_open(p) \/ mmpool_close(p)
             \/ mmpool_getbuff(p) \/ mmpool_putbuff(p) \/ mmpool_zap_pool(p) \/ Kill(p)
      PROVE  BalanceInv'
  BY <1>3, QuietBalance, KillBalance
<1>4. QED BY <1>1, <1>2, <1>3 DEF Next

-----------------------------------------------------------------------------
(* The buffers that are out, and the one adrift in p, are those of the     *)
(* applications.                                                           *)
Adrifts(p) == IF Drifts(p) THEN {Drift(p)} ELSE {}
AllOwned   == UNION { Owned(p) : p \in Procs }
Rest(p)    == UNION { Owned(o) : o \in Procs \ {p} }
Settled(p) == Elems(outpool) \cup Adrifts(p) = AllOwned

(* The index that is searched is among those the search has yet to see.    *)
Ahead(p, n) == \E i \in 1 .. Len(outpool) : i > Len(outpool) - n /\ outpool[i] = bpx[p]

Found(p) ==
  /\ error[p] => cut \/ kills > 0
  /\ pc[p] = "search_abd" => x[p] # bpx[p]
  /\ pc[p] = "search" /\ ~cut /\ kills = 0 => Ahead(p, left[p])
  /\ pc[p] = "search_abd" /\ ~cut /\ kills = 0 => Ahead(p, left[p] - 1)

(* Until a process is killed no buffer is lost, and the search finds what  *)
(* it looks for.                                                           *)
LossInv ==
  /\ kills = 0 => /\ \A p \in Procs : pc[p] \in Busy \ Zapping => Settled(p)
                  /\ (\A p \in Procs : pc[p] \notin Busy) => Elems(outpool) = AllOwned
  /\ \A p \in Procs : Found(p)

(* The buffers of p and those of the others.                               *)
LEMMA AllOwnedFacts ==
  ASSUME NEW p \in Procs
  PROVE  AllOwned = Rest(p) \cup Owned(p)
<1>1. ASSUME NEW b \in AllOwned PROVE b \in Rest(p) \cup Owned(p)
  <2>1. PICK o \in Procs : b \in Owned(o)
    BY DEF AllOwned
  <2>2. CASE o = p
    BY <2>1, <2>2
  <2>3. CASE o # p
    BY <2>1, <2>3 DEF Rest
  <2>4. QED BY <2>2, <2>3
<1>2. ASSUME NEW b \in Rest(p) PROVE b \in AllOwned
  BY DEF AllOwned, Rest
<1>3. ASSUME NEW b \in Owned(p) PROVE b \in AllOwned
  BY DEF AllOwned
<1>4. QED BY <1>1, <1>2, <1>3

(* The others keep theirs in a step of p.                                  *)
LEMMA RestFacts ==
  ASSUME NEW p \in Procs, Others(p)
  PROVE  (AllOwned)' = Rest(p) \cup (Owned(p))'
<1>1. \A o \in Procs \ {p} : (Owned(o))' = Owned(o)
  BY OwnedOthers
<1>2. ASSUME NEW b \in (AllOwned)' PROVE b \in Rest(p) \cup (Owned(p))'
  <2>1. PICK o \in Procs : b \in (Owned(o))'
    BY DEF AllOwned
  <2>2. CASE o = p
    BY <2>1, <2>2
  <2>3. CASE o # p
    BY <1>1, <2>1, <2>3 DEF Rest
  <2>4. QED BY <2>2, <2>3
<1>3. ASSUME NEW b \in Rest(p) PROVE b \in (AllOwned)'
  <2>1. PICK o \in Procs \ {p} : b \in Owned(o)
    BY DEF Rest
  <2>2. QED BY <1>1, <2>1 DEF AllOwned
<1>4. ASSUME NEW b \in (Owned(p))' PROVE b \in (AllOwned)'
  BY <1>4 DEF AllOwned
<1>5. QED BY <1>2, <1>3, <1>4

(* A buffer of p is not one of the others.                                 *)
LEMMA RestDisjoint ==
  ASSUME RingInv, NEW p \in Procs
  PROVE  Owned(p) \cap Rest(p) = {}
<1>1. \A o \in Procs \ {p} : Owned(p) \cap Owned(o) = {}
  BY DEF RingInv, Ownership
<1>2. QED BY <1>1 DEF Rest

(* A step inside a call.                                                   *)
LEMMA BusyLoss ==
  ASSUME LockInv, LossInv, NEW p \in Procs, pc[p] \in Busy, Others(p),
         kills' = 0 /\ pc'[p] \notin Zapping => (Settled(p))', (Found(p))'
  PROVE  LossInv'
<1>1. \A o \in Procs \ {p} : pc'[o] \notin Busy /\ ~error'[o]
  <2>1. \A o \in Procs \ {p} : pc[o] \notin Busy /\ ~error[o]
    BY Unique, ProcFacts DEF InCall, Busy, Locked
  <2>2. QED BY <2>1 DEF Others
<1>2. \A o \in Procs \ {p} : (Found(o))'
  BY <1>1 DEF Found, Busy, Locked
<1>3. pc'[p] \notin Busy => pc'[p] \notin Zapping /\ (Adrifts(p))' = {}
  BY DEF Adrifts, Drifts, Busy, Locked, Zapping
<1>4. QED BY <1>1, <1>2, <1>3 DEF LossInv, Settled

(* A step outside the locked part of a call.                               *)
LEMMA StartLoss ==
  ASSUME LockInv, LossInv, NEW p \in Procs, pc[p] \notin Busy, Others(p),
         UNCHANGED <<outpool, cut, kills>>, (Owned(p))' = Owned(p) \/ pc'[p] \in Zapping, ~(Drifts(p))',
         pc'[p] \in Busy => \A o \in Procs : pc[o] \notin Busy,
         (Found(p))'
  PROVE  LossInv'
<1>1. ASSUME NEW o \in Procs \ {p}
      PROVE  pc'[o] = pc[o] /\ ((Found(o))' <=> Found(o)) /\ (Adrifts(o))' = Adrifts(o)
  <2>1. /\ pc'[o] = pc[o] /\ bpx'[o] = bpx[o] /\ x'[o] = x[o] /\ left'[o] = left[o]
        /\ error'[o] = error[o]
    BY DEF Others
  <2>2. (Adrifts(o))' = Adrifts(o)
    BY OwnedOthers DEF Adrifts
  <2>3. (Ahead(o, left[o]))' <=> Ahead(o, left[o])
    BY <2>1 DEF Ahead
  <2>4. (Ahead(o, left[o] - 1))' <=> Ahead(o, left[o] - 1)
    BY <2>1 DEF Ahead
  <2>5. (Found(o))' <=> Found(o)
    BY <2>1, <2>3, <2>4 DEF Found
  <2>6. QED BY <2>1, <2>2, <2>5
<1>2. pc'[p] \notin Zapping => (AllOwned)' = AllOwned
  BY AllOwnedFacts, RestFacts
<1>3. \A o \in Procs : (Found(o))'
  BY <1>1 DEF LossInv
<1>4. ASSUME kills' = 0, NEW o \in Procs, pc'[o] \in Busy \ Zapping PROVE (Settled(o))'
  <2>1. CASE o = p
    <3>1. Elems(outpool) = AllOwned
      BY <1>4, <2>1 DEF LossInv
    <3>2. (Adrifts(p))' = {} /\ pc'[p] \notin Zapping
      BY <1>4, <2>1 DEF Adrifts
    <3>3. QED BY <1>2, <2>1, <3>1, <3>2 DEF Settled
  <2>2. CASE o # p
    <3>1. pc[o] \in Busy \ Zapping /\ Settled(o)
      BY <1>1, <1>4, <2>2 DEF LossInv
    <3>2. pc'[p] \notin Zapping
      <4>1. pc'[p] \notin Busy
        BY <3>1
      <4>2. QED BY <4>1 DEF Busy
    <3>3. QED BY <1>1, <1>2, <2>2, <3>1, <3>2 DEF Settled
  <2>3. QED BY <2>1, <2>2
<1>5. ASSUME kills' = 0, \A o \in Procs : pc'[o] \notin Busy PROVE Elems(outpool') = (AllOwned)'
  <2>1. \A o \in Procs : pc[o] \notin Busy
    BY <1>1, <1>5
  <2>2. Elems(outpool) = AllOwned /\ pc'[p] \notin Zapping
    BY <1>5, <2>1 DEF LossInv, Busy
  <2>3. QED BY <1>2, <2>2
<1>6. QED BY <1>3, <1>4, <1>5 DEF LossInv

(* The pool at the start.                                                  *)
LEMMA InitLoss == Init => LossInv
<1> SUFFICES ASSUME Init PROVE LossInv
  OBVIOUS
<1>1. \A p \in Procs : pc[p] = "idle" /\ held[p] = {} /\ ~error[p]
  BY DEF Init
<1>2. \A p \in Procs : pc[p] \notin Busy /\ Found(p)
  BY <1>1 DEF Found, Busy, Locked, Defining, Zapping
<1>3. \A p \in Procs : Owned(p) = {}
  BY <1>1, <1>2, OwnedIdle
<1>4. Elems(outpool) = {}
  BY DEF Init, Elems
<1>5. AllOwned = {}
  BY <1>3 DEF AllOwned
<1>6. QED BY <1>2, <1>4, <1>5 DEF LossInv

(* Definition, open, close, the start of a call and the lock; a put that   *)
(* gets the lock has every buffer that is out ahead of its search.         *)
LEMMA QuietLoss ==
  ASSUME LockInv, Alone, LossInv, NEW p \in Procs,
         \/ mmpool_define_pool(p) \/ mmpool_open(p) \/ mmpool_close(p)
         \/ mmpool_getbuff(p) \/ mmpool_putbuff(p) \/ mmpool_zap_pool(p) \/ lock_pool(p)
  PROVE  LossInv'
<1>1. Others(p) /\ pc \in [Procs -> Steps] /\ left \in [Procs -> 0 .. Capacity] /\ held' = held
  <2>1. held' = held
    BY DEF mmpool_define_pool, mmpool_open, mmpool_close, mmpool_getbuff, mmpool_putbuff,
           mmpool_zap_pool, lock_pool, history
  <2>2. QED BY <2>1, Local DEF Step, LockInv, Types
<1>2. UNCHANGED <<outpool, cut, kills, error>>
  BY DEF mmpool_define_pool, mmpool_open, mmpool_close, mmpool_getbuff, mmpool_putbuff,
         mmpool_zap_pool, lock_pool, files, locals, history
<1>3. /\ pc[p] \in {"idle", "get", "put"}
      /\ \/ pc'[p] \in {"idle", "get", "put"}
         \/ /\ pc'[p] \in {"new_bpmf", "zap_rtd", "get_rtd"}
            /\ \/ lock_pool(p)
               \/ mmpool_zap_pool(p)
               \/ mmpool_define_pool(p) /\ OnlyUser(p)
         \/ /\ pc[p] = "put" /\ pc'[p] = "search" /\ lock_pool(p)
            /\ left'[p] = Len(outpool) /\ bpx' = bpx
  <2>1. CASE mmpool_define_pool(p)
    BY <1>1, <2>1 DEF mmpool_define_pool, Goto
  <2>2. CASE mmpool_open(p) \/ mmpool_close(p)
    BY <1>1, <2>2 DEF mmpool_open, mmpool_close
  <2>3. CASE mmpool_getbuff(p) \/ mmpool_putbuff(p) \/ mmpool_zap_pool(p)
    BY <1>1, <2>3 DEF mmpool_getbuff, mmpool_putbuff, mmpool_zap_pool, Goto
  <2>4. CASE lock_pool(p)
    BY <1>1, <2>4 DEF lock_pool, Goto
  <2>5. QED BY <2>1, <2>2, <2>3, <2>4
<1>4. pc[p] \notin Busy /\ Owned(p) = held[p] /\ ~error[p]
  <2>1. pc[p] \notin Busy
    BY <1>3 DEF Busy, Locked, Defining, Zapping
  <2>2. QED BY <1>3, <2>1, OwnedIdle, ProcFacts DEF InCall
<1>5. ((Owned(p))' = Owned(p) \/ pc'[p] \in Zapping) /\ ~(Drifts(p))'
  BY <1>1, <1>3, <1>4 DEF Owned, Drifts, Getting, Zapping
<1>6. pc'[p] \in Busy => \A o \in Procs : pc[o] \notin Busy
  BY <1>3, StartsAlone DEF Busy, Locked, Defining, Zapping
<1>7. (Found(p))'
  <2>1. CASE pc'[p] # "search"
    BY <1>2, <1>3, <1>4, <2>1 DEF Found
  <2>2. CASE pc'[p] = "search"
    <3>1. pc[p] = "put" /\ left'[p] = Len(outpool) /\ bpx' = bpx /\ lock_pool(p)
      BY <1>3, <2>2
    <3>2. ASSUME kills = 0 PROVE (Ahead(p, left[p]))'
      <4>1. \A o \in Procs : pc[o] \notin Busy
        BY <3>1, StartsAlone
      <4>2. bpx[p] \in Elems(outpool)
        <5>1. bpx[p] \in Owned(p)
          BY <1>4, <3>1, ProcFacts DEF InCall, Putting
        <5>2. Elems(outpool) = AllOwned
          BY <3>2, <4>1 DEF LossInv
        <5>3. QED BY <5>1, <5>2 DEF AllOwned
      <4>3. PICK i \in 1 .. Len(outpool) : outpool[i] = bpx[p]
        BY <4>2 DEF Elems
      <4>4. i > Len(outpool) - Len(outpool)
        BY <4>3, ProcFacts
      <4>5. QED BY <1>2, <3>1, <4>3, <4>4 DEF Ahead
    <3>3. QED BY <1>2, <1>4, <2>2, <3>2 DEF Found
  <2>3. QED BY <2>1, <2>2
<1>8. QED BY <1>1, <1>2, <1>4, <1>5, <1>6, <1>7, StartLoss

(* What the invariant says while p is inside a call, and what it is to say *)
(* of the next state.                                                      *)
LEMMA LossFacts ==
  ASSUME LockInv, RingInv, LossInv, NEW p \in Procs, pc[p] \in Busy, Others(p)
  PROVE  /\ kills = 0 /\ pc[p] \notin Zapping =>
               Elems(outpool) \cup Adrifts(p) = Rest(p) \cup Owned(p)
         /\ Owned(p) \cap Rest(p) = {}
         /\ Elems(outpool') \cup (Adrifts(p))' = Rest(p) \cup (Owned(p))' => (Settled(p))'
<1>1. kills = 0 /\ pc[p] \notin Zapping => Elems(outpool) \cup Adrifts(p) = Rest(p) \cup Owned(p)
  BY AllOwnedFacts DEF LossInv, Settled
<1>2. Elems(outpool') \cup (Adrifts(p))' = Rest(p) \cup (Owned(p))' => (Settled(p))'
  BY RestFacts DEF Settled
<1>3. QED BY <1>1, <1>2, RestDisjoint

(* A step inside a call that moves no buffer.                              *)
LEMMA StillLoss ==
  ASSUME LockInv, RingInv, LossInv, NEW p \in Procs, pc[p] \in Busy, Others(p),
         UNCHANGED kills, Elems(outpool') = Elems(outpool), ~Drifts(p), ~(Drifts(p))',
         (Owned(p))' = Owned(p), pc[p] \in Zapping => pc'[p] \in Zapping, (Found(p))'
  PROVE  LossInv'
<1>1. Adrifts(p) = {} /\ (Adrifts(p))' = {}
  BY DEF Adrifts
<1>2. kills' = 0 /\ pc'[p] \notin Zapping => (Settled(p))'
  BY <1>1, LossFacts
<1>3. QED BY <1>2, BusyLoss

(* The steps of a definition, the counts and the returns.                  *)
LEMMA StillStepsLoss ==
  ASSUME LockInv, RingInv, LossInv, NEW p \in Procs,
         \/ new_bpmf(p) \/ new_bpcf(p) \/ allocate_buffers(p)
         \/ get_count(p) \/ put_count(p) \/ zap_count(p) \/ unlock_pool(p)
  PROVE  LossInv'
<1>1. Others(p)
  BY Local DEF Step
<1>2. /\ pc \in [Procs -> Steps] /\ error \in [Procs -> BOOLEAN]
  BY DEF LockInv, Types
<1>3. CASE new_bpmf(p) \/ new_bpcf(p) \/ allocate_buffers(p)
  <2>1. /\ pc[p] \in Defining /\ pc'[p] \in Defining \cup {"idle"}
        /\ outpool' = << >> \/ outpool' = outpool
        /\ UNCHANGED <<held, error, kills>>
    BY <1>2, <1>3 DEF new_bpmf, new_bpcf, allocate_buffers, Goto, history, locals, Defining
  <2>2. pc[p] = "new_bpmf" \/ pc[p] = "new_bpcf" \/ pc[p] = "allocate"
    BY <2>1 DEF Defining
  <2>3. outpool = << >>
    BY <2>2, ProcFacts DEF LockInv, Files, InCall
  <2>4. (Owned(p))' = Owned(p) /\ ~Drifts(p) /\ ~(Drifts(p))' /\ pc[p] \notin Zapping
    BY <2>1 DEF Owned, Drifts, Getting, Zapping, Defining
  <2>5. ~error[p] /\ pc[p] \in Busy
    BY <2>1, <2>2, ProcFacts DEF InCall, Busy
  <2>6. (Found(p))'
    BY <2>1, <2>5 DEF Found, Defining
  <2>7. Elems(outpool') = Elems(outpool)
    BY <2>1, <2>3
  <2>8. kills' = kills
    BY <2>1
  <2>9. QED BY <1>1, <2>4, <2>5, <2>6, <2>7, <2>8, StillLoss
<1>4. CASE get_count(p) \/ put_count(p) \/ zap_count(p)
  <2>1. /\ UNCHANGED <<outpool, held, bpx, error, kills>>
        /\ \/ pc[p] = "get_count" /\ pc'[p] = "got"
           \/ pc[p] = "put_count" /\ pc'[p] = "returned"
           \/ pc[p] = "zap_count" /\ pc'[p] = "zap_rtd"
    BY <1>2, <1>4 DEF get_count, put_count, zap_count, Goto, locals, history
  <2>2. ~error[p]
    BY <2>1, ProcFacts DEF InCall
  <2>3. /\ (Owned(p))' = Owned(p) /\ ~Drifts(p) /\ ~(Drifts(p))' /\ pc[p] \in Busy
        /\ pc[p] \in Zapping => pc'[p] \in Zapping
    BY <2>1, <2>2 DEF Owned, Drifts, Getting, Zapping, Busy, Locked
  <2>4. (Found(p))'
    BY <2>1, <2>2 DEF Found
  <2>5. Elems(outpool') = Elems(outpool) /\ kills' = kills
    BY <2>1
  <2>6. QED BY <1>1, <2>3, <2>4, <2>5, StillLoss
<1>5. CASE unlock_pool(p)
  <2>1. /\ UNCHANGED <<outpool, kills>> /\ pc[p] \in {"got", "returned"} /\ pc'[p] = "idle"
        /\ pc[p] = "got" => held'[p] = held[p] \cup ({bpx[p]} \ {NoBuffer})
        /\ pc[p] = "returned" /\ error[p] => held'[p] = held[p]
        /\ pc[p] = "returned" /\ ~error[p] => held'[p] = held[p] \ {bpx[p]}
        /\ error' = [error EXCEPT ![p] = FALSE]
    BY <1>2, <1>5, UnlockStep
  <2>2. ~error'[p]
    BY <1>2, <2>1
  <2>3. /\ (Owned(p))' = Owned(p) /\ ~Drifts(p) /\ ~(Drifts(p))' /\ pc[p] \in Busy
        /\ pc[p] \notin Zapping
    BY <2>1 DEF Owned, Drifts, Getting, Zapping, Busy, Locked
  <2>4. (Found(p))'
    BY <2>1, <2>2 DEF Found
  <2>5. Elems(outpool') = Elems(outpool) /\ kills' = kills
    BY <2>1
  <2>6. QED BY <1>1, <2>3, <2>4, <2>5, StillLoss
<1>6. QED BY <1>3, <1>4, <1>5

(* getbuff takes an index off the pool.                                    *)
LEMMA GetRtdLoss ==
  ASSUME LockInv, RingInv, LossInv, NEW p \in Procs, get_rtd(p)
  PROVE  LossInv'
<1>1. /\ pc[p] = "get_rtd" /\ pc[p] \in Busy /\ pc[p] \notin Zapping /\ Others(p)
      /\ pc \in [Procs -> Steps] /\ bpx \in [Procs -> 0 .. NoBuffer]
      /\ UNCHANGED <<outpool, held, kills, error>> /\ Owned(p) = held[p] /\ ~Drifts(p)
  BY Local DEF get_rtd, Step, LockInv, Types, history, Busy, Locked, Owned, Getting, Zapping, Drifts
<1>2. ~error[p] /\ bpx[p] = NoBuffer
  BY <1>1, ProcFacts DEF InCall
<1>3. CASE inpool # << >>
  <2>1. /\ pc'[p] = "get_abd" /\ bpx'[p] = Top(inpool)
    BY <1>1, <1>3 DEF get_rtd, Goto
  <2>2. Top(inpool) \in Buffers
    BY <1>1, <1>3, Pop, RingFacts
  <2>3. Top(inpool) # NoBuffer
    BY <2>2, MmPoolAssumption DEF Buffers, NoBuffer
  <2>4. (Owned(p))' = held[p] \cup {Top(inpool)} /\ (Adrifts(p))' = {Top(inpool)} /\ Adrifts(p) = {}
    BY <1>1, <2>1, <2>3 DEF Owned, Adrifts, Drifts, Drift, Getting
  <2>5. kills' = 0 /\ pc'[p] \notin Zapping => (Settled(p))'
    BY <1>1, <2>4, LossFacts
  <2>6. (Found(p))'
    BY <1>1, <1>2, <2>1 DEF Found
  <2>7. QED BY <1>1, <2>5, <2>6, BusyLoss
<1>4. CASE inpool = << >>
  <2>1. pc'[p] = "got" /\ bpx' = bpx
    BY <1>1, <1>4 DEF get_rtd, Goto
  <2>2. (Owned(p))' = held[p] /\ ~(Drifts(p))'
    BY <1>1, <1>2, <2>1 DEF Owned, Drifts, Getting
  <2>3. (Found(p))'
    BY <1>1, <1>2, <2>1 DEF Found
  <2>4. Elems(outpool') = Elems(outpool) /\ kills' = kills
    BY <1>1
  <2>5. QED BY <1>1, <2>2, <2>3, <2>4, StillLoss
<1>5. QED BY <1>3, <1>4

(* getbuff puts it into the deque of the buffers that are out.             *)
LEMMA GetAbdLoss ==
  ASSUME LockInv, RingInv, BalanceInv, LossInv, NEW p \in Procs, get_abd(p)
  PROVE  LossInv'
<1>1. /\ pc[p] = "get_abd" /\ pc[p] \in Busy /\ pc[p] \notin Zapping /\ Others(p)
      /\ pc'[p] = "get_count" /\ outpool' = Abd(outpool, bpx[p])
      /\ UNCHANGED <<held, bpx, kills, error>>
  BY Local DEF get_abd, Goto, Step, LockInv, Types, locals, history, Busy, Locked, Zapping
<1>2. ~error[p] /\ bpx[p] \in Buffers /\ bpcf /\ Adrift(p) > 0
  BY <1>1, ProcFacts, FilesThere DEF InCall, Locked, Adrift, Drifts
<1>3. Elems(outpool') = Elems(outpool) \cup {bpx[p]}
  BY <1>1, <1>2, PushFacts
<1>4. (Owned(p))' = Owned(p) /\ Adrifts(p) = {bpx[p]} /\ (Adrifts(p))' = {}
  BY <1>1 DEF Owned, Adrifts, Drifts, Drift, Getting
<1>5. kills' = 0 /\ pc'[p] \notin Zapping => (Settled(p))'
  BY <1>1, <1>3, <1>4, LossFacts
<1>6. (Found(p))'
  BY <1>1, <1>2 DEF Found
<1>7. QED BY <1>1, <1>5, <1>6, BusyLoss

(* The search pops an index, or ends without it.                           *)
LEMMA SearchLoss ==
  ASSUME LockInv, RingInv, LossInv, NEW p \in Procs, search_deque(p)
  PROVE  LossInv'
<1>1. /\ pc[p] = "search" /\ pc[p] \in Busy /\ pc[p] \notin Zapping /\ Others(p) /\ pc \in [Procs -> Steps]
      /\ x \in [Procs -> 0 .. NoBuffer] /\ error \in [Procs -> BOOLEAN] /\ ~error[p]
      /\ UNCHANGED <<held, bpx, left, cut, kills>> /\ Owned(p) = held[p] /\ ~Drifts(p)
  BY Local, SearchStep, ProcFacts DEF Step, LockInv, Types, InCall, Busy, Locked, Owned, Getting, Zapping, Drifts
<1>2. ~cut /\ kills = 0 => Ahead(p, left[p])
  BY <1>1 DEF LossInv, Found
<1>3. left[p] \in Nat /\ Len(outpool) \in Nat /\ kills \in Nat
  BY ProcFacts, MmPoolAssumption DEF LockInv, Types
<1>4. CASE left[p] = 0
  <2>1. outpool' = outpool /\ pc'[p] = "returned" /\ error'[p]
    BY <1>1, <1>4, SearchStep
  <2>2. (Owned(p))' = held[p] /\ ~(Drifts(p))'
    BY <1>1, <2>1 DEF Owned, Drifts, Getting, Zapping
  <2>3. cut \/ kills > 0
    <3>1. ~Ahead(p, left[p])
      BY <1>3, <1>4 DEF Ahead
    <3>2. QED BY <1>2, <1>3, <3>1
  <2>4. (Found(p))'
    BY <1>1, <2>1, <2>3 DEF Found
  <2>5. Elems(outpool') = Elems(outpool) /\ kills' = kills
    BY <1>1, <2>1
  <2>6. QED BY <1>1, <2>2, <2>4, <2>5, StillLoss
<1>5. CASE left[p] # 0
  <2>1. /\ outpool # << >> /\ outpool' = Rtd(outpool) /\ x' = [x EXCEPT ![p] = Top(outpool)] /\ error' = error
        /\ pc' = [pc EXCEPT ![p] = IF Top(outpool) = bpx[p] THEN "put_abd" ELSE "search_abd"]
    BY <1>5, SearchStep
  <2>2. /\ Elems(outpool') = Elems(outpool) \ {Top(outpool)} /\ Top(outpool) \in Elems(outpool)
        /\ Len(outpool') = Len(outpool) - 1 /\ Top(outpool) = outpool[Len(outpool)]
        /\ \A i \in 1 .. Len(outpool) - 1 : outpool'[i] = outpool[i]
    BY <1>1, <2>1, Pop, RingFacts
  <2>3. /\ x'[p] = Top(outpool)
        /\ \/ pc'[p] = "put_abd" /\ bpx'[p] = Top(outpool)
           \/ pc'[p] = "search_abd" /\ bpx'[p] # Top(outpool)
    BY <1>1, <2>1
  <2>4. (Owned(p))' = held[p] /\ (Adrifts(p))' = {Top(outpool)} /\ Adrifts(p) = {}
    BY <1>1, <2>3 DEF Owned, Adrifts, Drifts, Drift, Getting, Zapping
  <2>5. kills' = 0 /\ pc'[p] \notin Zapping => (Settled(p))'
    BY <1>1, <2>2, <2>4, LossFacts
  <2>6. ASSUME ~cut, kills = 0, pc'[p] = "search_abd" PROVE (Ahead(p, left[p] - 1))'
    <3>1. PICK i \in 1 .. Len(outpool) : i > Len(outpool) - left[p] /\ outpool[i] = bpx[p]
      BY <1>2, <2>6 DEF Ahead
    <3>2. bpx[p] # Top(outpool)
      BY <1>1, <2>3, <2>6
    <3>3. i # Len(outpool)
      BY <2>2, <3>1, <3>2
    <3>4. i \in 1 .. Len(outpool) - 1 /\ i > (Len(outpool) - 1) - (left[p] - 1)
      BY <1>3, <3>1, <3>3
    <3>5. i \in 1 .. Len(outpool') /\ i > Len(outpool') - (left'[p] - 1) /\ outpool'[i] = bpx'[p]
      BY <1>1, <2>2, <3>1, <3>4
    <3>6. QED BY <3>5 DEF Ahead
  <2>7. (Found(p))'
    BY <1>1, <2>1, <2>3, <2>6 DEF Found
  <2>8. QED BY <1>1, <2>5, <2>7, BusyLoss
<1>6. QED BY <1>4, <1>5

(* The search puts it back at the other end.                               *)
LEMMA SearchAbdLoss ==
  ASSUME LockInv, RingInv, BalanceInv, LossInv, NEW p \in Procs, search_abd(p)
  PROVE  LossInv'
<1>1. /\ pc[p] = "search_abd" /\ pc[p] \in Busy /\ pc[p] \notin Zapping /\ Others(p)
      /\ pc'[p] = "search" /\ outpool' = Abd(outpool, x[p])
      /\ UNCHANGED <<held, bpx, kills, error>>
  BY Local DEF search_abd, Goto, Step, LockInv, Types, Busy, Locked, Zapping
<1>2. /\ ~error[p] /\ x[p] \in Buffers /\ bpcf /\ Adrift(p) > 0
      /\ left \in [Procs -> 0 .. Capacity] /\ left[p] \in Nat /\ Len(outpool) \in Nat /\ cut \in BOOLEAN
  BY <1>1, ProcFacts, FilesThere, MmPoolAssumption DEF InCall, Locked, Adrift, Drifts, LockInv, Types
<1>3. outpool' = <<x[p]>> \o outpool
  BY <1>1, <1>2, PushFacts
<1>4. /\ Elems(outpool') = Elems(outpool) \cup {x[p]} /\ Len(outpool') = Len(outpool) + 1
      /\ \A i \in 1 .. Len(outpool) : outpool'[i + 1] = outpool[i]
  BY <1>2, <1>3, Push, ProcFacts
<1>5. (Owned(p))' = Owned(p) /\ Adrifts(p) = {x[p]} /\ (Adrifts(p))' = {}
  BY <1>1 DEF Owned, Adrifts, Drifts, Drift, Getting, Zapping
<1>6. kills' = 0 /\ pc'[p] \notin Zapping => (Settled(p))'
  BY <1>1, <1>4, <1>5, LossFacts
<1>7. ASSUME ~cut', kills = 0 PROVE (Ahead(p, left[p]))'
  <2>1. PICK behind \in AfterX :
          /\ left' = [left EXCEPT ![p] = IF behind = "nitems" THEN 0 ELSE left[p] - 1]
          /\ cut' = (cut \/ behind = "nitems")
    BY DEF search_abd
  <2>2. ~cut /\ left'[p] = left[p] - 1
    BY <1>2, <1>7, <2>1
  <2>3. PICK i \in 1 .. Len(outpool) : i > Len(outpool) - (left[p] - 1) /\ outpool[i] = bpx[p]
    BY <1>1, <1>7, <2>2 DEF LossInv, Found, Ahead
  <2>4. /\ i + 1 \in 1 .. Len(outpool') /\ i + 1 > Len(outpool') - left'[p] /\ outpool'[i + 1] = bpx'[p]
    BY <1>1, <1>2, <1>4, <2>2, <2>3
  <2>5. QED BY <2>4 DEF Ahead
<1>8. (Found(p))'
  BY <1>1, <1>2, <1>7 DEF Found
<1>9. QED BY <1>1, <1>6, <1>8, BusyLoss

(* putbuff puts the index into the pool.                                   *)
LEMMA PutAbdLoss ==
  ASSUME LockInv, RingInv, LossInv, NEW p \in Procs, put_abd(p)
  PROVE  LossInv'
<1>1. /\ pc[p] = "put_abd" /\ pc[p] \in Busy /\ pc[p] \notin Zapping /\ Others(p)
      /\ pc'[p] = "put_count" /\ UNCHANGED <<outpool, held, bpx, kills, error>>
  BY Local DEF put_abd, Goto, Step, LockInv, Types, locals, history, Busy, Locked, Zapping
<1>2. bpx[p] \in held[p] /\ ~error[p] /\ bpx[p] \notin Elems(outpool)
  BY <1>1, ProcFacts, RingFacts DEF InCall, Putting, Drifts, Drift
<1>3. /\ (Owned(p))' = held[p] \ {bpx[p]} /\ Owned(p) = held[p]
      /\ Adrifts(p) = {bpx[p]} /\ (Adrifts(p))' = {}
  BY <1>1 DEF Owned, Adrifts, Drifts, Drift, Getting, Zapping
<1>4. kills' = 0 /\ pc'[p] \notin Zapping => (Settled(p))'
  BY <1>1, <1>2, <1>3, LossFacts
<1>5. (Found(p))'
  BY <1>1, <1>2 DEF Found
<1>6. QED BY <1>1, <1>4, <1>5, BusyLoss

(* zap_pool: when it ends nothing is out, and nobody has a buffer.         *)
LEMMA ZapLoss ==
  ASSUME LockInv, RingInv, LossInv, NEW p \in Procs, zap_rtd(p) \/ zap_abd(p)
  PROVE  LossInv'
<1>1. /\ pc[p] \in {"zap_rtd", "zap_abd"} /\ pc[p] \in Busy /\ Others(p) /\ pc \in [Procs -> Steps]
      /\ held \in [Procs -> SUBSET Buffers] /\ UNCHANGED <<error, kills>>
  BY Local DEF zap_rtd, zap_abd, Step, LockInv, Types, Busy, Zapping, locals, history
<1>2. ~error[p] /\ \A o \in Procs \ {p} : Owned(o) = {}
  <2>1. \A o \in Procs \ {p} : pc[o] = "idle" /\ held[o] = {}
    BY <1>1 DEF LockInv, UserAlone, Zapping
  <2>2. QED BY <1>1, <2>1, ProcFacts DEF InCall, Owned, Getting, Zapping
<1>3. \/ pc'[p] \in Zapping
      \/ pc'[p] = "idle" /\ held'[p] = {} /\ outpool' = << >>
  <2>1. CASE zap_rtd(p)
    BY <1>1, <2>1 DEF zap_rtd, Goto, Zapping
  <2>2. CASE zap_abd(p)
    BY <1>1, <2>2 DEF zap_abd, Goto, Zapping
  <2>3. QED BY <2>1, <2>2
<1>4. ASSUME pc'[p] \notin Zapping PROVE (Settled(p))'
  <2>1. (Owned(p))' = {} /\ (Adrifts(p))' = {} /\ Elems(outpool') = {}
    BY <1>3, <1>4 DEF Owned, Adrifts, Drifts, Elems, Getting
  <2>2. Rest(p) = {}
    BY <1>2 DEF Rest
  <2>3. QED BY <1>1, <2>1, <2>2, LossFacts
<1>5. (Found(p))'
  BY <1>1, <1>2, <1>3 DEF Found, Zapping
<1>6. QED BY <1>1, <1>4, <1>5, BusyLoss

(* The death of a process.                                                 *)
LEMMA KillLoss ==
  ASSUME LockInv, LossInv, NEW p \in Procs, Kill(p)
  PROVE  LossInv'
<1>1. /\ kills' = kills + 1 /\ kills \in Nat /\ cut' = cut /\ pc'[p] = "idle" /\ ~error'[p] /\ Others(p)
  BY Local DEF Kill, Goto, LockInv, Types
<1>2. kills' # 0 /\ kills' > 0
  BY <1>1
<1>3. \A o \in Procs \ {p} : pc'[o] = pc[o] /\ x'[o] = x[o] /\ bpx'[o] = bpx[o]
  BY <1>1 DEF Others
<1>4. ASSUME NEW o \in Procs PROVE (Found(o))'
  <2>1. pc'[o] = "search_abd" => x'[o] # bpx'[o]
    BY <1>1, <1>3 DEF LossInv, Found
  <2>2. QED BY <1>2, <2>1 DEF Found
<1>5. QED BY <1>2, <1>4 DEF LossInv

(* Every step loses nothing but with a process.                            *)
LEMMA NextLoss ==
  ASSUME LockInv, Alone, RingInv, BalanceInv, LossInv, [Next]_vars
  PROVE  LossInv'
<1>1. CASE UNCHANGED vars
  <2>1. UNCHANGED <<pc, bpx, x, left, error, held, cut, kills, outpool>>
    BY <1>1 DEF vars, files, locals, history
  <2>2. \A p \in Procs : /\ (Owned(p))' = Owned(p) /\ (Adrifts(p))' = Adrifts(p)
                         /\ ((Found(p))' <=> Found(p))
    BY <2>1 DEF Owned, Adrifts, Drifts, Drift, Found, Ahead
  <2>3. (AllOwned)' = AllOwned
    BY <2>2 DEF AllOwned
  <2>4. QED BY <2>1, <2>2, <2>3 DEF LossInv, Settled
<1>2. ASSUME NEW p \in Procs, Step(p) PROVE LossInv'
  BY <1>2, QuietLoss, StillStepsLoss, GetRtdLoss, GetAbdLoss, SearchLoss, SearchAbdLoss,
     PutAbdLoss, ZapLoss DEF Step
<1>3. ASSUME NEW p \in Procs,
             \/ mmpool_define_pool(p) \/ mmpool_open(p) \/ mmpool_close(p)
             \/ mmpool_getbuff(p) \/ mmpool_putbuff(p) \/ mmpool_zap_pool(p) \/ Kill(p)
      PROVE  LossInv'
  BY <1>3, QuietLoss, KillLoss
<1>4. QED BY <1>1, <1>2, <1>3 DEF Next

-----------------------------------------------------------------------------
(* The locking, the place of each index, the balance of the deques and     *)
(* what is not lost.                                                       *)
IInv == LockInv /\ RingInv /\ BalanceInv /\ LossInv /\ NoDoubleAllocation

(* What a step does to the buffers of the applications.                    *)
LEMMA HeldStep ==
  ASSUME LockInv, NEW p \in Procs,
         \/ mmpool_define_pool(p) \/ mmpool_open(p) \/ mmpool_close(p)
         \/ mmpool_getbuff(p) \/ mmpool_putbuff(p) \/ mmpool_zap_pool(p)
         \/ Step(p) \/ Kill(p)
  PROVE  \/ held' = held
         \/ held' = [held EXCEPT ![p] = {}]
         \/ unlock_pool(p)
<1> USE DEF history
<1>1. CASE mmpool_define_pool(p) \/ mmpool_open(p) \/ mmpool_close(p)
  BY <1>1 DEF mmpool_define_pool, mmpool_open, mmpool_close
<1>2. CASE mmpool_getbuff(p) \/ mmpool_putbuff(p) \/ mmpool_zap_pool(p)
  BY <1>2 DEF mmpool_getbuff, mmpool_putbuff, mmpool_zap_pool
<1>3. CASE new_bpmf(p) \/ new_bpcf(p) \/ allocate_buffers(p) \/ lock_pool(p)
  BY <1>3 DEF new_bpmf, new_bpcf, allocate_buffers, lock_pool
<1>4. CASE get_rtd(p) \/ get_abd(p) \/ get_count(p)
  BY <1>4 DEF get_rtd, get_abd, get_count
<1>5. CASE search_deque(p) \/ search_abd(p) \/ put_abd(p) \/ put_count(p)
  BY <1>5 DEF search_deque, search_abd, put_abd, put_count
<1>6. CASE zap_rtd(p) \/ zap_abd(p) \/ zap_count(p)
  BY <1>6 DEF zap_rtd, zap_abd, zap_count
<1>7. CASE Kill(p)
  BY <1>7 DEF Kill
<1>8. QED BY <1>1, <1>2, <1>3, <1>4, <1>5, <1>6, <1>7 DEF Step

(* Where a call returns: a buffer that was got was nobody's.               *)
LEMMA UnlockFacts ==
  ASSUME LockInv, RingInv, NEW p \in Procs, unlock_pool(p)
  PROVE  \/ held' = held
         \/ \E b \in held[p] : held' = [held EXCEPT ![p] = held[p] \ {b}]
         \/ \E b \in Buffers : /\ \A o \in Procs : b \notin held[o]
                               /\ held' = [held EXCEPT ![p] = held[p] \cup {b}]
<1>1. /\ pc[p] \in {"got", "returned"} /\ held \in [Procs -> SUBSET Buffers]
      /\ held' = [held EXCEPT ![p] = held'[p]]
      /\ pc[p] = "got" => held'[p] = held[p] \cup ({bpx[p]} \ {NoBuffer})
      /\ pc[p] = "returned" /\ error[p] => held'[p] = held[p]
      /\ pc[p] = "returned" /\ ~error[p] => held'[p] = held[p] \ {bpx[p]}
  BY UnlockStep DEF LockInv, Types
<1>2. [held EXCEPT ![p] = held[p]] = held
  BY <1>1
<1>3. CASE pc[p] = "got" /\ bpx[p] = NoBuffer
  <2>1. held'[p] = held[p]
    BY <1>1, <1>3
  <2>2. QED BY <1>1, <1>2, <2>1
<1>4. CASE pc[p] = "got" /\ bpx[p] # NoBuffer
  <2>1. bpx[p] \in Buffers
    BY <1>4, ProcFacts, MmPoolAssumption DEF Buffers, NoBuffer
  <2>2. pc[p] \in Busy /\ Owned(p) = held[p] \cup {bpx[p]}
    BY <1>4 DEF Busy, Locked, Owned, Getting
  <2>3. \A o \in Procs : bpx[p] \notin held[o]
    <3>1. bpx[p] \notin held[p]
      BY <1>4, <2>2, RingFacts DEF Fresh, Getting
    <3>2. \A o \in Procs \ {p} : bpx[p] \notin held[o]
      BY <2>2, RingFacts
    <3>3. QED BY <3>1, <3>2
  <2>4. held'[p] = held[p] \cup {bpx[p]}
    BY <1>1, <1>4
  <2>5. QED BY <1>1, <2>1, <2>3, <2>4
<1>5. CASE pc[p] = "returned" /\ error[p]
  <2>1. held'[p] = held[p]
    BY <1>1, <1>5
  <2>2. QED BY <1>1, <1>2, <2>1
<1>6. CASE pc[p] = "returned" /\ ~error[p]
  <2>1. bpx[p] \in held[p]
    BY <1>6, ProcFacts DEF InCall, Putting
  <2>2. held'[p] = held[p] \ {bpx[p]}
    BY <1>1, <1>6
  <2>3. QED BY <1>1, <2>1, <2>2
<1>7. QED BY <1>1, <1>3, <1>4, <1>5, <1>6

(* A step of one process is one of the abstract pool or changes nothing    *)
(* there.                                                                  *)
LEMMA StepRefines ==
  ASSUME LockInv, RingInv, [Next]_vars
  PROVE  [Abstract!Next]_held
<1>1. CASE UNCHANGED vars
  BY <1>1 DEF vars, history
<1>2. ASSUME NEW p \in Procs, held' = [held EXCEPT ![p] = {}] PROVE Abstract!Next
  BY <1>2 DEF Abstract!Next, Abstract!Recall
<1>3. ASSUME NEW p \in Procs, unlock_pool(p) PROVE [Abstract!Next]_held
  <2>1. CASE held' = held
    BY <2>1
  <2>2. CASE \E b \in held[p] : held' = [held EXCEPT ![p] = held[p] \ {b}]
    <3>1. Abstract!Put(p)
      BY <2>2 DEF Abstract!Put
    <3>2. QED BY <3>1 DEF Abstract!Next
  <2>3. CASE \E b \in Buffers : /\ \A o \in Procs : b \notin held[o]
                                /\ held' = [held EXCEPT ![p] = held[p] \cup {b}]
    <3>1. PICK b \in Buffers : /\ \A o \in Procs : b \notin held[o]
                               /\ held' = [held EXCEPT ![p] = held[p] \cup {b}]
      BY <2>3
    <3>2. b \in Abstract!Free
      BY <3>1 DEF Abstract!Free
    <3>3. Abstract!Get(p)
      BY <3>1, <3>2 DEF Abstract!Get
    <3>4. QED BY <3>3 DEF Abstract!Next
  <2>4. QED BY <1>3, <2>1, <2>2, <2>3, UnlockFacts
<1>4. ASSUME NEW p \in Procs,
             \/ mmpool_define_pool(p) \/ mmpool_open(p) \/ mmpool_close(p)
             \/ mmpool_getbuff(p) \/ mmpool_putbuff(p) \/ mmpool_zap_pool(p)
             \/ Step(p) \/ Kill(p)
      PROVE  [Abstract!Next]_held
  BY <1>2, <1>3, <1>4, HeldStep
<1>5. QED BY <1>1, <1>4 DEF Next

(* No step gives a buffer to two applications.                             *)
LEMMA NextHeld ==
  ASSUME LockInv, RingInv, NoDoubleAllocation, [Next]_vars
  PROVE  NoDoubleAllocation'
<1>1. held \in [Procs -> SUBSET Buffers]
  BY DEF LockInv, Types
<1>2. CASE held' = held
  BY <1>2 DEF NoDoubleAllocation
<1>3. ASSUME NEW p \in Procs, NEW mine, held' = [held EXCEPT ![p] = mine],
             \A o \in Procs \ {p} : mine \cap held[o] = {}
      PROVE  NoDoubleAllocation'
  <2>1. held'[p] = mine /\ \A o \in Procs \ {p} : held'[o] = held[o]
    BY <1>1, <1>3
  <2>2. QED BY <1>3, <2>1 DEF NoDoubleAllocation
<1>4. CASE Abstract!Next
  <2>1. PICK p \in Procs : Abstract!Get(p) \/ Abstract!Put(p) \/ Abstract!Recall(p)
    BY <1>4 DEF Abstract!Next
  <2>2. CASE Abstract!Get(p)
    <3>1. PICK b \in Abstract!Free : held' = [held EXCEPT ![p] = held[p] \cup {b}]
      BY <2>2 DEF Abstract!Get
    <3>2. \A o \in Procs \ {p} : (held[p] \cup {b}) \cap held[o] = {}
      BY <3>1 DEF Abstract!Free, NoDoubleAllocation
    <3>3. QED BY <1>3, <3>1, <3>2
  <2>3. CASE Abstract!Put(p)
    <3>1. PICK b \in held[p] : held' = [held EXCEPT ![p] = held[p] \ {b}]
      BY <2>3 DEF Abstract!Put
    <3>2. \A o \in Procs \ {p} : (held[p] \ {b}) \cap held[o] = {}
      BY DEF NoDoubleAllocation
    <3>3. QED BY <1>3, <3>1, <3>2
  <2>4. CASE Abstract!Recall(p)
    BY <1>3, <2>4 DEF Abstract!Recall
  <2>5. QED BY <2>1, <2>2, <2>3, <2>4
<1>5. QED BY <1>2, <1>4, StepRefines

(* The pool at the start.                                                  *)
LEMMA InitIInv == Init => IInv
<1>1. Init => NoDoubleAllocation
  BY DEF Init, NoDoubleAllocation
<1>2. QED BY <1>1, InitLock, InitRing, InitBalance, InitLoss DEF IInv

(* Every step keeps the invariant.                                         *)
LEMMA NextIInv ==
  ASSUME Alone, IInv, [Next]_vars
  PROVE  IInv'
BY NextLock, NextRing, NextBalance, NextLoss, NextHeld DEF IInv

-----------------------------------------------------------------------------
(* The deques as the properties name them.                                 *)
LEMMA InOut ==
  ASSUME LockInv
  PROVE  In = Elems(inpool) /\ Out = Elems(outpool)
<1>1. DOMAIN inpool = 1 .. Len(inpool) /\ DOMAIN outpool = 1 .. Len(outpool)
  BY DEF LockInv, Types
<1>2. QED BY <1>1 DEF In, Out, Elems

(* As many items as there are buffers are all the buffers.                 *)
LEMMA AllBuffers ==
  ASSUME LockInv, RingInv, Len(inpool) + Len(outpool) = Capacity
  PROVE  Elems(inpool) \cup Elems(outpool) = Buffers
<1> DEFINE I == Elems(inpool)
           O == Elems(outpool)
<1>1. /\ IsFiniteSet(I) /\ Cardinality(I) = Len(inpool) /\ I \subseteq Buffers
      /\ IsFiniteSet(O) /\ Cardinality(O) = Len(outpool) /\ O \subseteq Buffers
  BY CountElems DEF LockInv, Types, RingInv, DequesDisjoint
<1>2. IsFiniteSet(Buffers) /\ Cardinality(Buffers) = Capacity
  <2>1. Capacity \in Nat /\ Capacity > 0
    BY MmPoolAssumption
  <2>2. IsFiniteSet(0 .. Capacity - 1) /\ Cardinality(0 .. Capacity - 1) = IF 0 > Capacity - 1 THEN 0 ELSE Capacity - 1 - 0 + 1
    BY <2>1, FS_Interval
  <2>3. QED BY <2>1, <2>2 DEF Buffers
<1>3. I \cap O = {}
  BY DEF RingInv, DequesDisjoint
<1> HIDE DEF I, O
<1>4. Cardinality(I \cup O) = Cardinality(I) + Cardinality(O) - Cardinality(I \cap O)
  BY <1>1, FS_Union
<1>5. Cardinality(I \cap O) = 0
  BY <1>3, FS_EmptySet
<1>6. Len(inpool) \in Nat /\ Len(outpool) \in Nat
  BY DEF LockInv, Types
<1>7. I \cup O \subseteq Buffers /\ Cardinality(I \cup O) = Cardinality(Buffers)
  BY <1>1, <1>2, <1>4, <1>5, <1>6
<1>8. I \cup O = Buffers
  BY <1>2, <1>7, FS_Subset
<1>9. QED BY <1>8 DEF I, O

(* Without a killed process nothing is missing.                            *)
LEMMA NothingLost ==
  ASSUME LockInv, RingInv, Level(Len(inpool), Len(outpool), remaining, 0, 0, 0)
  PROVE  /\ Len(inpool) + Len(outpool) = Capacity /\ remaining = Len(inpool)
         /\ Elems(inpool) \cup Elems(outpool) = Buffers
<1>1. Len(inpool) \in Nat /\ Len(outpool) \in Nat /\ Capacity \in Nat /\ Capacity < 65536
  BY MmPoolAssumption DEF LockInv, Types
<1>2. Len(inpool) + Len(outpool) = Capacity
  BY <1>1 DEF Level
<1>3. remaining = (Len(inpool) + 0 + 0) % UShort
  <2>1. PICK off \in - 0 .. 0 : remaining = (Len(inpool) + off + 0) % UShort
    BY DEF Level
  <2>2. off = 0
    OBVIOUS
  <2>3. QED BY <2>1, <2>2
<1>4. remaining = Len(inpool)
  <2>1. Len(inpool) + 0 + 0 = Len(inpool) /\ Len(inpool) < 65536
    BY <1>1, <1>2
  <2>2. PICK n \in Nat : n = Len(inpool)
    BY <1>1
  <2>3. n = n % UShort
    <3>1. n < 65536
      BY <2>1, <2>2
    <3>2. QED BY <3>1 DEF UShort
  <2>4. remaining = n % UShort
    BY <1>3, <2>1, <2>2
  <2>5. QED BY <2>2, <2>3, <2>4
<1>5. QED BY <1>2, <1>4, AllBuffers

(* Types and what the two deques hold.                                     *)
LEMMA TypesAndDeques ==
  ASSUME IInv
  PROVE  TypeOK /\ EachBufferOnce
<1>1. Capacity \in Nat /\ MaxKills \in Nat /\ kills \in Nat /\ kills <= MaxKills /\ Buffers \subseteq 0 .. NoBuffer
  BY MmPoolAssumption DEF IInv, LockInv, Types, BalanceInv, Buffers, NoBuffer
<1>2. inpool \in Seq(0 .. NoBuffer) /\ outpool \in Seq(0 .. NoBuffer)
  <2>1. inpool \in Seq(Buffers) /\ outpool \in Seq(Buffers)
    BY DEF IInv, LockInv, Types
  <2>2. QED BY <1>1, <2>1, SeqMonotonic
<1>3. remaining \in 0 .. UShort - 1
  <2>1. remaining \in Nat /\ remaining < 65536
    BY DEF IInv, LockInv, Types, BalanceInv, UShort
  <2>2. PICK w \in Nat : w = UShort
    BY DEF UShort
  <2>3. remaining < w
    BY <2>1, <2>2 DEF UShort
  <2>4. remaining \in 0 .. w - 1
    BY <2>1, <2>3
  <2>5. QED BY <2>2, <2>4
<1>4. TypeOK
  BY <1>1, <1>2, <1>3 DEF IInv, LockInv, Types, TypeOK
<1>5. /\ Cardinality(Elems(inpool)) = Len(inpool) /\ Cardinality(Elems(outpool)) = Len(outpool)
      /\ Elems(inpool) \cap Elems(outpool) = {}
  BY CountElems DEF IInv, LockInv, Types, RingInv, DequesDisjoint
<1>6. EachBufferOnce
  BY <1>5, InOut DEF EachBufferOnce, IInv
<1>7. QED BY <1>4, <1>6

(* What the invariant says between calls.                                  *)
LEMMA BetweenCalls ==
  ASSUME IInv, Idle
  PROVE  /\ bpcf => Level(Len(inpool), Len(outpool), remaining, damage, 0, 0)
         /\ kills = 0 => damage = 0 /\ Elems(outpool) = Held
<1>1. \A p \in Procs : pc[p] \notin Busy
  BY DEF Idle, Busy, Locked, Defining, Zapping
<1>2. AllOwned = Held
  <2>1. \A p \in Procs : Owned(p) = held[p]
    BY <1>1, OwnedIdle
  <2>2. QED BY <2>1 DEF AllOwned, Held
<1>3. QED BY <1>1, <1>2 DEF IInv, BalanceInv, Balanced, LossInv

(* What the deques account for between calls.                              *)
LEMMA Accounts ==
  ASSUME IInv
  PROVE  PoolAccounted /\ LossBoundedByKills
<1>1. ASSUME Idle, opened # {}, kills = 0
      PROVE  In = Buffers \ Out /\ Out = Held /\ remaining = Len(inpool)
  <2>1. bpcf
    BY <1>1 DEF IInv, LockInv, Files
  <2>2. Level(Len(inpool), Len(outpool), remaining, 0, 0, 0) /\ Elems(outpool) = Held
    BY <1>1, <2>1, BetweenCalls
  <2>3. remaining = Len(inpool) /\ Elems(inpool) \cup Elems(outpool) = Buffers
    BY <2>2, NothingLost DEF IInv
  <2>4. Elems(inpool) \cap Elems(outpool) = {}
    BY DEF IInv, RingInv, DequesDisjoint
  <2>5. QED BY <2>2, <2>3, <2>4, InOut DEF IInv
<1>2. ASSUME Idle, bpmf, bpcf
      PROVE  /\ Capacity <= Len(inpool) + Len(outpool) + damage
             /\ \E off \in - damage .. damage : remaining = (Len(inpool) + off) % UShort
  <2>1. Level(Len(inpool), Len(outpool), remaining, damage, 0, 0)
    BY <1>2, BetweenCalls
  <2>2. Len(inpool) \in Nat /\ Len(outpool) \in Nat /\ damage \in Nat /\ Capacity \in Nat
    BY MmPoolAssumption DEF IInv, LockInv, Types
  <2>3. Capacity <= Len(inpool) + Len(outpool) + damage
    BY <2>1, <2>2 DEF Level
  <2>4. PICK off \in - damage .. damage : remaining = (Len(inpool) + off + 0) % UShort
    BY <2>1 DEF Level
  <2>5. Len(inpool) + off + 0 = Len(inpool) + off
    BY <2>2
  <2>6. QED BY <2>3, <2>4, <2>5
<1>3. QED BY <1>1, <1>2 DEF PoolAccounted, LossBoundedByKills

(* A getbuff that finds the pool empty.                                    *)
LEMMA Refusals ==
  ASSUME IInv
  PROVE  RefusedOnlyWhenAllOut
<1>1. ASSUME NEW p \in Procs, pc[p] = "got", bpx[p] = NoBuffer, kills = 0
      PROVE  Held = Buffers
  <2>1. /\ inpool = << >> /\ pc[p] \in Busy \ Zapping /\ bpcf
        /\ Adrift(p) = 0 /\ Uncounted(p) = 0 /\ Adrifts(p) = {} /\ Owned(p) = held[p]
    <3>1. inpool = << >>
      BY <1>1, ProcFacts DEF InCall, IInv
    <3>2. pc[p] \in Locked \cup Zapping \cup {"allocate"} /\ pc[p] \notin Zapping
      BY <1>1 DEF Locked, Zapping
    <3>3. bpcf /\ pc[p] \in Busy
      BY <3>2, FilesThere DEF IInv
    <3>4. Adrift(p) = 0 /\ Uncounted(p) = 0 /\ Adrifts(p) = {} /\ Owned(p) = held[p]
      BY <1>1 DEF Adrift, Uncounted, Adrifts, Drifts, Owned, Getting
    <3>5. QED BY <3>1, <3>2, <3>3, <3>4
  <2>2. Level(Len(inpool), Len(outpool), remaining, 0, 0, 0)
    BY <1>1, <2>1, BalanceFacts DEF IInv, BalanceInv
  <2>3. Elems(inpool) \cup Elems(outpool) = Buffers /\ Elems(inpool) = {}
    BY <2>1, <2>2, NothingLost DEF IInv, Elems
  <2>4. Elems(outpool) = AllOwned
    BY <1>1, <2>1 DEF IInv, LossInv, Settled
  <2>5. AllOwned = Held
    <3>1. \A o \in Procs \ {p} : Owned(o) = held[o]
      BY <2>1, Unique, OwnedIdle DEF IInv
    <3>2. \A o \in Procs : Owned(o) = held[o]
      BY <2>1, <3>1
    <3>3. QED BY <3>2 DEF AllOwned, Held
  <2>6. QED BY <2>3, <2>4, <2>5
<1>2. QED BY <1>1 DEF RefusedOnlyWhenAllOut

(* What the properties say follows.                                        *)
LEMMA IInvPool == IInv => PoolInv
<1> SUFFICES ASSUME IInv PROVE PoolInv
  OBVIOUS
<1>1. PutAccepted
  BY DEF IInv, LossInv, Found, PutAccepted
<1>2. NoDoubleAllocation
  BY DEF IInv
<1>3. QED BY <1>1, <1>2, TypesAndDeques, Accounts, Refusals DEF PoolInv

(* The invariant the runs check, for pools of any capacity and any number  *)
(* of processes that may be killed at any step, when a pool is defined and *)
(* zapped by its only user: no buffer is handed out twice, what is lost is *)
(* bounded by the kills, and no call refuses a buffer without a reason.    *)
THEOREM PoolSafe ==
  ASSUME Alone
  PROVE  Spec => []PoolInv
<1>1. Init => IInv
  BY InitIInv
<1>2. IInv /\ [Next]_vars => IInv'
  BY NextIInv
<1>3. IInv => PoolInv
  BY IInvPool
<1>4. QED BY <1>1, <1>2, <1>3, PTL DEF Spec

(* The calls of all processes, in the order they unlock, are calls of one  *)
(* buffer pool, whatever step a process is killed at.                      *)
THEOREM Refinement ==
  ASSUME Alone
  PROVE  Spec => ImplementsPool
<1>1. Init => IInv
  BY InitIInv
<1>2. IInv /\ [Next]_vars => IInv'
  BY NextIInv
<1>3. Init => Abstract!Init
  BY DEF Init, Abstract!Init
<1>4. IInv /\ [Next]_vars => [Abstract!Next]_held
  BY StepRefines DEF IInv
<1>5. QED BY <1>1, <1>2, <1>3, <1>4, PTL DEF Spec, ImplementsPool, Abstract!Spec
=============================================================================
