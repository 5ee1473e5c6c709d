---------------------------- MODULE SharedProofs ----------------------------
(***************************************************************************)
(* Proofs about what processes keep in mapped files: the contiguous list   *)
(* of LinearList, for any capacity, any values and processes, any record   *)
(* locks, failed lock calls and kills; then the descriptors, mappings and  *)
(* locks of MmAtom; and, at the end of the module, the packets of MmPacket,*)
(* for any bytes, processes and size of the deque.                         *)
(*                                                                         *)
(* The list's invariant is built in layers:                                *)
(*   Types     the locks, the steps and what a call carries                *)
(*   LockInv   a process inside a list function holds every unit           *)
(*   DataInv   what the records are, in the middle of a call too           *)
(* The last two are claimed as long as nothing went wrong that the list    *)
(* functions do not notice (Good), as in LinearInv.                        *)
(*                                                                         *)
(* That of the mapped files: DescInv (descriptors and who has them),       *)
(* MapInv (mappings and their files), SizeInv (the length a creation       *)
(* chose), KeptInv (locks and what took them away).                        *)
(*                                                                         *)
(* That of the packets: while calls do not overlap, the bytes under way    *)
(* and those in the deque together are the packets not yet read (Tells).   *)
(***************************************************************************)
EXTENDS LinearList, MmAtom, MmPacket, FiniteSetTheorems, SequenceTheorems,
        WellFoundedInduction, TLAPS

(***************************************************************************)
(* Least numbers, induction over an interval and recursion.                *)
(***************************************************************************)

(* A set of numbers that is not empty has a least one.                     *)
LEMMA LeastNumber ==
  \A T : T \subseteq Nat /\ T # {} => \E n \in T : \A m \in T : n <= m
<1> TAKE T
<1> HAVE T \subseteq Nat /\ T # {}
<1> DEFINE M == {1..n : n \in T}
<1>1. IsWellFoundedOn(StrictSubsetOrdering(Nat), FiniteSubsetsOf(Nat))
  BY FS_StrictSubsetOrderingWellFounded
<1>2. M \subseteq FiniteSubsetsOf(Nat) /\ M # {}
  <2>1. \A n \in T : IsFiniteSet(1..n) /\ 1..n \in SUBSET Nat
    BY FS_Interval, SMT
  <2>2. \A n \in T : 1..n \in FiniteSubsetsOf(Nat)
    BY <2>1 DEF FiniteSubsetsOf
  <2>3. QED
    BY <2>2
<1>3. \E x \in M : \A y \in M : ~(<<y, x>> \in StrictSubsetOrdering(Nat))
  BY <1>1, <1>2, WFMin
<1>4. PICK n \in T : \A m \in T : ~(<<1..m, 1..n>> \in StrictSubsetOrdering(Nat))
  BY <1>3
<1>5. ASSUME NEW m \in T, m < n PROVE FALSE
  <2>1. 1..m \subseteq 1..n /\ n \in 1..n /\ n \notin 1..m /\ 1..n \subseteq Nat
    BY <1>5
  <2>2. PICK a, b : a = 1..m /\ b = 1..n
    OBVIOUS
  <2>3. a \subseteq Nat /\ b \subseteq Nat /\ a \subseteq b /\ a # b
    BY <2>1, <2>2
  <2>4. <<a, b>> \in StrictSubsetOrdering(Nat)
    BY <2>3 DEF StrictSubsetOrdering
  <2>5. QED
    BY <1>4, <2>2, <2>4
<1>6. QED
  BY <1>5

(* Induction: a set of numbers that holds 0 and the successor of each of   *)
(* its members up to a bound holds all of them to the bound.               *)
LEMMA UpTo ==
  \A T, N : /\ N \in Nat /\ 0 \in T /\ \A n \in 0..(N - 1) : n \in T => n + 1 \in T
            => \A n \in 0..N : n \in T
<1> TAKE T, N
<1> HAVE N \in Nat /\ 0 \in T /\ \A n \in 0..(N - 1) : n \in T => n + 1 \in T
<1> DEFINE Bad == {n \in 0..N : n \notin T}
<1>1. SUFFICES ASSUME Bad # {} PROVE FALSE
  OBVIOUS
<1>2. PICK n \in Bad : \A m \in Bad : n <= m
  <2>1. Bad \subseteq Nat
    OBVIOUS
  <2> HIDE DEF Bad
  <2>2. QED
    BY <1>1, <2>1, LeastNumber
<1>3. n \in 1..N /\ n - 1 \in 0..(N - 1) /\ (n - 1) + 1 = n
  BY <1>2
<1>4. n - 1 \notin T
  BY <1>2, <1>3
<1>5. n - 1 \in Bad
  BY <1>3, <1>4
<1>6. QED
  BY <1>2, <1>3, <1>5

(* Recursion: there is a sequence of values that starts with b, each the   *)
(* one that F gives of the last.                                           *)
IsRule(F, N, X)        == F \in [(1..N) \X X -> X]
Follows(f, F, N, X, b) == /\ f \in [0..N -> X] /\ f[0] = b
                          /\ \A i \in 1..N : f[i] = F[<<i, f[i - 1]>>]
LEMMA Recursion ==
  \A X, N, b, F : N \in Nat /\ b \in X /\ IsRule(F, N, X) => \E f : Follows(f, F, N, X, b)
<1> TAKE X, N, b, F
<1> HAVE N \in Nat /\ b \in X /\ IsRule(F, N, X)
<1> USE DEF IsRule, Follows
<1> DEFINE OK(n, f) == f[0] = b /\ \A i \in 1..n : f[i] = F[<<i, f[i - 1]>>]
           T == {n \in 0..N : \E f \in [0..n -> X] : OK(n, f)}
<1>1. 0 \in T
  <2>1. PICK g : g = [i \in 0..0 |-> b]
    OBVIOUS
  <2>2. g \in [0..0 -> X] /\ OK(0, g) /\ 0 \in 0..N
    BY <2>1
  <2>3. QED
    BY <2>2
<1>2. ASSUME NEW n \in 0..(N - 1), n \in T PROVE n + 1 \in T
  <2>1. PICK f \in [0..n -> X] : OK(n, f)
    BY <1>2
  <2>2. PICK x \in X : x = F[<<n + 1, f[n]>>]
    OBVIOUS
  <2>3. PICK g : g = [i \in 0..(n + 1) |-> IF i = n + 1 THEN x ELSE f[i]]
    OBVIOUS
  <2>4. g \in [0..(n + 1) -> X] /\ g[n + 1] = x /\ \A i \in 0..n : g[i] = f[i]
    BY <2>2, <2>3
  <2>5. g[0] = b
    BY <2>1, <2>4
  <2>6. ASSUME NEW i \in 1..(n + 1) PROVE g[i] = F[<<i, g[i - 1]>>]
    <3>1. CASE i = n + 1
      <4>1. i - 1 = n /\ n \in 0..n
        BY <3>1
      <4>2. g[i - 1] = f[n]
        BY <2>4, <4>1
      <4>3. QED
        BY <2>2, <2>4, <3>1, <4>2
    <3>2. CASE i \in 1..n
      <4>1. i - 1 \in 0..n /\ i \in 0..n
        BY <3>2
      <4>2. g[i] = f[i] /\ g[i - 1] = f[i - 1]
        BY <2>4, <4>1
      <4>3. QED
        BY <2>1, <3>2, <4>2
    <3>3. QED
      BY <3>1, <3>2
  <2>7. n + 1 \in 0..N
    OBVIOUS
  <2>8. QED
    BY <2>4, <2>5, <2>6, <2>7
<1>3. \A n \in 0..N : n \in T
  <2> HIDE DEF T
  <2>1. QED
    BY <1>1, <1>2, UpTo
<1>4. N \in T
  BY <1>3
<1>5. QED
  BY <1>4

(***************************************************************************)
(* The contiguous list (linearlist.c, mmfor.c).                            *)
(***************************************************************************)

Locks  == {"none", "read", "write"}
Places == {"idle", "wait", "add", "added", "delete", "deleted", "unlock", "dead"}

(* What a call carries.                                                    *)
Calls ==
  { o \in [units : SUBSET Units, type : Locks, do : {"idle", "add", "delete"},
           arg : Values \cup {Blank} \cup 0 .. capacity - 1] :
      /\ o.do = "add" => o.arg \in Values
      /\ o.do = "delete" => o.arg \in 0 .. capacity - 1 }

(* A lock call asks for something, a list function for everything.         *)
Asks(o) ==
  /\ o.units # {} /\ o.type # "none"
  /\ o.do # "idle" => o.units = Units /\ o.type = "write"

(* The types of the state, and what a place says of the call.              *)
Types ==
  /\ lk \in [Units -> [LProcs -> Locks]]
  /\ lpc \in [LProcs -> Places]
  /\ op \in [LProcs -> Calls]
  /\ spoiled \in BOOLEAN /\ unlocked \in BOOLEAN
  /\ \A p \in LProcs : lpc[p] = "wait" => Asks(op[p])
  /\ \A p \in LProcs : lpc[p] \in {"add", "added"} => op[p].do = "add"
  /\ \A p \in LProcs : lpc[p] \in {"delete", "deleted"} => op[p].do = "delete"

(* No deletion met an empty list, no failed lock call was ignored.         *)
Good == ~spoiled /\ ~unlocked

(* A process inside a list function has every unit to itself.              *)
LockInv ==
  Good => \A p \in LProcs : Inside(p) =>
            \A u \in Units : /\ lk[u][p] = "write"
                             /\ \A q \in LProcs : q # p => lk[u][q] = "none"

(* The active records that hold v.                                         *)
Where(v) == {x \in Records : x < nextx /\ rec[x] = v}

(* A process is between the two writes of a deletion that left v twice.    *)
Doubled(v) == \E p \in LProcs : lpc[p] = "deleted" /\ rec[op[p].arg + 1] = v

(* The list at every step: a record is written behind the list before it   *)
(* is counted, and moved over another before it is dropped.                *)
Contents ==
  /\ nextx \in 1 .. capacity + 1
  /\ rec \in [Records -> Values \cup {Blank}]
  /\ \A x \in Records : x < nextx => rec[x] \in Values
  /\ content \in [Values -> Int] /\ torn \in [Values -> Int]
Between ==
  /\ \A p \in LProcs : lpc[p] = "added" => nextx <= capacity /\ rec[nextx] = op[p].arg
  /\ \A p \in LProcs : lpc[p] = "deleted" =>
       op[p].arg + 1 < nextx - 1 /\ rec[op[p].arg + 1] = rec[nextx - 1]
Twice(v) == IF Doubled(v) THEN 1 ELSE 0
Balanced == \A v \in Values : Cardinality(Where(v)) = content[v] + torn[v] + Twice(v)

DataInv == Good => Contents /\ Between /\ Balanced

(***************************************************************************)
(* The steps.                                                              *)
(***************************************************************************)

(* The three record locks and the two list locks are one request.          *)
LEMMA Requests ==
  ASSUME NEW p \in LProcs, LinStep(p)
  PROVE  \/ \E o \in Calls : Asks(o) /\ Request(p, o)
         \/ \E x \in Records : mmfor_unlock_record(p, x)
         \/ Granted(p) \/ Deadlock(p) \/ linlist_list_unlock(p) \/ mmfor_close(p)
         \/ linlist_add_record(p) \/ added(p) \/ linlist_delete_recordx(p) \/ deleted(p)
         \/ LinKill(p)
<1>1. ASSUME NEW x \in Records, NEW t \in {"read", "write"}
      PROVE  LET o == [units |-> {x}, type |-> t, do |-> "idle", arg |-> Blank]
             IN  o \in Calls /\ Asks(o)
  <2>1. {x} \subseteq Units
    BY <1>1, LinearListAssumption DEF Records, Units
  <2>2. QED
    BY <2>1, <1>1 DEF Calls, Asks, Locks
<1>2. ASSUME NEW v \in Values
      PROVE  LET o == [units |-> Units, type |-> "write", do |-> "add", arg |-> v]
             IN  o \in Calls /\ Asks(o)
  <2>1. 0 \in Units
    BY LinearListAssumption DEF Units
  <2>2. QED
    BY <2>1, <1>2 DEF Calls, Asks, Locks
<1>3. ASSUME NEW x \in 0 .. capacity - 1
      PROVE  LET o == [units |-> Units, type |-> "write", do |-> "delete", arg |-> x]
             IN  o \in Calls /\ Asks(o)
  <2>1. 0 \in Units
    BY LinearListAssumption DEF Units
  <2>2. QED
    BY <2>1, <1>3 DEF Calls, Asks, Locks
<1>4. CASE \E x \in Records : \/ mmfor_lock_record_p_read(p, x) \/ mmfor_lock_record_p_write(p, x)
                              \/ mmfor_lock_record_x_write(p, x)
  BY <1>4, <1>1 DEF mmfor_lock_record_p_read, mmfor_lock_record_p_write, mmfor_lock_record_x_write
<1>5. CASE \E v \in Values : linlist_list_lock(p, "add", v)
  BY <1>5, <1>2 DEF linlist_list_lock
<1>6. CASE \E x \in 0 .. capacity - 1 : linlist_list_lock(p, "delete", x)
  BY <1>6, <1>3 DEF linlist_list_lock
<1>7. QED
  BY <1>4, <1>5, <1>6 DEF LinStep

(* What SetLock leaves.                                                    *)
LEMMA LockSet ==
  ASSUME lk \in [Units -> [LProcs -> Locks]], NEW p \in LProcs, NEW U, NEW t \in Locks,
         SetLock(p, U, t)
  PROVE  /\ lk' \in [Units -> [LProcs -> Locks]]
         /\ \A u \in Units, q \in LProcs :
              lk'[u][q] = IF u \in U /\ q = p THEN t ELSE lk[u][q]
BY DEF SetLock

(* Types is kept.                                                          *)
LEMMA NextTypes ==
  ASSUME Types, NEW p \in LProcs, LinStep(p)
  PROVE  Types'
<1> USE DEF Types, Become
<1>a. NoOp \in Calls
  BY DEF NoOp, Calls, Locks
<1>1. CASE \E o \in Calls : Asks(o) /\ Request(p, o)
  BY <1>1 DEF Request, Places, linhistory
<1>2. CASE \E x \in Records : mmfor_unlock_record(p, x)
  <2>1. PICK x \in Records : mmfor_unlock_record(p, x)
    BY <1>2
  <2>2. lk' \in [Units -> [LProcs -> Locks]]
    BY <2>1, LockSet DEF mmfor_unlock_record, Locks
  <2>3. QED
    BY <2>1, <2>2 DEF mmfor_unlock_record, linhistory
<1>3. CASE Granted(p)
  <2>1. op[p].type \in Locks /\ op[p].do \in {"idle", "add", "delete"}
    BY DEF Calls
  <2>2. lk' \in [Units -> [LProcs -> Locks]]
    BY <1>3, <2>1, LockSet DEF Granted
  <2>3. lpc' = [lpc EXCEPT ![p] = op[p].do] /\ op' = op /\ UNCHANGED <<spoiled, unlocked>>
    BY <1>3 DEF Granted, linhistory
  <2>4. QED
    BY <2>1, <2>2, <2>3 DEF Places
<1>4. CASE Deadlock(p)
  <2>1. op[p].do \in {"idle", "add", "delete"}
    BY DEF Calls
  <2>2. /\ lpc' = [lpc EXCEPT ![p] = op[p].do] /\ UNCHANGED <<op, lk, spoiled>>
        /\ unlocked' \in BOOLEAN
    BY <1>4 DEF Deadlock
  <2>3. QED
    BY <2>1, <2>2 DEF Places
<1>5. CASE linlist_list_unlock(p) \/ mmfor_close(p)
  <2>1. Release(p) /\ UNCHANGED <<spoiled, unlocked>>
    BY <1>5 DEF linlist_list_unlock, mmfor_close, linhistory
  <2>2. lk' \in [Units -> [LProcs -> Locks]]
    BY <2>1, LockSet DEF Release, Locks
  <2>3. QED
    BY <2>1, <2>2, <1>a DEF Release, Places
<1>6. CASE linlist_add_record(p)
  <2>1. \E l \in {"unlock", "added"} : lpc' = [lpc EXCEPT ![p] = l]
    BY <1>6 DEF linlist_add_record
  <2>2. lpc[p] = "add" /\ UNCHANGED <<lk, op, spoiled, unlocked>>
    BY <1>6 DEF linlist_add_record, linhistory
  <2>3. QED
    BY <2>1, <2>2 DEF Places
<1>7. CASE added(p)
  BY <1>7 DEF added, Places
<1>8. CASE linlist_delete_recordx(p)
  <2>1. \E l \in {"unlock", "deleted"} : lpc' = [lpc EXCEPT ![p] = l]
    BY <1>8 DEF linlist_delete_recordx
  <2>2. lpc[p] = "delete" /\ UNCHANGED <<lk, op, unlocked>> /\ spoiled' \in BOOLEAN
    BY <1>8 DEF linlist_delete_recordx
  <2>3. QED
    BY <2>1, <2>2 DEF Places
<1>9. CASE deleted(p)
  BY <1>9 DEF deleted, Places, linhistory
<1>10. CASE LinKill(p)
  <2>1. lk' \in [Units -> [LProcs -> Locks]]
    BY <1>10, LockSet DEF LinKill, Locks
  <2>2. QED
    BY <1>10, <2>1, <1>a DEF LinKill, Places
<1>11. QED
  BY <1>1, <1>2, <1>3, <1>4, <1>5, <1>6, <1>7, <1>8, <1>9, <1>10, Requests

(* LockInv is kept: a grant of every unit waits until nobody holds one,    *)
(* and nobody is granted one while a process is inside.                    *)
LEMMA NextLocks ==
  ASSUME Types, LockInv, ~spoiled, NEW p \in LProcs, LinStep(p), Good'
  PROVE  LockInv' /\ Good
<1>0. Good
  <2>1. unlocked' = unlocked \/ unlocked' = (unlocked \/ op[p].do # "idle")
    BY Requests DEF Request, mmfor_unlock_record, Granted, Deadlock, linlist_list_unlock,
                    mmfor_close, linlist_add_record, added, linlist_delete_recordx, deleted,
                    LinKill, linhistory
  <2>2. ~unlocked
    BY <2>1 DEF Good, Types
  <2>3. QED
    BY <2>2 DEF Good
<1> USE DEF Become, Inside
<1>a. \A q \in LProcs : Inside(q) => \A u \in Units : /\ lk[u][q] = "write"
                              /\ \A r \in LProcs : r # q => lk[u][r] = "none"
  BY <1>0 DEF LockInv
<1>t. lk \in [Units -> [LProcs -> Locks]] /\ lpc \in [LProcs -> Places] /\ op \in [LProcs -> Calls]
  BY DEF Types
<1>b. SUFFICES ASSUME NEW q \in LProcs, Inside(q)', NEW u \in Units
               PROVE  lk'[u][q] = "write" /\ \A r \in LProcs : r # q => lk'[u][r] = "none"
  BY <1>0 DEF LockInv
<1>z. 0 \in Units
  BY LinearListAssumption DEF Units
<1>1. CASE lk' = lk /\ (lpc'[p] \in {"idle", "wait", "dead"} \/ Inside(p))
           /\ \A r \in LProcs \ {p} : lpc'[r] = lpc[r]
  <2>1. Inside(q)
    BY <1>1, <1>b
  <2>2. QED
    BY <1>1, <1>a, <2>1
<1>2. CASE Granted(p)
  <2>1. op[p].type \in Locks /\ op[p].type # "none" /\ op[p].units \subseteq Units /\ op[p].units # {}
        /\ (op[p].do # "idle" => op[p].units = Units /\ op[p].type = "write")
    BY <1>2 DEF Types, Granted, Asks, Calls
  <2>2. \A r \in LProcs, n \in Units :
          lk'[n][r] = IF n \in op[p].units /\ r = p THEN op[p].type ELSE lk[n][r]
    BY <1>2, <1>t, <2>1, LockSet DEF Granted
  <2>3. \A r \in LProcs \ {p} : \A n \in op[p].units : ~Conflict(op[p].type, lk[n][r])
    BY <1>2 DEF Granted, Blocked, BlockedBy
  <2>4. \A r \in LProcs \ {p} : ~Inside(r)
    <3>1. SUFFICES ASSUME NEW r \in LProcs \ {p}, Inside(r) PROVE FALSE
      OBVIOUS
    <3>2. PICK n \in op[p].units : TRUE
      BY <2>1
    <3>3. lk[n][r] = "write"
      BY <3>1, <3>2, <1>a, <2>1
    <3>4. QED
      BY <3>2, <3>3, <2>3, <2>1 DEF Conflict
  <2>5. lpc' = [lpc EXCEPT ![p] = op[p].do]
    BY <1>2 DEF Granted
  <2>6. q = p /\ op[p].do # "idle"
    BY <2>4, <2>5, <1>b, <1>t
  <2>7. lk'[u][p] = "write"
    BY <2>1, <2>2, <2>6
  <2>8. \A r \in LProcs \ {p} : lk[u][r] = "none"
    BY <2>1, <2>3, <2>6, <1>t DEF Conflict, Locks
  <2>9. QED
    BY <2>2, <2>6, <2>7, <2>8
<1>3. CASE Release(p) \/ LinKill(p) \/ \E x \in Records : mmfor_unlock_record(p, x)
  <2>1. PICK U \in SUBSET Units : SetLock(p, U, "none")
    <3>1. \A x \in Records : {x} \in SUBSET Units
      BY LinearListAssumption DEF Units, Records
    <3>2. QED
      BY <1>3, <3>1 DEF Release, LinKill, mmfor_unlock_record
  <2>2. \A r \in LProcs, n \in Units :
          lk'[n][r] = IF n \in U /\ r = p THEN "none" ELSE lk[n][r]
    BY <1>t, <2>1, LockSet DEF Locks
  <2>3. lpc'[p] \notin {"add", "added", "delete", "deleted", "unlock"}
    BY <1>3, <1>t DEF Release, LinKill, mmfor_unlock_record
  <2>4. \A r \in LProcs \ {p} : lpc'[r] = lpc[r]
    BY <1>3, <1>t DEF Release, LinKill, mmfor_unlock_record
  <2>5. q # p /\ Inside(q)
    BY <1>b, <2>3, <2>4
  <2>6. QED
    BY <2>2, <2>5, <1>a
<1>4. CASE \E o \in Calls : Asks(o) /\ Request(p, o)
  BY <1>4, <1>1, <1>t DEF Request
<1>5. CASE Deadlock(p)
  <2>1. op[p].do = "idle"
    BY <1>5 DEF Deadlock, Good
  <2>2. QED
    BY <1>5, <1>1, <1>t, <2>1 DEF Deadlock
<1>6. CASE linlist_add_record(p) \/ added(p) \/ deleted(p)
  BY <1>6, <1>1, <1>t DEF linlist_add_record, added, deleted
<1>7. CASE linlist_delete_recordx(p)
  <2>1. \E l \in {"unlock", "deleted"} : lpc' = [lpc EXCEPT ![p] = l]
    BY <1>7 DEF linlist_delete_recordx
  <2>2. QED
    BY <1>7, <2>1, <1>1, <1>t DEF linlist_delete_recordx
<1>8. CASE linlist_list_unlock(p) \/ mmfor_close(p)
  BY <1>8, <1>3 DEF linlist_list_unlock, mmfor_close
<1>9. QED
  BY <1>2, <1>3, <1>4, <1>5, <1>6, <1>7, <1>8, Requests

(* Nobody else is inside where one process is.                             *)
LEMMA Alone ==
  ASSUME Types, LockInv, Good, NEW p \in LProcs, Inside(p)
  PROVE  \A q \in LProcs \ {p} : ~Inside(q)
<1>1. 0 \in Units
  BY LinearListAssumption DEF Units
<1>2. QED
  BY <1>1 DEF LockInv

(***************************************************************************)
(* The records.                                                            *)
(***************************************************************************)

(* One record more or less among those that hold a value.                  *)
LEMMA OneMore ==
  ASSUME NEW S \in SUBSET Records, NEW T \in SUBSET Records, NEW x \in Records,
         x \notin S, T = S \cup {x}
  PROVE  Cardinality(S) \in Nat /\ Cardinality(T) = Cardinality(S) + 1
<1>1. IsFiniteSet(Records)
  BY FS_Interval, LinearListAssumption DEF Records
<1>2. IsFiniteSet(S)
  BY <1>1, FS_Subset
<1>3. QED
  BY <1>2, FS_AddElement, FS_CardinalityType

(* The number of records that hold a value is a number.                    *)
LEMMA WhereCounted ==
  ASSUME NEW v
  PROVE  /\ Where(v) \in SUBSET Records /\ Cardinality(Where(v)) \in Nat
         /\ Where(v)' \in SUBSET Records /\ Cardinality(Where(v)') \in Nat
<1>1. IsFiniteSet(Records)
  BY FS_Interval, LinearListAssumption DEF Records
<1>2. Where(v) \in SUBSET Records /\ Where(v)' \in SUBSET Records
  BY DEF Where
<1>3. QED
  BY <1>1, <1>2, FS_Subset, FS_CardinalityType

(* Where no value is there twice, the records are what they should be.     *)
LEMMA Even ==
  ASSUME Contents
  PROVE  /\ (\A v : ~Doubled(v)) =>
              (Balanced <=> \A v \in Values : Cardinality(Where(v)) = content[v] + torn[v])
         /\ \A v : (Doubled(v) => Twice(v) = 1) /\ (~Doubled(v) => Twice(v) = 0)
<1>1. \A v : (Doubled(v) => Twice(v) = 1) /\ (~Doubled(v) => Twice(v) = 0)
  BY DEF Twice
<1>2. \A v \in Values : content[v] + torn[v] + 0 = content[v] + torn[v]
  BY DEF Contents
<1>3. ASSUME \A v : ~Doubled(v)
      PROVE  Balanced <=> \A v \in Values : Cardinality(Where(v)) = content[v] + torn[v]
  <2>1. \A v \in Values : content[v] + torn[v] + Twice(v) = content[v] + torn[v]
    BY <1>1, <1>2, <1>3
  <2>2. QED
    BY <2>1 DEF Balanced
<1>4. QED
  BY <1>1, <1>3

(* The same of the next state.                                             *)
LEMMA EvenNext ==
  ASSUME Contents'
  PROVE  /\ (\A v : ~Doubled(v)') =>
              (Balanced' <=> \A v \in Values : Cardinality(Where(v)') = content'[v] + torn'[v])
         /\ \A v : (Doubled(v)' => Twice(v)' = 1) /\ (~Doubled(v)' => Twice(v)' = 0)
<1>1. \A v : (Doubled(v)' => Twice(v)' = 1) /\ (~Doubled(v)' => Twice(v)' = 0)
  BY DEF Twice
<1>2. \A v \in Values : content'[v] + torn'[v] + 0 = content'[v] + torn'[v]
  BY DEF Contents
<1>3. ASSUME \A v : ~Doubled(v)'
      PROVE  Balanced' <=> \A v \in Values : Cardinality(Where(v)') = content'[v] + torn'[v]
  <2>1. \A v \in Values : content'[v] + torn'[v] + Twice(v)' = content'[v] + torn'[v]
    BY <1>1, <1>2, <1>3
  <2>2. QED
    BY <2>1 DEF Balanced
<1>4. QED
  BY <1>1, <1>3

(* A step that is not between the two writes of a call, before or after,   *)
(* and touches no record.                                                  *)
LEMMA Frame ==
  ASSUME Types, Contents, Between, Balanced, NEW p \in LProcs,
         UNCHANGED <<nextx, rec, content, torn>>,
         \A q \in LProcs \ {p} : lpc'[q] = lpc[q] /\ op'[q] = op[q],
         lpc'[p] \notin {"added", "deleted"}, lpc[p] # "deleted"
  PROVE  Contents' /\ Between' /\ Balanced'
<1>1. Contents'
  BY DEF Contents
<1>2. Between'
  BY DEF Between
<1>3. ASSUME NEW v PROVE Where(v)' = Where(v) /\ Twice(v)' = Twice(v)
  <2>1. Doubled(v)' <=> Doubled(v)
    BY DEF Doubled
  <2>2. QED
    BY <2>1 DEF Where, Twice
<1>4. QED
  BY <1>1, <1>2, <1>3 DEF Balanced

(* Where one process is inside, only it can have left a value twice.       *)
LEMMA OnlyMine ==
  ASSUME Types, LockInv, Good, NEW p \in LProcs, Inside(p),
         \A q \in LProcs \ {p} : lpc'[q] = lpc[q], op' = op
  PROVE  /\ \A q \in LProcs \ {p} : /\ lpc[q] \notin {"added", "deleted"}
                                    /\ lpc'[q] \notin {"added", "deleted"}
         /\ \A v : Doubled(v) <=> lpc[p] = "deleted" /\ rec[op[p].arg + 1] = v
         /\ \A v : Doubled(v)' <=> lpc'[p] = "deleted" /\ rec'[op[p].arg + 1] = v
<1>1. \A q \in LProcs \ {p} : lpc[q] \notin {"added", "deleted"} /\ lpc'[q] \notin {"added", "deleted"}
  BY Alone DEF Inside
<1>2. QED
  BY <1>1 DEF Doubled

(* A record is copied behind the list.                                     *)
LEMMA DataAdd ==
  ASSUME Types, LockInv, Good, Contents, Between, Balanced, NEW p \in LProcs,
         linlist_add_record(p)
  PROVE  Contents' /\ Between' /\ Balanced'
<1>t. lpc \in [LProcs -> Places] /\ op \in [LProcs -> Calls] /\ lpc[p] = "add" /\ op[p].do = "add"
  BY DEF Types, linlist_add_record
<1>v. op[p].arg \in Values
  BY <1>t DEF Calls
<1>1. CASE nextx > capacity
  <2>1. lpc' = [lpc EXCEPT ![p] = "unlock"] /\ UNCHANGED <<nextx, rec, content, torn, op>>
    BY <1>1 DEF linlist_add_record, linhistory, Become
  <2>2. QED
    BY <1>t, <2>1, Frame
<1>2. CASE ~(nextx > capacity)
  <2>1. /\ lpc' = [lpc EXCEPT ![p] = "added"] /\ rec' = [rec EXCEPT ![nextx] = op[p].arg]
        /\ UNCHANGED <<nextx, content, torn, op>>
    BY <1>2 DEF linlist_add_record, linhistory, Become
  <2>2. nextx \in Records /\ rec \in [Records -> Values \cup {Blank}]
    BY <1>2, LinearListAssumption DEF Contents, Records
  <2>3. Contents'
    BY <1>v, <2>1, <2>2 DEF Contents
  <2>4. /\ \A q \in LProcs \ {p} : lpc'[q] \notin {"added", "deleted"}
        /\ \A v : ~Doubled(v) /\ ~Doubled(v)'
    BY <1>t, <2>1, OnlyMine DEF Inside
  <2>5. Between'
    BY <1>2, <1>t, <2>1, <2>2, <2>4, LinearListAssumption DEF Between, Contents
  <2>6. ASSUME NEW v PROVE Where(v)' = Where(v)
    BY <2>1, <2>2 DEF Where, Records
  <2>7. QED
    BY <2>1, <2>3, <2>4, <2>5, <2>6, Even, EvenNext
<1>3. QED
  BY <1>1, <1>2

(* It is counted.                                                          *)
LEMMA DataAdded ==
  ASSUME Types, LockInv, Good, Contents, Between, Balanced, NEW p \in LProcs, added(p)
  PROVE  Contents' /\ Between' /\ Balanced'
<1>t. lpc \in [LProcs -> Places] /\ op \in [LProcs -> Calls] /\ lpc[p] = "added" /\ op[p].do = "add"
  BY DEF Types, added
<1>v. op[p].arg \in Values
  BY <1>t DEF Calls
<1>1. /\ nextx' = nextx + 1 /\ lpc' = [lpc EXCEPT ![p] = "unlock"]
      /\ content' = [content EXCEPT ![op[p].arg] = @ + 1] /\ UNCHANGED <<rec, op, torn>>
  BY DEF added, Become, Count
<1>2. nextx \in Records /\ rec[nextx] = op[p].arg
  BY <1>t, LinearListAssumption DEF Between, Contents, Records
<1>3. Contents'
  BY <1>v, <1>1, <1>2, LinearListAssumption DEF Contents, Records
<1>4. /\ \A q \in LProcs : lpc'[q] \notin {"added", "deleted"}
      /\ \A v : ~Doubled(v) /\ ~Doubled(v)'
  BY <1>t, <1>1, OnlyMine DEF Inside
<1>5. Between'
  BY <1>4 DEF Between
<1>6. Where(op[p].arg)' = Where(op[p].arg) \cup {nextx} /\ nextx \notin Where(op[p].arg)
  BY <1>1, <1>2, LinearListAssumption DEF Where, Contents, Records
<1>7. Cardinality(Where(op[p].arg)') = Cardinality(Where(op[p].arg)) + 1
  <2>1. Where(op[p].arg) \in SUBSET Records /\ Where(op[p].arg)' \in SUBSET Records
    BY <1>2, <1>6 DEF Where
  <2>2. QED
    BY <1>2, <1>6, <2>1, OneMore
<1>8. ASSUME NEW v, v # op[p].arg PROVE Where(v)' = Where(v)
  BY <1>1, <1>2, <1>8, LinearListAssumption DEF Where, Contents, Records
<1>9. \A v \in Values : Cardinality(Where(v)) = content[v] + torn[v]
  BY <1>4, Even
<1>10. ASSUME NEW v \in Values PROVE Cardinality(Where(v)') = content'[v] + torn'[v]
  <2>1. CASE v = op[p].arg
    BY <2>1, <1>v, <1>1, <1>7, <1>9 DEF Contents
  <2>2. CASE v # op[p].arg
    BY <2>2, <1>v, <1>1, <1>8, <1>9 DEF Contents
  <2>3. QED
    BY <2>1, <2>2
<1>11. QED
  BY <1>3, <1>4, <1>5, <1>10, EvenNext

(* What a deletion of a record of the list finds.                          *)
LEMMA Deleting ==
  ASSUME Types, LockInv, Good, Contents, NEW p \in LProcs, lpc[p] = "delete",
         NEW x, x = op[p].arg + 1, x <= fence + 1
  PROVE  /\ x \in 1 .. nextx - 1 /\ x \in Records /\ nextx - 1 \in Records
         /\ rec[x] \in Values /\ rec[nextx - 1] \in Values
<1>1. op[p].arg \in 0 .. capacity - 1
  BY DEF Types, Calls
<1>2. x \in 1 .. nextx - 1 /\ nextx - 1 \in Records /\ x \in Records
  BY <1>1, LinearListAssumption DEF Contents, fence, Records
<1>3. QED
  BY <1>2, LinearListAssumption DEF Contents

(* The record to delete: nothing to do, the last one, or one that the last *)
(* is moved over.                                                          *)
LEMMA DataDelete ==
  ASSUME Types, LockInv, Good, Good', Contents, Between, Balanced, NEW p \in LProcs,
         linlist_delete_recordx(p)
  PROVE  Contents' /\ Between' /\ Balanced'
<1>t. /\ lpc \in [LProcs -> Places] /\ op \in [LProcs -> Calls]
      /\ lpc[p] = "delete" /\ op[p].do = "delete"
  BY DEF Types, linlist_delete_recordx
<1>x. op[p].arg \in Int
  BY <1>t DEF Calls
<1>y. PICK x \in Int : x = op[p].arg + 1
  BY <1>x
<1>c. \A v \in Values : Cardinality(Where(v)) = content[v] + torn[v]
  <2>1. \A v : ~Doubled(v)
    BY <1>t, Alone DEF Doubled, Inside
  <2>2. QED
    BY <2>1, Even
<1>1. CASE fence < op[p].arg
  <2>1. lpc' = [lpc EXCEPT ![p] = "unlock"] /\ UNCHANGED <<nextx, rec, content, torn, op>>
    BY <1>1, <1>x DEF linlist_delete_recordx, Become, Good, fence, Contents
  <2>2. QED
    BY <1>t, <2>1, Frame
<1>2. CASE op[p].arg = fence
  <2>1. /\ nextx' = nextx - 1 /\ lpc' = [lpc EXCEPT ![p] = "unlock"]
        /\ content' = [content EXCEPT ![rec[x]] = @ - 1] /\ UNCHANGED <<rec, op, torn>>
    BY <1>2, <1>x, <1>y DEF linlist_delete_recordx, Become, Good, fence, Contents, Count
  <2>2. x = nextx - 1 /\ x \in Records /\ rec[x] \in Values
    BY <1>2, <1>t, <1>x, <1>y, Deleting DEF fence, Contents
  <2>w. PICK w : w = rec[x]
    OBVIOUS
  <2>3. Contents'
    BY <2>1, <2>2, LinearListAssumption DEF Contents, Records
  <2>4. /\ \A q \in LProcs : lpc'[q] \notin {"added", "deleted"}
        /\ \A v : ~Doubled(v)'
    BY <1>t, <2>1, OnlyMine DEF Inside
  <2>5. Between'
    BY <2>4 DEF Between
  <2>6. Where(w) = Where(w)' \cup {x} /\ x \notin Where(w)'
    BY <2>1, <2>2, <2>w, LinearListAssumption DEF Where, Contents, Records
  <2>7. Cardinality(Where(w)) = Cardinality(Where(w)') + 1
        /\ Cardinality(Where(w)') \in Nat
    <3>1. Where(w) \in SUBSET Records /\ Where(w)' \in SUBSET Records
      BY <2>1 DEF Where
    <3>2. QED
      BY <2>2, <2>6, <3>1, OneMore
  <2>8. ASSUME NEW v, v # w PROVE Where(v)' = Where(v)
    BY <2>1, <2>2, <2>w, <2>8, LinearListAssumption DEF Where, Contents, Records
  <2>9. ASSUME NEW v \in Values PROVE Cardinality(Where(v)') = content'[v] + torn'[v]
    <3>1. CASE v = w
      <4>1. content'[v] = content[v] - 1 /\ torn'[v] = torn[v] /\ content[v] \in Int /\ torn[v] \in Int
        BY <3>1, <2>1, <2>2, <2>w DEF Contents
      <4>2. Cardinality(Where(v)) = Cardinality(Where(v)') + 1 /\ Cardinality(Where(v)') \in Nat
        BY <3>1, <2>7
      <4>3. QED
        BY <4>1, <4>2, <1>c
    <3>2. CASE v # w
      BY <3>2, <2>1, <2>2, <2>w, <2>8, <1>c DEF Contents
    <3>3. QED
      BY <3>1, <3>2
  <2>10. QED
    BY <2>3, <2>4, <2>5, <2>9, EvenNext
<1>3. CASE op[p].arg < fence
  <2> DEFINE last == rec[nextx - 1]
  <2>1. /\ lpc' = [lpc EXCEPT ![p] = "deleted"] /\ rec' = [rec EXCEPT ![x] = last]
        /\ content' = [content EXCEPT ![rec[x]] = @ - 1] /\ UNCHANGED <<nextx, op, torn>>
    <3>1. fence + 1 = nextx - 1
      BY DEF fence, Contents
    <3>2. QED
      BY <1>3, <1>x, <1>y, <3>1 DEF linlist_delete_recordx, Become, Good, fence, Contents, Count
  <2>2. x \in Records /\ x < nextx - 1 /\ nextx - 1 \in Records
        /\ rec[x] \in Values /\ last \in Values
    BY <1>3, <1>t, <1>x, <1>y, Deleting DEF fence, Contents
  <2>3. rec \in [Records -> Values \cup {Blank}] /\ rec'[x] = last /\ rec'[nextx - 1] = last
    BY <2>1, <2>2 DEF Contents
  <2> HIDE DEF last
  <2>4. Contents'
    BY <2>1, <2>2 DEF Contents
  <2>5. /\ \A q \in LProcs \ {p} : lpc'[q] \notin {"added", "deleted"}
        /\ \A v : Doubled(v)' <=> v = last
    BY <1>t, <1>y, <2>1, <2>3, OnlyMine DEF Inside
  <2>6. Between'
    BY <1>t, <2>1, <2>2, <2>3, <2>5, <1>y DEF Between
  <2>7. PICK w : w = rec[x]
    OBVIOUS
  <2>8. \A v : /\ Where(v) \in SUBSET Records /\ Cardinality(Where(v)) \in Nat
               /\ Where(v)' \in SUBSET Records /\ Cardinality(Where(v)') \in Nat
    BY WhereCounted
  <2>9. ASSUME NEW v \in Values
        PROVE  Cardinality(Where(v)') = content'[v] + torn'[v] + Twice(v)'
    <3>1. content[v] \in Int /\ torn[v] \in Int /\ torn'[v] = torn[v]
          /\ content'[v] = IF v = w THEN content[v] - 1 ELSE content[v]
      BY <2>1, <2>2, <2>7 DEF Contents
    <3>2. Twice(v)' = IF v = last THEN 1 ELSE 0
      BY <2>5 DEF Twice
    <3>3. Where(v)' = IF v = last THEN Where(v) \cup {x} ELSE Where(v) \ {x}
      <4>1. x < nextx
        BY <2>2 DEF Contents
      <4>2. \A y \in Records : rec'[y] = IF y = x THEN last ELSE rec[y]
        BY <2>1, <2>2 DEF Contents
      <4>3. QED
        BY <4>1, <4>2, <2>1, <2>2 DEF Where
    <3>4. x \in Where(v) <=> v = w
      BY <2>2, <2>7, <2>8 DEF Where, Contents
    <3>5. Cardinality(Where(v)') = Cardinality(Where(v)) + (IF v = last THEN 1 ELSE 0)
                                                         - (IF v = w THEN 1 ELSE 0)
      <4>1. CASE v = last /\ v = w
        <5>1. Where(v)' = Where(v)
          BY <4>1, <3>3, <3>4
        <5>2. QED
          BY <4>1, <5>1, <2>8
      <4>2. CASE v = last /\ v # w
        <5>1. Cardinality(Where(v)') = Cardinality(Where(v)) + 1
          BY <4>2, <3>3, <3>4, <2>8, <2>2, OneMore
        <5>2. QED
          BY <4>2, <5>1, <2>8
      <4>3. CASE v # last /\ v = w
        <5>1. Where(v) = Where(v)' \cup {x} /\ x \notin Where(v)'
          BY <4>3, <3>3, <3>4
        <5>2. Cardinality(Where(v)) = Cardinality(Where(v)') + 1
          BY <5>1, <2>8, <2>2, OneMore
        <5>3. QED
          BY <4>3, <5>2, <2>8
      <4>4. CASE v # last /\ v # w
        <5>1. Where(v)' = Where(v)
          BY <4>4, <3>3, <3>4
        <5>2. QED
          BY <4>4, <5>1, <2>8
      <4>5. QED
        BY <4>1, <4>2, <4>3, <4>4
    <3>6. Cardinality(Where(v)) = content[v] + torn[v]
      BY <1>c
    <3>7. QED
      BY <3>1, <3>2, <3>5, <3>6
  <2>10. QED
    BY <2>4, <2>6, <2>9 DEF Balanced
<1>4. QED
  BY <1>1, <1>2, <1>3, <1>x DEF fence, Contents

(* The last record is dropped after the move.                              *)
LEMMA DataDeleted ==
  ASSUME Types, LockInv, Good, Contents, Between, Balanced, NEW p \in LProcs, deleted(p)
  PROVE  Contents' /\ Between' /\ Balanced'
<1>t. lpc \in [LProcs -> Places] /\ lpc[p] = "deleted" /\ op[p].do = "delete"
      /\ op[p].arg \in 0 .. capacity - 1
  BY DEF Types, deleted, Calls
<1>1. /\ nextx' = nextx - 1 /\ lpc' = [lpc EXCEPT ![p] = "unlock"]
      /\ UNCHANGED <<rec, op, content, torn>>
  BY DEF deleted, Become, linhistory
<1>2. PICK x \in Int : x = op[p].arg + 1
  BY <1>t
<1>3. PICK w : w = rec[x]
  OBVIOUS
<1>4. x \in Records /\ x < nextx - 1 /\ nextx - 1 \in Records /\ w = rec[nextx - 1]
  BY <1>t, <1>2, <1>3, LinearListAssumption DEF Between, Contents, Records
<1>a. PICK n \in Records : /\ n = nextx - 1 /\ nextx' = n /\ rec[n] = w /\ rec' = rec
                           /\ ~(n < n)
  BY <1>1, <1>4 DEF Records
<1>b. \A y \in Records : y < nextx <=> y < n \/ y = n
  BY <1>a DEF Contents, Records
<1>5. Contents'
  BY <1>1, <1>4, LinearListAssumption DEF Contents, Records
<1>6. /\ \A q \in LProcs : lpc'[q] \notin {"added", "deleted"}
      /\ \A v : (Doubled(v) <=> v = w) /\ ~Doubled(v)'
  BY <1>t, <1>1, <1>2, <1>3, OnlyMine DEF Inside
<1>7. Between'
  BY <1>6 DEF Between
<1>8. \A v : /\ Where(v) \in SUBSET Records /\ Cardinality(Where(v)) \in Nat
             /\ Where(v)' \in SUBSET Records /\ Cardinality(Where(v)') \in Nat
  BY WhereCounted
<1>9. ASSUME NEW v \in Values PROVE Cardinality(Where(v)') = content'[v] + torn'[v]
  <2>1. /\ content[v] \in Int /\ torn[v] \in Int /\ torn'[v] = torn[v] /\ content'[v] = content[v]
    BY <1>1 DEF Contents
  <2>2. CASE v = w
    <3>1. Where(v) = Where(v)' \cup {n} /\ n \notin Where(v)'
      BY <2>2, <1>a, <1>b DEF Where
    <3>2. Cardinality(Where(v)) = Cardinality(Where(v)') + 1
      BY <3>1, <1>a, <1>8, OneMore
    <3>3. Cardinality(Where(v)) = content[v] + torn[v] + 1
      <4>1. Twice(v) = 1
        BY <2>2, <1>6, Even
      <4>2. QED
        BY <4>1 DEF Balanced
    <3>4. QED
      BY <3>2, <3>3, <2>1, <1>8
  <2>3. CASE v # w
    <3>1. Where(v) = Where(v)'
      BY <2>3, <1>a, <1>b DEF Where
    <3>2. Cardinality(Where(v)) = content[v] + torn[v] + 0
      <4>1. Twice(v) = 0
        BY <2>3, <1>6, Even
      <4>2. QED
        BY <4>1 DEF Balanced
    <3>3. QED
      BY <3>1, <3>2, <2>1
  <2>4. QED
    BY <2>2, <2>3
<1>10. QED
  BY <1>5, <1>6, <1>7, <1>9, EvenNext

(* A kill between the two writes of a deletion leaves the value twice, and *)
(* torn counts it; anywhere else it leaves the list as it is.              *)
LEMMA DataKill ==
  ASSUME Types, LockInv, Good, Contents, Between, Balanced, NEW p \in LProcs, LinKill(p)
  PROVE  Contents' /\ Between' /\ Balanced'
<1>t. lpc \in [LProcs -> Places] /\ op \in [LProcs -> Calls]
  BY DEF Types
<1>1. /\ lpc' = [lpc EXCEPT ![p] = "dead"] /\ op' = [op EXCEPT ![p] = NoOp]
      /\ UNCHANGED <<nextx, rec, content>>
  BY DEF LinKill, Become
<1>2. CASE lpc[p] # "deleted"
  <2>1. torn' = torn
    BY <1>2 DEF LinKill
  <2>2. QED
    BY <1>2, <1>t, <1>1, <2>1, Frame
<1>3. CASE lpc[p] = "deleted"
  <2>0. op[p].arg \in 0 .. capacity - 1
    BY <1>3 DEF Types, Calls
  <2>1. PICK x \in Int : x = op[p].arg + 1
    BY <2>0
  <2>2. PICK w : w = rec[x]
    OBVIOUS
  <2>3. w \in Values
    BY <1>3, <2>0, <2>1, <2>2, LinearListAssumption DEF Between, Contents, Records
  <2>4. torn' = [torn EXCEPT ![w] = @ + 1]
    BY <1>3, <2>1, <2>2 DEF LinKill
  <2>5. Contents'
    BY <1>1, <2>3, <2>4 DEF Contents
  <2>6. \A q \in LProcs \ {p} : lpc[q] \notin {"added", "deleted"}
    BY <1>3, Alone DEF Inside
  <2>7. \A q \in LProcs : lpc'[q] \notin {"added", "deleted"}
    BY <1>t, <1>1, <2>6
  <2>8. \A v : (Doubled(v) <=> v = w) /\ ~Doubled(v)'
    BY <1>3, <2>1, <2>2, <2>6, <2>7 DEF Doubled
  <2>9. Between'
    BY <2>7 DEF Between
  <2>10. ASSUME NEW v \in Values PROVE Cardinality(Where(v)') = content'[v] + torn'[v]
    <3>1. Where(v)' = Where(v)
      BY <1>1 DEF Where
    <3>2. Cardinality(Where(v)) = content[v] + torn[v] + Twice(v)
      BY DEF Balanced
    <3>3. Twice(v) = IF v = w THEN 1 ELSE 0
      BY <2>8 DEF Twice
    <3>4. torn'[v] = IF v = w THEN torn[v] + 1 ELSE torn[v]
      BY <2>4 DEF Contents
    <3>5. content'[v] = content[v] /\ content[v] \in Int /\ torn[v] \in Int
      BY <1>1 DEF Contents
    <3>6. QED
      BY <3>1, <3>2, <3>3, <3>4, <3>5
  <2>11. QED
    BY <2>5, <2>7, <2>8, <2>9, <2>10, EvenNext
<1>4. QED
  BY <1>2, <1>3

(* DataInv is kept.                                                        *)
LEMMA NextData ==
  ASSUME Types, LockInv, DataInv, ~spoiled, NEW p \in LProcs, LinStep(p)
  PROVE  DataInv'
<1>1. SUFFICES ASSUME Good' PROVE Contents' /\ Between' /\ Balanced'
  BY DEF DataInv
<1>2. Good /\ Contents /\ Between /\ Balanced
  BY <1>1, NextLocks DEF DataInv
<1>3. lpc \in [LProcs -> Places] /\ op \in [LProcs -> Calls] /\ op[p].do \in {"idle", "add", "delete"}
  BY DEF Types, Calls
<1>4. CASE linlist_add_record(p) \/ added(p) \/ linlist_delete_recordx(p) \/ deleted(p) \/ LinKill(p)
  BY <1>1, <1>2, <1>4, DataAdd, DataAdded, DataDelete, DataDeleted, DataKill
<1>5. CASE \/ \E o \in Calls : Asks(o) /\ Request(p, o)
           \/ \E x \in Records : mmfor_unlock_record(p, x)
           \/ Granted(p) \/ Deadlock(p) \/ linlist_list_unlock(p) \/ mmfor_close(p)
  <2>1. UNCHANGED <<nextx, rec, content, torn>>
    BY <1>5 DEF Request, mmfor_unlock_record, Granted, Deadlock, linlist_list_unlock, mmfor_close,
                linhistory
  <2>2. \A q \in LProcs \ {p} : lpc'[q] = lpc[q] /\ op'[q] = op[q]
    BY <1>3, <1>5 DEF Request, mmfor_unlock_record, Granted, Deadlock, linlist_list_unlock,
                      mmfor_close, Release, Become
  <2>3. lpc'[p] \notin {"added", "deleted"} /\ lpc[p] # "deleted"
    BY <1>3, <1>5 DEF Request, mmfor_unlock_record, Granted, Deadlock, OnCycle, BlockedBy,
                      linlist_list_unlock, mmfor_close, Release, Become
  <2>4. QED
    BY <1>2, <2>1, <2>2, <2>3, Frame
<1>6. QED
  BY <1>4, <1>5, Requests

(***************************************************************************)
(* The theorem.                                                            *)
(***************************************************************************)
ListStrong == Types /\ LockInv /\ DataInv

(* The list as linlist_create leaves it.                                   *)
LEMMA InitList ==
  ASSUME LinInit
  PROVE  ListStrong
<1>1. NoOp \in Calls
  BY DEF NoOp, Calls, Locks
<1>2. Types
  BY <1>1 DEF LinInit, Types, Locks, Places
<1>3. LockInv
  BY DEF LinInit, LockInv, Inside
<1>4. Contents /\ Between
  BY LinearListAssumption DEF LinInit, Contents, Between, Records
<1>5. \A v : ~Doubled(v)
  BY DEF LinInit, Doubled
<1>6. \A v : Where(v) = {}
  BY LinearListAssumption DEF LinInit, Where, Records
<1>7. \A v \in Values : Cardinality(Where(v)) = content[v] + torn[v]
  BY <1>6, FS_EmptySet DEF LinInit
<1>8. QED
  BY <1>2, <1>3, <1>4, <1>5, <1>7, Even DEF ListStrong, DataInv

(* The record list (linearlist.c over mmfor.c): while no deletion met an   *)
(* empty list and no failed lock call was ignored, a process inside a list *)
(* function is alone, and between calls the records are contiguous and     *)
(* each value is there as often as it was added and not deleted, but for   *)
(* what kills in the middle of a deletion left twice.  This for any        *)
(* capacity, values, processes, record locks and kills.                    *)
THEOREM ListSafe == LinSpec => []LinearInv
<1>1. LinInit => ListStrong
  BY InitList
<1>2. ListStrong /\ [LinNext]_linvars => ListStrong'
  <2>1. ASSUME ListStrong, LinNext PROVE ListStrong'
    <3>1. PICK p \in LProcs : LinStep(p)
      BY <2>1 DEF LinNext
    <3>2. Types /\ LockInv /\ DataInv /\ ~spoiled
      BY <2>1 DEF ListStrong, LinNext
    <3>3. Types' /\ DataInv'
      BY <3>1, <3>2, NextTypes, NextData
    <3>4. LockInv'
      <4>1. CASE Good'
        BY <4>1, <3>1, <3>2, NextLocks
      <4>2. CASE ~Good'
        BY <4>2 DEF LockInv
      <4>3. QED
        BY <4>1, <4>2
    <3>5. QED
      BY <3>3, <3>4 DEF ListStrong
  <2>2. ASSUME ListStrong, UNCHANGED linvars PROVE ListStrong'
    BY <2>2 DEF ListStrong, linvars, Types, LockInv, DataInv, Good, Inside, Contents, Between,
                Balanced, Where, Twice, Doubled
  <2>3. QED
    BY <2>1, <2>2
<1>3. ListStrong => LinearInv
  <2>1. SUFFICES ASSUME ListStrong, Good PROVE
            /\ nextx \in 1 .. capacity + 1
            /\ \A p, q \in LProcs : Inside(p) /\ p # q =>
                 ~Inside(q) /\ \A u \in Units : lk[u][q] = "none"
            /\ (\A p \in LProcs : ~Inside(p)) =>
                 /\ \A x \in Records : x < nextx => rec[x] \in Values
                 /\ \A v \in Values : Holds(v) = content[v] + torn[v]
    BY DEF LinearInv, Good
  <2>2. nextx \in 1 .. capacity + 1 /\ \A x \in Records : x < nextx => rec[x] \in Values
    BY <2>1 DEF ListStrong, DataInv, Contents
  <2>3. ASSUME NEW p \in LProcs, NEW q \in LProcs, Inside(p), p # q
        PROVE  ~Inside(q) /\ \A u \in Units : lk[u][q] = "none"
    BY <2>1, <2>3, Alone DEF ListStrong, LockInv
  <2>4. ASSUME \A p \in LProcs : ~Inside(p)
        PROVE  \A v \in Values : Holds(v) = content[v] + torn[v]
    <3>1. \A v : ~Doubled(v)
      BY <2>4 DEF Doubled, Inside
    <3>2. \A v : Holds(v) = Cardinality(Where(v))
      BY DEF Holds, Where
    <3>3. QED
      BY <2>1, <3>1, <3>2, Even DEF ListStrong, DataInv
  <2>5. QED
    BY <2>2, <2>3, <2>4
<1>4. QED
  BY <1>1, <1>2, <1>3, PTL DEF LinSpec

(***************************************************************************)
(* Mapped files (MmAtom), for any processes, files, lengths, modes, keys   *)
(* and page size, and any failures of the system calls.                    *)
(*   AtomTypes   the state, and that numbers in use are finitely many      *)
(*   DescInv     whose each open descriptor is                             *)
(*   MapInv      addresses, and how much of the file is behind them        *)
(*   SizeInv     a call maps no more than it made the file                 *)
(*   KeptInv     the locks a process believes in and those it has          *)
(***************************************************************************)
CreatePlaces == {"extend", "close", "reopen", "chmod", "map"}
CreateCalls  == [at : CreatePlaces, f : AFiles, fd : Nat, len : Nat, dlen : Nat]
StatCalls    == [at : {"stat"}, f : AFiles, fd : Nat]
Perms  == SUBSET ((UNION Keys) \X ((UNION AccessModes) \cup {"read"}))
Errors == {"none", "FILE_OPEN", "SET_SIZE", "FILE_STATUS", "MANDATORY_LOCK", "MAP_FAILED"}

(* The descriptors and the addresses a process uses.                       *)
Numbers(q)   == {d[1] : d \in fds[q]}
Addresses(q) == {m.pa : m \in maps[q]}

(* No error is that of a mapping longer than its file.                     *)
AtomTypes ==
  /\ file \in [AFiles -> [len : Nat, owner : AProcs \cup {"nobody"}, perms : Perms,
                          set_gid : BOOLEAN]]
  /\ fds \in [AProcs -> SUBSET (Nat \X AFiles)]
  /\ maps \in [AProcs -> SUBSET [pa : Nat, file : AFiles, len : Nat, stale : BOOLEAN]]
  /\ handle \in [AProcs -> SUBSET [fd : Nat, file : AFiles, pa : Nat, len : Nat]]
  /\ flock \in [AFiles -> [AProcs -> Locks]]
  /\ acall \in [AProcs -> CreateCalls \cup StatCalls \cup {NoCall}]
  /\ mma_error \in [AProcs -> Errors]
  /\ leaked \in [AProcs -> SUBSET Nat]
  /\ believed \in [AProcs -> [AFiles -> Locks]]
  /\ dropped \subseteq AProcs \X AFiles
  /\ \A q \in AProcs : IsFiniteSet(Numbers(q)) /\ IsFiniteSet(Addresses(q))

(* Whether the call of q has a descriptor, and whose n is in q.            *)
InCall(q)   == acall[q].at \notin {"idle", "reopen"}
Owned(q, n) == \/ \E h \in handle[q] : h.fd = n
               \/ n \in leaked[q]
               \/ InCall(q) /\ n = acall[q].fd

(* Each open descriptor belongs to one handle, to the call or to nobody.   *)
Descriptors(q) ==
  /\ \A d, e \in fds[q] : d[1] = e[1] => d = e
  /\ \A d \in fds[q] : Owned(q, d[1])
  /\ \A h \in handle[q] : <<h.fd, h.file>> \in fds[q] /\ h.fd \notin leaked[q]
  /\ \A h, g \in handle[q] : h # g => h.fd # g.fd
  /\ \A n \in leaked[q] : \E f \in AFiles : <<n, f>> \in fds[q]
  /\ InCall(q) => /\ <<acall[q].fd, acall[q].f>> \in fds[q]
                  /\ acall[q].fd \notin leaked[q]
                  /\ \A h \in handle[q] : h.fd # acall[q].fd
DescInv == \A q \in AProcs : Descriptors(q)

(* A handle's address is that of a mapping of its own, which is in the     *)
(* file or stale.                                                          *)
Mappings(q) ==
  /\ \A h \in handle[q] : h.pa \in Addresses(q)
  /\ \A h, g \in handle[q] : h # g => h.pa # g.pa
MapInv ==
  \A q \in AProcs : Mappings(q) /\ \A m \in maps[q] : m.stale \/ m.len <= file[m.file].len

(* A call that creates maps no more than the pages it makes.               *)
SizeInv == \A q \in AProcs : acall[q] \in CreateCalls => acall[q].len <= acall[q].dlen

(* A lock is lost to a close only.                                         *)
KeptInv ==
  \A q \in AProcs, f \in AFiles :
    believed[q][f] # flock[f][q] => flock[f][q] = "none" /\ <<q, f>> \in dropped

(***************************************************************************)
(* Lowest and Pages.                                                       *)
(***************************************************************************)

(* There is always a number that is not in use, and Lowest is one: of the  *)
(* numbers up to that of those in use, not all can be in use.              *)
LEMMA LowestFree ==
  ASSUME NEW used \in SUBSET Nat, IsFiniteSet(used)
  PROVE  Lowest(used) \in Nat /\ Lowest(used) \notin used
<1>1. PICK k \in Nat : k = Cardinality(used)
  BY FS_CardinalityType
<1>2. IsFiniteSet(0 .. k) /\ Cardinality(0 .. k) = k + 1
  BY FS_Interval
<1> DEFINE free == 0 .. k \ used
<1>3. free # {}
  <2>1. SUFFICES ASSUME 0 .. k \subseteq used PROVE FALSE
    OBVIOUS
  <2>2. Cardinality(0 .. k) <= Cardinality(used)
    BY <2>1, FS_Subset
  <2>3. QED
    BY <1>1, <1>2, <2>2
<1>4. PICK n \in free : \A m \in free : n <= m
  <2>1. free \subseteq Nat
    OBVIOUS
  <2>2. QED
    BY <1>3, <2>1, LeastNumber
<1>5. n \in 0 .. Cardinality(used) /\ n \notin used /\ \A i \in 0 .. n - 1 : i \in used
  BY <1>1, <1>4
<1>6. Lowest(used) \in 0 .. Cardinality(used) /\ Lowest(used) \notin used
  BY <1>5 DEF Lowest
<1>7. QED
  BY <1>1, <1>6

(* The pages of a length hold it.                                          *)
LEMMA PagesHold ==
  ASSUME NEW len \in Nat
  PROVE  Pages(len) \in Nat /\ len <= Pages(len)
<1>1. PICK d \in Nat : d = len \div PageSize
  BY AtomAssumption
<1>2. PICK r \in Nat : r = len % PageSize /\ r < PageSize
  BY AtomAssumption
<1>3. PICK t \in Nat : t = d * PageSize
  BY AtomAssumption
<1>4. len = t + r
  BY <1>1, <1>2, <1>3, AtomAssumption
<1>5. CASE r = 0
  <2>1. Pages(len) = (d + 0) * PageSize
    BY <1>1, <1>2, <1>5 DEF Pages
  <2>2. QED
    BY <2>1, <1>3, <1>4, <1>5
<1>6. CASE r # 0
  <2>1. Pages(len) = (d + 1) * PageSize
    BY <1>1, <1>2, <1>6 DEF Pages
  <2>2. (d + 1) * PageSize = t + PageSize
    BY <1>3, AtomAssumption
  <2>3. QED
    BY <2>1, <2>2, <1>2, <1>4, AtomAssumption
<1>7. QED
  BY <1>5, <1>6

(***************************************************************************)
(* open and close.                                                         *)
(***************************************************************************)

(* open gives a number that is not in use.                                 *)
LEMMA Opens ==
  ASSUME AtomTypes, NEW p \in AProcs, NEW f \in AFiles, OsOpen(p, f)
  PROVE  /\ NewFd(p) \in Nat /\ \A d \in fds[p] : d[1] # NewFd(p)
         /\ fds' = [fds EXCEPT ![p] = @ \cup {<<NewFd(p), f>>}]
         /\ fds' \in [AProcs -> SUBSET (Nat \X AFiles)]
         /\ \A q \in AProcs : IsFiniteSet(Numbers(q)')
<1>1. Numbers(p) \in SUBSET Nat /\ IsFiniteSet(Numbers(p)) /\ NewFd(p) = Lowest(Numbers(p))
  <2>1. NewFd(p) = Lowest(Numbers(p))
    BY DEF Numbers, NewFd
  <2>2. Numbers(p) \in SUBSET Nat
    BY DEF AtomTypes, Numbers
  <2>3. QED
    BY <2>1, <2>2 DEF AtomTypes
<1>2. NewFd(p) \in Nat /\ NewFd(p) \notin Numbers(p)
  BY <1>1, LowestFree
<1>3. fds' = [fds EXCEPT ![p] = @ \cup {<<NewFd(p), f>>}]
  BY DEF OsOpen, NewFd
<1>4. fds' \in [AProcs -> SUBSET (Nat \X AFiles)]
  BY <1>2, <1>3 DEF AtomTypes
<1>5. ASSUME NEW q \in AProcs PROVE IsFiniteSet(Numbers(q)')
  <2>1. CASE q = p
    <3>1. fds'[p] = fds[p] \cup {<<NewFd(p), f>>}
      BY <1>3 DEF AtomTypes
    <3>2. Numbers(p)' = Numbers(p) \cup {NewFd(p)}
      <4>1. PICK n : n = NewFd(p)
        OBVIOUS
      <4>2. <<n, f>>[1] = n
        OBVIOUS
      <4>3. PICK e : e = <<n, f>> /\ e[1] = n
        BY <4>2
      <4>4. fds'[p] = fds[p] \cup {e}
        BY <3>1, <4>1, <4>3
      <4>5. PICK F : F = fds[p] /\ fds'[p] = F \cup {e}
        BY <4>4
      <4>6. {d[1] : d \in F \cup {e}} = {d[1] : d \in F} \cup {n}
        BY <4>3
      <4>7. QED
        BY <4>1, <4>5, <4>6 DEF Numbers
    <3>3. QED
      BY <2>1, <3>2, <1>1, FS_AddElement
  <2>2. CASE q # p
    <3>1. Numbers(q)' = Numbers(q)
      BY <2>2, <1>3 DEF AtomTypes, Numbers
    <3>2. QED
      BY <3>1 DEF AtomTypes
  <2>3. QED
    BY <2>1, <2>2
<1>6. QED
  BY <1>2, <1>3, <1>4, <1>5 DEF Numbers

(* close takes one descriptor and with it the lock on the file.            *)
LEMMA Closes ==
  ASSUME AtomTypes, NEW p \in AProcs, NEW f \in AFiles, NEW n \in Nat, OsClose(p, n, f)
  PROVE  /\ fds' = [fds EXCEPT ![p] = @ \ {<<n, f>>}]
         /\ fds' \in [AProcs -> SUBSET (Nat \X AFiles)]
         /\ \A q \in AProcs : IsFiniteSet(Numbers(q)')
         /\ flock' \in [AFiles -> [AProcs -> Locks]] /\ dropped' \subseteq AProcs \X AFiles
<1>1. fds' = [fds EXCEPT ![p] = @ \ {<<n, f>>}]
  BY DEF OsClose
<1>2. fds' \in [AProcs -> SUBSET (Nat \X AFiles)]
  BY <1>1 DEF AtomTypes
<1>3. ASSUME NEW q \in AProcs PROVE IsFiniteSet(Numbers(q)')
  <2>1. Numbers(q)' \in SUBSET Numbers(q)
    BY <1>1 DEF AtomTypes, Numbers
  <2>2. QED
    BY <2>1, FS_Subset DEF AtomTypes
<1>4. flock' \in [AFiles -> [AProcs -> Locks]] /\ dropped' \subseteq AProcs \X AFiles
  BY DEF OsClose, AtomTypes, Locks
<1>5. QED
  BY <1>1, <1>2, <1>3, <1>4

(* The layer of the locks is kept by every step that closes or locks.      *)
LEMMA KeptByClose ==
  ASSUME AtomTypes, KeptInv, NEW p \in AProcs, NEW f \in AFiles, NEW n, OsClose(p, n, f),
         believed' = believed
  PROVE  KeptInv'
BY DEF AtomTypes, KeptInv, OsClose

(***************************************************************************)
(* The frames of the layers.                                               *)
(***************************************************************************)

(* A call knows what its place says.                                       *)
LEMMA CallPlaces ==
  ASSUME AtomTypes, NEW p \in AProcs
  PROVE  /\ acall[p].at \in CreatePlaces => acall[p] \in CreateCalls
         /\ acall[p].at = "stat" => acall[p] \in StatCalls
BY DEF AtomTypes, CreateCalls, StatCalls, NoCall, CreatePlaces

(* Where a call goes, or ends.                                             *)
LEMMA Moves ==
  ASSUME AtomTypes, SizeInv, NEW p \in AProcs,
         NEW c \in CreateCalls \cup StatCalls \cup {NoCall},
         c \in CreateCalls => c.len <= c.dlen,
         \/ Goes(p, c)
         \/ c = NoCall /\ \E error \in Errors : Fails(p, error)
  PROVE  /\ acall' \in [AProcs -> CreateCalls \cup StatCalls \cup {NoCall}]
         /\ mma_error' \in [AProcs -> Errors] /\ SizeInv'
         /\ acall'[p] = c /\ \A q \in AProcs \ {p} : acall'[q] = acall[q]
<1>1. acall' = [acall EXCEPT ![p] = c]
  BY DEF Goes, Fails
<1>2. mma_error' \in [AProcs -> Errors]
  BY DEF Goes, Fails, AtomTypes
<1>3. /\ acall' \in [AProcs -> CreateCalls \cup StatCalls \cup {NoCall}]
      /\ acall'[p] = c /\ \A q \in AProcs \ {p} : acall'[q] = acall[q]
  BY <1>1 DEF AtomTypes
<1>4. SizeInv'
  BY <1>3 DEF SizeInv
<1>5. QED
  BY <1>2, <1>3, <1>4

(* The descriptors of the others stay theirs.                              *)
LEMMA DescFrame ==
  ASSUME DescInv, NEW p \in AProcs, Descriptors(p)',
         \A q \in AProcs \ {p} : /\ fds'[q] = fds[q] /\ handle'[q] = handle[q]
                                 /\ leaked'[q] = leaked[q] /\ acall'[q] = acall[q]
  PROVE  DescInv'
<1>1. ASSUME NEW q \in AProcs \ {p} PROVE Descriptors(q)'
  <2>1. (InCall(q)' <=> InCall(q)) /\ \A n : Owned(q, n)' <=> Owned(q, n)
    BY DEF InCall, Owned
  <2>2. Descriptors(q)
    BY DEF DescInv
  <2>3. QED
    BY <2>1, <2>2 DEF Descriptors
<1>2. QED
  BY <1>1 DEF DescInv

(* Mappings stay as good as they are where no file gets shorter.           *)
LEMMA MapFrame ==
  ASSUME AtomTypes, MapInv, maps' = maps,
         \A q \in AProcs : handle'[q] \subseteq handle[q],
         \A f \in AFiles : file'[f].len \in Nat /\ file[f].len <= file'[f].len
  PROVE  MapInv' /\ \A q \in AProcs : IsFiniteSet(Addresses(q)')
<1>1. \A q \in AProcs : Addresses(q)' = Addresses(q)
  BY DEF Addresses
<1>2. \A q \in AProcs : Mappings(q)'
  BY <1>1 DEF MapInv, Mappings
<1>3. ASSUME NEW q \in AProcs, NEW m \in maps'[q], ~m.stale
      PROVE  m.len <= file'[m.file].len
  <2>1. m.len \in Nat /\ m.file \in AFiles /\ m.len <= file[m.file].len
        /\ file[m.file].len \in Nat
    BY <1>3 DEF AtomTypes, MapInv
  <2>2. QED
    BY <2>1
<1>4. QED
  BY <1>1, <1>2, <1>3 DEF MapInv, AtomTypes

(* One descriptor more, that of a call that has just begun or reopens.     *)
LEMMA DescOpened ==
  ASSUME AtomTypes, DescInv, NEW p \in AProcs, NEW f \in AFiles, OsOpen(p, f),
         handle' = handle, leaked' = leaked, ~InCall(p), InCall(p)',
         acall'[p].fd = NewFd(p), acall'[p].f = f,
         \A q \in AProcs \ {p} : acall'[q] = acall[q]
  PROVE  DescInv'
<1>1. /\ NewFd(p) \in Nat /\ \A d \in fds[p] : d[1] # NewFd(p)
      /\ fds' = [fds EXCEPT ![p] = @ \cup {<<NewFd(p), f>>}]
  BY Opens
<1>2. PICK n \in Nat : n = NewFd(p)
  BY <1>1
<1>3. <<n, f>>[1] = n
  OBVIOUS
<1>4. PICK e : e = <<n, f>> /\ e[1] = n
  BY <1>3
<1>5. fds'[p] = fds[p] \cup {e} /\ \A d \in fds[p] : d[1] # n
  BY <1>1, <1>2, <1>4 DEF AtomTypes
<1>6. \A q \in AProcs \ {p} : fds'[q] = fds[q]
  BY <1>1 DEF AtomTypes
<1>7. Descriptors(p)
  BY DEF DescInv
<1>8. \A d, g \in fds'[p] : d[1] = g[1] => d = g
  BY <1>4, <1>5, <1>7 DEF Descriptors
<1>9. acall'[p].fd = n /\ acall'[p].f = f
  BY <1>2
<1>10. \A d \in fds'[p] : Owned(p, d[1])'
  <2>1. \A d \in fds[p] : Owned(p, d[1])'
    BY <1>7 DEF Descriptors, Owned
  <2>2. Owned(p, n)'
    BY <1>9 DEF Owned
  <2>3. QED
    BY <2>1, <2>2, <1>4, <1>5
<1>11. \A h \in handle[p] : <<h.fd, h.file>>[1] = h.fd /\ \A g : <<h.fd, g>>[1] = h.fd
  OBVIOUS
<1>12. \A h \in handle[p] : h.fd # n
  BY <1>5, <1>7, <1>11 DEF Descriptors
<1>13. \A l : \A g : <<l, g>>[1] = l
  OBVIOUS
<1>14. n \notin leaked[p]
  BY <1>5, <1>7, <1>13 DEF Descriptors
<1>15. Descriptors(p)'
  BY <1>4, <1>5, <1>7, <1>8, <1>9, <1>10, <1>12, <1>14 DEF Descriptors
<1>16. QED
  BY <1>6, <1>15, DescFrame

(* One descriptor less: that of a call, or of the handle that is closed.   *)
LEMMA DescClosed ==
  ASSUME AtomTypes, DescInv, NEW p \in AProcs, NEW f \in AFiles, NEW n \in Nat,
         OsClose(p, n, f), leaked' = leaked, <<n, f>> \in fds[p],
         handle'[p] \subseteq handle[p], \A q \in AProcs \ {p} : handle'[q] = handle[q],
         ~InCall(p)', \A q \in AProcs \ {p} : acall'[q] = acall[q],
         \/ InCall(p) /\ acall[p].fd = n /\ handle'[p] = handle[p]
         \/ ~InCall(p) /\ \E h \in handle[p] : h.fd = n /\ handle'[p] = handle[p] \ {h}
  PROVE  DescInv'
<1>1. \A q \in AProcs : fds'[q] = IF q = p THEN fds[p] \ {<<n, f>>} ELSE fds[q]
  <2>1. fds' = [fds EXCEPT ![p] = @ \ {<<n, f>>}]
    BY DEF OsClose
  <2>2. QED
    BY <2>1 DEF AtomTypes
<1>2. <<n, f>>[1] = n /\ \A l, g : <<l, g>>[1] = l
  OBVIOUS
<1>3. PICK e : e = <<n, f>> /\ e[1] = n
  BY <1>2
<1>4. fds'[p] = fds[p] \ {e} /\ e \in fds[p]
  BY <1>1, <1>3
<1>5. Descriptors(p)
  BY DEF DescInv
<1>6. \A d \in fds'[p] : d[1] # n
  BY <1>3, <1>4, <1>5 DEF Descriptors
<1>7. \A d \in fds'[p] : Owned(p, d[1])'
  BY <1>4, <1>5, <1>6 DEF Descriptors, Owned
<1>8. \A h \in handle'[p] : h.fd # n
  BY <1>5 DEF Descriptors
<1>9. n \notin leaked[p]
  BY <1>5 DEF Descriptors
<1>10. \A h \in handle'[p] : <<h.fd, h.file>> \in fds'[p]
  BY <1>2, <1>3, <1>4, <1>5, <1>8 DEF Descriptors
<1>11. \A l \in leaked[p] : \E g \in AFiles : <<l, g>> \in fds'[p]
  BY <1>2, <1>3, <1>4, <1>5, <1>9 DEF Descriptors
<1>12. Descriptors(p)'
  BY <1>4, <1>5, <1>7, <1>10, <1>11 DEF Descriptors
<1>13. QED
  BY <1>1, <1>12, DescFrame

(* A call that goes on with its descriptor.                                *)
LEMMA DescOn ==
  ASSUME DescInv, NEW p \in AProcs, UNCHANGED <<fds, handle, leaked>>,
         InCall(p)' <=> InCall(p),
         InCall(p) => acall'[p].fd = acall[p].fd /\ acall'[p].f = acall[p].f,
         \A q \in AProcs \ {p} : acall'[q] = acall[q]
  PROVE  DescInv'
<1>1. Descriptors(p)
  BY DEF DescInv
<1>2. Descriptors(p)'
  BY <1>1 DEF Descriptors, Owned
<1>3. QED
  BY <1>2, DescFrame

(* A call that fails and forgets its descriptor.                           *)
LEMMA DescLost ==
  ASSUME AtomTypes, DescInv, NEW p \in AProcs, UNCHANGED <<fds, handle>>,
         acall[p].fd \in Nat, acall[p].f \in AFiles,
         InCall(p), ~InCall(p)', leaked' = [leaked EXCEPT ![p] = @ \cup {acall[p].fd}],
         \A q \in AProcs \ {p} : acall'[q] = acall[q]
  PROVE  DescInv' /\ leaked' \in [AProcs -> SUBSET Nat]
<1>1. Descriptors(p)
  BY DEF DescInv
<1>2. leaked'[p] = leaked[p] \cup {acall[p].fd} /\ \A q \in AProcs \ {p} : leaked'[q] = leaked[q]
  BY DEF AtomTypes
<1>3. PICK n, F : n = acall[p].fd /\ F = fds[p] /\ fds'[p] = F
  OBVIOUS
<1>4. \A d \in F : Owned(p, d[1])'
  BY <1>1, <1>2, <1>3 DEF Descriptors, Owned
<1>5. Descriptors(p)'
  BY <1>1, <1>2, <1>3, <1>4 DEF Descriptors
<1>6. QED
  BY <1>2, <1>5, DescFrame DEF AtomTypes

(***************************************************************************)
(* The steps of the calls.                                                 *)
(***************************************************************************)
AtomStrong == AtomTypes /\ DescInv /\ MapInv /\ SizeInv /\ KeptInv

(* What is not touched keeps its layer.                                    *)
LEMMA AtomFrame ==
  ASSUME AtomStrong
  PROVE  /\ fds' = fds => \A q \in AProcs : IsFiniteSet(Numbers(q)')
         /\ UNCHANGED <<believed, flock, dropped>> => KeptInv'
         /\ UNCHANGED <<maps, handle, file>> =>
              MapInv' /\ \A q \in AProcs : IsFiniteSet(Addresses(q)')
<1>1. ASSUME fds' = fds PROVE \A q \in AProcs : IsFiniteSet(Numbers(q)')
  BY <1>1 DEF AtomStrong, AtomTypes, Numbers
<1>2. ASSUME UNCHANGED <<believed, flock, dropped>> PROVE KeptInv'
  BY <1>2 DEF AtomStrong, KeptInv
<1>3. ASSUME UNCHANGED <<maps, handle, file>>
      PROVE  MapInv' /\ \A q \in AProcs : IsFiniteSet(Addresses(q)')
  <2>1. \A f \in AFiles : file'[f].len \in Nat /\ file[f].len <= file'[f].len
    BY <1>3 DEF AtomStrong, AtomTypes
  <2>2. QED
    BY <1>3, <2>1, MapFrame DEF AtomStrong
<1>4. QED
  BY <1>1, <1>2, <1>3

(* The permissions of a key and a mode.                                    *)
LEMMA ModeTyped ==
  ASSUME NEW mode \in AccessModes, NEW key \in Keys
  PROVE  mma_file_mode(mode, key) \in Perms
BY DEF mma_file_mode, Perms

(* A mapping after its file f was created anew.                            *)
Staled(m, f) == [m EXCEPT !.stale = @ \/ m.file = f]

(* It is stale then, and otherwise what it was.                            *)
LEMMA StaledTyped ==
  ASSUME NEW m \in [pa : Nat, file : AFiles, len : Nat, stale : BOOLEAN], NEW f \in AFiles
  PROVE  /\ Staled(m, f) \in [pa : Nat, file : AFiles, len : Nat, stale : BOOLEAN]
         /\ Staled(m, f).pa = m.pa /\ Staled(m, f).file = m.file /\ Staled(m, f).len = m.len
         /\ ~Staled(m, f).stale => ~m.stale /\ m.file # f
<1>1. PICK b \in BOOLEAN : b = (m.stale \/ m.file = f)
  OBVIOUS
<1>2. Staled(m, f) = [m EXCEPT !.stale = b]
  BY <1>1 DEF Staled
<1>3. Staled(m, f).stale = b
  BY <1>2
<1>4. ~b => ~m.stale /\ m.file # f
  BY <1>1
<1>5. /\ Staled(m, f) \in [pa : Nat, file : AFiles, len : Nat, stale : BOOLEAN]
      /\ Staled(m, f).pa = m.pa /\ Staled(m, f).file = m.file /\ Staled(m, f).len = m.len
  BY <1>2
<1>6. QED
  BY <1>3, <1>4, <1>5

(* The first open of a creation: every mapping of the file becomes stale.  *)
LEMMA StepCreate ==
  ASSUME AtomStrong, NEW p \in AProcs, NEW f \in AFiles, NEW len \in Lens,
         NEW mode \in AccessModes, NEW permissions \in Perms,
         mmapfile_create(p, f, len, mode, permissions)
  PROVE  AtomStrong'
<1>0. AtomTypes /\ DescInv /\ MapInv /\ SizeInv /\ KeptInv
  BY DEF AtomStrong
<1>1. acall[p].at = "idle" /\ UNCHANGED <<handle, flock, leaked, believed, dropped>>
  BY DEF mmapfile_create
<1>2. CASE Fails(p, "FILE_OPEN") /\ UNCHANGED <<file, fds, maps>>
  <2>1. /\ acall' \in [AProcs -> CreateCalls \cup StatCalls \cup {NoCall}]
        /\ mma_error' \in [AProcs -> Errors] /\ SizeInv'
        /\ acall'[p] = NoCall /\ \A q \in AProcs \ {p} : acall'[q] = acall[q]
    BY <1>0, <1>2, Moves DEF Errors, NoCall, CreateCalls, CreatePlaces
  <2>2. DescInv'
    BY <1>0, <1>1, <1>2, <2>1, DescOn DEF InCall, NoCall
  <2>3. QED
    BY <1>0, <1>1, <1>2, <2>1, <2>2, AtomFrame DEF AtomStrong, AtomTypes
<1>3. CASE /\ OsOpen(p, f)
           /\ file' = [file EXCEPT ![f] = IF @ = NoFile
                        THEN [len |-> 0, owner |-> p, perms |-> permissions, set_gid |-> FALSE]
                        ELSE [@ EXCEPT !.len = 0]]
           /\ maps' = [q \in AProcs |-> {[m EXCEPT !.stale = @ \/ m.file = f] : m \in maps[q]}]
           /\ Goes(p, [at |-> "extend", f |-> f, fd |-> NewFd(p), len |-> len,
                       dlen |-> Pages(len)])
  <2>1. /\ NewFd(p) \in Nat /\ fds' \in [AProcs -> SUBSET (Nat \X AFiles)]
        /\ \A q \in AProcs : IsFiniteSet(Numbers(q)')
    BY <1>0, <1>3, Opens
  <2>2. len \in Nat /\ Pages(len) \in Nat /\ len <= Pages(len)
    BY AtomAssumption, PagesHold
  <2> DEFINE c == [at |-> "extend", f |-> f, fd |-> NewFd(p), len |-> len, dlen |-> Pages(len)]
  <2>3. c \in CreateCalls /\ c.len <= c.dlen /\ c.at = "extend" /\ c.fd = NewFd(p) /\ c.f = f
    BY <2>1, <2>2 DEF CreateCalls, CreatePlaces
  <2>c. Goes(p, c)
    BY <1>3
  <2> HIDE DEF c
  <2>4. /\ acall' \in [AProcs -> CreateCalls \cup StatCalls \cup {NoCall}]
        /\ mma_error' \in [AProcs -> Errors] /\ SizeInv'
        /\ acall'[p] = c /\ \A q \in AProcs \ {p} : acall'[q] = acall[q]
    BY <1>0, <2>c, <2>3, Moves
  <2>5. DescInv'
    BY <1>0, <1>1, <1>3, <2>3, <2>4, DescOpened DEF InCall
  <2>6. \A g \in AFiles : file'[g].len = IF g = f THEN 0 ELSE file[g].len
    BY <1>0, <1>3 DEF AtomTypes
  <2>7. file' \in [AFiles -> [len : Nat, owner : AProcs \cup {"nobody"}, perms : Perms,
                              set_gid : BOOLEAN]]
    BY <1>0, <1>3 DEF AtomTypes
  <2>m. \A q \in AProcs : maps'[q] = {Staled(m, f) : m \in maps[q]}
    BY <1>3 DEF Staled
  <2>t. maps' = [q \in AProcs |-> {Staled(m, f) : m \in maps[q]}]
    BY <1>3 DEF Staled
  <2>8. \A q \in AProcs : \A m \in maps[q] :
          /\ Staled(m, f) \in [pa : Nat, file : AFiles, len : Nat, stale : BOOLEAN]
          /\ Staled(m, f).pa = m.pa /\ Staled(m, f).file = m.file /\ Staled(m, f).len = m.len
          /\ ~Staled(m, f).stale => ~m.stale /\ m.file # f
    BY <1>0, StaledTyped DEF AtomTypes
  <2>9. maps' \in [AProcs -> SUBSET [pa : Nat, file : AFiles, len : Nat, stale : BOOLEAN]]
    BY <2>t, <2>8
  <2>10. \A q \in AProcs : Addresses(q)' = Addresses(q)
    BY <2>m, <2>8 DEF Addresses
  <2>11. \A q \in AProcs : Mappings(q)'
    BY <1>0, <1>1, <2>10 DEF MapInv, Mappings
  <2>12. ASSUME NEW q \in AProcs, NEW n \in maps'[q], ~n.stale
         PROVE  n.len <= file'[n.file].len
    <3>1. PICK m \in maps[q] : n = Staled(m, f)
      BY <2>m, <2>12
    <3>2. ~m.stale /\ m.file # f /\ n.file = m.file /\ n.len = m.len
      BY <2>8, <2>12, <3>1
    <3>3. m.file \in AFiles
      BY <1>0 DEF AtomTypes
    <3>4. m.len <= file[m.file].len
      BY <1>0, <3>2 DEF MapInv
    <3>5. QED
      BY <2>6, <3>2, <3>3, <3>4
  <2>13. MapInv'
    BY <2>11, <2>12 DEF MapInv
  <2>14. AtomTypes'
    BY <1>0, <1>1, <2>1, <2>4, <2>7, <2>9, <2>10 DEF AtomTypes
  <2>15. QED
    BY <1>1, <2>4, <2>5, <2>13, <2>14, AtomFrame DEF AtomStrong
<1>4. QED
  BY <1>2, <1>3 DEF mmapfile_create

(* A call that ends in an error and leaves its descriptor open.            *)
LEMMA StepFailsOpen ==
  ASSUME AtomStrong, NEW p \in AProcs, NEW error \in Errors, FailsOpen(p, error),
         acall[p] \in CreateCalls \cup StatCalls, InCall(p),
         UNCHANGED <<file, fds, maps, handle, flock, believed, dropped>>
  PROVE  AtomStrong'
<1>0. AtomTypes /\ DescInv /\ MapInv /\ SizeInv /\ KeptInv
  BY DEF AtomStrong
<1>1. /\ acall' \in [AProcs -> CreateCalls \cup StatCalls \cup {NoCall}]
      /\ mma_error' \in [AProcs -> Errors] /\ SizeInv'
      /\ acall'[p] = NoCall /\ \A q \in AProcs \ {p} : acall'[q] = acall[q]
  BY <1>0, Moves DEF FailsOpen, NoCall, CreateCalls, CreatePlaces
<1>2. acall[p].fd \in Nat /\ acall[p].f \in AFiles
  BY DEF CreateCalls, StatCalls
<1>3. DescInv' /\ leaked' \in [AProcs -> SUBSET Nat]
  <2>1. ~InCall(p)'
    BY <1>1 DEF InCall, NoCall
  <2>2. leaked' = [leaked EXCEPT ![p] = @ \cup {acall[p].fd}]
    BY DEF FailsOpen
  <2>3. QED
    BY <1>0, <1>1, <1>2, <2>1, <2>2, DescLost
<1>4. QED
  BY <1>0, <1>1, <1>3, AtomFrame DEF AtomStrong, AtomTypes

(* A call that goes on with the descriptor it has.                         *)
LEMMA StepGoes ==
  ASSUME AtomStrong, NEW p \in AProcs, NEW c \in CreateCalls, Goes(p, c), c.len <= c.dlen,
         InCall(p), c.at # "reopen", c.fd = acall[p].fd, c.f = acall[p].f,
         UNCHANGED <<fds, maps, handle, flock, leaked, believed, dropped>>,
         file' \in [AFiles -> [len : Nat, owner : AProcs \cup {"nobody"}, perms : Perms,
                               set_gid : BOOLEAN]],
         \A f \in AFiles : file[f].len <= file'[f].len
  PROVE  AtomStrong'
<1>0. AtomTypes /\ DescInv /\ MapInv /\ SizeInv /\ KeptInv
  BY DEF AtomStrong
<1>1. /\ acall' \in [AProcs -> CreateCalls \cup StatCalls \cup {NoCall}]
      /\ mma_error' \in [AProcs -> Errors] /\ SizeInv'
      /\ acall'[p] = c /\ \A q \in AProcs \ {p} : acall'[q] = acall[q]
  BY <1>0, Moves
<1>2. DescInv'
  BY <1>0, <1>1, DescOn DEF InCall, CreateCalls, CreatePlaces
<1>3. MapInv' /\ \A q \in AProcs : IsFiniteSet(Addresses(q)')
  BY <1>0, MapFrame
<1>4. QED
  BY <1>0, <1>1, <1>2, <1>3, AtomFrame DEF AtomStrong, AtomTypes

(* A call that closes its descriptor, and fails or goes to open again.     *)
LEMMA StepCloses ==
  ASSUME AtomStrong, NEW p \in AProcs, NEW c \in CreateCalls \cup {NoCall},
         \/ Goes(p, c)
         \/ c = NoCall /\ \E error \in Errors : Fails(p, error),
         c \in CreateCalls => c.len <= c.dlen, c.at \in {"idle", "reopen"},
         InCall(p), acall[p] \in CreateCalls, OsClose(p, acall[p].fd, acall[p].f),
         UNCHANGED <<file, maps, handle, leaked, believed>>
  PROVE  AtomStrong'
<1>0. AtomTypes /\ DescInv /\ MapInv /\ SizeInv /\ KeptInv
  BY DEF AtomStrong
<1>1. /\ acall' \in [AProcs -> CreateCalls \cup StatCalls \cup {NoCall}]
      /\ mma_error' \in [AProcs -> Errors] /\ SizeInv'
      /\ acall'[p] = c /\ \A q \in AProcs \ {p} : acall'[q] = acall[q]
  BY <1>0, Moves
<1>2. PICK n \in Nat, f \in AFiles : n = acall[p].fd /\ f = acall[p].f
  BY DEF CreateCalls
<1>3. <<n, f>> \in fds[p]
  BY <1>0, <1>2 DEF DescInv, Descriptors
<1>4. OsClose(p, n, f)
  BY <1>2
<1>5. DescInv'
  BY <1>0, <1>1, <1>2, <1>3, <1>4, DescClosed DEF InCall
<1>6. KeptInv'
  BY <1>0, <1>4, KeptByClose
<1>7. AtomTypes'
  BY <1>0, <1>1, <1>4, Closes, AtomFrame DEF AtomTypes
<1>8. QED
  BY <1>1, <1>5, <1>6, <1>7, AtomFrame DEF AtomStrong

(* The file grows to the pages of the length.                              *)
LEMMA StepExtend ==
  ASSUME AtomStrong, NEW p \in AProcs, Extend(p)
  PROVE  AtomStrong'
<1>0. AtomTypes /\ DescInv /\ MapInv /\ SizeInv /\ KeptInv
  BY DEF AtomStrong
<1>1. /\ acall[p] \in CreateCalls /\ acall[p].at = "extend" /\ InCall(p)
      /\ UNCHANGED <<fds, maps, handle, flock, believed, dropped>>
  BY <1>0, CallPlaces DEF Extend, InCall, CreatePlaces
<1>2. CASE FailsOpen(p, "SET_SIZE") /\ UNCHANGED file
  BY <1>1, <1>2, StepFailsOpen DEF Errors
<1>3. CASE /\ file' = [file EXCEPT ![acall[p].f].len =
                         IF acall[p].dlen > @ THEN acall[p].dlen ELSE @]
           /\ Goes(p, [acall[p] EXCEPT !.at = "close"]) /\ UNCHANGED leaked
  <2>1. PICK c : c = [acall[p] EXCEPT !.at = "close"]
    OBVIOUS
  <2>2. c \in CreateCalls /\ c.at = "close" /\ c.fd = acall[p].fd /\ c.f = acall[p].f
        /\ c.len = acall[p].len /\ c.dlen = acall[p].dlen
    BY <1>1, <2>1 DEF CreateCalls, CreatePlaces
  <2>3. c.len <= c.dlen
    BY <1>0, <1>1, <2>2 DEF SizeInv
  <2>4. acall[p].f \in AFiles /\ acall[p].dlen \in Nat
    BY <1>1 DEF CreateCalls
  <2>5. PICK f \in AFiles, n \in Nat : f = acall[p].f /\ n = acall[p].dlen
    BY <2>4
  <2>6. file' = [file EXCEPT ![f].len = IF n > @ THEN n ELSE @]
    BY <1>3, <2>5
  <2>7. /\ file' \in [AFiles -> [len : Nat, owner : AProcs \cup {"nobody"}, perms : Perms,
                                 set_gid : BOOLEAN]]
        /\ \A g \in AFiles : file[g].len <= file'[g].len
    <3>1. PICK k : k = IF n > file[f].len THEN n ELSE file[f].len
      OBVIOUS
    <3>2. file' = [file EXCEPT ![f].len = k]
      BY <2>6, <3>1
    <3>3. k \in Nat /\ file[f].len <= k
      BY <1>0, <3>1 DEF AtomTypes
    <3>4. PICK r : r = [file[f] EXCEPT !.len = k]
      OBVIOUS
    <3>5. r \in [len : Nat, owner : AProcs \cup {"nobody"}, perms : Perms, set_gid : BOOLEAN]
          /\ r.len = k
      BY <1>0, <3>3, <3>4 DEF AtomTypes
    <3>6. file' = [file EXCEPT ![f] = r]
      BY <3>2, <3>4
    <3>7. file' \in [AFiles -> [len : Nat, owner : AProcs \cup {"nobody"}, perms : Perms,
                                set_gid : BOOLEAN]]
      BY <1>0, <3>5, <3>6 DEF AtomTypes
    <3>8. \A g \in AFiles : file'[g].len = IF g = f THEN k ELSE file[g].len
      BY <1>0, <3>5, <3>6 DEF AtomTypes
    <3>9. \A g \in AFiles : file[g].len \in Nat
      BY <1>0 DEF AtomTypes
    <3>10. QED
      BY <3>3, <3>7, <3>8, <3>9
  <2>8. QED
    BY <1>1, <1>3, <2>1, <2>2, <2>3, <2>7, StepGoes
<1>4. QED
  BY <1>2, <1>3 DEF Extend

(* The descriptor of a creation is closed, and the file opened again.      *)
LEMMA StepReopen ==
  ASSUME AtomStrong, NEW p \in AProcs, Reopen(p)
  PROVE  AtomStrong'
<1>0. AtomTypes /\ DescInv /\ MapInv /\ SizeInv /\ KeptInv
  BY DEF AtomStrong
<1>1. /\ acall[p] \in CreateCalls /\ acall[p].at \in {"close", "reopen"}
      /\ acall[p].len <= acall[p].dlen
      /\ UNCHANGED <<file, maps, handle, leaked, believed>>
  <2>1. acall[p] \in CreateCalls /\ acall[p].at \in {"close", "reopen"}
    BY <1>0, CallPlaces DEF Reopen, CreatePlaces
  <2>2. QED
    BY <1>0, <2>1 DEF Reopen, SizeInv
<1>2. CASE /\ acall[p].at = "close" /\ OsClose(p, acall[p].fd, acall[p].f)
           /\ Goes(p, [acall[p] EXCEPT !.at = "reopen"])
  <2>1. PICK c : c = [acall[p] EXCEPT !.at = "reopen"]
    OBVIOUS
  <2>2. c \in CreateCalls /\ c.at = "reopen" /\ c.len <= c.dlen
    BY <1>1, <2>1 DEF CreateCalls, CreatePlaces
  <2>3. InCall(p)
    BY <1>2 DEF InCall
  <2>4. QED
    BY <1>1, <1>2, <2>1, <2>2, <2>3, StepCloses
<1>3. CASE /\ acall[p].at = "reopen" /\ UNCHANGED <<fds, flock, dropped>>
           /\ Fails(p, "FILE_STATUS")
  <2>1. /\ acall' \in [AProcs -> CreateCalls \cup StatCalls \cup {NoCall}]
        /\ mma_error' \in [AProcs -> Errors] /\ SizeInv'
        /\ acall'[p] = NoCall /\ \A q \in AProcs \ {p} : acall'[q] = acall[q]
    BY <1>0, <1>3, Moves DEF Errors, NoCall, CreateCalls, CreatePlaces
  <2>2. DescInv'
    BY <1>0, <1>1, <1>3, <2>1, DescOn DEF InCall, NoCall
  <2>3. QED
    BY <1>0, <1>1, <1>3, <2>1, <2>2, AtomFrame DEF AtomStrong, AtomTypes
<1>4. CASE /\ acall[p].at = "reopen" /\ UNCHANGED <<flock, dropped>>
           /\ OsOpen(p, acall[p].f)
           /\ Goes(p, [acall[p] EXCEPT !.at = "chmod", !.fd = NewFd(p)])
  <2>1. PICK f \in AFiles : f = acall[p].f
    BY <1>1 DEF CreateCalls
  <2>2. /\ NewFd(p) \in Nat /\ fds' \in [AProcs -> SUBSET (Nat \X AFiles)]
        /\ \A q \in AProcs : IsFiniteSet(Numbers(q)')
    BY <1>0, <1>4, <2>1, Opens
  <2>3. PICK c : c = [acall[p] EXCEPT !.at = "chmod", !.fd = NewFd(p)]
    OBVIOUS
  <2>4. c \in CreateCalls /\ c.at = "chmod" /\ c.len <= c.dlen /\ c.fd = NewFd(p) /\ c.f = f
    BY <1>1, <2>1, <2>2, <2>3 DEF CreateCalls, CreatePlaces
  <2>5. /\ acall' \in [AProcs -> CreateCalls \cup StatCalls \cup {NoCall}]
        /\ mma_error' \in [AProcs -> Errors] /\ SizeInv'
        /\ acall'[p] = c /\ \A q \in AProcs \ {p} : acall'[q] = acall[q]
    BY <1>0, <1>4, <2>3, <2>4, Moves
  <2>6. ~InCall(p) /\ InCall(p)'
    BY <1>4, <2>4, <2>5 DEF InCall
  <2>7. DescInv'
    BY <1>0, <1>1, <1>4, <2>1, <2>4, <2>5, <2>6, DescOpened
  <2>8. QED
    BY <1>0, <1>1, <1>4, <2>2, <2>5, <2>7, AtomFrame DEF AtomStrong, AtomTypes
<1>5. QED
  BY <1>2, <1>3, <1>4 DEF Reopen

(* The permissions for mandatory locks, or the descriptor is closed.       *)
LEMMA StepChmod ==
  ASSUME AtomStrong, NEW p \in AProcs, set_mandatory_locking(p)
  PROVE  AtomStrong'
<1>0. AtomTypes /\ DescInv /\ MapInv /\ SizeInv /\ KeptInv
  BY DEF AtomStrong
<1>1. /\ acall[p] \in CreateCalls /\ acall[p].at = "chmod" /\ InCall(p)
      /\ acall[p].len <= acall[p].dlen
      /\ UNCHANGED <<maps, handle, leaked, believed>>
  <2>1. acall[p] \in CreateCalls /\ acall[p].at = "chmod"
    BY <1>0, CallPlaces DEF set_mandatory_locking, CreatePlaces
  <2>2. QED
    BY <1>0, <2>1 DEF set_mandatory_locking, SizeInv, InCall
<1>2. CASE /\ file' = [file EXCEPT ![acall[p].f].set_gid = TRUE]
           /\ Goes(p, [acall[p] EXCEPT !.at = "map"]) /\ UNCHANGED <<fds, flock, dropped>>
  <2>1. PICK c : c = [acall[p] EXCEPT !.at = "map"]
    OBVIOUS
  <2>2. c \in CreateCalls /\ c.at = "map" /\ c.len <= c.dlen /\ c.fd = acall[p].fd /\ c.f = acall[p].f
    BY <1>1, <2>1 DEF CreateCalls, CreatePlaces
  <2>3. PICK f \in AFiles : f = acall[p].f
    BY <1>1 DEF CreateCalls
  <2>4. PICK r : r = [file[f] EXCEPT !.set_gid = TRUE]
    OBVIOUS
  <2>5. file' = [file EXCEPT ![f] = r]
    BY <1>2, <2>3, <2>4
  <2>6. r \in [len : Nat, owner : AProcs \cup {"nobody"}, perms : Perms, set_gid : BOOLEAN]
        /\ r.len = file[f].len
    BY <1>0, <2>4 DEF AtomTypes
  <2>7. file' \in [AFiles -> [len : Nat, owner : AProcs \cup {"nobody"}, perms : Perms,
                              set_gid : BOOLEAN]]
    BY <1>0, <2>5, <2>6 DEF AtomTypes
  <2>8. \A g \in AFiles : file'[g].len = file[g].len
    BY <1>0, <2>5, <2>6 DEF AtomTypes
  <2>9. \A g \in AFiles : file[g].len <= file'[g].len
    BY <1>0, <2>8 DEF AtomTypes
  <2>10. QED
    BY <1>1, <1>2, <2>1, <2>2, <2>7, <2>9, StepGoes
<1>3. CASE /\ OsClose(p, acall[p].fd, acall[p].f) /\ UNCHANGED file
           /\ Fails(p, IF file[acall[p].f].owner = p THEN "FILE_STATUS" ELSE "MANDATORY_LOCK")
  <2>1. \E error \in Errors : Fails(p, error)
    BY <1>3 DEF Errors
  <2>2. NoCall.at = "idle" /\ NoCall \notin CreateCalls
    BY DEF NoCall, CreateCalls, CreatePlaces
  <2>3. QED
    BY <1>1, <1>3, <2>1, <2>2, StepCloses
<1>4. QED
  BY <1>2, <1>3 DEF set_mandatory_locking

(* The open of a file that is there.                                       *)
LEMMA StepOpen ==
  ASSUME AtomStrong, NEW p \in AProcs, NEW f \in AFiles, NEW mode, mmapfile_open(p, f, mode)
  PROVE  AtomStrong'
<1>0. AtomTypes /\ DescInv /\ MapInv /\ SizeInv /\ KeptInv
  BY DEF AtomStrong
<1>1. /\ acall[p].at = "idle"
      /\ UNCHANGED <<file, maps, handle, flock, leaked, believed, dropped>>
  BY DEF mmapfile_open
<1>2. CASE Fails(p, "FILE_OPEN") /\ UNCHANGED fds
  <2>1. /\ acall' \in [AProcs -> CreateCalls \cup StatCalls \cup {NoCall}]
        /\ mma_error' \in [AProcs -> Errors] /\ SizeInv'
        /\ acall'[p] = NoCall /\ \A q \in AProcs \ {p} : acall'[q] = acall[q]
    BY <1>0, <1>2, Moves DEF Errors, NoCall, CreateCalls, CreatePlaces
  <2>2. DescInv'
    BY <1>0, <1>1, <1>2, <2>1, DescOn DEF InCall, NoCall
  <2>3. QED
    BY <1>0, <1>1, <1>2, <2>1, <2>2, AtomFrame DEF AtomStrong, AtomTypes
<1>3. CASE OsOpen(p, f) /\ Goes(p, [at |-> "stat", f |-> f, fd |-> NewFd(p)])
  <2>2. /\ NewFd(p) \in Nat /\ fds' \in [AProcs -> SUBSET (Nat \X AFiles)]
        /\ \A q \in AProcs : IsFiniteSet(Numbers(q)')
    BY <1>0, <1>3, Opens
  <2>3. PICK c : c = [at |-> "stat", f |-> f, fd |-> NewFd(p)]
    OBVIOUS
  <2>4. c \in StatCalls /\ c.at = "stat" /\ c.fd = NewFd(p) /\ c.f = f /\ c \notin CreateCalls
    BY <2>2, <2>3 DEF StatCalls, CreateCalls, CreatePlaces
  <2>5. /\ acall' \in [AProcs -> CreateCalls \cup StatCalls \cup {NoCall}]
        /\ mma_error' \in [AProcs -> Errors] /\ SizeInv'
        /\ acall'[p] = c /\ \A q \in AProcs \ {p} : acall'[q] = acall[q]
    BY <1>0, <1>3, <2>3, <2>4, Moves
  <2>6. ~InCall(p) /\ InCall(p)'
    BY <1>1, <2>4, <2>5 DEF InCall
  <2>7. DescInv'
    BY <1>0, <1>1, <1>3, <2>4, <2>5, <2>6, DescOpened
  <2>8. QED
    BY <1>0, <1>1, <2>2, <2>5, <2>7, AtomFrame DEF AtomStrong, AtomTypes
<1>4. QED
  BY <1>2, <1>3 DEF mmapfile_open

(* The length of a file that is opened is that of the file.                *)
LEMMA StepStat ==
  ASSUME AtomStrong, NEW p \in AProcs, Stat(p)
  PROVE  AtomStrong'
<1>0. AtomTypes /\ DescInv /\ MapInv /\ SizeInv /\ KeptInv
  BY DEF AtomStrong
<1>1. /\ acall[p] \in StatCalls /\ InCall(p)
      /\ UNCHANGED <<file, fds, maps, flock, dropped, handle, believed>>
  BY <1>0, CallPlaces DEF Stat, InCall, osvars
<1>2. CASE FailsOpen(p, "FILE_STATUS")
  BY <1>1, <1>2, StepFailsOpen DEF Errors
<1>3. CASE /\ Goes(p, [at |-> "map", f |-> acall[p].f, fd |-> acall[p].fd,
                       len |-> file[acall[p].f].len, dlen |-> file[acall[p].f].len])
           /\ UNCHANGED leaked
  <2>1. PICK f \in AFiles, n \in Nat, len \in Nat :
          f = acall[p].f /\ n = acall[p].fd /\ len = file[f].len
    BY <1>0, <1>1 DEF StatCalls, AtomTypes
  <2>2. PICK c : c = [at |-> "map", f |-> f, fd |-> n, len |-> len, dlen |-> len]
    OBVIOUS
  <2>3. c \in CreateCalls /\ c.at = "map" /\ c.len <= c.dlen /\ c.fd = n /\ c.f = f
    BY <2>2 DEF CreateCalls, CreatePlaces
  <2>4. Goes(p, c)
    BY <1>3, <2>1, <2>2
  <2>5. \A g \in AFiles : file[g].len <= file'[g].len
    BY <1>0, <1>1 DEF AtomTypes
  <2>6. file' \in [AFiles -> [len : Nat, owner : AProcs \cup {"nobody"}, perms : Perms,
                              set_gid : BOOLEAN]]
    BY <1>0, <1>1 DEF AtomTypes
  <2>7. QED
    BY <1>1, <1>3, <2>1, <2>3, <2>4, <2>5, <2>6, StepGoes
<1>4. QED
  BY <1>2, <1>3 DEF Stat

(* The mapping and its handle.  It never asks for more than the file was   *)
(* made to hold, so that the error MAP_SIZE does not happen.               *)
LEMMA StepMap ==
  ASSUME AtomStrong, NEW p \in AProcs, mma_create(p)
  PROVE  AtomStrong'
<1>0. AtomTypes /\ DescInv /\ MapInv /\ SizeInv /\ KeptInv
  BY DEF AtomStrong
<1>1. /\ acall[p] \in CreateCalls /\ acall[p].at = "map" /\ InCall(p)
      /\ UNCHANGED <<file, fds, flock, believed, dropped>>
  BY <1>0, CallPlaces DEF mma_create, InCall, CreatePlaces
<1>2. acall[p].len <= acall[p].dlen /\ acall[p].len \in Nat /\ acall[p].dlen \in Nat
  BY <1>0, <1>1 DEF SizeInv, CreateCalls
<1>3. CASE FailsOpen(p, "MAP_FAILED") /\ UNCHANGED <<maps, handle>>
  BY <1>1, <1>3, StepFailsOpen DEF Errors
<1> DEFINE pa == Lowest({m.pa : m \in maps[p]})
<1>4. CASE /\ maps' = [maps EXCEPT ![p] = @ \cup
                {[pa |-> pa, file |-> acall[p].f, len |-> acall[p].len,
                  stale |-> acall[p].len > file[acall[p].f].len]}]
           /\ handle' = [handle EXCEPT ![p] = @ \cup
                {[fd |-> acall[p].fd, file |-> acall[p].f, pa |-> pa, len |-> acall[p].len]}]
           /\ Goes(p, NoCall) /\ UNCHANGED leaked
  <2>1. PICK f \in AFiles, n \in Nat, len \in Nat :
          f = acall[p].f /\ n = acall[p].fd /\ len = acall[p].len
    BY <1>1 DEF CreateCalls
  <2>2. Addresses(p) \in SUBSET Nat /\ IsFiniteSet(Addresses(p))
    <3>1. Addresses(p) \in SUBSET Nat
      BY <1>0 DEF AtomTypes, Addresses
    <3>2. QED
      BY <1>0, <3>1 DEF AtomTypes
  <2>3. PICK a \in Nat : a = pa /\ a \notin Addresses(p)
    BY <2>2, LowestFree DEF Addresses
  <2>4. PICK b \in BOOLEAN : b = (len > file[f].len)
    <3>1. (len > file[f].len) \in BOOLEAN
      BY <1>0 DEF AtomTypes
    <3>2. QED
      BY <3>1
  <2>5. PICK m : m = [pa |-> a, file |-> f, len |-> len, stale |-> b]
    OBVIOUS
  <2>6. PICK h : h = [fd |-> n, file |-> f, pa |-> a, len |-> len]
    OBVIOUS
  <2>7. m \in [pa : Nat, file : AFiles, len : Nat, stale : BOOLEAN]
        /\ m.pa = a /\ m.file = f /\ m.len = len /\ m.stale = b
    BY <2>5
  <2>8. h \in [fd : Nat, file : AFiles, pa : Nat, len : Nat]
        /\ h.fd = n /\ h.file = f /\ h.pa = a
    BY <2>6
  <2>9. maps' = [maps EXCEPT ![p] = @ \cup {m}] /\ handle' = [handle EXCEPT ![p] = @ \cup {h}]
    BY <1>4, <2>1, <2>3, <2>4, <2>5, <2>6
  <2>10. /\ maps' \in [AProcs -> SUBSET [pa : Nat, file : AFiles, len : Nat, stale : BOOLEAN]]
         /\ handle' \in [AProcs -> SUBSET [fd : Nat, file : AFiles, pa : Nat, len : Nat]]
         /\ maps'[p] = maps[p] \cup {m} /\ handle'[p] = handle[p] \cup {h}
         /\ \A q \in AProcs \ {p} : maps'[q] = maps[q] /\ handle'[q] = handle[q]
    BY <1>0, <2>7, <2>8, <2>9 DEF AtomTypes
  <2>11. /\ acall' \in [AProcs -> CreateCalls \cup StatCalls \cup {NoCall}]
         /\ mma_error' \in [AProcs -> Errors] /\ SizeInv'
         /\ acall'[p] = NoCall /\ \A q \in AProcs \ {p} : acall'[q] = acall[q]
    BY <1>0, <1>4, Moves DEF NoCall, CreateCalls, CreatePlaces
  <2>12. ~InCall(p)'
    BY <2>11 DEF InCall, NoCall
  <2>13. Descriptors(p)
    BY <1>0 DEF DescInv
  <2>14. \A d \in fds[p] : Owned(p, d[1])'
    BY <1>4, <2>1, <2>8, <2>10, <2>13 DEF Descriptors, Owned
  <2>15. Descriptors(p)'
    BY <1>1, <1>4, <2>1, <2>8, <2>10, <2>12, <2>13, <2>14 DEF Descriptors
  <2>16. DescInv'
    BY <1>0, <1>1, <1>4, <2>10, <2>11, <2>15, DescFrame
  <2>17. Addresses(p)' = Addresses(p) \cup {a} /\ \A q \in AProcs \ {p} : Addresses(q)' = Addresses(q)
    BY <2>7, <2>10 DEF Addresses
  <2>18. \A q \in AProcs : IsFiniteSet(Addresses(q)')
    <3>1. IsFiniteSet(Addresses(p)')
      BY <2>2, <2>17, FS_AddElement
    <3>2. \A q \in AProcs \ {p} : IsFiniteSet(Addresses(q)')
      BY <1>0, <2>17 DEF AtomTypes
    <3>3. QED
      BY <3>1, <3>2
  <2>19. ASSUME NEW q \in AProcs PROVE Mappings(q)'
    <3>1. CASE q = p
      BY <3>1, <1>0, <2>3, <2>8, <2>10, <2>17 DEF MapInv, Mappings
    <3>2. CASE q # p
      BY <3>2, <1>0, <2>10, <2>17 DEF MapInv, Mappings
    <3>3. QED
      BY <3>1, <3>2
  <2>20. m.stale \/ m.len <= file[m.file].len
    BY <1>0, <2>4, <2>7 DEF AtomTypes
  <2>21. \A q \in AProcs : \A l \in maps'[q] : l.stale \/ l.len <= file[l.file].len
    BY <1>0, <2>10, <2>20 DEF MapInv
  <2>22. MapInv'
    BY <1>1, <2>19, <2>21 DEF MapInv
  <2>23. QED
    BY <1>0, <1>1, <1>4, <2>10, <2>11, <2>16, <2>18, <2>22, AtomFrame DEF AtomStrong, AtomTypes
<1>5. QED
  <2>1. ~(acall[p].len > acall[p].dlen)
    BY <1>2
  <2>2. QED
    BY <2>1, <1>3, <1>4 DEF mma_create

(* A close takes the descriptor, the lock and the handle, not the mapping. *)
LEMMA StepDestroy ==
  ASSUME AtomStrong, NEW p \in AProcs, NEW h \in handle[p], mma_destroy_atom(p, h)
  PROVE  AtomStrong'
<1>0. AtomTypes /\ DescInv /\ MapInv /\ SizeInv /\ KeptInv
  BY DEF AtomStrong
<1>1. /\ acall[p].at = "idle" /\ OsClose(p, h.fd, h.file)
      /\ handle' = [handle EXCEPT ![p] = @ \ {h}]
      /\ UNCHANGED <<file, maps, acall, mma_error, leaked, believed>>
  BY DEF mma_destroy_atom
<1>2. PICK n \in Nat, f \in AFiles : n = h.fd /\ f = h.file
  <2>1. h \in [fd : Nat, file : AFiles, pa : Nat, len : Nat]
    BY <1>0 DEF AtomTypes
  <2>2. h.fd \in Nat /\ h.file \in AFiles
    BY <2>1
  <2>3. QED
    BY <2>2
<1>3. <<n, f>> \in fds[p] /\ OsClose(p, n, f)
  BY <1>0, <1>1, <1>2 DEF DescInv, Descriptors
<1>4. /\ handle' \in [AProcs -> SUBSET [fd : Nat, file : AFiles, pa : Nat, len : Nat]]
      /\ handle'[p] = handle[p] \ {h}
      /\ \A q \in AProcs \ {p} : handle'[q] = handle[q]
  BY <1>0, <1>1 DEF AtomTypes
<1>5. ~InCall(p) /\ ~InCall(p)'
  BY <1>1 DEF InCall
<1>6. DescInv'
  BY <1>0, <1>1, <1>2, <1>3, <1>4, <1>5, DescClosed
<1>7. KeptInv'
  BY <1>0, <1>1, <1>3, KeptByClose
<1>8. \A g \in AFiles : file'[g].len \in Nat /\ file[g].len <= file'[g].len
  BY <1>0, <1>1 DEF AtomTypes
<1>9. MapInv' /\ \A q \in AProcs : IsFiniteSet(Addresses(q)')
  <2>1. \A q \in AProcs : handle'[q] \subseteq handle[q]
    BY <1>4
  <2>2. QED
    BY <1>0, <1>1, <1>8, <2>1, MapFrame
<1>10. /\ fds' \in [AProcs -> SUBSET (Nat \X AFiles)]
       /\ \A q \in AProcs : IsFiniteSet(Numbers(q)')
       /\ flock' \in [AFiles -> [AProcs -> Locks]] /\ dropped' \subseteq AProcs \X AFiles
  BY <1>0, <1>3, Closes
<1>11. AtomTypes'
  BY <1>0, <1>1, <1>4, <1>9, <1>10 DEF AtomTypes
<1>12. SizeInv'
  BY <1>0, <1>1 DEF SizeInv
<1>13. QED
  BY <1>6, <1>7, <1>9, <1>11, <1>12 DEF AtomStrong

(* A lock call sets what the kernel holds and what the process believes.   *)
LEMMA StepLock ==
  ASSUME AtomStrong, NEW p \in AProcs, NEW h \in handle[p], NEW type \in Locks,
         lock_cntrl(p, h, type)
  PROVE  AtomStrong'
<1>0. AtomTypes /\ DescInv /\ MapInv /\ SizeInv /\ KeptInv
  BY DEF AtomStrong
<1>1. PICK f \in AFiles : f = h.file
  BY <1>0 DEF AtomTypes
<1>2. /\ flock' = [flock EXCEPT ![f][p] = type]
      /\ believed' = [believed EXCEPT ![p][f] = type]
      /\ dropped' = dropped \ {<<p, f>>}
      /\ UNCHANGED <<file, fds, maps, handle, acall, mma_error, leaked>>
  BY <1>1 DEF lock_cntrl
<1>3. KeptInv'
  BY <1>0, <1>2 DEF KeptInv, AtomTypes
<1>4. AtomTypes'
  BY <1>0, <1>2, AtomFrame DEF AtomTypes
<1>5. DescInv'
  BY <1>0, <1>2 DEF DescInv, Descriptors, Owned, InCall
<1>6. MapInv' /\ SizeInv'
  BY <1>0, <1>2, AtomFrame DEF SizeInv
<1>7. QED
  BY <1>3, <1>4, <1>5, <1>6 DEF AtomStrong

(***************************************************************************)
(* The theorem.                                                            *)
(***************************************************************************)

(* Nothing is there at the start.                                          *)
LEMMA InitAtom ==
  ASSUME AtomInit
  PROVE  AtomStrong
<1>1. \A q \in AProcs : Numbers(q) = {} /\ Addresses(q) = {}
  BY DEF AtomInit, Numbers, Addresses
<1>2. \A q \in AProcs : IsFiniteSet(Numbers(q)) /\ IsFiniteSet(Addresses(q))
  BY <1>1, FS_EmptySet
<1>3. NoFile \in [len : Nat, owner : AProcs \cup {"nobody"}, perms : Perms, set_gid : BOOLEAN]
  BY DEF NoFile, Perms
<1>4. AtomTypes
  BY <1>2, <1>3 DEF AtomInit, AtomTypes, Locks, Errors
<1>5. DescInv
  BY DEF AtomInit, DescInv, Descriptors, InCall, NoCall
<1>6. MapInv
  BY DEF AtomInit, MapInv, Mappings
<1>7. SizeInv
  BY DEF AtomInit, SizeInv, NoCall, CreateCalls, CreatePlaces
<1>8. KeptInv
  BY DEF AtomInit, KeptInv
<1>9. QED
  BY <1>4, <1>5, <1>6, <1>7, <1>8 DEF AtomStrong

(* Mapped files (mmatom.c over mmapfile.c): each open descriptor belongs   *)
(* to a handle or to the call under way, or is one that a failed call lost,*)
(* and a handle's descriptor is open on its own file and its address is    *)
(* its own; a mapping is in its file unless the file was created anew; no  *)
(* call fails over a length its own rounding chose; and a lock a process   *)
(* believes in is lost only to a close of the file by that process.  This  *)
(* for any processes, files, lengths, modes, keys and page size.           *)
THEOREM AtomSafe == AtomSpec => []AtomInv
<1>1. AtomInit => AtomStrong
  BY InitAtom
<1>2. AtomStrong /\ [AtomNext]_avars => AtomStrong'
  <2>1. ASSUME AtomStrong, AtomNext PROVE AtomStrong'
    <3>1. PICK p \in AProcs :
            \/ \E f \in AFiles, mode \in AccessModes :
                  \/ \E len \in Lens, key \in Keys :
                        mmapfile_create(p, f, len, mode, mma_file_mode(mode, key))
                  \/ mmapfile_open(p, f, mode)
            \/ Extend(p) \/ Reopen(p) \/ set_mandatory_locking(p) \/ Stat(p) \/ mma_create(p)
            \/ \E h \in handle[p] : \/ mma_destroy_atom(p, h)
                                    \/ mma_lock_atom_read(p, h)
                                    \/ mma_lock_atom_write(p, h)
                                    \/ mma_unlock_atom(p, h)
      BY <2>1 DEF AtomNext
    <3>2. ASSUME NEW f \in AFiles, NEW mode \in AccessModes, NEW len \in Lens, NEW key \in Keys,
                 mmapfile_create(p, f, len, mode, mma_file_mode(mode, key))
          PROVE  AtomStrong'
      <4>1. PICK permissions \in Perms : permissions = mma_file_mode(mode, key)
        BY ModeTyped
      <4>2. QED
        BY <2>1, <3>2, <4>1, StepCreate
    <3>3. ASSUME NEW h \in handle[p], \/ mma_lock_atom_read(p, h) \/ mma_lock_atom_write(p, h)
                                      \/ mma_unlock_atom(p, h)
          PROVE  AtomStrong'
      <4>1. PICK type \in Locks : lock_cntrl(p, h, type)
        BY <3>3 DEF mma_lock_atom_read, mma_lock_atom_write, mma_unlock_atom, Locks
      <4>2. QED
        BY <2>1, <4>1, StepLock
    <3>4. QED
      BY <2>1, <3>1, <3>2, <3>3, StepOpen, StepExtend, StepReopen, StepChmod, StepStat, StepMap,
         StepDestroy
  <2>2. ASSUME AtomStrong, UNCHANGED avars PROVE AtomStrong'
    <3>1. DescInv' /\ SizeInv'
      BY <2>2 DEF AtomStrong, avars, DescInv, Descriptors, Owned, InCall, SizeInv
    <3>2. KeptInv' /\ MapInv' /\ \A q \in AProcs : IsFiniteSet(Numbers(q)') /\ IsFiniteSet(Addresses(q)')
      BY <2>2, AtomFrame DEF avars
    <3>3. AtomTypes'
      BY <2>2, <3>2 DEF AtomStrong, avars, AtomTypes
    <3>4. QED
      BY <3>1, <3>2, <3>3 DEF AtomStrong
  <2>3. QED
    BY <2>1, <2>2
<1>3. AtomStrong => AtomInv
  <2>1. SUFFICES ASSUME AtomStrong PROVE AtomInv
    OBVIOUS
  <2>2. AtomTypes /\ DescInv /\ MapInv /\ KeptInv
    BY <2>1 DEF AtomStrong
  <2>3. ASSUME NEW p \in AProcs
        PROVE  {d[1] : d \in fds[p]} =
                 {h.fd : h \in handle[p]} \cup leaked[p]
                   \cup (IF acall[p].at \in {"idle", "reopen"} THEN {} ELSE {acall[p].fd})
    <3>1. Descriptors(p)
      BY <2>2 DEF DescInv
    <3>2. \A l, g : <<l, g>>[1] = l
      OBVIOUS
    <3>3. \A d \in fds[p] : \/ \E h \in handle[p] : h.fd = d[1]
                            \/ d[1] \in leaked[p]
                            \/ InCall(p) /\ d[1] = acall[p].fd
      BY <3>1 DEF Descriptors, Owned
    <3>4. \A h \in handle[p] : \E d \in fds[p] : d[1] = h.fd
      BY <3>1, <3>2 DEF Descriptors
    <3>5. \A n \in leaked[p] : \E d \in fds[p] : d[1] = n
      BY <3>1, <3>2 DEF Descriptors
    <3>6. InCall(p) => \E d \in fds[p] : d[1] = acall[p].fd
      BY <3>1, <3>2 DEF Descriptors
    <3>7. QED
      BY <3>3, <3>4, <3>5, <3>6 DEF InCall
  <2>4. ASSUME NEW p \in AProcs
        PROVE  /\ \A h \in handle[p] : mma_get_disk_file_path(p, h)
               /\ \A h, g \in handle[p] : h # g => h.fd # g.fd /\ h.pa # g.pa
               /\ \A m \in maps[p] : m.stale \/ m.len <= file[m.file].len
    BY <2>2 DEF DescInv, Descriptors, MapInv, Mappings, mma_get_disk_file_path
  <2>5. \A p \in AProcs : mma_error[p] # "MAP_SIZE"
    <3>1. "MAP_SIZE" \notin Errors
      BY DEF Errors
    <3>2. QED
      BY <2>2, <3>1 DEF AtomTypes
  <2>6. QED
    BY <2>2, <2>3, <2>4, <2>5 DEF AtomInv, KeptInv
<1>4. QED
  BY <1>1, <1>2, <1>3, PTL DEF AtomSpec

(***************************************************************************)
(* The packets (mmdeque.c).                                                *)
(***************************************************************************)

LEMMA FramedIs ==
  ASSUME NEW k \in Seq(Nat)
  PROVE  Framed(k) \in Seq(Nat) /\ Len(Framed(k)) = Len(k) + 2
<1>1. PICK h : h = <<Sync, Len(k)>>
  OBVIOUS
<1>2. h \in Seq(Nat) /\ Len(h) = 2
  BY <1>1, PacketAssumption
<1>3. PICK w : w = h \o k
  OBVIOUS
<1>4. w \in Seq(Nat) /\ Len(w) = Len(h) + Len(k)
  <2>1. k \in Seq(Nat)
    OBVIOUS
  <2>2. QED
    BY <1>2, <1>3, <2>1, ConcatProperties
<1>5. Framed(k) = w
  BY <1>1, <1>3 DEF Framed
<1>6. QED
  BY <1>2, <1>4, <1>5

(* The function that Unread defines.                                       *)
LEMMA UnreadIs ==
  ASSUME NEW s \in Seq(Seq(Nat))
  PROVE  /\ Unread(s, Len(s)) = <<>>
         /\ \A n \in 0..Len(s) : Unread(s, n) \in Seq(Nat)
         /\ \A n \in 0..(Len(s) - 1) : Unread(s, n) = Framed(s[n + 1]) \o Unread(s, n + 1)
<1> DEFINE N == Len(s)
           X == Seq(Nat)
           none == <<>>
           F == [x \in (1..N) \X X |-> Framed(s[N - x[1] + 1]) \o x[2]]
           Is(f) == f = [i \in 0..N |-> IF i = 0 THEN none ELSE Framed(s[N - i + 1]) \o f[i - 1]]
           last == CHOOSE f : Is(f)
<1>1. N \in Nat
  OBVIOUS
<1>2. ASSUME NEW i \in 1..N, NEW x \in X PROVE Framed(s[N - i + 1]) \o x \in X
  <2>1. s[N - i + 1] \in Seq(Nat)
    OBVIOUS
  <2>2. Framed(s[N - i + 1]) \in Seq(Nat)
    BY <2>1, FramedIs
  <2>3. QED
    BY <2>2
<1>0. none \in X
  OBVIOUS
<1>3. \E f : Is(f) /\ f \in [0..N -> X]
  <2> HIDE DEF F, N, X, none
  <2>1. F \in [(1..N) \X X -> X]
    <3>1. \A x \in (1..N) \X X : x[1] \in 1..N /\ x[2] \in X
      OBVIOUS
    <3>2. \A x \in (1..N) \X X : Framed(s[N - x[1] + 1]) \o x[2] \in X
      BY <1>2, <3>1
    <3>3. QED
      BY <3>2 DEF F
  <2>2. PICK f : Follows(f, F, N, X, none)
    <3>1. IsRule(F, N, X)
      BY <2>1 DEF IsRule
    <3>2. QED
      BY <1>0, <1>1, <3>1, Recursion
  <2>3. f \in [0..N -> X] /\ f[0] = none /\ \A i \in 1..N : f[i] = F[<<i, f[i - 1]>>]
    BY <2>2 DEF Follows
  <2>4. ASSUME NEW i \in 1..N PROVE f[i] = Framed(s[N - i + 1]) \o f[i - 1]
    <3>1. i - 1 \in 0..N
      BY <1>1
    <3>2. <<i, f[i - 1]>> \in (1..N) \X X
      BY <2>3, <3>1
    <3>3. F[<<i, f[i - 1]>>] = Framed(s[N - i + 1]) \o f[i - 1]
      BY <3>2 DEF F
    <3>4. QED
      BY <2>3, <3>3
  <2>5. \A i \in 0..N : f[i] = IF i = 0 THEN none ELSE Framed(s[N - i + 1]) \o f[i - 1]
    <3>1. ASSUME NEW i \in 0..N
          PROVE  f[i] = IF i = 0 THEN none ELSE Framed(s[N - i + 1]) \o f[i - 1]
      <4>1. CASE i = 0
        BY <2>3, <4>1, Zenon
      <4>2. CASE i # 0
        <5>1. i \in 1..N
          BY <1>1, <4>2
        <5>2. QED
          BY <2>4, <4>2, <5>1, Zenon
      <4>3. QED
        BY <4>1, <4>2
    <3>2. QED
      BY <3>1
  <2>6. f = [i \in 0..N |-> f[i]]
    BY <2>3
  <2>7. Is(f)
    BY <2>5, <2>6
  <2>8. QED
    BY <2>3, <2>7
<1>4. Is(last)
  <2> HIDE DEF Is, N, X, none
  <2>1. QED
    BY <1>3
<1>5. \A i \in 0..N : last[i] \in X
  <2> DEFINE T == {i \in 0..N : last[i] \in X}
  <2>1. 0 \in T
    <3> HIDE DEF last, N, X, none
    <3>1. last[0] = none /\ 0 \in 0..N
      BY <1>1, <1>4
    <3>2. QED
      BY <1>0, <3>1
  <2>2. ASSUME NEW i \in 0..(N - 1), i \in T PROVE i + 1 \in T
    <3> HIDE DEF last, N, X, none
    <3>1. i + 1 \in 1..N /\ (i + 1) - 1 = i /\ i + 1 \in 0..N /\ i + 1 # 0
      BY <1>1
    <3>2. \A j \in 0..N : last[j] = IF j = 0 THEN none ELSE Framed(s[N - j + 1]) \o last[j - 1]
      BY <1>4, Zenon
    <3>3. last[i + 1] = Framed(s[N - (i + 1) + 1]) \o last[(i + 1) - 1]
      BY <3>1, <3>2, Zenon
    <3>4. last[i] \in X
      BY <2>2
    <3>5. last[i + 1] \in X
      BY <1>2, <3>1, <3>3, <3>4
    <3>6. QED
      BY <3>1, <3>5
  <2>3. \A i \in 0..N : i \in T
    <3> HIDE DEF T, N
    <3>1. QED
      BY <1>1, <2>1, <2>2, UpTo
  <2>4. QED
    BY <2>3
<1>6. \A n \in 0..N : Unread(s, n) = last[N - n]
  BY DEF Unread
<1>7. ASSUME NEW n \in 0..N PROVE Unread(s, n) \in Seq(Nat)
  <2>1. N - n \in 0..N
    OBVIOUS
  <2>2. last[N - n] \in X
    <3> HIDE DEF last, X, N
    <3>1. QED
      BY <1>5, <2>1
  <2>3. QED
    BY <1>6, <2>2
<1>8. Unread(s, N) = <<>>
  <2> HIDE DEF last, X, N
  <2>1. N - N = 0 /\ N \in 0..N /\ 0 \in 0..N
    BY <1>1
  <2>2. last[0] = <<>>
    BY <1>4, <2>1
  <2>3. QED
    BY <1>6, <2>1, <2>2
<1>9. ASSUME NEW n \in 0..(N - 1) PROVE Unread(s, n) = Framed(s[n + 1]) \o Unread(s, n + 1)
  <2> HIDE DEF last, X, N, none
  <2>1. PICK i \in 1..N : i = N - n
    BY <1>1
  <2>2. N - i + 1 = n + 1 /\ i - 1 = N - (n + 1) /\ n \in 0..N /\ n + 1 \in 0..N /\ i \in 0..N /\ i # 0
    BY <1>1, <2>1
  <2>3. \A j \in 0..N : last[j] = IF j = 0 THEN none ELSE Framed(s[N - j + 1]) \o last[j - 1]
    BY <1>4, Zenon
  <2>4. last[i] = Framed(s[N - i + 1]) \o last[i - 1]
    BY <2>2, <2>3, Zenon
  <2>5. Unread(s, n) = last[i] /\ Unread(s, n + 1) = last[i - 1]
    BY <1>6, <2>1, <2>2
  <2>6. QED
    BY <2>2, <2>4, <2>5
<1>10. QED
  BY <1>7, <1>8, <1>9

LEMMA Appended ==
  ASSUME NEW S, NEW s \in Seq(S), NEW x \in S
  PROVE  /\ Append(s, x) \in Seq(S) /\ Len(Append(s, x)) = Len(s) + 1
         /\ Append(s, x)[Len(s) + 1] = x /\ \A i \in 1..Len(s) : Append(s, x)[i] = s[i]
OBVIOUS

LEMMA Regrouped ==
  ASSUME NEW a \in Seq(Nat), NEW b \in Seq(Nat), NEW c \in Seq(Nat)
  PROVE  a \o (b \o c) = (a \o b) \o c
OBVIOUS

(* One packet more.                                                        *)
LEMMA UnreadAppend ==
  ASSUME NEW s \in Seq(Seq(Nat)), NEW k \in Seq(Nat)
  PROVE  \A n \in 0..Len(s) : Unread(Append(s, k), n) = Unread(s, n) \o Framed(k)
<1>1. PICK N \in Nat : N = Len(s)
  OBVIOUS
<1>0. PICK t : t = Append(s, k)
  OBVIOUS
<1>2. t \in Seq(Seq(Nat)) /\ Len(t) = N + 1 /\ t[N + 1] = k /\ \A i \in 1..N : t[i] = s[i]
  BY <1>0, <1>1, Appended
<1>3. Framed(k) \in Seq(Nat)
  BY FramedIs
<1> DEFINE T == {m \in 0..N : Unread(t, N - m) = Unread(s, N - m) \o Framed(k)}
<1>4. 0 \in T
  <2>1. Unread(t, N) = Framed(k) \o Unread(t, N + 1) /\ Unread(t, N + 1) = <<>>
    <3>1. \A n \in 0..(Len(t) - 1) : Unread(t, n) = Framed(t[n + 1]) \o Unread(t, n + 1)
      BY <1>2, UnreadIs
    <3>2. N \in 0..(Len(t) - 1) /\ N + 1 = Len(t)
      BY <1>2
    <3>3. Unread(t, Len(t)) = <<>>
      BY <1>2, UnreadIs
    <3>4. QED
      BY <1>2, <3>1, <3>2, <3>3
  <2>2. Unread(s, N) = <<>>
    BY <1>1, UnreadIs
  <2>3. Framed(k) \o <<>> = Framed(k) /\ <<>> \o Framed(k) = Framed(k)
    BY <1>3, ConcatEmptySeq
  <2>4. N - 0 = N /\ 0 \in 0..N
    OBVIOUS
  <2>5. QED
    BY <2>1, <2>2, <2>3, <2>4
<1>5. ASSUME NEW m \in 0..(N - 1), m \in T PROVE m + 1 \in T
  <2>1. PICK n \in 0..(N - 1) : n = N - (m + 1) /\ n + 1 = N - m /\ n + 1 \in 1..N
    OBVIOUS
  <2>2. Unread(t, n) = Framed(t[n + 1]) \o Unread(t, n + 1) /\ Unread(s, n) = Framed(s[n + 1]) \o Unread(s, n + 1)
    <3>1. \A i \in 0..(Len(t) - 1) : Unread(t, i) = Framed(t[i + 1]) \o Unread(t, i + 1)
      BY <1>2, UnreadIs
    <3>2. \A i \in 0..(Len(s) - 1) : Unread(s, i) = Framed(s[i + 1]) \o Unread(s, i + 1)
      BY UnreadIs
    <3>3. n \in 0..(Len(t) - 1) /\ n \in 0..(Len(s) - 1)
      BY <1>1, <1>2, <2>1
    <3>4. QED
      BY <3>1, <3>2, <3>3
  <2>3. PICK f \in Seq(Nat) : f = Framed(s[n + 1]) /\ f = Framed(t[n + 1])
    <3>1. PICK i \in 1..N : i = n + 1
      BY <2>1
    <3>2. t[i] = s[i] /\ s[i] \in Seq(Nat)
      BY <1>1, <1>2
    <3>3. Framed(s[i]) \in Seq(Nat)
      BY <3>2, FramedIs
    <3>4. QED
      BY <3>1, <3>2, <3>3
  <2>4. PICK u \in Seq(Nat) : u = Unread(s, n + 1)
    BY <1>1, <2>1, UnreadIs
  <2>5. PICK w \in Seq(Nat) : w = Framed(k)
    BY <1>3
  <2>6. Unread(t, n + 1) = u \o w
    BY <1>5, <2>1, <2>4, <2>5
  <2>7. f \o (u \o w) = (f \o u) \o w
    BY <2>3, <2>4, <2>5, Regrouped
  <2>8. Unread(t, n) = Unread(s, n) \o w
    BY <2>2, <2>3, <2>4, <2>6, <2>7
  <2>9. m + 1 \in 0..N
    OBVIOUS
  <2>10. QED
    BY <2>1, <2>5, <2>8, <2>9
<1>6. \A m \in 0..N : m \in T
  <2> HIDE DEF T
  <2>1. QED
    BY <1>4, <1>5, UpTo
<1>7. ASSUME NEW n \in 0..N PROVE Unread(t, n) = Unread(s, n) \o Framed(k)
  <2>1. N - n \in 0..N /\ N - (N - n) = n
    OBVIOUS
  <2>2. N - n \in T
    BY <1>6, <2>1
  <2>3. QED
    BY <2>1, <2>2
<1>8. QED
  BY <1>0, <1>1, <1>7

(* A byte goes from the front of one sequence to the end of the other.     *)
LEMMA Carried ==
  ASSUME NEW a \in Seq(Nat), NEW b \in Seq(Nat), b # <<>>
  PROVE  /\ Append(a, Head(b)) \in Seq(Nat) /\ Tail(b) \in Seq(Nat)
         /\ Len(Append(a, Head(b))) = Len(a) + 1
         /\ Append(a, Head(b)) \o Tail(b) = a \o b
<1>1. PICK x \in Nat, c \in Seq(Nat) : x = Head(b) /\ c = Tail(b)
  BY HeadTailProperties
<1>3. PICK m \in Nat, n \in Nat, h \in Nat : m = Len(a) /\ n = Len(b) /\ n > 0 /\ h = m + n
  BY EmptySeq
<1>4. Len(c) = n - 1 /\ x = b[1] /\ \A i \in 1..(n - 1) : c[i] = b[i + 1]
  BY <1>1, <1>3, HeadTailProperties
<1>2. PICK g : g = Append(a, x)
  OBVIOUS
<1>5. g \in Seq(Nat) /\ Len(g) = m + 1 /\ g[m + 1] = x /\ \A i \in 1..m : g[i] = a[i]
  BY <1>2, <1>3, Appended
<1>6. PICK v : v = g \o c
  OBVIOUS
<1>7. v \in Seq(Nat) /\ Len(v) = h /\ \A i \in 1..h : v[i] = IF i <= m + 1 THEN g[i] ELSE c[i - (m + 1)]
  <2>1. g \o c \in Seq(Nat) /\ Len(g \o c) = Len(g) + Len(c)
        /\ \A i \in 1..(Len(g) + Len(c)) : (g \o c)[i] = IF i <= Len(g) THEN g[i] ELSE c[i - Len(g)]
    BY <1>5, ConcatProperties
  <2>2. Len(g) = m + 1 /\ Len(c) = n - 1 /\ Len(g) + Len(c) = h
    BY <1>3, <1>4, <1>5
  <2>3. Len(v) = h /\ v \in Seq(Nat)
    BY <1>3, <1>6, <2>1, <2>2
  <2>4. ASSUME NEW i \in 1..h PROVE v[i] = IF i <= m + 1 THEN g[i] ELSE c[i - (m + 1)]
    BY <1>3, <1>6, <2>1, <2>2
  <2>5. QED
    BY <2>3, <2>4
<1>8. PICK w : w = a \o b
  OBVIOUS
<1>9. w \in Seq(Nat) /\ Len(w) = h /\ \A i \in 1..h : w[i] = IF i <= m THEN a[i] ELSE b[i - m]
  <2>1. a \o b \in Seq(Nat) /\ Len(a \o b) = Len(a) + Len(b)
        /\ \A i \in 1..(Len(a) + Len(b)) : (a \o b)[i] = IF i <= Len(a) THEN a[i] ELSE b[i - Len(a)]
    BY ConcatProperties
  <2>2. QED
    BY <1>3, <1>8, <2>1
<1>10. ASSUME NEW i \in 1..h PROVE v[i] = w[i]
  <2>0. i \in Nat /\ i >= 1 /\ i <= m + n
    BY <1>3
  <2>1. CASE i <= m
    <3>1. i \in 1..m /\ i <= m + 1
      BY <2>0, <2>1
    <3>2. v[i] = g[i] /\ w[i] = a[i]
      BY <1>7, <1>9, <2>1, <3>1
    <3>3. QED
      BY <1>5, <3>1, <3>2
  <2>2. CASE i = m + 1
    <3>1. v[i] = x /\ w[i] = b[i - m] /\ i - m = 1
      BY <1>5, <1>7, <1>9, <2>0, <2>2
    <3>2. QED
      BY <1>4, <3>1
  <2>3. CASE i > m + 1
    <3>1. v[i] = c[i - (m + 1)] /\ w[i] = b[i - m] /\ i - (m + 1) \in 1..(n - 1) /\ (i - (m + 1)) + 1 = i - m
      BY <1>3, <1>7, <1>9, <2>0, <2>3
    <3>2. QED
      BY <1>4, <3>1
  <2>4. i <= m \/ i = m + 1 \/ i > m + 1
    BY <2>0
  <2>5. QED
    BY ONLY <2>1, <2>2, <2>3, <2>4
<1>11. v = w
  BY <1>7, <1>9, <1>10, SeqEqual
<1>12. QED
  BY <1>1, <1>2, <1>3, <1>5, <1>6, <1>8, <1>11

(* Two cuts of the same sequence at the same place.                        *)
LEMMA SameCut ==
  ASSUME NEW a \in Seq(Nat), NEW b \in Seq(Nat), NEW c \in Seq(Nat), NEW d \in Seq(Nat),
         a \o b = c \o d, Len(a) = Len(c)
  PROVE  a = c /\ b = d
<1>1. PICK m \in Nat, n \in Nat, h \in Nat : m = Len(a) /\ m = Len(c) /\ n = Len(b) /\ h = Len(d)
  OBVIOUS
<1>2. PICK v : v = a \o b /\ v = c \o d
  OBVIOUS
<1>3. Len(v) = m + n /\ \A i \in 1..(m + n) : v[i] = IF i <= m THEN a[i] ELSE b[i - m]
  <2>1. Len(a \o b) = Len(a) + Len(b) /\ \A i \in 1..(Len(a) + Len(b)) : (a \o b)[i] = IF i <= Len(a) THEN a[i] ELSE b[i - Len(a)]
    BY ConcatProperties
  <2>2. QED
    BY <1>1, <1>2, <2>1
<1>4. Len(v) = m + h /\ \A i \in 1..(m + h) : v[i] = IF i <= m THEN c[i] ELSE d[i - m]
  <2>1. Len(c \o d) = Len(c) + Len(d) /\ \A i \in 1..(Len(c) + Len(d)) : (c \o d)[i] = IF i <= Len(c) THEN c[i] ELSE d[i - Len(c)]
    BY ConcatProperties
  <2>2. QED
    BY <1>1, <1>2, <2>1
<1>5. n = h
  BY <1>3, <1>4
<1>6. a = c
  <2>1. \A i \in 1..m : a[i] = c[i]
    BY <1>3, <1>4, <1>5
  <2>2. QED
    BY <1>1, <2>1, SeqEqual
<1>7. b = d
  <2>1. ASSUME NEW i \in 1..n PROVE b[i] = d[i]
    <3>1. PICK j \in 1..(m + n) : j = m + i /\ j - m = i /\ ~(j <= m)
      OBVIOUS
    <3>2. v[j] = b[j - m] /\ v[j] = d[j - m]
      BY <1>3, <1>4, <1>5, <3>1
    <3>3. QED
      BY <3>1, <3>2
  <2>2. QED
    BY <1>1, <1>5, <2>1, SeqEqual
<1>8. QED
  BY <1>6, <1>7

(* A prefix, of a longer sequence and by an element more.                  *)
LEMMA PrefixOf ==
  ASSUME NEW S, NEW s \in Seq(S), NEW t \in Seq(S)
  PROVE  IsPrefix(s, t) <=> Len(s) <= Len(t) /\ \A i \in 1..Len(s) : s[i] = t[i]
<1>1. PICK m \in Nat, n \in Nat : m = Len(s) /\ n = Len(t)
  OBVIOUS
<1>2. SubSeq(s, 1, m) = s
  BY <1>1
<1>3. CASE m <= n
  <2>1. PICK w : w = SubSeq(t, 1, m)
    OBVIOUS
  <2>2. w \in Seq(S) /\ Len(w) = m /\ \A i \in 1..m : w[i] = t[i]
    BY <1>1, <1>3, <2>1
  <2>3. s = w <=> \A i \in 1..m : s[i] = w[i]
    BY <1>1, <2>2, SeqEqual
  <2>4. QED
    BY <1>1, <1>2, <1>3, <2>1, <2>2, <2>3 DEF IsPrefix
<1>4. CASE ~(m <= n)
  BY <1>1, <1>4 DEF IsPrefix
<1>5. QED
  BY <1>3, <1>4

LEMMA PrefixGrows ==
  ASSUME NEW S, NEW s \in Seq(S), NEW t \in Seq(S), IsPrefix(s, t), NEW x \in S
  PROVE  /\ Append(t, x) \in Seq(S) /\ IsPrefix(s, Append(t, x))
         /\ Len(s) < Len(t) => IsPrefix(Append(s, t[Len(s) + 1]), t)
<1>1. PICK m \in Nat, n \in Nat : m = Len(s) /\ n = Len(t)
  OBVIOUS
<1>2. m <= n /\ \A i \in 1..m : s[i] = t[i]
  BY <1>1, PrefixOf
<1>3. PICK w : w = Append(t, x)
  OBVIOUS
<1>4. w \in Seq(S) /\ Len(w) = n + 1 /\ \A i \in 1..n : w[i] = t[i]
  BY <1>1, <1>3
<1>5. IsPrefix(s, w)
  <2>1. Len(s) <= Len(w) /\ \A i \in 1..Len(s) : s[i] = w[i]
    BY <1>1, <1>2, <1>4
  <2>2. QED
    BY <1>4, <2>1, PrefixOf
<1>6. ASSUME m < n PROVE IsPrefix(Append(s, t[m + 1]), t)
  <2>1. PICK y \in S : y = t[m + 1]
    BY <1>1, <1>6
  <2>2. PICK v : v = Append(s, y)
    OBVIOUS
  <2>3. v \in Seq(S) /\ Len(v) = m + 1 /\ v[m + 1] = y /\ \A i \in 1..m : v[i] = s[i]
    BY <1>1, <2>2
  <2>4. Len(v) <= Len(t) /\ \A i \in 1..Len(v) : v[i] = t[i]
    BY <1>1, <1>2, <1>6, <2>1, <2>3
  <2>5. IsPrefix(v, t)
    BY <2>3, <2>4, PrefixOf
  <2>6. QED
    BY <2>1, <2>2, <2>5
<1>7. QED
  BY <1>1, <1>3, <1>4, <1>5, <1>6

----------------------------------------------------------------------------
TaskType == [op : {"none", "write", "header", "data"}, todo : Seq(Nat), got : Seq(Nat), round : Nat]
PktTypes == /\ bytes \in Seq(Nat) /\ task \in [PProcs -> TaskType]
            /\ sent \in Seq(Seq(Nat)) /\ received \in Seq(Seq(Nat))
            /\ serial \in BOOLEAN /\ refused \in BOOLEAN

Idle(p)  == task[p].op = "none"
Short    == \A i \in DOMAIN sent : Len(sent[i]) <= 1
Calm     == serial /\ ~refused /\ Short

(* What a call under way has done so far, in terms of the packets: with r  *)
(* of them received, s sent, and b the bytes in the deque.                 *)
WriteTells(t, b, s, r)  == b \o t.todo = Unread(s, r) \o Framed(t.got)
HeaderTells(t, b, s, r) == Len(t.got) <= HeaderSize /\ t.got \o b = Unread(s, r)
DataTells(t, b, s, r)   ==
    /\ r < Len(s) /\ t.todo = <<Len(s[r + 1])>>
    /\ \/ /\ t.round = 0 /\ Len(t.got) <= Len(s[r + 1])
          /\ t.got \o b = s[r + 1] \o Unread(s, r + 1)
       \/ /\ t.round = 1 /\ Len(s[r + 1]) = 1 /\ t.got = s[r + 1] /\ b = Unread(s, r + 1)
Tells(t, b, s, r) ==
    /\ t.op = "none"   => b = Unread(s, r)
    /\ t.op = "write"  => WriteTells(t, b, s, r)
    /\ t.op = "header" => HeaderTells(t, b, s, r)
    /\ t.op = "data"   => DataTells(t, b, s, r)

InTune      == \/ (\A p \in PProcs : Idle(p)) /\ bytes = Unread(sent, Len(received))
               \/ \E p \in PProcs : /\ ~Idle(p) /\ \A q \in PProcs \ {p} : Idle(q)
                                    /\ Tells(task[p], bytes, sent, Len(received))
PktInd == /\ PktTypes /\ Len(bytes) <= Room
          /\ Calm => IsPrefix(received, sent) /\ InTune

LEMMA NoTaskTyped == NoTask \in TaskType /\ NoTask.op = "none"
BY DEF NoTask, TaskType

(* A call that does not overlap with another.                              *)
LEMMA Single ==
  ASSUME PktInd, Calm, NEW p \in PProcs, ~Idle(p)
  PROVE  /\ \A q \in PProcs \ {p} : Idle(q)
         /\ Tells(task[p], bytes, sent, Len(received)) /\ IsPrefix(received, sent)
BY DEF PktInd, InTune

(* To be in tune after a step of p: the others idle, and what p's call     *)
(* now tells.                                                              *)
LEMMA Tuned ==
  ASSUME PktTypes, NEW p \in PProcs, NEW t \in TaskType, task' = [task EXCEPT ![p] = t],
         \A q \in PProcs \ {p} : Idle(q), Tells(t, bytes', sent', Len(received'))
  PROVE  InTune'
<1>1. task'[p] = t /\ \A q \in PProcs \ {p} : task'[q] = task[q]
  BY DEF PktTypes
<1>2. \A q \in PProcs \ {p} : Idle(q)'
  BY <1>1 DEF Idle
<1>3. CASE t.op = "none"
  <2>1. Idle(p)'
    BY <1>1, <1>3 DEF Idle
  <2>2. bytes' = Unread(sent', Len(received'))
    BY <1>3 DEF Tells
  <2>3. QED
    BY <1>2, <2>1, <2>2 DEF InTune
<1>4. CASE t.op # "none"
  <2>1. ~Idle(p)'
    BY <1>1, <1>4 DEF Idle
  <2>2. Tells(task'[p], bytes', sent', Len(received'))
    BY <1>1
  <2>3. QED
    BY <1>2, <2>1, <2>2 DEF InTune
<1>5. QED
  BY <1>3, <1>4

(* A prefix is not longer.                                                 *)
LEMMA Behind ==
  ASSUME PktTypes, IsPrefix(received, sent)
  PROVE  Len(received) \in 0..Len(sent)
<1>1. Len(received) <= Len(sent)
  BY PrefixOf DEF PktTypes
<1>2. QED
  BY <1>1 DEF PktTypes

(* What is left of the packets, from r on: nothing, or a header, a packet  *)
(* and the rest.                                                           *)
LEMMA Rest ==
  ASSUME NEW s \in Seq(Seq(Nat)), NEW r \in 0..Len(s)
  PROVE  /\ Unread(s, r) \in Seq(Nat)
         /\ r = Len(s) => Unread(s, r) = <<>>
         /\ r < Len(s) => /\ s[r + 1] \in Seq(Nat) /\ Unread(s, r + 1) \in Seq(Nat)
                          /\ Unread(s, r) = <<Sync, Len(s[r + 1])>> \o (s[r + 1] \o Unread(s, r + 1))
<1>1. Unread(s, r) \in Seq(Nat) /\ (r = Len(s) => Unread(s, r) = <<>>)
  BY UnreadIs
<1>2. ASSUME r < Len(s)
      PROVE  /\ s[r + 1] \in Seq(Nat) /\ Unread(s, r + 1) \in Seq(Nat)
             /\ Unread(s, r) = <<Sync, Len(s[r + 1])>> \o (s[r + 1] \o Unread(s, r + 1))
  <2>1. r \in 0..(Len(s) - 1) /\ r + 1 \in 0..Len(s) /\ r + 1 \in 1..Len(s)
    BY <1>2
  <2>2. PICK k \in Seq(Nat) : k = s[r + 1]
    BY <2>1
  <2>3. PICK u \in Seq(Nat) : u = Unread(s, r + 1)
    BY <2>1, UnreadIs
  <2>4. PICK h \in Seq(Nat) : h = <<Sync, Len(k)>>
    <3>1. Sync \in Nat /\ Len(k) \in Nat
      BY PacketAssumption
    <3>2. <<Sync, Len(k)>> \in Seq(Nat)
      BY <3>1
    <3>3. QED
      BY <3>2
  <2>5. Unread(s, r) = Framed(k) \o u
    <3>1. \A n \in 0..(Len(s) - 1) : Unread(s, n) = Framed(s[n + 1]) \o Unread(s, n + 1)
      BY UnreadIs
    <3>2. QED
      BY <2>1, <2>2, <2>3, <3>1
  <2>6. Framed(k) = h \o k
    BY <2>4 DEF Framed
  <2>7. (h \o k) \o u = h \o (k \o u)
    BY <2>2, <2>3, <2>4, Regrouped
  <2>8. QED
    BY <2>2, <2>3, <2>4, <2>5, <2>6, <2>7
<1>3. QED
  BY <1>1, <1>2

----------------------------------------------------------------------------
(* Both kinds of call begin in tune: nobody else is at work.               *)
LEMMA StepStarts ==
  ASSUME PktInd, NEW p \in PProcs, NEW t \in TaskType, Starts(p, t),
         \A r : bytes = Unread(sent, r) => Tells(t, bytes, sent, r)
  PROVE  PktInd'
<1>1. /\ task' = [task EXCEPT ![p] = t] /\ serial' = (serial /\ \A q \in PProcs : Idle(q))
      /\ UNCHANGED <<bytes, sent, received, refused>>
  BY DEF Starts, Idle
<1>2. PktTypes'
  BY <1>1 DEF PktInd, PktTypes
<1>3. ASSUME Calm' PROVE IsPrefix(received', sent') /\ InTune'
  <2>1. Calm /\ \A q \in PProcs : Idle(q)
    BY <1>1, <1>3 DEF Calm, Short
  <2>2. IsPrefix(received, sent) /\ bytes = Unread(sent, Len(received))
    BY <2>1 DEF PktInd, InTune
  <2>3. Tells(t, bytes', sent', Len(received'))
    <3>1. Tells(t, bytes, sent, Len(received))
      BY <2>2
    <3>2. QED
      BY <1>1, <3>1
  <2>4. InTune'
    BY <1>1, <2>1, <2>3, Tuned DEF PktInd
  <2>5. QED
    BY <1>1, <2>2, <2>4
<1>4. Len(bytes') <= Room
  BY <1>1 DEF PktInd
<1>5. QED
  BY <1>2, <1>3, <1>4 DEF PktInd

LEMMA StepWrite ==
  ASSUME PktInd, NEW p \in PProcs, NEW k \in Packets, mmdq_write_packet(p, k)
  PROVE  PktInd'
<1>1. PICK f \in Seq(Nat) : f = Framed(k)
  BY FramedIs, PacketAssumption
<1>2. PICK t : t = [op |-> "write", todo |-> f, got |-> k, round |-> 0]
  OBVIOUS
<1>3. t \in TaskType /\ t.op = "write" /\ t.todo = f /\ t.got = k
  BY <1>2, PacketAssumption DEF TaskType
<1>4. Starts(p, t)
  <2>1. PICK a : a = [NoTask EXCEPT !.op = "write"]
    OBVIOUS
  <2>2. a = [op |-> "write", todo |-> <<>>, got |-> <<>>, round |-> 0]
    BY <2>1 DEF NoTask
  <2>3. PICK b : b = [a EXCEPT !.todo = f]
    OBVIOUS
  <2>4. b = [op |-> "write", todo |-> f, got |-> <<>>, round |-> 0]
    BY <2>2, <2>3
  <2>5. [b EXCEPT !.got = k] = t
    BY <1>2, <2>4
  <2>6. [NoTask EXCEPT !.op = "write", !.todo = f, !.got = k] = [b EXCEPT !.got = k]
    BY <2>1, <2>3
  <2>7. QED
    BY <1>1, <2>5, <2>6 DEF mmdq_write_packet
<1>5. \A r : bytes = Unread(sent, r) => Tells(t, bytes, sent, r)
  BY <1>1, <1>3 DEF Tells, WriteTells
<1>6. QED
  BY <1>3, <1>4, <1>5, StepStarts

LEMMA StepRead ==
  ASSUME PktInd, NEW p \in PProcs, mmdq_read_packet(p)
  PROVE  PktInd'
<1>2. PICK t : t = [op |-> "header", todo |-> <<>>, got |-> <<>>, round |-> 0]
  OBVIOUS
<1>3. t \in TaskType /\ t.op = "header" /\ t.got = <<>>
  BY <1>2 DEF TaskType
<1>4. Starts(p, t)
  BY <1>2 DEF mmdq_read_packet, NoTask
<1>5. ASSUME NEW r, bytes = Unread(sent, r) PROVE Tells(t, bytes, sent, r)
  <2>1. <<>> \o bytes = bytes
    BY ConcatEmptySeq DEF PktInd, PktTypes
  <2>2. Len(t.got) <= HeaderSize
    BY <1>3 DEF HeaderSize
  <2>3. t.got \o bytes = Unread(sent, r)
    BY <1>3, <1>5, <2>1
  <2>4. QED
    BY <1>3, <2>2, <2>3 DEF Tells, HeaderTells
<1>6. QED
  BY <1>3, <1>4, <1>5, StepStarts

(* A step that touches neither history of calls, nor gives up a packet.    *)
LEMMA StaysCalm ==
  ASSUME PktTypes, Calm', \/ sent' = sent
                          \/ \E k \in Seq(Nat) : sent' = Append(sent, k),
         serial' = serial, refused' = refused \/ refused' = TRUE
  PROVE  Calm
<1>1. serial /\ ~refused
  BY DEF Calm, PktTypes
<1>2. CASE sent' = sent
  BY <1>1, <1>2 DEF Calm, Short
<1>3. CASE \E k \in Seq(Nat) : sent' = Append(sent, k)
  <2>1. PICK k \in Seq(Nat) : sent' = Append(sent, k)
    BY <1>3
  <2>2. ASSUME NEW i \in DOMAIN sent PROVE Len(sent[i]) <= 1
    <3>1. i \in DOMAIN sent' /\ sent'[i] = sent[i]
      BY <2>1 DEF PktTypes
    <3>2. QED
      BY <3>1 DEF Calm, Short
  <2>3. QED
    BY <1>1, <2>2 DEF Calm, Short
<1>4. QED
  BY <1>2, <1>3

LEMMA StepPush ==
  ASSUME PktInd, NEW p \in PProcs, push_packet(p)
  PROVE  PktInd'
<1>1. PktTypes /\ task[p] \in TaskType /\ task[p].op = "write" /\ ~Idle(p)
  BY DEF PktInd, PktTypes, push_packet, Idle
<1>2. task[p].todo \in Seq(Nat) /\ task[p].todo # <<>> /\ UNCHANGED <<sent, received, serial>>
  BY <1>1 DEF push_packet, TaskType
<1>3. CASE Len(bytes) < Room
  <2>1. PICK y, d : y = Head(task[p].todo) /\ d = Tail(task[p].todo)
    OBVIOUS
  <2>2. bytes' = Append(bytes, y) /\ task' = [task EXCEPT ![p].todo = d] /\ refused' = refused
    BY <1>3, <2>1 DEF push_packet
  <2>3. PICK b \in Seq(Nat) : b = bytes
    BY <1>1 DEF PktTypes
  <2>4. /\ bytes' \in Seq(Nat) /\ d \in Seq(Nat) /\ Len(bytes') = Len(b) + 1
        /\ bytes' \o d = b \o task[p].todo
    BY <1>2, <2>1, <2>2, <2>3, Carried
  <2>5. PICK t : t = [op |-> "write", todo |-> d, got |-> task[p].got, round |-> task[p].round]
    OBVIOUS
  <2>6. t \in TaskType /\ t.op = "write" /\ t.todo = d /\ t.got = task[p].got
    BY <1>1, <2>4, <2>5 DEF TaskType
  <2>7. task' = [task EXCEPT ![p] = t]
    <3>1. PICK a : a = task[p]
      OBVIOUS
    <3>2. PICK o, x, g, n : a = [op |-> o, todo |-> x, got |-> g, round |-> n]
      BY <1>1, <3>1 DEF TaskType
    <3>3. [a EXCEPT !.todo = d] = [op |-> o, todo |-> d, got |-> g, round |-> n]
      BY <3>2
    <3>4. t = [op |-> o, todo |-> d, got |-> g, round |-> n]
      BY <1>1, <2>5, <3>1, <3>2
    <3>5. QED
      BY <1>1, <2>2, <3>1, <3>3, <3>4 DEF PktTypes
  <2>8. PktTypes'
    BY <1>1, <1>2, <2>2, <2>4, <2>6, <2>7 DEF PktTypes
  <2>9. Len(bytes') <= Room
    BY <1>3, <2>3, <2>4, PacketAssumption
  <2>10. ASSUME Calm' PROVE IsPrefix(received', sent') /\ InTune'
    <3>1. Calm
      BY <1>1, <1>2, <2>2, <2>10, StaysCalm
    <3>2. /\ \A q \in PProcs \ {p} : Idle(q)
          /\ Tells(task[p], bytes, sent, Len(received)) /\ IsPrefix(received, sent)
      BY <1>1, <3>1, Single
    <3>3. b \o task[p].todo = Unread(sent, Len(received)) \o Framed(task[p].got)
      BY <1>1, <2>3, <3>2 DEF Tells, WriteTells
    <3>4. Tells(t, bytes', sent', Len(received'))
      BY <1>2, <2>4, <2>6, <3>3 DEF Tells, WriteTells
    <3>5. InTune'
      BY <1>1, <2>6, <2>7, <3>2, <3>4, Tuned
    <3>6. QED
      BY <1>2, <3>2, <3>5
  <2>11. QED
    BY <2>8, <2>9, <2>10 DEF PktInd
<1>4. CASE ~(Len(bytes) < Room)
  <2>1. task' = [task EXCEPT ![p] = NoTask] /\ refused' = TRUE /\ bytes' = bytes
    BY <1>4 DEF push_packet, Returns
  <2>2. PktTypes'
    BY <1>1, <1>2, <2>1, NoTaskTyped DEF PktTypes
  <2>3. ~Calm'
    BY <2>1 DEF Calm
  <2>4. Len(bytes') <= Room
    BY <2>1 DEF PktInd
  <2>5. QED
    BY <2>2, <2>3, <2>4 DEF PktInd
<1>5. QED
  BY <1>3, <1>4

LEMMA StepWritten ==
  ASSUME PktInd, NEW p \in PProcs, WriteReturns(p)
  PROVE  PktInd'
<1>1. PktTypes /\ task[p] \in TaskType /\ task[p].op = "write" /\ ~Idle(p)
  BY DEF PktInd, PktTypes, WriteReturns, Idle
<1>2. PICK k \in Seq(Nat) : k = task[p].got
  BY <1>1 DEF TaskType
<1>3. /\ sent' = Append(sent, k) /\ task' = [task EXCEPT ![p] = NoTask] /\ task[p].todo = <<>>
      /\ bytes' = bytes /\ received' = received /\ serial' = serial /\ refused' = refused
  BY <1>2 DEF WriteReturns, Returns
<1>4. PktTypes'
  BY <1>1, <1>2, <1>3, NoTaskTyped DEF PktTypes
<1>5. Len(bytes') <= Room
  BY <1>3 DEF PktInd
<1>6. ASSUME Calm' PROVE IsPrefix(received', sent') /\ InTune'
  <2>1. Calm
    BY <1>1, <1>2, <1>3, <1>6, StaysCalm
  <2>2. /\ \A q \in PProcs \ {p} : Idle(q)
        /\ Tells(task[p], bytes, sent, Len(received)) /\ IsPrefix(received, sent)
    BY <1>1, <2>1, Single
  <2>3. PICK r \in 0..Len(sent) : r = Len(received)
    BY <1>1, <2>2, Behind
  <2>4. bytes \o <<>> = bytes
    BY <1>1, ConcatEmptySeq DEF PktTypes
  <2>5. bytes = Unread(sent, r) \o Framed(k)
    BY <1>1, <1>2, <1>3, <2>2, <2>3, <2>4 DEF Tells, WriteTells
  <2>6. PICK s \in Seq(Seq(Nat)) : s = sent
    BY <1>1 DEF PktTypes
  <2>7. \A n \in 0..Len(s) : Unread(Append(s, k), n) = Unread(s, n) \o Framed(k)
    BY UnreadAppend
  <2>8. bytes' = Unread(sent', Len(received'))
    BY <1>3, <2>3, <2>5, <2>6, <2>7
  <2>9. Tells(NoTask, bytes', sent', Len(received'))
    BY <2>8, NoTaskTyped DEF Tells
  <2>10. InTune'
    BY <1>1, <1>3, <2>2, <2>9, NoTaskTyped, Tuned
  <2>11. received \in Seq(Seq(Nat))
    BY <1>1 DEF PktTypes
  <2>12. IsPrefix(received, Append(s, k))
    BY <2>2, <2>6, <2>11, PrefixGrows
  <2>13. QED
    BY <1>3, <2>6, <2>10, <2>12
<1>7. QED
  BY <1>4, <1>5, <1>6 DEF PktInd

(* A byte more of a packet, or an empty deque and the end of the call.     *)
LEMMA Popped ==
  ASSUME PktTypes, Len(bytes) <= Room, NEW p \in PProcs, NEW w, pop_packet(p, w)
  PROVE  /\ PktTypes' /\ Len(bytes') <= Room /\ Len(task[p].got) < w
         /\ UNCHANGED <<sent, received, serial, refused>>
         /\ bytes = <<>> => task' = [task EXCEPT ![p] = NoTask] /\ bytes' = bytes
         /\ bytes # <<>> => \E t \in TaskType :
              /\ task' = [task EXCEPT ![p] = t]
              /\ t.op = task[p].op /\ t.todo = task[p].todo /\ t.round = task[p].round
              /\ Len(t.got) = Len(task[p].got) + 1
              /\ t.got \o bytes' = task[p].got \o bytes
<1>1. /\ Len(task[p].got) < w /\ UNCHANGED <<sent, received, serial, refused>>
      /\ task[p] \in TaskType
  BY DEF pop_packet, PktTypes
<1>2. PICK b \in Seq(Nat) : b = bytes
  BY DEF PktTypes
<1>3. CASE b = <<>>
  <2>1. task' = [task EXCEPT ![p] = NoTask] /\ bytes' = bytes
    BY <1>2, <1>3 DEF pop_packet, Returns
  <2>2. PktTypes'
    BY <1>1, <2>1, NoTaskTyped DEF PktTypes
  <2>3. QED
    BY <1>1, <1>2, <1>3, <2>1, <2>2
<1>4. CASE b # <<>>
  <2>1. PICK o, x, g, n : task[p] = [op |-> o, todo |-> x, got |-> g, round |-> n]
    BY <1>1 DEF TaskType
  <2>2. o = task[p].op /\ x = task[p].todo /\ g = task[p].got /\ n = task[p].round /\ g \in Seq(Nat)
    BY <1>1, <2>1 DEF TaskType
  <2>3. PICK y, e : y = Append(g, Head(b)) /\ e = Tail(b)
    OBVIOUS
  <2>4. y \in Seq(Nat) /\ e \in Seq(Nat) /\ Len(y) = Len(g) + 1 /\ y \o e = g \o b
    BY <1>4, <2>2, <2>3, Carried
  <2>5. Len(e) = Len(b) - 1
    BY <1>4, <2>3, HeadTailProperties
  <2>6. bytes' = e /\ task' = [task EXCEPT ![p].got = y]
    BY <1>2, <1>4, <2>2, <2>3 DEF pop_packet, PktTypes
  <2>7. PICK t : t = [op |-> o, todo |-> x, got |-> y, round |-> n]
    OBVIOUS
  <2>8. t \in TaskType
    BY <1>1, <2>2, <2>4, <2>7 DEF TaskType
  <2>9. [task[p] EXCEPT !.got = y] = t
    BY <2>1, <2>7
  <2>10. task' = [task EXCEPT ![p] = t]
    BY <2>6, <2>9 DEF PktTypes
  <2>11. t.op = o /\ t.todo = x /\ t.got = y /\ t.round = n
    BY <2>7
  <2>12. PktTypes'
    BY <1>1, <2>4, <2>6, <2>8, <2>10 DEF PktTypes
  <2>13. Len(bytes') <= Room
    <3>1. Len(b) \in Nat /\ Len(b) <= Room
      BY <1>2
    <3>2. QED
      BY <2>5, <2>6, <3>1, PacketAssumption
  <2>14. Len(t.got) = Len(task[p].got) + 1
    BY <2>2, <2>4, <2>11
  <2>15. t.got \o bytes' = task[p].got \o bytes
    BY <1>2, <2>2, <2>4, <2>6, <2>11
  <2>16. t.op = task[p].op /\ t.todo = task[p].todo /\ t.round = task[p].round
    BY <2>2, <2>11
  <2>17. bytes # <<>>
    BY <1>2, <1>4
  <2>18. QED
    BY <1>1, <2>8, <2>10, <2>12, <2>13, <2>14, <2>15, <2>16, <2>17
<1>5. QED
  BY <1>3, <1>4

(* The sequence that ends in nothing.                                      *)
LEMMA NoMore ==
  ASSUME NEW a \in Seq(Nat), NEW b \in Seq(Nat)
  PROVE  a \o <<>> = a /\ <<>> \o b = b /\ Len(a \o b) = Len(a) + Len(b)
<1>1. a \o <<>> = a
  BY ConcatEmptySeq
<1>2. <<>> \o b = b
  BY ConcatEmptySeq
<1>3. QED
  BY <1>1, <1>2, ConcatProperties

(* A packet that is behind another byte is a header at least.              *)
LEMMA AtLeastHeader ==
  ASSUME NEW s \in Seq(Seq(Nat)), NEW r \in 0..Len(s)
  PROVE  Len(Unread(s, r)) = 0 \/ (r < Len(s) /\ Len(Unread(s, r)) >= 2)
<1>1. CASE r = Len(s)
  <2>1. Unread(s, r) = <<>>
    BY <1>1, Rest
  <2>2. QED
    BY <2>1
<1>2. CASE r < Len(s)
  <2>1. PICK k \in Seq(Nat), u \in Seq(Nat) :
          k = s[r + 1] /\ u = Unread(s, r + 1) /\ Unread(s, r) = <<Sync, Len(k)>> \o (k \o u)
    BY <1>2, Rest
  <2>2. PICK h \in Seq(Nat) : h = <<Sync, Len(k)>> /\ Len(h) = 2
    <3>1. Sync \in Nat /\ Len(k) \in Nat
      BY PacketAssumption
    <3>2. <<Sync, Len(k)>> \in Seq(Nat)
      BY <3>1
    <3>3. QED
      BY <3>2
  <2>3. PICK v \in Seq(Nat) : v = k \o u
    BY ConcatProperties
  <2>4. Len(h \o v) = 2 + Len(v)
    BY <2>2, NoMore
  <2>5. Unread(s, r) = h \o v /\ Len(v) \in Nat
    <3>1. Unread(s, r) = h \o v
      BY <2>1, <2>2, <2>3
    <3>2. Len(v) \in Nat
      BY <2>3
    <3>3. QED
      BY <3>1, <3>2
  <2>6. Len(Unread(s, r)) >= 2
    BY <2>4, <2>5
  <2>7. QED
    BY <1>2, <2>6
<1>3. QED
  BY <1>1, <1>2

LEMMA StepHeaderPop ==
  ASSUME PktInd, NEW p \in PProcs, task[p].op = "header", pop_packet(p, HeaderSize)
  PROVE  PktInd'
<1>1. PktTypes /\ task[p] \in TaskType /\ ~Idle(p) /\ Len(bytes) <= Room
  BY DEF PktInd, PktTypes, Idle
<1>2. /\ PktTypes' /\ Len(bytes') <= Room /\ Len(task[p].got) < HeaderSize
      /\ UNCHANGED <<sent, received, serial, refused>>
  BY <1>1, Popped
<1>3. ASSUME Calm' PROVE IsPrefix(received', sent') /\ InTune'
  <2>1. Calm
    BY <1>1, <1>2, <1>3, StaysCalm
  <2>2. /\ \A q \in PProcs \ {p} : Idle(q)
        /\ Tells(task[p], bytes, sent, Len(received)) /\ IsPrefix(received, sent)
    BY <1>1, <2>1, Single
  <2>3. PICK r \in 0..Len(sent) : r = Len(received)
    BY <1>1, <2>2, Behind
  <2>4. task[p].got \o bytes = Unread(sent, r)
    BY <2>2, <2>3 DEF Tells, HeaderTells
  <2>5. CASE bytes # <<>>
    <3>1. PICK t \in TaskType :
            /\ task' = [task EXCEPT ![p] = t] /\ t.op = "header"
            /\ Len(t.got) = Len(task[p].got) + 1 /\ t.got \o bytes' = task[p].got \o bytes
      BY <1>1, <2>5, Popped
    <3>2. Len(t.got) <= HeaderSize
      BY <1>1, <1>2, <3>1 DEF HeaderSize, TaskType
    <3>3. Tells(t, bytes', sent', Len(received'))
      BY <1>2, <2>3, <2>4, <3>1, <3>2 DEF Tells, HeaderTells
    <3>4. InTune'
      BY <1>1, <2>2, <3>1, <3>3, Tuned
    <3>5. QED
      BY <1>2, <2>2, <3>4
  <2>6. CASE bytes = <<>>
    <3>1. task' = [task EXCEPT ![p] = NoTask] /\ bytes' = bytes
      BY <1>1, <2>6, Popped
    <3>2. PICK g \in Seq(Nat) : g = task[p].got
      BY <1>1 DEF TaskType
    <3>3. Unread(sent, r) = g /\ Len(g) < 2 /\ Len(g) \in Nat
      BY <1>2, <2>4, <2>6, <3>2, NoMore DEF HeaderSize
    <3>4. Len(g) = 0
      <4>1. sent \in Seq(Seq(Nat))
        BY <1>1 DEF PktTypes
      <4>2. Len(Unread(sent, r)) = 0 \/ Len(Unread(sent, r)) >= 2
        BY <4>1, AtLeastHeader
      <4>3. QED
        BY <3>3, <4>2
    <3>5. bytes' = Unread(sent', Len(received'))
      BY <1>2, <2>3, <2>6, <3>1, <3>2, <3>3, <3>4, EmptySeq
    <3>6. Tells(NoTask, bytes', sent', Len(received'))
      BY <3>5, NoTaskTyped DEF Tells
    <3>7. InTune'
      BY <1>1, <2>2, <3>1, <3>6, NoTaskTyped, Tuned
    <3>8. QED
      BY <1>2, <2>2, <3>7
  <2>7. QED
    BY <2>5, <2>6
<1>4. QED
  BY <1>2, <1>3 DEF PktInd

(* The header has been read: its second cell is the length of the packet.  *)
HeaderRead(p) == /\ Len(task[p].got) = HeaderSize
                 /\ task' = [task EXCEPT ![p] = [op |-> "data", todo |-> <<task[p].got[2]>>,
                                                 got |-> <<>>, round |-> 0]]
                 /\ UNCHANGED <<bytes, sent, received, serial, refused, begun>>

LEMMA StepHeaderRead ==
  ASSUME PktInd, NEW p \in PProcs, task[p].op = "header", HeaderRead(p)
  PROVE  PktInd'
<1>1. PktTypes /\ task[p] \in TaskType /\ ~Idle(p) /\ Len(bytes) <= Room
  BY DEF PktInd, PktTypes, Idle
<1>2. PICK g \in Seq(Nat) : g = task[p].got
  BY <1>1 DEF TaskType
<1>3. PICK t : t = [op |-> "data", todo |-> <<g[2]>>, got |-> <<>>, round |-> 0]
  OBVIOUS
<1>4. /\ Len(g) = 2 /\ task' = [task EXCEPT ![p] = t]
      /\ bytes' = bytes /\ sent' = sent /\ received' = received /\ serial' = serial /\ refused' = refused
  BY <1>2, <1>3 DEF HeaderRead, HeaderSize
<1>5. t \in TaskType /\ t.op = "data" /\ t.todo = <<g[2]>> /\ t.got = <<>> /\ t.round = 0
  <2>1. g[2] \in Nat
    BY <1>4
  <2>2. <<g[2]>> \in Seq(Nat)
    BY <2>1
  <2>3. QED
    BY <1>3, <2>2 DEF TaskType
<1>6. PktTypes'
  BY <1>1, <1>4, <1>5 DEF PktTypes
<1>7. ASSUME Calm' PROVE IsPrefix(received', sent') /\ InTune'
  <2>1. Calm
    BY <1>1, <1>4, <1>7, StaysCalm
  <2>2. /\ \A q \in PProcs \ {p} : Idle(q)
        /\ Tells(task[p], bytes, sent, Len(received)) /\ IsPrefix(received, sent)
    BY <1>1, <2>1, Single
  <2>3. PICK r \in 0..Len(sent) : r = Len(received)
    BY <1>1, <2>2, Behind
  <2>4. PICK b \in Seq(Nat) : b = bytes
    BY <1>1 DEF PktTypes
  <2>5. g \o b = Unread(sent, r)
    BY <1>2, <2>2, <2>3, <2>4 DEF Tells, HeaderTells
  <2>6. r < Len(sent)
    <3>1. Len(Unread(sent, r)) = 0 \/ r < Len(sent)
      BY <1>1, AtLeastHeader DEF PktTypes
    <3>2. Len(g \o b) = Len(g) + Len(b) /\ Len(b) \in Nat /\ Len(g) = 2
      <4>1. Len(g \o b) = Len(g) + Len(b)
        BY NoMore
      <4>2. Len(b) \in Nat
        OBVIOUS
      <4>3. QED
        BY <1>4, <4>1, <4>2
    <3>3. QED
      BY <2>5, <3>1, <3>2
  <2>7. PICK k \in Seq(Nat), u \in Seq(Nat) :
          k = sent[r + 1] /\ u = Unread(sent, r + 1) /\ Unread(sent, r) = <<Sync, Len(k)>> \o (k \o u)
    BY <1>1, <2>6, Rest DEF PktTypes
  <2>8. PICK h \in Seq(Nat) : h = <<Sync, Len(k)>> /\ Len(h) = 2 /\ h[2] = Len(k)
    <3>1. Sync \in Nat /\ Len(k) \in Nat
      BY PacketAssumption
    <3>2. <<Sync, Len(k)>> \in Seq(Nat)
      BY <3>1
    <3>3. QED
      BY <3>2
  <2>9. PICK v \in Seq(Nat) : v = k \o u
    BY ConcatProperties
  <2>10. g = h /\ b = v
    <3>1. g \o b = h \o v /\ Len(g) = Len(h)
      BY <1>4, <2>5, <2>7, <2>8, <2>9
    <3>2. QED
      BY <3>1, SameCut
  <2>11. DataTells(t, bytes', sent', r)
    <3>1. r < Len(sent) /\ t.todo = <<Len(sent[r + 1])>>
      BY <1>5, <2>6, <2>7, <2>8, <2>10
    <3>2. t.round = 0 /\ Len(t.got) <= Len(sent[r + 1])
      BY <1>5, <2>7
    <3>3. t.got \o bytes' = sent[r + 1] \o Unread(sent, r + 1)
      BY <1>4, <1>5, <2>4, <2>7, <2>9, <2>10, NoMore
    <3>4. QED
      BY <1>4, <3>1, <3>2, <3>3 DEF DataTells
  <2>12. Tells(t, bytes', sent', Len(received'))
    BY <1>4, <1>5, <2>3, <2>11 DEF Tells
  <2>13. InTune'
    BY <1>1, <1>4, <1>5, <2>2, <2>12, Tuned
  <2>14. QED
    BY <1>4, <2>2, <2>13
<1>8. QED
  BY <1>1, <1>4, <1>6, <1>7 DEF PktInd

(* What a read of data finds when no call overlaps and packets are short.  *)
LEMMA DataFound ==
  ASSUME PktInd, Calm, NEW p \in PProcs, task[p].op = "data"
  PROVE  /\ \A q \in PProcs \ {p} : Idle(q)
         /\ IsPrefix(received, sent)
         /\ \E k \in Seq(Nat), u \in Seq(Nat) :
              /\ Len(received) < Len(sent) /\ k = sent[Len(received) + 1] /\ Len(k) <= 1
              /\ u = Unread(sent, Len(received) + 1) /\ task[p].todo = <<Len(k)>>
              /\ \/ /\ task[p].round = 0 /\ Len(task[p].got) <= Len(k)
                    /\ task[p].got \o bytes = k \o u
                 \/ /\ task[p].round = 1 /\ Len(k) = 1 /\ task[p].got = k /\ bytes = u
<1>1. ~Idle(p) /\ PktTypes
  BY DEF Idle, PktInd
<1>2. /\ \A q \in PProcs \ {p} : Idle(q)
      /\ Tells(task[p], bytes, sent, Len(received)) /\ IsPrefix(received, sent)
  BY <1>1, Single
<1>3. DataTells(task[p], bytes, sent, Len(received))
  BY <1>2 DEF Tells
<1>4. PICK r \in 0..Len(sent) : r = Len(received)
  BY <1>1, <1>2, Behind
<1>5. r < Len(sent)
  BY <1>3, <1>4 DEF DataTells
<1>6. PICK k \in Seq(Nat), u \in Seq(Nat) : k = sent[r + 1] /\ u = Unread(sent, r + 1)
  BY <1>1, <1>5, Rest DEF PktTypes
<1>7. Len(k) <= 1
  <2>1. r + 1 \in DOMAIN sent
    BY <1>1, <1>5 DEF PktTypes
  <2>2. QED
    BY <1>6, <2>1 DEF Calm, Short
<1>8. /\ task[p].todo = <<Len(k)>>
      /\ \/ /\ task[p].round = 0 /\ Len(task[p].got) <= Len(k)
            /\ task[p].got \o bytes = k \o u
         \/ /\ task[p].round = 1 /\ Len(k) = 1 /\ task[p].got = k /\ bytes = u
  BY <1>3, <1>4, <1>6 DEF DataTells
<1>9. QED
  BY <1>2, <1>4, <1>5, <1>6, <1>7, <1>8

LEMMA StepDataPop ==
  ASSUME PktInd, NEW p \in PProcs, task[p].op = "data", task[p].round < packet_len(p),
         pop_packet(p, packet_len(p))
  PROVE  PktInd'
<1>1. PktTypes /\ task[p] \in TaskType /\ ~Idle(p) /\ Len(bytes) <= Room
  BY DEF PktInd, PktTypes, Idle
<1>2. /\ PktTypes' /\ Len(bytes') <= Room /\ Len(task[p].got) < packet_len(p)
      /\ UNCHANGED <<sent, received, serial, refused>>
  BY <1>1, Popped
<1>3. ASSUME Calm' PROVE IsPrefix(received', sent') /\ InTune'
  <2>1. Calm
    BY <1>1, <1>2, <1>3, StaysCalm
  <2>2. (\A q \in PProcs \ {p} : Idle(q)) /\ IsPrefix(received, sent)
    BY <2>1, DataFound
  <2>3. PICK k \in Seq(Nat), u \in Seq(Nat) :
          /\ Len(received) < Len(sent) /\ k = sent[Len(received) + 1] /\ Len(k) <= 1
          /\ u = Unread(sent, Len(received) + 1) /\ task[p].todo = <<Len(k)>>
          /\ \/ /\ task[p].round = 0 /\ Len(task[p].got) <= Len(k)
                /\ task[p].got \o bytes = k \o u
             \/ /\ task[p].round = 1 /\ Len(k) = 1 /\ task[p].got = k /\ bytes = u
    BY <2>1, DataFound
  <2>4. packet_len(p) = Len(k)
    BY <2>3 DEF packet_len
  <2>5. task[p].round = 0 /\ task[p].got \o bytes = k \o u
    <3>1. CASE task[p].round = 1 /\ Len(k) = 1
      BY <2>4, <3>1
    <3>2. QED
      BY <2>3, <3>1
  <2>6. PICK g \in Seq(Nat) : g = task[p].got /\ Len(g) < Len(k)
    BY <1>1, <1>2, <2>4 DEF TaskType
  <2>7. bytes # <<>>
    <3>1. SUFFICES ASSUME bytes = <<>> PROVE FALSE
      OBVIOUS
    <3>2. g = k \o u
      BY <2>5, <2>6, <3>1, NoMore
    <3>3. Len(k \o u) = Len(k) + Len(u) /\ Len(u) \in Nat /\ Len(k) \in Nat
      BY NoMore
    <3>4. QED
      BY <2>6, <3>2, <3>3
  <2>8. PICK t \in TaskType :
          /\ task' = [task EXCEPT ![p] = t]
          /\ t.op = "data" /\ t.todo = task[p].todo /\ t.round = 0
          /\ Len(t.got) = Len(g) + 1 /\ t.got \o bytes' = g \o bytes
    BY <1>1, <2>5, <2>6, <2>7, Popped
  <2>9. Len(t.got) <= Len(k)
    BY <2>6, <2>8
  <2>10. DataTells(t, bytes', sent', Len(received'))
    <3>1. t.got \o bytes' = k \o u
      BY <2>5, <2>6, <2>8
    <3>2. QED
      BY <1>2, <2>3, <2>8, <2>9, <3>1 DEF DataTells
  <2>11. Tells(t, bytes', sent', Len(received'))
    BY <2>8, <2>10 DEF Tells
  <2>12. InTune'
    BY <1>1, <2>2, <2>8, <2>11, Tuned
  <2>13. QED
    BY <1>2, <2>2, <2>12
<1>4. QED
  BY <1>2, <1>3 DEF PktInd

(* The end of a round of the outer loop.                                   *)
RoundRead(p) == /\ Len(task[p].got) = packet_len(p)
                /\ task' = [task EXCEPT ![p].round = @ + 1,
                                ![p].got = IF task[p].round + 1 < packet_len(p) THEN <<>> ELSE @]
                /\ UNCHANGED <<bytes, sent, received, serial, refused, begun>>

LEMMA StepRoundRead ==
  ASSUME PktInd, NEW p \in PProcs, task[p].op = "data", task[p].round < packet_len(p), RoundRead(p)
  PROVE  PktInd'
<1>1. PktTypes /\ task[p] \in TaskType /\ ~Idle(p) /\ Len(bytes) <= Room
  BY DEF PktInd, PktTypes, Idle
<1>2. PICK o, x, g, n : task[p] = [op |-> o, todo |-> x, got |-> g, round |-> n]
  BY <1>1 DEF TaskType
<1>3. o = "data" /\ x = task[p].todo /\ g = task[p].got /\ n = task[p].round /\ g \in Seq(Nat) /\ n \in Nat
  BY <1>1, <1>2 DEF TaskType
<1>4. PICK y : y = IF n + 1 < packet_len(p) THEN <<>> ELSE g
  OBVIOUS
<1>5. PICK t : t = [op |-> o, todo |-> x, got |-> y, round |-> n + 1]
  OBVIOUS
<1>6. t \in TaskType /\ t.op = "data" /\ t.todo = x /\ t.got = y /\ t.round = n + 1
  <2>1. y \in Seq(Nat) /\ n + 1 \in Nat
    BY <1>3, <1>4
  <2>2. QED
    BY <1>1, <1>3, <1>5, <2>1 DEF TaskType
<1>7. /\ bytes' = bytes /\ sent' = sent /\ received' = received /\ serial' = serial
      /\ refused' = refused /\ Len(g) = packet_len(p)
  BY <1>3 DEF RoundRead
<1>8. task' = [task EXCEPT ![p] = t]
  <2>1. PICK m : m = n + 1
    OBVIOUS
  <2>2. PICK f : f = [task EXCEPT ![p].round = m]
    OBVIOUS
  <2>3. PICK a : a = [op |-> o, todo |-> x, got |-> g, round |-> m]
    OBVIOUS
  <2>4. [task[p] EXCEPT !.round = m] = a
    BY <1>2, <2>3
  <2>5. f = [task EXCEPT ![p] = a]
    BY <1>1, <2>2, <2>4 DEF PktTypes
  <2>6. f \in [PProcs -> {f[q] : q \in PProcs}] /\ f[p] = a
    BY <1>1, <2>5 DEF PktTypes
  <2>7. task' = [f EXCEPT ![p].got = y]
    BY <1>1, <1>3, <1>4, <2>1, <2>2, <2>3, <2>5, <2>6 DEF RoundRead, PktTypes
  <2>8. [a EXCEPT !.got = y] = t
    BY <1>5, <2>1, <2>3
  <2>9. task' = [f EXCEPT ![p] = t]
    BY <2>6, <2>7, <2>8
  <2>10. QED
    BY <1>1, <2>5, <2>9 DEF PktTypes
<1>9. PktTypes'
  BY <1>1, <1>6, <1>7, <1>8 DEF PktTypes
<1>10. ASSUME Calm' PROVE IsPrefix(received', sent') /\ InTune'
  <2>1. Calm
    BY <1>1, <1>7, <1>10, StaysCalm
  <2>2. (\A q \in PProcs \ {p} : Idle(q)) /\ IsPrefix(received, sent)
    BY <2>1, DataFound
  <2>3. PICK k \in Seq(Nat), u \in Seq(Nat) :
          /\ Len(received) < Len(sent) /\ k = sent[Len(received) + 1] /\ Len(k) <= 1
          /\ u = Unread(sent, Len(received) + 1) /\ task[p].todo = <<Len(k)>>
          /\ \/ /\ task[p].round = 0 /\ Len(task[p].got) <= Len(k)
                /\ task[p].got \o bytes = k \o u
             \/ /\ task[p].round = 1 /\ Len(k) = 1 /\ task[p].got = k /\ bytes = u
    BY <2>1, DataFound
  <2>4. packet_len(p) = Len(k) /\ Len(k) \in Nat
    BY <2>3 DEF packet_len
  <2>5. n = 0 /\ g \o bytes = k \o u /\ Len(k) = 1 /\ Len(g) = 1
    <3>1. n < Len(k) /\ Len(k) <= 1 /\ Len(g) = Len(k)
      BY <1>3, <1>7, <2>3, <2>4
    <3>2. n = 0 /\ Len(k) = 1 /\ Len(g) = 1
      BY <1>3, <2>4, <3>1
    <3>3. g \o bytes = k \o u
      BY <1>3, <2>3, <3>2
    <3>4. QED
      BY <3>2, <3>3
  <2>6. PICK b \in Seq(Nat) : b = bytes
    BY <1>1 DEF PktTypes
  <2>7. g = k /\ b = u
    BY <1>3, <2>5, <2>6, SameCut
  <2>8. y = g
    BY <1>4, <2>4, <2>5
  <2>9. DataTells(t, bytes', sent', Len(received'))
    BY <1>3, <1>6, <1>7, <2>3, <2>5, <2>6, <2>7, <2>8 DEF DataTells
  <2>10. Tells(t, bytes', sent', Len(received'))
    BY <1>6, <2>9 DEF Tells
  <2>11. InTune'
    BY <1>1, <1>6, <1>8, <2>2, <2>10, Tuned
  <2>12. QED
    BY <1>7, <2>2, <2>11
<1>11. QED
  BY <1>1, <1>7, <1>9, <1>10 DEF PktInd

LEMMA StepReadReturns ==
  ASSUME PktInd, NEW p \in PProcs, ReadReturns(p)
  PROVE  PktInd'
<1>1. PktTypes /\ task[p] \in TaskType /\ ~Idle(p) /\ Len(bytes) <= Room /\ task[p].op = "data"
  BY DEF PktInd, PktTypes, Idle, ReadReturns
<1>2. PICK g \in Seq(Nat) : g = task[p].got
  BY <1>1 DEF TaskType
<1>3. /\ received' = Append(received, g) /\ task' = [task EXCEPT ![p] = NoTask]
      /\ bytes' = bytes /\ sent' = sent /\ serial' = serial /\ refused' = refused
      /\ task[p].round = packet_len(p)
  BY <1>2 DEF ReadReturns, Returns
<1>4. PktTypes'
  BY <1>1, <1>2, <1>3, NoTaskTyped DEF PktTypes
<1>5. ASSUME Calm' PROVE IsPrefix(received', sent') /\ InTune'
  <2>1. Calm
    BY <1>1, <1>3, <1>5, StaysCalm
  <2>2. (\A q \in PProcs \ {p} : Idle(q)) /\ IsPrefix(received, sent)
    BY <1>1, <2>1, DataFound
  <2>3. PICK k \in Seq(Nat), u \in Seq(Nat) :
          /\ Len(received) < Len(sent) /\ k = sent[Len(received) + 1] /\ Len(k) <= 1
          /\ u = Unread(sent, Len(received) + 1) /\ task[p].todo = <<Len(k)>>
          /\ \/ /\ task[p].round = 0 /\ Len(task[p].got) <= Len(k)
                /\ task[p].got \o bytes = k \o u
             \/ /\ task[p].round = 1 /\ Len(k) = 1 /\ task[p].got = k /\ bytes = u
    BY <1>1, <2>1, DataFound
  <2>4. task[p].round = Len(k) /\ Len(k) \in Nat
    BY <1>3, <2>3 DEF packet_len
  <2>5. PICK b \in Seq(Nat) : b = bytes
    BY <1>1 DEF PktTypes
  <2>6. g = k /\ b = u
    <3>1. CASE /\ task[p].round = 0 /\ Len(task[p].got) <= Len(k)
               /\ task[p].got \o bytes = k \o u
      <4>1. Len(g) = Len(k)
        BY <1>2, <2>4, <3>1
      <4>2. QED
        BY <1>2, <2>5, <3>1, <4>1, SameCut
    <3>2. CASE task[p].got = k /\ bytes = u
      BY <1>2, <2>5, <3>2
    <3>3. QED
      BY <2>3, <3>1, <3>2
  <2>7. Len(received') = Len(received) + 1
    BY <1>1, <1>2, <1>3 DEF PktTypes
  <2>8. bytes' = Unread(sent', Len(received'))
    BY <1>3, <2>3, <2>5, <2>6, <2>7
  <2>9. Tells(NoTask, bytes', sent', Len(received'))
    BY <2>8, NoTaskTyped DEF Tells
  <2>10. InTune'
    BY <1>1, <1>3, <2>2, <2>9, NoTaskTyped, Tuned
  <2>11. PICK s \in Seq(Seq(Nat)), r \in Seq(Seq(Nat)) : s = sent /\ r = received
    BY <1>1 DEF PktTypes
  <2>12. IsPrefix(Append(r, s[Len(r) + 1]), s)
    <3>1. IsPrefix(r, s) /\ Len(r) < Len(s)
      BY <2>2, <2>3, <2>11
    <3>2. QED
      BY <3>1, PrefixGrows
  <2>13. QED
    BY <1>3, <2>3, <2>6, <2>10, <2>11, <2>12
<1>6. QED
  BY <1>1, <1>3, <1>4, <1>5 DEF PktInd

LEMMA InitPackets == PktInit => PktInd
<1> SUFFICES ASSUME PktInit PROVE PktInd
  OBVIOUS
<1>1. /\ bytes = <<>> /\ sent = <<>> /\ received = <<>> /\ serial = TRUE /\ refused = FALSE
      /\ task = [p \in PProcs |-> NoTask]
  BY DEF PktInit
<1>2. PktTypes
  <2>1. <<>> \in Seq(Nat) /\ <<>> \in Seq(Seq(Nat))
    BY EmptySeq
  <2>2. task \in [PProcs -> TaskType]
    BY <1>1, NoTaskTyped
  <2>3. QED
    BY <1>1, <2>1, <2>2 DEF PktTypes
<1>3. Len(bytes) <= Room
  BY <1>1, PacketAssumption
<1>4. \A p \in PProcs : Idle(p)
  BY <1>1, NoTaskTyped DEF Idle
<1>5. PICK s \in Seq(Seq(Nat)) : s = <<>> /\ s = sent /\ s = received /\ Len(s) = 0
  <2>1. <<>> \in Seq(Seq(Nat)) /\ Len(<<>>) = 0
    BY EmptySeq
  <2>2. QED
    BY <1>1, <2>1
<1>6. bytes = Unread(sent, Len(received))
  BY <1>1, <1>5, UnreadIs
<1>7. IsPrefix(s, s)
  BY PrefixOf
<1>8. QED
  BY <1>2, <1>3, <1>4, <1>5, <1>6, <1>7 DEF PktInd, InTune

LEMMA NextPackets == PktInd /\ [PktNext]_pktvars => PktInd'
<1> SUFFICES ASSUME PktInd, [PktNext]_pktvars PROVE PktInd'
  OBVIOUS
<1>1. CASE UNCHANGED pktvars
  BY <1>1 DEF pktvars, PktInd, PktTypes, Calm, Short, InTune, Idle
<1>2. ASSUME NEW p \in PProcs,
             \/ \E k \in Packets : mmdq_write_packet(p, k)
             \/ push_packet(p) \/ WriteReturns(p)
             \/ mmdq_read_packet(p) \/ ReadHeader(p) \/ ReadData(p) \/ ReadReturns(p)
      PROVE  PktInd'
  <2>1. CASE \E k \in Packets : mmdq_write_packet(p, k)
    BY <2>1, StepWrite
  <2>2. CASE push_packet(p)
    BY <2>2, StepPush
  <2>3. CASE WriteReturns(p)
    BY <2>3, StepWritten
  <2>4. CASE mmdq_read_packet(p)
    BY <2>4, StepRead
  <2>5. CASE ReadHeader(p)
    <3>1. task[p].op = "header" /\ (pop_packet(p, HeaderSize) \/ HeaderRead(p))
      BY <2>5 DEF ReadHeader, HeaderRead
    <3>2. QED
      BY <3>1, StepHeaderPop, StepHeaderRead
  <2>6. CASE ReadData(p)
    <3>1. /\ task[p].op = "data" /\ task[p].round < packet_len(p)
          /\ pop_packet(p, packet_len(p)) \/ RoundRead(p)
      BY <2>6 DEF ReadData, RoundRead
    <3>2. QED
      BY <3>1, StepDataPop, StepRoundRead
  <2>7. CASE ReadReturns(p)
    BY <2>7, StepReadReturns
  <2>8. QED
    BY <1>2, <2>1, <2>2, <2>3, <2>4, <2>5, <2>6, <2>7
<1>3. QED
  BY <1>1, <1>2 DEF PktNext

(* Packets of at most one byte, in calls that do not overlap and find      *)
(* room, come out whole and in order, and the deque holds what is left of  *)
(* them: mmdq_write_packet and mmdq_read_packet (mmdeque.c), for any       *)
(* packets, sync bytes, processes and size of the deque.                   *)
THEOREM PacketsSafe == PktSpec => []PacketInv
<1>1. PktInd => PacketInv
  <2> SUFFICES ASSUME PktInd PROVE PacketInv
    OBVIOUS
  <2>1. Len(bytes) <= Room
    BY DEF PktInd
  <2>2. ASSUME serial /\ ~refused /\ \A i \in DOMAIN sent : Len(sent[i]) <= 1
        PROVE  /\ IsPrefix(received, sent)
               /\ (\A p \in PProcs : task[p].op = "none") => bytes = Unread(sent, Len(received))
    BY <2>2 DEF PktInd, Calm, Short, InTune, Idle
  <2>3. QED
    BY <2>1, <2>2 DEF PacketInv
<1>2. QED
  BY <1>1, InitPackets, NextPackets, PTL DEF PktSpec
=============================================================================
