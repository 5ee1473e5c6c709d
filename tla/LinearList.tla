----------------------------- MODULE LinearList -----------------------------
(***************************************************************************)
(* linearlist.c over mmfor.c: a list of records kept contiguous in a       *)
(* mapped file that processes share.  Record 0 is the header with nextx.   *)
(* The list functions lock the whole file for write and ignore what the    *)
(* lock call returns; applications lock single records as well.            *)
(*                                                                         *)
(* A fcntl lock belongs to a process: a new request replaces what the      *)
(* process holds, the unlock of the file drops its record locks too, and   *)
(* a request that would close a cycle of waiting processes fails.          *)
(* A process killed between the two writes of a deletion leaves the moved  *)
(* record twice.  A deletion from an empty list is not refused: fence is a *)
(* size_t and never below 0, the header is copied over a record and nextx  *)
(* becomes 0; the model stops there (spoiled).                             *)
(***************************************************************************)
EXTENDS Integers, FiniteSets

CONSTANTS LProcs, Values,
          capacity,   \* the user records the list can store
          MaxLKills   \* bound: processes killed

ASSUME LinearListAssumption == capacity \in Nat \ {0} /\ MaxLKills \in Nat

VARIABLES nextx,      \* the header record
          rec,        \* records 1 to capacity, as mmfor_x2p addresses them
          lk,         \* lk[u][p]: the lock of p on unit u, "none", "read" or "write"
          lpc,        \* where each process is
          op,         \* its call: what it locks, how, and then does
          content,    \* history: how many of each value the list should hold
          spoiled,    \* history: a deletion from an empty list
          unlocked,   \* history: a lock call failed and its caller went on
          torn,       \* history: how many of each value such a kill left too many
          lkills      \* processes killed

linvars == <<nextx, rec, lk, lpc, op, content, spoiled, unlocked, torn, lkills>>
linhistory == <<content, spoiled, unlocked, torn, lkills>>

Units   == 0..capacity            \* the locks: a record each; the file header goes with 0
Records == 1..capacity
Blank   == "blank"
NoOp    == [units |-> {}, type |-> "none", do |-> "idle", arg |-> Blank]

Become(p, l) == lpc' = [lpc EXCEPT ![p] = l]

-----------------------------------------------------------------------------
(* lock_cntrl with F_SETLKW. *)
Conflict(a, b)   == a # "none" /\ b # "none" /\ "write" \in {a, b}
BlockedBy(p, q)  == q # p /\ lpc[p] = "wait" /\ \E u \in op[p].units : Conflict(op[p].type, lk[u][q])
Blocked(p)       == \E q \in LProcs : BlockedBy(p, q)
SetLock(p, U, t) == lk' = [u \in Units |-> IF u \in U THEN [lk[u] EXCEPT ![p] = t] ELSE lk[u]]
OnCycle(p)       == \E q \in LProcs : BlockedBy(p, q) /\ BlockedBy(q, p)

Request(p, o) == /\ lpc[p] = "idle"
                 /\ op' = [op EXCEPT ![p] = o] /\ Become(p, "wait")
                 /\ UNCHANGED <<nextx, rec, lk, linhistory>>

(* A write lock by index is the read lock by pointer in the code. *)
mmfor_lock_record_p_read(p, x)  == Request(p, [units |-> {x}, type |-> "read", do |-> "idle", arg |-> Blank])
mmfor_lock_record_p_write(p, x) == Request(p, [units |-> {x}, type |-> "write", do |-> "idle", arg |-> Blank])
mmfor_lock_record_x_write(p, x) == mmfor_lock_record_p_read(p, x)

linlist_list_lock(p, f, a) == Request(p, [units |-> Units, type |-> "write", do |-> f, arg |-> a])

Granted(p) == /\ lpc[p] = "wait" /\ ~Blocked(p)
              /\ SetLock(p, op[p].units, op[p].type) /\ Become(p, op[p].do)
              /\ UNCHANGED <<nextx, rec, op, linhistory>>

(* EDEADLK: the list functions go on as if they had the lock. *)
Deadlock(p) == /\ OnCycle(p)
               /\ Become(p, op[p].do)
               /\ unlocked' = (unlocked \/ op[p].do # "idle")
               /\ UNCHANGED <<nextx, rec, lk, op, content, spoiled, torn, lkills>>

mmfor_unlock_record(p, x) == /\ lpc[p] = "idle" /\ SetLock(p, {x}, "none")
                             /\ UNCHANGED <<nextx, rec, lpc, op, linhistory>>

(* linlist_list_unlock, and mmfor_close, which closes the descriptor. *)
Release(p) == SetLock(p, Units, "none") /\ Become(p, "idle") /\ op' = [op EXCEPT ![p] = NoOp]
linlist_list_unlock(p) == /\ lpc[p] = "unlock" /\ Release(p)
                          /\ UNCHANGED <<nextx, rec, linhistory>>
mmfor_close(p) == /\ lpc[p] = "idle" /\ Release(p)
                  /\ UNCHANGED <<nextx, rec, linhistory>>

-----------------------------------------------------------------------------
(* linlist_add_record: the record is copied, then nextx moves. *)
Count(v, d) == content' = [content EXCEPT ![v] = @ + d]

linlist_add_record(p) ==
  /\ lpc[p] = "add"
  /\ IF nextx > capacity THEN Become(p, "unlock") /\ UNCHANGED rec
     ELSE rec' = [rec EXCEPT ![nextx] = op[p].arg] /\ Become(p, "added")
  /\ UNCHANGED <<nextx, lk, op, linhistory>>

added(p) == /\ lpc[p] = "added"
            /\ nextx' = nextx + 1 /\ Become(p, "unlock") /\ Count(op[p].arg, 1)
            /\ UNCHANGED <<rec, lk, op, spoiled, unlocked, torn, lkills>>

(* linlist_delete_recordx of user record x: the last record takes its place.*)
fence == nextx - 2
(* Faulty: the last record does not move. *)
linlist_delete_recordx_NoMove(p) ==
  /\ lpc[p] = "delete" /\ fence >= 0
  /\ nextx' = nextx - 1 /\ Become(p, "unlock") /\ Count(rec[op[p].arg + 1], -1)
  /\ UNCHANGED <<rec, lk, op, spoiled, unlocked, torn, lkills>>

linlist_delete_recordx(p) ==
  LET x == op[p].arg IN
  /\ lpc[p] = "delete"
  /\ \/ /\ fence < 0
        /\ spoiled' = TRUE /\ nextx' = 0 /\ Become(p, "unlock") /\ UNCHANGED <<rec, content>>
     \/ /\ 0 <= fence /\ fence < x
        /\ Become(p, "unlock") /\ UNCHANGED <<nextx, rec, content, spoiled>>
     \/ /\ x = fence
        /\ nextx' = nextx - 1 /\ Become(p, "unlock") /\ Count(rec[x + 1], -1)
        /\ UNCHANGED <<rec, spoiled>>
     \/ /\ x < fence
        /\ rec' = [rec EXCEPT ![x + 1] = rec[fence + 1]]
        /\ Count(rec[x + 1], -1) /\ Become(p, "deleted") /\ UNCHANGED <<nextx, spoiled>>
  /\ UNCHANGED <<lk, op, unlocked, torn, lkills>>

deleted(p) == /\ lpc[p] = "deleted"
              /\ nextx' = nextx - 1 /\ Become(p, "unlock")
              /\ UNCHANGED <<rec, lk, op, linhistory>>

(* The kernel drops the locks of a process that is killed. *)
LinKill(p) ==
  /\ lpc[p] # "dead" /\ lkills < MaxLKills
  /\ SetLock(p, Units, "none") /\ Become(p, "dead") /\ op' = [op EXCEPT ![p] = NoOp]
  /\ lkills' = lkills + 1
  /\ torn' = IF lpc[p] = "deleted" THEN [torn EXCEPT ![rec[op[p].arg + 1]] = @ + 1] ELSE torn
  /\ UNCHANGED <<nextx, rec, content, spoiled, unlocked>>

-----------------------------------------------------------------------------
(* linlist_create has written the header. *)
LinInit == /\ nextx = 1 /\ rec = [x \in Records |-> Blank]
           /\ lk = [u \in Units |-> [p \in LProcs |-> "none"]]
           /\ lpc = [p \in LProcs |-> "idle"] /\ op = [p \in LProcs |-> NoOp]
           /\ content = [v \in Values |-> 0]
           /\ torn = [v \in Values |-> 0]
           /\ spoiled = FALSE /\ unlocked = FALSE /\ lkills = 0

LinStep(p) ==
  \/ \E x \in Records : \/ mmfor_lock_record_p_read(p, x) \/ mmfor_lock_record_p_write(p, x)
                        \/ mmfor_lock_record_x_write(p, x) \/ mmfor_unlock_record(p, x)
  \/ \E v \in Values : linlist_list_lock(p, "add", v)
  \/ \E x \in 0..(capacity - 1) : linlist_list_lock(p, "delete", x)
  \/ Granted(p) \/ Deadlock(p) \/ linlist_list_unlock(p) \/ mmfor_close(p)
  \/ linlist_add_record(p) \/ added(p) \/ linlist_delete_recordx(p) \/ deleted(p)
  \/ LinKill(p)

LinNext == ~spoiled /\ \E p \in LProcs : LinStep(p)
LinSpec == LinInit /\ [][LinNext]_linvars

-----------------------------------------------------------------------------
Inside(p)  == lpc[p] \in {"add", "added", "delete", "deleted", "unlock"}
Holds(v)   == Cardinality({x \in Records : x < nextx /\ rec[x] = v})

(* As long as no deletion met an empty list and no failed lock call was    *)
(* ignored: one process at a time is inside a list function, no other      *)
(* holds a record lock then; and between calls the contiguous records are  *)
(* what was added and not deleted, but for the records that a process      *)
(* killed inside a deletion left twice.                                    *)
LinearInv ==
  ~spoiled /\ ~unlocked =>
    /\ nextx \in 1..(capacity + 1)
    /\ \A p, q \in LProcs : Inside(p) /\ p # q =>
         ~Inside(q) /\ \A u \in Units : lk[u][q] = "none"
    /\ (\A p \in LProcs : ~Inside(p)) =>
         /\ \A x \in Records : x < nextx => rec[x] \in Values
         /\ \A v \in Values : Holds(v) = content[v] + torn[v]

(* "List is empty. Can't delete" (linearlist.c:231): the list does not     *)
(* change.                                                                 *)
EmptyDeleteRefused == [][\A p \in LProcs : lpc[p] = "delete" /\ nextx = 1 => nextx' = nextx]_linvars
=============================================================================
