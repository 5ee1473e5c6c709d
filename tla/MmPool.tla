------------------------------- MODULE MmPool -------------------------------
(***************************************************************************)
(* mmpool.c: a pool of buffers in two mapped files, shared by processes.   *)
(*                                                                         *)
(* The management file holds two deques of buffer indices, the buffers in  *)
(* the pool and those out of it, and the count of remaining buffers.  The  *)
(* deques are sequences here, bottom first (BoundedDeque, which Dqacc      *)
(* implements), and a step is one deque call or one update of the count.   *)
(*                                                                         *)
(* getbuff and putbuff lock the management file for write; zap_pool and    *)
(* define_pool do not.  A killed process leaves the files as they are and  *)
(* its lock is dropped.                                                    *)
(***************************************************************************)
EXTENDS Integers, Sequences, FiniteSets

CONSTANTS Procs,
          Capacity,    \* the capacity the pool is defined with
          Defined,     \* whether the files exist at the start
          Zappers,     \* the processes that call mmpool_zap_pool
          Alone,       \* whether a pool is defined and zapped by its only user
          AfterX,      \* what the build may place behind x in search_deque
          MaxKills     \* bound on the processes killed

ASSUME MmPoolAssumption == /\ "none" \notin Procs
                           /\ Capacity \in Nat \ {0} /\ Capacity < 65536
                           /\ Defined \in BOOLEAN
                           /\ Zappers \subseteq Procs
                           /\ Alone \in BOOLEAN
                           /\ AfterX \subseteq {"padding", "nitems"} /\ AfterX # {}
                           /\ MaxKills \in Nat

VARIABLES bpmf, bpcf, \* whether the two files exist
          inpool, outpool, \* the deques dq_inpool and dq_outpool
          remaining,  \* stats.remaining
          lock,       \* the process with the write lock, or "none"
          opened,     \* the processes with a handle of the pool
          pc,         \* the next step of each process
          bpx,        \* its local index: of the buffer got, put or zapped
          x,          \* the local x of search_deque
          left,       \* iterations left: of search_deque, of allocate_buffers
          error,      \* the error of putbuff
          held,       \* history: the buffers an application got and not put
          cut,        \* history: whether what is behind x ended a search
          kills, damage \* the processes killed, and what that can cost

files == <<bpmf, bpcf, inpool, outpool, remaining>>
locals == <<bpx, x, left, error>>
history == <<held, cut, kills, damage>>
vars == <<files, lock, opened, pc, locals, history>>

Buffers == 0 .. Capacity - 1
NoBuffer == Capacity
UShort == 65536

(* The deque calls the pool makes; dq_abd on a full deque changes nothing, *)
(* and no caller looks at its flag.                                        *)
Abd(q, b) == IF Len(q) < Capacity THEN <<b>> \o q ELSE q
Top(q)    == q[Len(q)]
Rtd(q)    == SubSeq(q, 1, Len(q) - 1)

Goto(p, step) == pc' = [pc EXCEPT ![p] = step]
Bump(d) == remaining' = (remaining + d) % UShort

-----------------------------------------------------------------------------
(* With Alone the users of a pool define and zap it while no other process *)
(* has it open or has a buffer of it; nothing in the code asks for it.     *)
Defining == {"new_bpmf", "new_bpcf", "allocate"}
Zapping  == {"zap_rtd", "zap_abd", "zap_count"}
OnlyUser(p) == Alone => \A o \in Procs \ {p} :
                          o \notin opened /\ pc[o] = "idle" /\ held[o] = {}
Admitted(p) == Alone => \A o \in Procs : pc[o] \notin Defining \cup Zapping

(* mmpool_define_pool: the check and the creation are separate steps, and  *)
(* creating a file that exists truncates it.                               *)
mmpool_define_pool(p) ==
  /\ pc[p] = "idle" /\ p \notin opened
  /\ \/ /\ bpmf /\ bpcf /\ Admitted(p)
        /\ opened' = opened \cup {p}
        /\ UNCHANGED pc
     \/ /\ ~(bpmf /\ bpcf) /\ OnlyUser(p)
        /\ Goto(p, "new_bpmf")
        /\ UNCHANGED opened
  /\ UNCHANGED <<files, lock, locals, history>>

new_bpmf(p) ==
  /\ pc[p] = "new_bpmf"
  /\ bpmf' = TRUE
  /\ inpool' = << >> /\ outpool' = << >> /\ remaining' = Capacity
  /\ Goto(p, "new_bpcf")
  /\ UNCHANGED <<bpcf, lock, opened, locals, history>>

new_bpcf(p) ==
  /\ pc[p] = "new_bpcf"
  /\ bpcf' = TRUE
  /\ left' = [left EXCEPT ![p] = Capacity]
  /\ Goto(p, "allocate")
  /\ UNCHANGED <<bpmf, inpool, outpool, remaining, lock, opened, bpx, x, error, history>>

(* Faulty: the index of the first buffer for all of them.                  *)
allocate_buffers_Zero(p) ==
  /\ pc[p] = "allocate"
  /\ IF left[p] > 0
     THEN /\ inpool' = Abd(inpool, 0)
          /\ left' = [left EXCEPT ![p] = @ - 1]
          /\ UNCHANGED <<pc, opened>>
     ELSE /\ opened' = opened \cup {p}
          /\ Goto(p, "idle")
          /\ UNCHANGED <<inpool, left>>
  /\ UNCHANGED <<bpmf, bpcf, outpool, remaining, lock, bpx, x, error, history>>

allocate_buffers(p) ==
  /\ pc[p] = "allocate"
  /\ IF left[p] > 0
     THEN /\ inpool' = Abd(inpool, Capacity - left[p])
          /\ left' = [left EXCEPT ![p] = @ - 1]
          /\ UNCHANGED <<pc, opened>>
     ELSE /\ opened' = opened \cup {p}
          /\ Goto(p, "idle")
          /\ UNCHANGED <<inpool, left>>
  /\ UNCHANGED <<bpmf, bpcf, outpool, remaining, lock, bpx, x, error, history>>

mmpool_open(p) ==
  /\ pc[p] = "idle" /\ p \notin opened
  /\ bpmf /\ bpcf /\ Admitted(p)
  /\ opened' = opened \cup {p}
  /\ UNCHANGED <<files, lock, pc, locals, history>>

(* Between calls a process has no lock that the close could drop.          *)
mmpool_close(p) ==
  /\ pc[p] = "idle" /\ p \in opened
  /\ opened' = opened \ {p}
  /\ UNCHANGED <<files, lock, pc, locals, history>>

-----------------------------------------------------------------------------
(* Faulty: the search stops one item short.                                *)
lock_pool_ShortSearch(p) ==
  /\ pc[p] \in {"get", "put"}
  /\ lock = "none"
  /\ lock' = p
  /\ Goto(p, IF pc[p] = "get" THEN "get_rtd" ELSE "search")
  /\ left' = [left EXCEPT ![p] = IF pc[p] = "put" THEN Len(outpool) - 1 ELSE 0]
  /\ UNCHANGED <<files, opened, bpx, x, error, history>>

(* lock_pool                                                               *)
lock_pool(p) ==
  /\ pc[p] \in {"get", "put"}
  /\ lock = "none"
  /\ lock' = p
  /\ Goto(p, IF pc[p] = "get" THEN "get_rtd" ELSE "search")
  /\ left' = [left EXCEPT ![p] = IF pc[p] = "put" THEN Len(outpool) ELSE 0]
  /\ UNCHANGED <<files, opened, bpx, x, error, history>>

(* mmpool_getbuff: off the top of the pool, onto the bottom of the others. *)
mmpool_getbuff(p) ==
  /\ pc[p] = "idle" /\ p \in opened
  /\ Goto(p, "get")
  /\ UNCHANGED <<files, lock, opened, locals, history>>

(* Faulty: the error path returns without the unlock.                      *)
get_rtd_EarlyReturn(p) ==
  /\ pc[p] = "get_rtd"
  /\ IF inpool # << >>
     THEN /\ bpx' = [bpx EXCEPT ![p] = Top(inpool)]
          /\ inpool' = Rtd(inpool)
          /\ Goto(p, "get_abd")
     ELSE /\ Goto(p, "idle") /\ UNCHANGED <<bpx, inpool>>
  /\ UNCHANGED <<bpmf, bpcf, outpool, remaining, lock, opened, x, left, error, history>>

get_rtd(p) ==
  /\ pc[p] = "get_rtd"
  /\ IF inpool # << >>
     THEN /\ bpx' = [bpx EXCEPT ![p] = Top(inpool)]
          /\ inpool' = Rtd(inpool)
          /\ Goto(p, "get_abd")
     ELSE /\ Goto(p, "got") /\ UNCHANGED <<bpx, inpool>>
  /\ UNCHANGED <<bpmf, bpcf, outpool, remaining, lock, opened, x, left, error, history>>

get_abd(p) ==
  /\ pc[p] = "get_abd"
  /\ outpool' = Abd(outpool, bpx[p])
  /\ Goto(p, "get_count")
  /\ UNCHANGED <<bpmf, bpcf, inpool, remaining, lock, opened, locals, history>>

get_count(p) ==
  /\ pc[p] = "get_count"
  /\ Bump(-1)
  /\ Goto(p, "got")
  /\ UNCHANGED <<bpmf, bpcf, inpool, outpool, lock, opened, locals, history>>

(* mmpool_putbuff, called with a buffer the application has.               *)
mmpool_putbuff(p) ==
  /\ pc[p] = "idle" /\ p \in opened
  /\ \E b \in held[p] : bpx' = [bpx EXCEPT ![p] = b]
  /\ Goto(p, "put")
  /\ UNCHANGED <<files, lock, opened, x, left, error, history>>

(* search_deque: the top of the deque is popped into x; when it is not the *)
(* index looked for it goes back onto the bottom.  A failing pop leaves in *)
(* x what was there, in the first iteration the content of the stack.      *)
search_deque(p) ==
  /\ pc[p] = "search"
  /\ IF left[p] = 0
     THEN /\ error' = [error EXCEPT ![p] = TRUE]
          /\ Goto(p, "returned")
          /\ UNCHANGED <<outpool, x>>
     ELSE /\ outpool' = IF outpool = << >> THEN << >> ELSE Rtd(outpool)
          /\ \E v \in IF outpool # << >> THEN {Top(outpool)}
                     ELSE IF x[p] = NoBuffer THEN 0 .. NoBuffer ELSE {x[p]} :
               /\ x' = [x EXCEPT ![p] = v]
               /\ Goto(p, IF v = bpx[p] THEN "put_abd" ELSE "search_abd")
          /\ UNCHANGED error
  /\ UNCHANGED <<bpmf, bpcf, inpool, remaining, lock, opened, bpx, left, history>>

(* x is an int and an item has 8 bytes: the pop stored the zero bytes of   *)
(* the upper half behind x, in a place the build chose.  When that is      *)
(* nitems the loop ends here.                                              *)
search_abd(p) ==
  /\ pc[p] = "search_abd"
  /\ outpool' = Abd(outpool, x[p])
  /\ \E behind \in AfterX :
       /\ left' = [left EXCEPT ![p] = IF behind = "nitems" THEN 0 ELSE @ - 1]
       /\ cut' = (cut \/ behind = "nitems")
  /\ Goto(p, "search")
  /\ UNCHANGED <<bpmf, bpcf, inpool, remaining, lock, opened, bpx, x, error>>
  /\ UNCHANGED <<held, kills, damage>>

put_abd(p) ==
  /\ pc[p] = "put_abd"
  /\ inpool' = Abd(inpool, bpx[p])
  /\ Goto(p, "put_count")
  /\ UNCHANGED <<bpmf, bpcf, outpool, remaining, lock, opened, locals, history>>

put_count(p) ==
  /\ pc[p] = "put_count"
  /\ Bump(1)
  /\ Goto(p, "returned")
  /\ UNCHANGED <<bpmf, bpcf, inpool, outpool, lock, opened, locals, history>>

(* unlock_pool and the return to the application, which then has the       *)
(* buffer of a getbuff and no longer has that of a putbuff.                *)
unlock_pool(p) ==
  /\ pc[p] \in {"got", "returned"}
  /\ lock' = "none"
  /\ held' = [held EXCEPT ![p] = CASE pc[p] = "got" -> @ \cup ({bpx[p]} \ {NoBuffer})
                                   [] error[p]      -> @
                                   [] OTHER         -> @ \ {bpx[p]}]
  /\ Goto(p, "idle")
  /\ bpx' = [bpx EXCEPT ![p] = NoBuffer] /\ x' = [x EXCEPT ![p] = NoBuffer]
  /\ left' = [left EXCEPT ![p] = 0] /\ error' = [error EXCEPT ![p] = FALSE]
  /\ UNCHANGED <<files, opened, cut, kills, damage>>

-----------------------------------------------------------------------------
(* mmpool_zap_pool moves every buffer that is out back in, without a lock; *)
(* the process that calls it no longer uses the buffers it had.            *)
mmpool_zap_pool(p) ==
  /\ p \in Zappers
  /\ pc[p] = "idle" /\ p \in opened /\ OnlyUser(p)
  /\ Goto(p, "zap_rtd")
  /\ UNCHANGED <<files, lock, opened, locals, history>>

zap_rtd(p) ==
  /\ pc[p] = "zap_rtd"
  /\ IF outpool # << >>
     THEN /\ bpx' = [bpx EXCEPT ![p] = Top(outpool)]
          /\ outpool' = Rtd(outpool)
          /\ Goto(p, "zap_abd")
          /\ UNCHANGED held
     ELSE /\ bpx' = [bpx EXCEPT ![p] = NoBuffer]
          /\ held' = [held EXCEPT ![p] = {}]
          /\ Goto(p, "idle")
          /\ UNCHANGED outpool
  /\ UNCHANGED <<bpmf, bpcf, inpool, remaining, lock, opened, x, left, error, cut, kills, damage>>

zap_abd(p) ==
  /\ pc[p] = "zap_abd"
  /\ inpool' = Abd(inpool, bpx[p])
  /\ Goto(p, "zap_count")
  /\ UNCHANGED <<bpmf, bpcf, outpool, remaining, lock, opened, locals, history>>

zap_count(p) ==
  /\ pc[p] = "zap_count"
  /\ Bump(1)
  /\ Goto(p, "zap_rtd")
  /\ UNCHANGED <<bpmf, bpcf, inpool, outpool, lock, opened, locals, history>>

(* The end of a process; the buffers it had stay out.                      *)
Kill(p) ==
  /\ kills < MaxKills
  /\ p \in opened \/ pc[p] # "idle"
  /\ kills' = kills + 1
  /\ damage' = damage + IF pc[p] \in Defining THEN Capacity ELSE 1
  /\ lock' = IF lock = p THEN "none" ELSE lock
  /\ opened' = opened \ {p}
  /\ held' = [held EXCEPT ![p] = {}]
  /\ Goto(p, "idle")
  /\ bpx' = [bpx EXCEPT ![p] = NoBuffer] /\ x' = [x EXCEPT ![p] = NoBuffer]
  /\ left' = [left EXCEPT ![p] = 0] /\ error' = [error EXCEPT ![p] = FALSE]
  /\ UNCHANGED <<files, cut>>

-----------------------------------------------------------------------------
Init ==
  /\ bpmf = Defined /\ bpcf = Defined
  /\ inpool = IF Defined THEN [i \in 1 .. Capacity |-> Capacity - i] ELSE << >>
  /\ outpool = << >>
  /\ remaining = IF Defined THEN Capacity ELSE 0
  /\ lock = "none" /\ opened = {}
  /\ pc = [p \in Procs |-> "idle"]
  /\ bpx = [p \in Procs |-> NoBuffer] /\ x = [p \in Procs |-> NoBuffer]
  /\ left = [p \in Procs |-> 0] /\ error = [p \in Procs |-> FALSE]
  /\ held = [p \in Procs |-> {}]
  /\ cut = FALSE /\ kills = 0 /\ damage = 0

(* The steps of a call once it has started.                                *)
Step(p) ==
  \/ new_bpmf(p) \/ new_bpcf(p) \/ allocate_buffers(p)
  \/ lock_pool(p) \/ get_rtd(p) \/ get_abd(p) \/ get_count(p)
  \/ search_deque(p) \/ search_abd(p) \/ put_abd(p) \/ put_count(p)
  \/ unlock_pool(p) \/ zap_rtd(p) \/ zap_abd(p) \/ zap_count(p)

Next == \E p \in Procs :
  \/ mmpool_define_pool(p) \/ mmpool_open(p) \/ mmpool_close(p)
  \/ mmpool_getbuff(p) \/ mmpool_putbuff(p) \/ mmpool_zap_pool(p)
  \/ Step(p) \/ Kill(p)

Spec == Init /\ [][Next]_vars

(* A process inside a call keeps running while it is able to.              *)
FairSpec == Spec /\ \A p \in Procs : WF_vars(Step(p))

-----------------------------------------------------------------------------
Idle == \A p \in Procs : pc[p] = "idle"
In   == { inpool[i] : i \in DOMAIN inpool }
Out  == { outpool[i] : i \in DOMAIN outpool }
Held == UNION { held[p] : p \in Procs }

TypeOK ==
  /\ bpmf \in BOOLEAN /\ bpcf \in BOOLEAN
  /\ inpool \in Seq(0 .. NoBuffer) /\ outpool \in Seq(0 .. NoBuffer)
  /\ Len(inpool) <= Capacity /\ Len(outpool) <= Capacity
  /\ remaining \in 0 .. UShort - 1
  /\ lock \in Procs \cup {"none"} /\ opened \subseteq Procs
  /\ bpx \in [Procs -> 0 .. NoBuffer] /\ x \in [Procs -> 0 .. NoBuffer]
  /\ left \in [Procs -> 0 .. Capacity] /\ error \in [Procs -> BOOLEAN]
  /\ held \in [Procs -> SUBSET Buffers]
  /\ kills \in 0 .. MaxKills

(* No index is in the two deques twice, at any step and wherever a process *)
(* was killed: a later getbuff cannot hand out a buffer a second time.     *)
EachBufferOnce ==
  /\ Cardinality(In) = Len(inpool) /\ Cardinality(Out) = Len(outpool)
  /\ In \cap Out = {}

(* Two applications never have the same buffer.                            *)
NoDoubleAllocation ==
  \A p, q \in Procs : p # q => held[p] \cap held[q] = {}

(* Between calls, the deques partition the buffers, those out are those    *)
(* the applications have, and stats.remaining counts those in the pool     *)
(* (mmpool.h: "buffers remaining in pool"), as long as no process died.    *)
PoolAccounted ==
  Idle /\ opened # {} /\ kills = 0 => /\ In = Buffers \ Out
                        /\ Out = Held
                        /\ remaining = Len(inpool)

(* Each kill loses one buffer at most, besides those the killed process    *)
(* had, and puts the count off by one at most; a count that is one short   *)
(* wraps to 65535 when the pool empties.  A kill inside the definition may *)
(* leave a pool without buffers that later processes open as it is.        *)
LossBoundedByKills ==
  Idle /\ bpmf /\ bpcf =>
    /\ Capacity <= Len(inpool) + Len(outpool) + damage
    /\ \E off \in - damage .. damage : remaining = (Len(inpool) + off) % UShort

(* A buffer that was handed out is found when it comes back (mmpool.c: "The*)
(* buffer pool index of the passed reference is NOT in use ... this is an  *)
(* error condition"), unless the build let the search end early or the     *)
(* death of a process inside a search took the index along.                *)
PutAccepted == \A p \in Procs : error[p] => cut \/ kills > 0

(* The same with no such reservation for the build.                        *)
PutAcceptedInAnyBuild == \A p \in Procs : error[p] => kills > 0

(* A buffer is refused only while the applications have all of them.       *)
RefusedOnlyWhenAllOut ==
  \A p \in Procs :
    pc[p] = "got" /\ bpx[p] = NoBuffer /\ kills = 0 => Held = Buffers

(* The buffers are handed out once, whatever step a process died at; all   *)
(* of them are accounted for but for what the deaths can cost; and no call *)
(* refuses a buffer, on the way out or in, without its reason.             *)
PoolInv == /\ TypeOK /\ EachBufferOnce /\ NoDoubleAllocation /\ PoolAccounted
           /\ LossBoundedByKills /\ PutAccepted /\ RefusedOnlyWhenAllOut

(* The lock is given up: the search of the deque ends, and the lock of a   *)
(* dead process goes with it.                                              *)
LockReleased == \A p \in Procs : lock = p ~> lock # p

Abstract == INSTANCE BufferPool

(* The calls of all processes, in the order they unlock, are calls of one  *)
(* buffer pool.                                                            *)
ImplementsPool == Abstract!Spec
=============================================================================
