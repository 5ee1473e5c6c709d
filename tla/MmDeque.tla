------------------------------ MODULE MmDeque ------------------------------
(***************************************************************************)
(* mmdeque.c over mmatom.c: a deque in a memory mapped file, shared by     *)
(* processes that lock the whole file around every call.                   *)
(*                                                                         *)
(* The header is one record (DequeOps) all processes see through mmap.  A  *)
(* call is a sequence of steps: fcntl(F_SETLKW), the loads and stores of   *)
(* the dqacc.c function in the order of its statements, fcntl(F_UNLCK).    *)
(* A fcntl lock belongs to a process, so two threads of one process never  *)
(* block each other and the unlock of one drops the lock of both.          *)
(*                                                                         *)
(* A process may be killed between any two steps; the kernel then drops    *)
(* its lock and the file keeps what was stored so far.  A process that     *)
(* reads behind the end of the truncated file, follows the dqbuff pointer  *)
(* of another address space or divides by zero faults and dies as well.    *)
(***************************************************************************)
EXTENDS DequeOps, FiniteSets

CONSTANTS Procs,       \* the processes
          Threads,     \* their threads
          ProcOf,      \* the process of each thread
          Items,       \* the values stored
          Capacities,  \* the nitems arguments of mmdq_create
          Blank,       \* the zero bytes of a slot nothing was stored in
          MaxCreates,  \* bound on the calls of mmdq_create
          MaxKills,    \* bound on the processes killed
          CreateAlone, \* whether a deque is created while nobody has it open
          Track        \* whether the history variables are kept

ASSUME MmDequeAssumption == /\ ProcOf \in [Threads -> Procs]
                            /\ Capacities \subseteq Nat
                            /\ \A slots \in Capacities : slots < 65536
                            /\ Blank \notin Items
                            /\ MaxCreates \in Nat /\ MaxKills \in Nat
                            /\ CreateAlone \in BOOLEAN /\ Track \in BOOLEAN

VARIABLES file,      \* the deque file: "empty" (truncated) or "sized"
          hdr,       \* its header and slots
          memmapped, \* the header bit that tells map_slot which pointer to use
          lock,      \* the fcntl lock each process holds
          handle,    \* whether the process has the file open and mapped
          pc,        \* the next step of each thread
          call,      \* the call it executes: operation, item, capacity
          res,       \* what the call returns: error flag and item
          creates, kills, \* counters for the bounds
          faulted,   \* the processes that died of a fault
          committed, \* history: the header when the last writing call ended
          ret        \* history: the last completed call and its result

memory  == <<file, hdr, memmapped>>
local   == <<call, res>>
counted == <<creates, kills, faulted>>
history == <<committed, ret>>
vars == <<memory, lock, handle, pc, local, counted, history>>

Cells   == Items \cup {Blank}
Adds    == {"atd", "abd"}
Removes == {"rtd", "rbd"}
NoCall  == [op |-> "none", item |-> Blank, slots |-> 0]
NoRes   == [flag |-> FALSE, item |-> << >>, slots |-> 0]

(* A region of zero bytes read as a header.                                *)
ZeroHeader == [NewDeque(0, Blank) EXCEPT !.dq_open = FALSE]

(* The order of the statements of dq_atd and dq_abd, of dq_rtd and dq_rbd. *)
AfterStep(op, step) ==
  CASE op \in Adds    -> [test |-> "index", index |-> "count",
                          count |-> "copy", copy |-> "unlock"][step]
    [] op \in Removes -> [test |-> "copy", copy |-> "index",
                          index |-> "count", count |-> "unlock"][step]

Goto(t, step) == pc' = [pc EXCEPT ![t] = step]
Onward(t)     == Goto(t, AfterStep(call[t].op, pc[t]))

-----------------------------------------------------------------------------
(* A call takes effect: the header it leaves and its result are recorded.  *)
Commit(op, flag, item) ==
  IF Track
  THEN committed' = hdr /\ ret' = [op |-> op, flag |-> flag, item |-> item]
  ELSE UNCHANGED history

(* The end of a process: its threads, its locks and its mapping go.        *)
Dies(p) ==
  /\ lock' = [lock EXCEPT ![p] = "none"]
  /\ handle' = [handle EXCEPT ![p] = FALSE]
  /\ pc' = [t \in Threads |-> IF ProcOf[t] = p THEN "idle" ELSE pc[t]]
  /\ call' = [t \in Threads |-> IF ProcOf[t] = p THEN NoCall ELSE call[t]]
  /\ res' = [t \in Threads |-> IF ProcOf[t] = p THEN NoRes ELSE res[t]]
  /\ UNCHANGED <<memory, history>>

Kill(p) == /\ kills < MaxKills
           /\ handle[p] \/ \E t \in Threads : ProcOf[t] = p /\ pc[t] # "idle"
           /\ Dies(p)
           /\ kills' = kills + 1
           /\ UNCHANGED <<creates, faulted>>

Touches == {"test", "index", "count", "copy", "wipe", "init", "map", "look",
            "stats", "stats2"}

(* Faulty: the index moves for the first and the last item too.            *)
Moves_Always(t) == TRUE

(* The index stays where it is for the first and for the last item.        *)
Moves(t) == hdr.dquse # IF call[t].op \in Adds THEN 0 ELSE 1

(* SIGBUS behind the end of the file, SIGSEGV on a pointer that another    *)
(* process allocated, SIGFPE on the remainder by dqslots = 0.              *)
Faults(t) ==
  \/ pc[t] \in Touches /\ file = "empty"
  \/ pc[t] = "copy" /\ ~memmapped
  \/ pc[t] = "index" /\ hdr.dqslots = 0 /\ Moves(t)

Fault(t) == /\ Faults(t)
            /\ Dies(ProcOf[t])
            /\ faulted' = faulted \cup {ProcOf[t]}
            /\ UNCHANGED <<creates, kills>>

-----------------------------------------------------------------------------
(* With CreateAlone the users of a deque follow the protocol of dequetool: *)
(* a deque is created first and opened after; nothing in the code asks it. *)
Creating == \E t \in Threads : call[t].op = "create"

(* mmdq_create truncates the file (O_CREAT | O_TRUNC), extends it, reopens *)
(* and maps it, and formats the header, all of it without a lock.          *)
mmdq_create(t, slots) ==
  /\ pc[t] = "idle" /\ ~handle[ProcOf[t]]
  /\ CreateAlone => ~Creating /\ \A p \in Procs : ~handle[p]
  /\ creates < MaxCreates
  /\ creates' = creates + 1
  /\ file' = "empty" /\ hdr' = ZeroHeader /\ memmapped' = FALSE
  /\ call' = [call EXCEPT ![t] = [op |-> "create", item |-> Blank, slots |-> slots]]
  /\ Goto(t, "size")
  /\ UNCHANGED <<lock, handle, res, kills, faulted, history>>

Size(t) ==
  /\ pc[t] = "size"
  /\ file' = "sized"
  /\ handle' = [handle EXCEPT ![ProcOf[t]] = TRUE]
  /\ Goto(t, "init")
  /\ UNCHANGED <<hdr, memmapped, lock, local, counted, history>>

(* dq_init_memmap: dq_init opens the deque with the memmapped bit clear    *)
(* and a heap pointer in dqbuff; the bit is set after that.                *)
Init_dq(t) ==
  /\ pc[t] = "init" /\ ~Faults(t)
  /\ hdr' = NewDeque(call[t].slots, Blank)
  /\ memmapped' = FALSE
  /\ Goto(t, "map")
  /\ UNCHANGED <<file, lock, handle, local, counted, history>>

(* mmdq_create returns here, mmdq_reset goes on to unlock.                 *)
MapBit(t) ==
  /\ pc[t] = "map" /\ ~Faults(t)
  /\ memmapped' = TRUE
  /\ IF call[t].op = "create"
     THEN /\ Goto(t, "idle")
          /\ call' = [call EXCEPT ![t] = NoCall]
          /\ Commit("init", FALSE, << >>)
     ELSE Goto(t, "unlock") /\ UNCHANGED <<call, history>>
  /\ UNCHANGED <<file, hdr, lock, handle, res, counted>>

(* Mapping an empty file fails, and mmdq_open returns NULL.                *)
mmdq_open(p) ==
  /\ ~handle[p] /\ file = "sized"
  /\ ~(CreateAlone /\ Creating)
  /\ \A t \in Threads : ProcOf[t] = p => pc[t] = "idle"
  /\ handle' = [handle EXCEPT ![p] = TRUE]
  /\ UNCHANGED <<memory, lock, pc, local, counted, history>>

(* Closing the descriptor drops the locks of the process.                  *)
mmdq_close(p) ==
  /\ handle[p]
  /\ \A t \in Threads : ProcOf[t] = p => pc[t] = "idle"
  /\ handle' = [handle EXCEPT ![p] = FALSE]
  /\ lock' = [lock EXCEPT ![p] = "none"]
  /\ UNCHANGED <<memory, pc, local, counted, history>>

-----------------------------------------------------------------------------
(* A thread calls one of the functions; mmdq_stats starts without a lock.  *)
Call(t, op, item) ==
  /\ pc[t] = "idle" /\ handle[ProcOf[t]]
  /\ call' = [call EXCEPT ![t] = [op |-> op, item |-> item, slots |-> 0]]
  /\ Goto(t, IF op = "stats" THEN "stats" ELSE "lock")
  /\ UNCHANGED <<memory, lock, handle, res, counted, history>>

mmdq_atd(t)     == \E item \in Items : Call(t, "atd", item)
mmdq_abd(t)     == \E item \in Items : Call(t, "abd", item)
mmdq_rtd(t)     == Call(t, "rtd", Blank)
mmdq_rbd(t)     == Call(t, "rbd", Blank)
mmdq_isempty(t) == Call(t, "isempty", Blank)
mmdq_reset(t)   == Call(t, "reset", Blank)
mmdq_stats(t)   == Call(t, "stats", Blank)

(* Faulty: isempty takes no lock.                                          *)
LockType_NoRead(t) == IF call[t].op = "isempty" THEN "none" ELSE "write"

(* fcntl(F_SETLKW) waits for the conflicting locks of other processes only *)
(* and replaces the lock the calling process has.                          *)
LockType(t) == IF call[t].op = "isempty" THEN "read" ELSE "write"

mma_lock_atom(t) ==
  LET p == ProcOf[t]
  IN  /\ pc[t] = "lock"
      /\ \A o \in Procs \ {p} :
           IF LockType(t) = "write" THEN lock[o] = "none" ELSE lock[o] # "write"
      /\ lock' = [lock EXCEPT ![p] = LockType(t)]
      /\ Goto(t, CASE call[t].op = "reset"   -> "wipe"
                   [] call[t].op = "isempty" -> "look"
                   [] OTHER                  -> "test")
      /\ UNCHANGED <<memory, handle, local, counted, history>>

(* Faulty: the error path returns without the unlock.                      *)
Test_EarlyReturn(t) ==
  /\ pc[t] = "test" /\ ~Faults(t)
  /\ IF IF call[t].op \in Adds THEN HasRoom(hdr) ELSE HasItem(hdr)
     THEN Onward(t) /\ UNCHANGED call
     ELSE Goto(t, "idle") /\ call' = [call EXCEPT ![t] = NoCall]
  /\ UNCHANGED <<memory, lock, handle, res, counted, history>>

(* The open check and the full or empty check.                             *)
Test(t) ==
  /\ pc[t] = "test" /\ ~Faults(t)
  /\ LET fits == IF call[t].op \in Adds THEN HasRoom(hdr) ELSE HasItem(hdr)
     IN  /\ IF fits THEN Onward(t) ELSE Goto(t, "unlock")
         /\ res' = [res EXCEPT ![t].flag = ~fits]
  /\ UNCHANGED <<memory, lock, handle, call, counted, history>>

(* Moving the index of the end the call works on.                          *)
Index(t) ==
  /\ pc[t] = "index" /\ ~Faults(t)
  /\ hdr' = IF ~Moves(t) THEN hdr
            ELSE CASE call[t].op = "atd" -> [hdr EXCEPT !.dqtop = Above(hdr, @)]
                   [] call[t].op = "abd" -> [hdr EXCEPT !.dqbottom = Below(hdr, @)]
                   [] call[t].op = "rtd" -> [hdr EXCEPT !.dqtop = Below(hdr, @)]
                   [] call[t].op = "rbd" -> [hdr EXCEPT !.dqbottom = Above(hdr, @)]
  /\ Onward(t)
  /\ UNCHANGED <<file, memmapped, lock, handle, local, counted, history>>

(* dquse, a ushort.                                                        *)
Count(t) ==
  /\ pc[t] = "count" /\ ~Faults(t)
  /\ hdr' = [hdr EXCEPT !.dquse =
               (IF call[t].op \in Adds THEN @ + 1 ELSE @ - 1) % 65536]
  /\ Onward(t)
  /\ UNCHANGED <<file, memmapped, lock, handle, local, counted, history>>

(* memcpy to or from the slot of map_slot.                                 *)
Copy(t) ==
  LET i == IF call[t].op \in {"atd", "rtd"} THEN hdr.dqtop ELSE hdr.dqbottom
  IN  /\ pc[t] = "copy" /\ ~Faults(t)
      /\ IF call[t].op \in Adds
         THEN /\ hdr' = [hdr EXCEPT !.slot[i] = call[t].item]
              /\ res' = [res EXCEPT ![t].item = <<call[t].item>>]
         ELSE /\ res' = [res EXCEPT ![t].item =
                           <<IF i < hdr.dqslots THEN hdr.slot[i] ELSE Blank>>]
              /\ hdr' = hdr
      /\ Onward(t)
      /\ UNCHANGED <<file, memmapped, lock, handle, call, counted, history>>

(* mmdq_reset: the header is saved in tempdq and the whole region cleared. *)
Wipe(t) ==
  /\ pc[t] = "wipe" /\ ~Faults(t)
  /\ call' = [call EXCEPT ![t].slots = hdr.dqslots]
  /\ hdr' = ZeroHeader /\ memmapped' = FALSE
  /\ Goto(t, "init")
  /\ UNCHANGED <<file, lock, handle, res, counted, history>>

(* dq_isempty                                                              *)
Look(t) ==
  /\ pc[t] = "look" /\ ~Faults(t)
  /\ res' = [res EXCEPT ![t].flag = (hdr.dquse = 0)]
  /\ Goto(t, "unlock")
  /\ UNCHANGED <<memory, lock, handle, call, counted, history>>

(* dq_stats loads dqslots and then dquse.                                  *)
Stats(t) ==
  /\ ~Faults(t)
  /\ \/ /\ pc[t] = "stats"
        /\ res' = [res EXCEPT ![t].slots = hdr.dqslots]
        /\ Goto(t, "stats2")
     \/ /\ pc[t] = "stats2"
        /\ res' = [res EXCEPT ![t].item = <<hdr.dquse>>]
        /\ Goto(t, "stats3")
  /\ UNCHANGED <<memory, lock, handle, call, counted, history>>

(* Back in the caller of mmdq_stats.                                       *)
StatsReturn(t) ==
  /\ pc[t] = "stats3"
  /\ Goto(t, "idle")
  /\ call' = [call EXCEPT ![t] = NoCall]
  /\ res' = [res EXCEPT ![t] = NoRes]
  /\ UNCHANGED <<memory, lock, handle, counted, history>>

(* fcntl(F_UNLCK) and the return: the lock of the process is gone.         *)
mma_unlock_atom(t) ==
  /\ pc[t] = "unlock"
  /\ lock' = [lock EXCEPT ![ProcOf[t]] = "none"]
  /\ Goto(t, "idle")
  /\ CASE call[t].op = "isempty" -> UNCHANGED history
       [] OTHER -> Commit(call[t].op, res[t].flag, res[t].item)
  /\ call' = [call EXCEPT ![t] = NoCall]
  /\ res' = [res EXCEPT ![t] = NoRes]
  /\ UNCHANGED <<memory, handle, counted>>

-----------------------------------------------------------------------------
(* A deque created earlier, with dequetool say; nobody has it open.        *)
Init ==
  /\ file = "sized" /\ memmapped = TRUE
  /\ \E slots \in Capacities : hdr = NewDeque(slots, Blank)
  /\ lock = [p \in Procs |-> "none"]
  /\ handle = [p \in Procs |-> FALSE]
  /\ pc = [t \in Threads |-> "idle"]
  /\ call = [t \in Threads |-> NoCall]
  /\ res = [t \in Threads |-> NoRes]
  /\ creates = 0 /\ kills = 0 /\ faulted = {}
  /\ committed = hdr
  /\ ret = [op |-> "init", flag |-> FALSE, item |-> << >>]

(* The steps of a call once it has started.                                *)
Step(t) ==
  \/ Size(t) \/ Init_dq(t) \/ MapBit(t) \/ mma_lock_atom(t) \/ Test(t)
  \/ Index(t) \/ Count(t) \/ Copy(t) \/ Wipe(t) \/ Look(t)
  \/ Stats(t) \/ StatsReturn(t) \/ mma_unlock_atom(t) \/ Fault(t)

Starts(t) ==
  \/ \E slots \in Capacities : mmdq_create(t, slots)
  \/ mmdq_atd(t) \/ mmdq_abd(t) \/ mmdq_rtd(t) \/ mmdq_rbd(t)
  \/ mmdq_isempty(t) \/ mmdq_reset(t) \/ mmdq_stats(t)

Next == \/ \E t \in Threads : Starts(t) \/ Step(t)
        \/ \E p \in Procs : mmdq_open(p) \/ mmdq_close(p) \/ Kill(p)

Spec == Init /\ [][Next]_vars

(* A thread inside a call keeps running while it is able to.               *)
FairSpec == Spec /\ \A t \in Threads : WF_vars(Step(t))

-----------------------------------------------------------------------------
Idle     == \A t \in Threads : pc[t] = "idle"
Inside(t) == /\ pc[t] \in {"test", "index", "count", "copy", "wipe", "init",
                           "map", "look", "unlock"}
             /\ call[t].op # "create"

(* Type correctness, of the shared header at every step of a call too.     *)
TypeOK ==
  /\ file \in {"empty", "sized"} /\ memmapped \in BOOLEAN
  /\ HeaderType(hdr, Cells)
  /\ lock \in [Procs -> {"none", "read", "write"}]
  /\ handle \in [Procs -> BOOLEAN]
  /\ faulted \subseteq Procs
  /\ pc \in [Threads -> Touches \cup {"idle", "lock", "size", "stats3", "unlock"}]

(* Whenever no call is in progress the ring is consistent and every slot   *)
(* of it holds an item some call stored (mmdeque.c: "All these functions   *)
(* perform locking ... and are thus thread safe").                         *)
QuiescentRing ==
  Idle => /\ hdr.dquse <= hdr.dqslots
          /\ RingConsistent(hdr)
          /\ Contents(hdr) \in Seq(Items)

(* While a thread is between the lock and the unlock of a call that        *)
(* writes, no other thread is between its lock and unlock.                 *)
WriterAlone ==
  \A t, u \in Threads :
    t # u /\ Inside(t) /\ Inside(u)
      => call[t].op = "isempty" /\ call[u].op = "isempty"

(* What mmdq_isempty is about to return is still true: no writer gets in   *)
(* between the look at dquse and the unlock.                               *)
IsEmptyAccurate ==
  \A t \in Threads :
    pc[t] = "unlock" /\ call[t].op = "isempty" => (res[t].flag <=> hdr.dquse = 0)

(* No call makes its process fault.                                        *)
NoFault == faulted = {}

(* The locking invariant of processes with one thread each.                *)
LockingInv == TypeOK /\ WriterAlone /\ IsEmptyAccurate /\ NoFault

(* The indices and the count stay inside the slots, whatever step a        *)
(* process was killed at: no later call reaches outside the buffer.        *)
HeaderInBounds ==
  /\ hdr.dquse <= hdr.dqslots
  /\ hdr.dqslots > 0 => hdr.dqtop < hdr.dqslots /\ hdr.dqbottom < hdr.dqslots

(* Each kill inside a call moves the two ends apart by one slot at most,   *)
(* and later calls neither widen nor repair the gap.                       *)
SkewBoundedByKills ==
  (\A p \in Procs : lock[p] # "write") /\ hdr.dqslots > 0 =>
     \E skew \in - kills .. kills :
        hdr.dqtop = (hdr.dqbottom + hdr.dqslots + skew
                      + (IF hdr.dquse = 0 THEN 0 ELSE hdr.dquse - 1)) % hdr.dqslots

(* What a deque is worth after processes died inside its calls.            *)
DamageBounded == HeaderInBounds /\ SkewBoundedByKills

(* Whoever holds the lock gives it up: by the unlock of its call, or when  *)
(* its process dies, so no call waits for a dead process.                  *)
LockReleased == \A p \in Procs : lock[p] # "none" ~> lock[p] = "none"

(* A call takes effect when it unlocks, mmdq_create when it returns.       *)
Abstract == INSTANCE BoundedDeque WITH
              q <- Contents(committed), cap <- committed.dqslots,
              open <- committed.dq_open

(* The calls of several processes, taken in the order they unlock, are     *)
(* calls of one deque, with the results that order gives.                  *)
ImplementsDeque == Abstract!Spec
=============================================================================
