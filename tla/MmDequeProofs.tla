--------------------------- MODULE MmDequeProofs ---------------------------
(***************************************************************************)
(* What the locks of mmdeque.c buy, for any number of processes, any items *)
(* and any capacities: exclusion (LockInv), the bound on what kills can do *)
(* to the ring (SkewInv), and, without kills, that the calls of all        *)
(* processes implement BoundedDeque (NoFaultInv, CommitInv).               *)
(*                                                                         *)
(* LockInv is proved one step of a call at a time.  A thread at a store    *)
(* holds the exclusive lock, so every other thread is outside its lock     *)
(* (Alone) and what InCall says of it does not depend on the header        *)
(* (Frame).  The refinement follows the same pattern with Progress.        *)
(***************************************************************************)
EXTENDS MmDeque, DequeOpsProofs

(* fcntl locks belong to processes: the theorems are about processes of    *)
(* one thread each, for which the locks exclude. A run shows what two      *)
(* threads of one process do to each other.                                *)
OneThreadEach == \A t, u \in Threads : ProcOf[t] = ProcOf[u] => t = u

(* The calls and their steps, with the arguments and results they carry.   *)
Ops     == {"none", "create", "isempty", "reset", "stats"} \cup Adds \cup Removes
Steps   == Touches \cup {"idle", "lock", "size", "stats3", "unlock"}
Calls   == [op : Ops, item : Cells, slots : Nat]
Results == [flag : BOOLEAN, item : Seq(Cells \cup Nat),
            slots : Nat]

(* The steps each call goes through.                                       *)
StepOf(op, step) ==
  \/ op = "none" /\ step = "idle"
  \/ op = "create" /\ step \in {"size", "init", "map"}
  \/ op = "isempty" /\ step \in {"lock", "look", "unlock"}
  \/ op = "reset" /\ step \in {"lock", "wipe", "init", "map", "unlock"}
  \/ op = "stats" /\ step \in {"stats", "stats2", "stats3"}
  \/ op \in Adds \cup Removes /\ step \in {"lock", "test", "index", "count", "copy", "unlock"}

(* The types of the state, of the bookkeeping of a call too.               *)
Types ==
  /\ file \in {"empty", "sized"} /\ memmapped \in BOOLEAN
  /\ HeaderType(hdr, Cells)
  /\ lock \in [Procs -> {"none", "read", "write"}]
  /\ handle \in [Procs -> BOOLEAN]
  /\ pc \in [Threads -> Steps]
  /\ call \in [Threads -> Calls]
  /\ res \in [Threads -> Results]
  /\ creates \in Nat /\ kills \in Nat /\ faulted \subseteq Procs

(* dqslots is a ushort, so dquse (at most dqslots) does not wrap.          *)
SlotsFit == hdr.dqslots < 65536

(* The exclusive lock of a process excludes the locks of the others.       *)
WriteLockAlone == \A p, q \in Procs : p # q /\ lock[p] = "write" => lock[q] = "none"

(* While a deque is created nobody else has it open.                       *)
CreatorAlone ==
  \A t \in Threads : call[t].op = "create" =>
    /\ \A u \in Threads \ {t} : call[u].op = "none"
    /\ \A p \in Procs : handle[p] => p = ProcOf[t] /\ pc[t] # "size"

(* Where a thread is in its call: it has the file open, inside the call it *)
(* holds the lock of the call, past the full check there is room for its   *)
(* item, past the empty check there is an item, and what mmdq_isempty saw  *)
(* is so.                                                                  *)
InCall(t) ==
  /\ StepOf(call[t].op, pc[t]) /\ call[t].slots < 65536
  /\ call[t].op \notin {"none", "create"} => handle[ProcOf[t]]
  /\ Inside(t) => lock[ProcOf[t]] = LockType(t)
  /\ call[t].op \in Adds =>
       /\ pc[t] \in {"index", "count"} => hdr.dquse < hdr.dqslots
       /\ pc[t] = "copy" => 0 < hdr.dquse
  /\ call[t].op \in Removes /\ pc[t] \in {"copy", "index", "count"} => 0 < hdr.dquse
  /\ pc[t] = "unlock" /\ call[t].op = "isempty" => (res[t].flag <=> hdr.dquse = 0)

(* The locking invariant, inductive for any number of kills.               *)
LockInv == Types /\ SlotsFit /\ WriteLockAlone /\ CreatorAlone /\ \A t \in Threads : InCall(t)

(* The ends of a ring are s slots further apart than its use count says.    *)
Apart(dq, s) ==
  dq.dqtop = (dq.dqbottom + dq.dqslots + s
               + (IF dq.dquse = 0 THEN 0 ELSE dq.dquse - 1)) % dq.dqslots
SkewBy(d) == hdr.dqslots > 0 => \E skew \in - kills .. kills : Apart(hdr, skew + d)

(* Between the index step and the count step the two ends are one slot off. *)
Moved(t) == IF hdr.dquse = (IF call[t].op \in Adds THEN 0 ELSE 1) THEN 0
            ELSE IF call[t].op \in Adds THEN 1 ELSE -1

(* Inductive with LockInv: the gap never exceeds the kills. The last part  *)
(* rules out a fault at the count step.                                    *)
SkewInv == /\ \A t \in Threads : pc[t] = "count" => SkewBy(Moved(t))
           /\ (\A t \in Threads : pc[t] # "count") => SkewBy(0)
           /\ \A p \in Procs : handle[p] => file = "sized"

(* Inductive with LockInv while nobody is killed: the file is short and    *)
(* the pointer foreign only while some thread is formatting the deque.     *)
NoFaultInv == /\ faulted = {}
              /\ file = "empty" => \E t \in Threads : pc[t] = "size"
              /\ ~memmapped => \E t \in Threads : pc[t] \in {"size", "init", "map"}

(* Whether a thread is at a step of a call that may store in the header.   *)
Writing(t) == call[t].op = "create" \/ (Inside(t) /\ call[t].op # "isempty")

(* A step of one thread leaves the calls of the others where they are.     *)
Others(t) == \A u \in Threads \ {t} :
  pc'[u] = pc[u] /\ call'[u] = call[u] /\ res'[u] = res[u]

(* What the locking invariant says of one thread.                          *)
LEMMA ThreadFacts ==
  ASSUME LockInv, NEW t \in Threads
  PROVE  /\ call[t] \in Calls /\ call[t].op \in Ops /\ call[t].item \in Cells
         /\ call[t].slots \in Nat
         /\ pc[t] \in Steps /\ res[t] \in Results
         /\ InCall(t) /\ StepOf(call[t].op, pc[t]) /\ ProcOf[t] \in Procs
         /\ HeaderType(hdr, Cells) /\ hdr.dqslots < 65536 /\ call[t].slots < 65536
<1>1. call[t] \in Calls /\ pc[t] \in Steps /\ res[t] \in Results
  BY DEF LockInv, Types
<1>2. call[t].op \in Ops /\ call[t].item \in Cells /\ call[t].slots \in Nat
  BY <1>1 DEF Calls
<1>3. InCall(t) /\ StepOf(call[t].op, pc[t]) /\ call[t].slots < 65536
  BY DEF LockInv, InCall
<1>4. ProcOf[t] \in Procs
  BY MmDequeAssumption
<1>5. HeaderType(hdr, Cells) /\ hdr.dqslots < 65536
  BY DEF LockInv, Types, SlotsFit
<1>6. QED BY <1>1, <1>2, <1>3, <1>4, <1>5

(* While a thread writes, every other one is outside its lock, and none is *)
(* creating a deque.                                                       *)
LEMMA Alone ==
  ASSUME LockInv, OneThreadEach, NEW t \in Threads, Writing(t), NEW u \in Threads \ {t}
  PROVE  pc[u] \in {"idle", "lock", "stats", "stats2", "stats3"} /\ call[u].op # "create"
<1>1. CASE call[t].op = "create"
  <2>1. call[u].op = "none"
    BY <1>1 DEF LockInv, CreatorAlone
  <2>2. QED BY <2>1, ThreadFacts DEF StepOf, Adds, Removes
<1>2. CASE Inside(t) /\ call[t].op # "isempty"
  <2>1. ProcOf[t] \in Procs /\ ProcOf[u] \in Procs /\ ProcOf[t] # ProcOf[u]
    BY MmDequeAssumption DEF OneThreadEach
  <2>2. lock[ProcOf[t]] = "write" /\ call[t].op # "none"
    BY <1>2 DEF LockInv, InCall, LockType, Inside, StepOf, Adds, Removes
  <2>3. lock[ProcOf[u]] = "none"
    BY <2>1, <2>2 DEF LockInv, WriteLockAlone
  <2>4. ~Inside(u) /\ call[u].op # "create"
    BY <2>2, <2>3 DEF LockInv, InCall, LockType, CreatorAlone
  <2>5. StepOf(call[u].op, pc[u])
    BY ThreadFacts
  <2>6. QED BY <2>4, <2>5 DEF Inside, StepOf, Adds, Removes
<1>3. QED BY <1>1, <1>2 DEF Writing

(* A step of one thread that takes no lock and keeps what InCall says of   *)
(* the thread keeps the locking invariant: the header only changes under   *)
(* the exclusive lock.                                                     *)
LEMMA Frame ==
  ASSUME LockInv, OneThreadEach, NEW t \in Threads, Types', SlotsFit', Others(t),
         UNCHANGED <<lock, handle>>,
         call'[t].op = call[t].op \/ call'[t].op = "none",
         pc'[t] # "size",
         InCall(t)',
         hdr' = hdr \/ Writing(t)
  PROVE  LockInv'
<1>1. WriteLockAlone'
  BY DEF LockInv, WriteLockAlone
<1>2. CreatorAlone'
  BY DEF LockInv, CreatorAlone, Others
<1>3. ASSUME NEW u \in Threads \ {t} PROVE InCall(u)'
  <2>1. CASE hdr' = hdr
    BY <1>3, <2>1 DEF LockInv, InCall, Others, Inside, LockType
  <2>2. CASE Writing(t)
    <3>1. pc[u] \in {"idle", "lock", "stats", "stats2", "stats3"}
      BY <2>2, Alone
    <3>2. QED BY <1>3, <3>1 DEF LockInv, InCall, Others, Inside, LockType
  <2>3. QED BY <2>1, <2>2
<1>4. QED BY <1>1, <1>2, <1>3 DEF LockInv

(* The order of the statements of dq_atd, dq_abd, dq_rtd and dq_rbd.       *)
LEMMA AfterSteps ==
  /\ \A op \in Adds : /\ AfterStep(op, "test") = "index" /\ AfterStep(op, "index") = "count"
                      /\ AfterStep(op, "count") = "copy" /\ AfterStep(op, "copy") = "unlock"
  /\ \A op \in Removes : /\ AfterStep(op, "test") = "copy" /\ AfterStep(op, "copy") = "index"
                         /\ AfterStep(op, "index") = "count" /\ AfterStep(op, "count") = "unlock"
<1>1. \A op \in Adds : op \notin Removes
  BY DEF Adds, Removes
<1>2. \A op \in Adds : \A step : AfterStep(op, step) =
        [test |-> "index", index |-> "count", count |-> "copy", copy |-> "unlock"][step]
  BY <1>1 DEF AfterStep
<1>3. \A op \in Removes : \A step : AfterStep(op, step) =
        [test |-> "copy", copy |-> "index", index |-> "count", count |-> "unlock"][step]
  BY <1>1 DEF AfterStep
<1>4. QED BY <1>2, <1>3

(* Storing an index inside the slots in dqtop keeps the header well typed. *)
LEMMA SetTop ==
  ASSUME NEW items, NEW dq, HeaderType(dq, items), NEW i \in 0 .. dq.dqslots - 1
  PROVE  LET d == [dq EXCEPT !.dqtop = i]
         IN  /\ HeaderType(d, items)
             /\ d = [ dq_open |-> dq.dq_open, dqslots |-> dq.dqslots, dquse |-> dq.dquse,
                      dqtop |-> i, dqbottom |-> dq.dqbottom, slot |-> dq.slot ]
<1>1. [dq EXCEPT !.dqtop = i] =
        [ dq_open |-> dq.dq_open, dqslots |-> dq.dqslots, dquse |-> dq.dquse,
          dqtop |-> i, dqbottom |-> dq.dqbottom, slot |-> dq.slot ]
  BY DEF HeaderType
<1>2. QED BY <1>1, Fields DEF HeaderType

(* Storing an index inside the slots in dqbottom keeps the header well     *)
(* typed.                                                                  *)
LEMMA SetBottom ==
  ASSUME NEW items, NEW dq, HeaderType(dq, items), NEW i \in 0 .. dq.dqslots - 1
  PROVE  LET d == [dq EXCEPT !.dqbottom = i]
         IN  /\ HeaderType(d, items)
             /\ d = [ dq_open |-> dq.dq_open, dqslots |-> dq.dqslots, dquse |-> dq.dquse,
                      dqtop |-> dq.dqtop, dqbottom |-> i, slot |-> dq.slot ]
<1>1. [dq EXCEPT !.dqbottom = i] =
        [ dq_open |-> dq.dq_open, dqslots |-> dq.dqslots, dquse |-> dq.dquse,
          dqtop |-> dq.dqtop, dqbottom |-> i, slot |-> dq.slot ]
  BY DEF HeaderType
<1>2. QED BY <1>1, Fields DEF HeaderType

(* Storing a use count up to dqslots keeps the header well typed.          *)
LEMMA SetUse ==
  ASSUME NEW items, NEW dq, HeaderType(dq, items), NEW u \in 0 .. dq.dqslots
  PROVE  LET d == [dq EXCEPT !.dquse = u]
         IN  /\ HeaderType(d, items)
             /\ d = [ dq_open |-> dq.dq_open, dqslots |-> dq.dqslots, dquse |-> u,
                      dqtop |-> dq.dqtop, dqbottom |-> dq.dqbottom, slot |-> dq.slot ]
<1>1. [dq EXCEPT !.dquse = u] =
        [ dq_open |-> dq.dq_open, dqslots |-> dq.dqslots, dquse |-> u,
          dqtop |-> dq.dqtop, dqbottom |-> dq.dqbottom, slot |-> dq.slot ]
  BY DEF HeaderType
<1>2. QED BY <1>1, Fields DEF HeaderType

(* Storing an item in a slot keeps the header well typed.                  *)
LEMMA SetSlot ==
  ASSUME NEW items, NEW dq, HeaderType(dq, items), NEW i, NEW item \in items
  PROVE  LET d == [dq EXCEPT !.slot[i] = item]
         IN  /\ HeaderType(d, items)
             /\ d = [ dq_open |-> dq.dq_open, dqslots |-> dq.dqslots, dquse |-> dq.dquse,
                      dqtop |-> dq.dqtop, dqbottom |-> dq.dqbottom,
                      slot |-> [dq.slot EXCEPT ![i] = item] ]
<1>1. [dq EXCEPT !.slot[i] = item] =
        [ dq_open |-> dq.dq_open, dqslots |-> dq.dqslots, dquse |-> dq.dquse,
          dqtop |-> dq.dqtop, dqbottom |-> dq.dqbottom,
          slot |-> [dq.slot EXCEPT ![i] = item] ]
  BY DEF HeaderType
<1>2. QED BY <1>1, Fields DEF HeaderType

(* A region of zero bytes is a well typed header without slots.            *)
LEMMA ZeroType == HeaderType(ZeroHeader, Cells) /\ ZeroHeader.dqslots = 0 /\ ZeroHeader.dquse = 0
<1>1. Blank \in Cells
  BY DEF Cells
<1>2. HeaderType(NewDeque(0, Blank), Cells)
  BY <1>1, NewDequeOK
<1>3. HeaderType(ZeroHeader, Cells)
  BY <1>2, CloseOK DEF ZeroHeader
<1>4. QED BY <1>3 DEF ZeroHeader, NewDeque

(* The deque created earlier satisfies the locking invariant.              *)
LEMMA InitLock == Init => LockInv
<1> SUFFICES ASSUME Init PROVE LockInv
  OBVIOUS
<1>1. PICK slots \in Capacities : hdr = NewDeque(slots, Blank)
  BY DEF Init
<1>2. HeaderType(hdr, Cells) /\ hdr.dqslots < 65536
  <2>1. slots \in Nat /\ slots < 65536 /\ Blank \in Cells
    BY MmDequeAssumption DEF Cells
  <2>2. hdr.dqslots = slots
    BY <1>1 DEF NewDeque
  <2>3. QED BY <1>1, <2>1, <2>2, NewDequeOK
<1>3. NoCall \in Calls /\ NoRes \in Results
  BY DEF NoCall, NoRes, Calls, Results, Ops, Cells
<1>4. Types
  BY <1>2, <1>3 DEF Init, Types, Steps
<1>5. WriteLockAlone /\ CreatorAlone
  BY DEF Init, WriteLockAlone, CreatorAlone, NoCall
<1>6. \A t \in Threads : InCall(t)
  BY DEF Init, InCall, StepOf, Inside, NoCall, Adds, Removes
<1>7. QED BY <1>2, <1>4, <1>5, <1>6 DEF LockInv, SlotsFit

(* A thread that moves on inside its call, and the call and result of it.  *)
LEMMA StepTypes ==
  ASSUME LockInv, NEW t \in Threads,
         pc' \in [Threads -> Steps], call' \in [Threads -> Calls], res' \in [Threads -> Results],
         HeaderType(hdr, Cells)', file' \in {"empty", "sized"}, memmapped' \in BOOLEAN,
         UNCHANGED <<lock, handle, counted>>
  PROVE  Types'
  BY DEF LockInv, Types, counted

(* mmdq_create extends and maps the file: only its own process has it      *)
(* open.                                                                   *)
LEMMA SizeLock ==
  ASSUME LockInv, OneThreadEach, NEW t \in Threads, Size(t)
  PROVE  LockInv'
<1>1. call[t].op = "create" /\ ProcOf[t] \in Procs
  BY ThreadFacts DEF Size, StepOf
<1>2. Types'
  BY <1>1 DEF LockInv, Types, Size, Goto, local, counted, Steps, Touches
<1>3. WriteLockAlone'
  BY DEF LockInv, WriteLockAlone, Size
<1>4. pc' = [pc EXCEPT ![t] = "init"] /\ pc \in [Threads -> Steps] /\ call' = call /\ hdr' = hdr /\ res' = res
  BY DEF Size, Goto, LockInv, Types, local
<1>5. \A u \in Threads \ {t} : call[u].op = "none" /\ pc'[u] = pc[u]
  BY <1>1, <1>4 DEF LockInv, CreatorAlone
<1>6. handle' = [handle EXCEPT ![ProcOf[t]] = TRUE] /\ \A p \in Procs : ~handle[p]
  BY <1>1 DEF Size, LockInv, CreatorAlone
<1>7. CreatorAlone'
  BY <1>1, <1>4, <1>5, <1>6 DEF CreatorAlone, LockInv, Types
<1>8. ASSUME NEW u \in Threads PROVE InCall(u)'
  <2>1. CASE u = t
    BY <1>1, <1>4, <2>1, ThreadFacts DEF InCall, StepOf, Inside, Adds, Removes
  <2>2. CASE u # t
    BY <1>4, <1>5, <2>2, ThreadFacts DEF InCall, StepOf, Inside, Adds, Removes
  <2>3. QED BY <2>1, <2>2
<1>9. QED BY <1>2, <1>3, <1>4, <1>7, <1>8 DEF LockInv, SlotsFit

(* dq_init of a call that creates or resets the deque.                     *)
LEMMA InitDqLock ==
  ASSUME LockInv, OneThreadEach, NEW t \in Threads, Init_dq(t)
  PROVE  LockInv'
<1>1. /\ pc[t] = "init" /\ pc' = [pc EXCEPT ![t] = "map"] /\ pc \in [Threads -> Steps]
      /\ UNCHANGED <<file, lock, handle, call, res, counted>> /\ memmapped' = FALSE
      /\ hdr' = NewDeque(call[t].slots, Blank)
  BY DEF Init_dq, Goto, LockInv, Types, local
<1>2. /\ call[t].op \in {"create", "reset"} /\ Blank \in Cells
      /\ call[t].slots \in Nat /\ call[t].slots < 65536
  BY <1>1, ThreadFacts DEF StepOf, Cells
<1>3. HeaderType(hdr, Cells)' /\ hdr'.dqslots < 65536
  <2>1. hdr'.dqslots = call[t].slots
    BY <1>1 DEF NewDeque
  <2>2. QED BY <1>1, <1>2, <2>1, NewDequeOK
<1>4. Types'
  <2>1. pc' \in [Threads -> Steps] /\ call' \in [Threads -> Calls] /\ res' \in [Threads -> Results]
    BY <1>1 DEF LockInv, Types, Steps, Touches
  <2>2. file' \in {"empty", "sized"} /\ memmapped' \in BOOLEAN
    BY <1>1 DEF LockInv, Types
  <2>3. QED BY <1>1, <1>3, <2>1, <2>2, StepTypes
<1>5. Writing(t)
  BY <1>1, <1>2 DEF Writing, Inside
<1>6. InCall(t)'
  BY <1>1, <1>2, ThreadFacts DEF InCall, StepOf, Inside, LockType, Adds, Removes
<1>7. QED BY <1>1, <1>3, <1>4, <1>5, <1>6, Frame DEF Others, SlotsFit

(* Setting the memmapped bit.                                              *)
LEMMA MapBitLock ==
  ASSUME LockInv, OneThreadEach, NEW t \in Threads, MapBit(t)
  PROVE  LockInv'
<1>1. /\ pc[t] = "map" /\ pc \in [Threads -> Steps] /\ call \in [Threads -> Calls]
      /\ UNCHANGED <<file, hdr, lock, handle, res, counted>> /\ memmapped' = TRUE
      /\ IF call[t].op = "create"
         THEN pc' = [pc EXCEPT ![t] = "idle"] /\ call' = [call EXCEPT ![t] = NoCall]
         ELSE pc' = [pc EXCEPT ![t] = "unlock"] /\ call' = call
  BY DEF MapBit, Goto, LockInv, Types
<1>2. call[t].op \in {"create", "reset"} /\ NoCall \in Calls
  BY <1>1, ThreadFacts DEF StepOf, NoCall, Calls, Ops, Cells
<1>3. Types'
  BY <1>1, <1>2, StepTypes DEF LockInv, Types, Steps, Touches
<1>4. InCall(t)' /\ (call'[t].op = call[t].op \/ call'[t].op = "none") /\ pc'[t] # "size"
  BY <1>1, <1>2, ThreadFacts DEF InCall, StepOf, Inside, LockType, NoCall, Adds, Removes
<1>5. QED BY <1>1, <1>3, <1>4, Frame DEF Others, SlotsFit, LockInv

(* The full or empty check: the call that passes it has room, or an item.  *)
LEMMA TestLock ==
  ASSUME LockInv, OneThreadEach, NEW t \in Threads, Test(t)
  PROVE  LockInv'
<1> DEFINE fits == IF call[t].op \in Adds THEN HasRoom(hdr) ELSE HasItem(hdr)
<1>1. /\ pc[t] = "test" /\ pc \in [Threads -> Steps] /\ res \in [Threads -> Results]
      /\ IF fits THEN Onward(t) ELSE Goto(t, "unlock")
      /\ res' = [res EXCEPT ![t].flag = ~fits]
      /\ UNCHANGED <<file, hdr, memmapped, lock, handle, call, counted>>
  BY DEF Test, LockInv, Types, memory
<1>2. /\ fits \in BOOLEAN
      /\ call[t].op \in Adds /\ fits => hdr.dquse < hdr.dqslots
      /\ call[t].op \notin Adds /\ fits => 0 < hdr.dquse
  <2>1. hdr.dq_open \in BOOLEAN /\ hdr.dquse \in Nat /\ hdr.dqslots \in Nat
    BY ThreadFacts, Fields
  <2>2. fits \in BOOLEAN
    BY Zenon DEF HasRoom, HasItem
  <2>3. QED BY <2>1, <2>2 DEF HasRoom, HasItem
<1> HIDE DEF fits
<1>3. call[t].op \in Adds \cup Removes /\ call[t].op \notin Adds \cap Removes
  BY <1>1, ThreadFacts DEF StepOf, Adds, Removes
<1>4. pc' = [pc EXCEPT ![t] = IF ~fits THEN "unlock"
                             ELSE IF call[t].op \in Adds THEN "index" ELSE "copy"]
  BY <1>1, <1>3, AfterSteps DEF Onward, Goto
<1>5. res' \in [Threads -> Results] /\ \A u \in Threads \ {t} : res'[u] = res[u]
  BY <1>1, <1>2 DEF Results
<1>6. Types'
  BY <1>1, <1>4, <1>5, StepTypes DEF LockInv, Types, Steps, Touches
<1>7. InCall(t)' /\ pc'[t] # "size"
  BY <1>1, <1>2, <1>3, <1>4, ThreadFacts DEF InCall, StepOf, Inside, LockType, Adds, Removes
<1>8. QED BY <1>1, <1>4, <1>5, <1>6, <1>7, Frame DEF Others, SlotsFit, LockInv

(* A thread at a store of an insertion or a removal holds the exclusive    *)
(* lock and the ring has slots.                                            *)
LEMMA DataCall ==
  ASSUME LockInv, NEW t \in Threads, pc[t] \in {"index", "count", "copy"}
  PROVE  /\ call[t].op \in {"atd", "abd", "rtd", "rbd"}
         /\ call[t].op \in Adds <=> call[t].op \in {"atd", "abd"}
         /\ call[t].op \in Removes <=> call[t].op \in {"rtd", "rbd"}
         /\ hdr.dqslots > 0
         /\ Writing(t)
<1>1. /\ call[t].op \in {"atd", "abd", "rtd", "rbd"}
      /\ call[t].op \in Adds <=> call[t].op \in {"atd", "abd"}
      /\ call[t].op \in Removes <=> call[t].op \in {"rtd", "rbd"}
  BY ThreadFacts DEF StepOf, Adds, Removes
<1>2. hdr.dqslots > 0
  BY <1>1, ThreadFacts, Fields DEF InCall
<1>3. Writing(t)
  BY <1>1 DEF Writing, Inside
<1>4. QED BY <1>1, <1>2, <1>3

(* Moving an index stays inside the slots and changes nothing else.        *)
LEMMA IndexHeader ==
  ASSUME LockInv, NEW t \in Threads, Index(t)
  PROVE  /\ HeaderType(hdr, Cells)'
         /\ hdr'.dqslots = hdr.dqslots /\ hdr'.dquse = hdr.dquse /\ hdr'.slot = hdr.slot
         /\ hdr' = IF ~Moves(t) THEN hdr
                   ELSE IF call[t].op = "atd" THEN [hdr EXCEPT !.dqtop = Above(hdr, hdr.dqtop)]
                   ELSE IF call[t].op = "abd" THEN [hdr EXCEPT !.dqbottom = Below(hdr, hdr.dqbottom)]
                   ELSE IF call[t].op = "rtd" THEN [hdr EXCEPT !.dqtop = Below(hdr, hdr.dqtop)]
                   ELSE [hdr EXCEPT !.dqbottom = Above(hdr, hdr.dqbottom)]
<1>1. pc[t] = "index"
  BY DEF Index
<1>2. call[t].op \in {"atd", "abd", "rtd", "rbd"} /\ hdr.dqslots > 0 /\ HeaderType(hdr, Cells)
  BY <1>1, DataCall, ThreadFacts
<1>3. hdr' = IF ~Moves(t) THEN hdr
             ELSE IF call[t].op = "atd" THEN [hdr EXCEPT !.dqtop = Above(hdr, hdr.dqtop)]
             ELSE IF call[t].op = "abd" THEN [hdr EXCEPT !.dqbottom = Below(hdr, hdr.dqbottom)]
             ELSE IF call[t].op = "rtd" THEN [hdr EXCEPT !.dqtop = Below(hdr, hdr.dqtop)]
             ELSE [hdr EXCEPT !.dqbottom = Above(hdr, hdr.dqbottom)]
  BY <1>2 DEF Index
<1>4. /\ Above(hdr, hdr.dqtop) \in 0 .. hdr.dqslots - 1
      /\ Above(hdr, hdr.dqbottom) \in 0 .. hdr.dqslots - 1
      /\ Below(hdr, hdr.dqtop) \in 0 .. hdr.dqslots - 1
      /\ Below(hdr, hdr.dqbottom) \in 0 .. hdr.dqslots - 1
  <2>1. hdr.dqslots \in Nat /\ hdr.dqtop \in Nat /\ hdr.dqbottom \in Nat
    BY <1>2, Fields
  <2>2. /\ hdr.dqtop + 1 \in Nat /\ hdr.dqtop + hdr.dqslots - 1 \in Nat
        /\ hdr.dqbottom + 1 \in Nat /\ hdr.dqbottom + hdr.dqslots - 1 \in Nat
    BY <1>2, <2>1
  <2>3. QED BY <1>2, <2>1, <2>2, ModRange DEF Above, Below
<1>5. /\ HeaderType(hdr, Cells)'
      /\ hdr'.dqslots = hdr.dqslots /\ hdr'.dquse = hdr.dquse /\ hdr'.slot = hdr.slot
  <2>1. CASE ~Moves(t)
    BY <1>2, <1>3, <2>1
  <2>2. CASE Moves(t) /\ call[t].op = "atd"
    BY <1>2, <1>3, <1>4, <2>2, SetTop
  <2>3. CASE Moves(t) /\ call[t].op = "abd"
    BY <1>2, <1>3, <1>4, <2>3, SetBottom
  <2>4. CASE Moves(t) /\ call[t].op = "rtd"
    BY <1>2, <1>3, <1>4, <2>4, SetTop
  <2>5. CASE Moves(t) /\ call[t].op = "rbd"
    <3>1. hdr' = [hdr EXCEPT !.dqbottom = Above(hdr, hdr.dqbottom)]
      BY <1>3, <2>5
    <3>2. QED BY <1>2, <1>4, <3>1, SetBottom
  <2>6. QED BY <1>2, <2>1, <2>2, <2>3, <2>4, <2>5
<1>6. QED BY <1>3, <1>5

(* dquse does not wrap: an insertion passed the full check and a removal   *)
(* the empty check, and dqslots is a ushort.                               *)
LEMMA CountHeader ==
  ASSUME LockInv, NEW t \in Threads, Count(t)
  PROVE  /\ HeaderType(hdr, Cells)'
         /\ hdr'.dqslots = hdr.dqslots
         /\ call[t].op \in Adds => hdr'.dquse = hdr.dquse + 1
         /\ call[t].op \in Removes => hdr'.dquse = hdr.dquse - 1
         /\ hdr' = [hdr EXCEPT !.dquse = IF call[t].op \in Adds THEN hdr.dquse + 1
                                         ELSE hdr.dquse - 1]
<1> DEFINE u == IF call[t].op \in Adds THEN hdr.dquse + 1 ELSE hdr.dquse - 1
<1>1. pc[t] = "count" /\ hdr' = [hdr EXCEPT !.dquse = u % 65536]
  BY DEF Count
<1>2. /\ call[t].op \in Adds <=> call[t].op \notin Removes
      /\ HeaderType(hdr, Cells) /\ hdr.dqslots < 65536
      /\ call[t].op \in Adds => hdr.dquse < hdr.dqslots
      /\ call[t].op \in Removes => 0 < hdr.dquse
  BY <1>1, DataCall, ThreadFacts DEF InCall
<1>3. u \in 0 .. hdr.dqslots /\ u \in Nat /\ u < 65536
  BY <1>2, Fields
<1>4. u % 65536 = u
  BY <1>3
<1>5. hdr' = [hdr EXCEPT !.dquse = u]
  BY <1>1, <1>4
<1> HIDE DEF u
<1>6. HeaderType(hdr, Cells)' /\ hdr'.dqslots = hdr.dqslots /\ hdr'.dquse = u
  <2>1. LET d == [hdr EXCEPT !.dquse = u]
        IN  HeaderType(d, Cells) /\ d.dqslots = hdr.dqslots /\ d.dquse = u
    <3>1. HeaderType(hdr, Cells) /\ u \in 0 .. hdr.dqslots
      BY <1>2, <1>3
    <3>2. [hdr EXCEPT !.dquse = u] =
             [ dq_open |-> hdr.dq_open, dqslots |-> hdr.dqslots, dquse |-> u,
               dqtop |-> hdr.dqtop, dqbottom |-> hdr.dqbottom, slot |-> hdr.slot ]
      BY <3>1, SetUse
    <3>3. HeaderType([hdr EXCEPT !.dquse = u], Cells)
      BY <3>1, SetUse
    <3>4. QED BY <3>2, <3>3
  <2>2. QED BY <1>5, <2>1
<1>7. QED BY <1>2, <1>5, <1>6 DEF u

(* The store to dqtop or dqbottom.                                         *)
LEMMA IndexLock ==
  ASSUME LockInv, OneThreadEach, NEW t \in Threads, Index(t)
  PROVE  LockInv'
<1>1. /\ pc[t] = "index" /\ pc \in [Threads -> Steps]
      /\ UNCHANGED <<file, memmapped, lock, handle, call, res, counted>>
  BY DEF Index, LockInv, Types, local
<1>2. /\ call[t].op \in Adds <=> call[t].op \notin Removes
      /\ call[t].op \in Adds \cup Removes /\ Writing(t)
  BY <1>1, DataCall
<1>3. pc' = [pc EXCEPT ![t] = "count"]
  BY <1>1, <1>2, AfterSteps DEF Index, Onward, Goto
<1>4. /\ HeaderType(hdr, Cells)' /\ SlotsFit'
      /\ hdr'.dqslots = hdr.dqslots /\ hdr'.dquse = hdr.dquse
  BY IndexHeader DEF LockInv, SlotsFit
<1>5. Types'
  <2>1. pc' \in [Threads -> Steps] /\ call' \in [Threads -> Calls] /\ res' \in [Threads -> Results]
    BY <1>1, <1>3 DEF LockInv, Types, Steps, Touches
  <2>2. file' \in {"empty", "sized"} /\ memmapped' \in BOOLEAN
    BY <1>1 DEF LockInv, Types
  <2>3. QED BY <1>1, <1>4, <2>1, <2>2, StepTypes
<1>6. InCall(t)'
  BY <1>1, <1>2, <1>3, <1>4, ThreadFacts DEF InCall, StepOf, Inside, LockType
<1>7. QED BY <1>1, <1>2, <1>3, <1>4, <1>5, <1>6, Frame DEF Others

(* The store to dquse.                                                     *)
LEMMA CountLock ==
  ASSUME LockInv, OneThreadEach, NEW t \in Threads, Count(t)
  PROVE  LockInv'
<1>1. /\ pc[t] = "count" /\ pc \in [Threads -> Steps]
      /\ UNCHANGED <<file, memmapped, lock, handle, call, res, counted>>
  BY DEF Count, LockInv, Types, local
<1>10. Onward(t)
  BY DEF Count
<1>2. /\ call[t].op \in Adds <=> call[t].op \notin Removes
      /\ call[t].op \in Adds \cup Removes /\ Writing(t) /\ call[t].op # "isempty"
  BY <1>1, DataCall
<1>3. pc' = [pc EXCEPT ![t] = IF call[t].op \in Adds THEN "copy" ELSE "unlock"]
  BY <1>1, <1>10, <1>2, AfterSteps DEF Onward, Goto
<1>4. /\ HeaderType(hdr, Cells)' /\ SlotsFit'
      /\ call[t].op \in Adds => hdr'.dquse = hdr.dquse + 1
  BY CountHeader DEF LockInv, SlotsFit
<1>5. Types'
  <2>1. pc' \in [Threads -> Steps] /\ call' \in [Threads -> Calls] /\ res' \in [Threads -> Results]
    BY <1>1, <1>3 DEF LockInv, Types, Steps, Touches
  <2>2. file' \in {"empty", "sized"} /\ memmapped' \in BOOLEAN
    BY <1>1 DEF LockInv, Types
  <2>3. QED BY <1>1, <1>4, <2>1, <2>2, StepTypes
<1>6. InCall(t)'
  <2>1. call[t].op \in Adds => 0 < hdr'.dquse
    BY <1>4, ThreadFacts, Fields
  <2>2. QED BY <1>1, <1>2, <1>3, <2>1, ThreadFacts DEF InCall, StepOf, Inside, LockType
<1>7. QED BY <1>1, <1>2, <1>3, <1>4, <1>5, <1>6, Frame DEF Others

(* The memcpy reaches a slot of the ring, never behind its last one.       *)
LEMMA CopyHeader ==
  ASSUME LockInv, NEW t \in Threads, Copy(t)
  PROVE  LET i == IF call[t].op \in {"atd", "rtd"} THEN hdr.dqtop ELSE hdr.dqbottom
         IN  /\ i \in 0 .. hdr.dqslots - 1
             /\ HeaderType(hdr, Cells)'
             /\ hdr'.dqslots = hdr.dqslots /\ hdr'.dquse = hdr.dquse
             /\ hdr'.dqtop = hdr.dqtop /\ hdr'.dqbottom = hdr.dqbottom
             /\ IF call[t].op \in Adds
                THEN /\ hdr' = [hdr EXCEPT !.slot[i] = call[t].item]
                     /\ res' = [res EXCEPT ![t].item = <<call[t].item>>]
                ELSE /\ hdr' = hdr
                     /\ res' = [res EXCEPT ![t].item = <<hdr.slot[i]>>]
<1> DEFINE i == IF call[t].op \in {"atd", "rtd"} THEN hdr.dqtop ELSE hdr.dqbottom
<1>1. /\ pc[t] = "copy"
      /\ IF call[t].op \in Adds
         THEN /\ hdr' = [hdr EXCEPT !.slot[i] = call[t].item]
              /\ res' = [res EXCEPT ![t].item = <<call[t].item>>]
         ELSE /\ res' = [res EXCEPT ![t].item = <<IF i < hdr.dqslots THEN hdr.slot[i] ELSE Blank>>]
              /\ hdr' = hdr
  BY DEF Copy
<1>2. hdr.dqslots > 0 /\ HeaderType(hdr, Cells) /\ call[t].item \in Cells
  BY <1>1, DataCall, ThreadFacts
<1>3. i \in 0 .. hdr.dqslots - 1 /\ i < hdr.dqslots
  BY <1>2, Fields
<1> HIDE DEF i
<1>4. CASE call[t].op \in Adds
  <2>1. /\ HeaderType([hdr EXCEPT !.slot[i] = call[t].item], Cells)
        /\ [hdr EXCEPT !.slot[i] = call[t].item] =
             [ dq_open |-> hdr.dq_open, dqslots |-> hdr.dqslots, dquse |-> hdr.dquse,
               dqtop |-> hdr.dqtop, dqbottom |-> hdr.dqbottom,
               slot |-> [hdr.slot EXCEPT ![i] = call[t].item] ]
    <3>1. HeaderType(hdr, Cells) /\ call[t].item \in Cells
      BY <1>2
    <3>2. HeaderType([hdr EXCEPT !.slot[i] = call[t].item], Cells)
      BY <3>1, SetSlot, Zenon
    <3>3. [hdr EXCEPT !.slot[i] = call[t].item] =
             [ dq_open |-> hdr.dq_open, dqslots |-> hdr.dqslots, dquse |-> hdr.dquse,
               dqtop |-> hdr.dqtop, dqbottom |-> hdr.dqbottom,
               slot |-> [hdr.slot EXCEPT ![i] = call[t].item] ]
      BY <3>1 DEF HeaderType
    <3>4. QED BY <3>2, <3>3
  <2>2. QED BY <1>1, <1>3, <1>4, <2>1 DEF i
<1>5. CASE call[t].op \notin Adds
  <2>1. hdr' = hdr /\ res' = [res EXCEPT ![t].item = <<hdr.slot[i]>>]
    BY <1>1, <1>3, <1>5
  <2>2. QED BY <1>2, <1>3, <1>5, <2>1 DEF i
<1>6. QED BY <1>4, <1>5

(* The memcpy to or from the slot.                                         *)
LEMMA CopyLock ==
  ASSUME LockInv, OneThreadEach, NEW t \in Threads, Copy(t)
  PROVE  LockInv'
<1>1. /\ pc[t] = "copy" /\ pc \in [Threads -> Steps] /\ res \in [Threads -> Results]
      /\ UNCHANGED <<file, memmapped, lock, handle, call, counted>>
  BY DEF Copy, LockInv, Types
<1>2. /\ call[t].op \in Adds <=> call[t].op \notin Removes
      /\ call[t].op \in Adds \cup Removes /\ Writing(t) /\ call[t].op # "isempty"
  BY <1>1, DataCall
<1>3. pc' = [pc EXCEPT ![t] = IF call[t].op \in Adds THEN "unlock" ELSE "index"]
  BY <1>1, <1>2, AfterSteps DEF Copy, Onward, Goto
<1>4. HeaderType(hdr, Cells)' /\ SlotsFit' /\ hdr'.dquse = hdr.dquse
  BY CopyHeader DEF LockInv, SlotsFit
<1>5. \E c \in Cells : res' = [res EXCEPT ![t].item = <<c>>]
  <2>1. hdr.slot \in [0 .. hdr.dqslots - 1 -> Cells] /\ call[t].item \in Cells
    BY ThreadFacts, Fields
  <2>2. QED BY <2>1, CopyHeader
<1>6. res' \in [Threads -> Results] /\ \A u \in Threads \ {t} : res'[u] = res[u]
  <2>1. PICK c \in Cells : res' = [res EXCEPT ![t].item = <<c>>]
    BY <1>5
  <2> DEFINE got == <<c>>
  <2>2. got \in Seq(Cells \cup Nat)
    OBVIOUS
  <2>3. res' = [res EXCEPT ![t].item = got]
    BY <2>1
  <2> HIDE DEF got
  <2>4. QED BY <1>1, <2>2, <2>3 DEF Results
<1>7. Types'
  <2>1. pc' \in [Threads -> Steps] /\ call' \in [Threads -> Calls]
    BY <1>1, <1>3 DEF LockInv, Types, Steps, Touches
  <2>2. file' \in {"empty", "sized"} /\ memmapped' \in BOOLEAN
    BY <1>1 DEF LockInv, Types
  <2>3. QED BY <1>1, <1>4, <1>6, <2>1, <2>2, StepTypes
<1>8. InCall(t)'
  BY <1>1, <1>2, <1>3, <1>4, ThreadFacts DEF InCall, StepOf, Inside, LockType
<1>9. QED BY <1>1, <1>2, <1>3, <1>4, <1>6, <1>7, <1>8, Frame DEF Others

(* mmdq_reset clears the region under the exclusive lock.                  *)
LEMMA WipeLock ==
  ASSUME LockInv, OneThreadEach, NEW t \in Threads, Wipe(t)
  PROVE  LockInv'
<1>1. /\ pc[t] = "wipe" /\ pc' = [pc EXCEPT ![t] = "init"]
      /\ pc \in [Threads -> Steps] /\ call \in [Threads -> Calls]
      /\ call' = [call EXCEPT ![t].slots = hdr.dqslots]
      /\ hdr' = ZeroHeader /\ memmapped' = FALSE
      /\ UNCHANGED <<file, lock, handle, res, counted>>
  BY DEF Wipe, Goto, LockInv, Types
<1>2. call[t].op = "reset" /\ Writing(t)
  BY <1>1, ThreadFacts DEF StepOf, Writing, Inside
<1>3. HeaderType(hdr, Cells)' /\ SlotsFit'
  BY <1>1, ZeroType DEF SlotsFit
<1>4. hdr.dqslots \in Nat /\ hdr.dqslots < 65536
  BY ThreadFacts, Fields
<1>5. /\ call' \in [Threads -> Calls] /\ \A u \in Threads \ {t} : call'[u] = call[u]
      /\ call'[t].op = "reset" /\ call'[t].slots = hdr.dqslots
  BY <1>1, <1>2, <1>4 DEF Calls
<1>6. Types'
  <2>1. pc' \in [Threads -> Steps] /\ res' \in [Threads -> Results]
    BY <1>1 DEF LockInv, Types, Steps, Touches
  <2>2. file' \in {"empty", "sized"} /\ memmapped' \in BOOLEAN
    BY <1>1 DEF LockInv, Types
  <2>3. QED BY <1>1, <1>3, <1>5, <2>1, <2>2, StepTypes
<1>7. InCall(t)'
  BY <1>1, <1>2, <1>4, <1>5, ThreadFacts DEF InCall, StepOf, Inside, LockType, Adds, Removes
<1>8. QED BY <1>1, <1>2, <1>3, <1>5, <1>6, <1>7, Frame DEF Others

(* What mmdq_isempty saw is what dquse says while it holds the lock.       *)
LEMMA LookLock ==
  ASSUME LockInv, OneThreadEach, NEW t \in Threads, Look(t)
  PROVE  LockInv'
<1> DEFINE empty == (hdr.dquse = 0)
<1>1. /\ pc[t] = "look" /\ pc' = [pc EXCEPT ![t] = "unlock"]
      /\ pc \in [Threads -> Steps] /\ res \in [Threads -> Results]
      /\ res' = [res EXCEPT ![t].flag = empty]
      /\ UNCHANGED <<file, hdr, memmapped, lock, handle, call, counted>>
  BY DEF Look, Goto, LockInv, Types, memory
<1>2. call[t].op = "isempty"
  BY <1>1, ThreadFacts DEF StepOf
<1>3. empty \in BOOLEAN /\ (empty <=> hdr.dquse = 0)
  OBVIOUS
<1> HIDE DEF empty
<1>4. /\ res' \in [Threads -> Results] /\ \A u \in Threads \ {t} : res'[u] = res[u]
      /\ res'[t].flag = empty
  BY <1>1, <1>3 DEF Results
<1>5. Types' /\ SlotsFit'
  <2>1. pc' \in [Threads -> Steps] /\ call' \in [Threads -> Calls]
    BY <1>1 DEF LockInv, Types, Steps, Touches
  <2>2. HeaderType(hdr, Cells)' /\ file' \in {"empty", "sized"} /\ memmapped' \in BOOLEAN
    BY <1>1 DEF LockInv, Types
  <2>3. QED BY <1>1, <1>4, <2>1, <2>2, StepTypes DEF LockInv, SlotsFit
<1>6. InCall(t)'
  BY <1>1, <1>2, <1>3, <1>4, ThreadFacts DEF InCall, StepOf, Inside, LockType, Adds, Removes
<1>7. QED BY <1>1, <1>4, <1>5, <1>6, Frame DEF Others

(* The two loads of dq_stats, done without a lock.                         *)
LEMMA StatsLock ==
  ASSUME LockInv, OneThreadEach, NEW t \in Threads, Stats(t)
  PROVE  LockInv'
<1>1. /\ pc[t] \in {"stats", "stats2"} /\ pc \in [Threads -> Steps]
      /\ res \in [Threads -> Results]
      /\ pc' = [pc EXCEPT ![t] = IF pc[t] = "stats" THEN "stats2" ELSE "stats3"]
      /\ res' = IF pc[t] = "stats" THEN [res EXCEPT ![t].slots = hdr.dqslots]
                                   ELSE [res EXCEPT ![t].item = <<hdr.dquse>>]
      /\ UNCHANGED <<file, hdr, memmapped, lock, handle, call, counted>>
  BY DEF Stats, Goto, LockInv, Types, memory
<1>2. call[t].op = "stats"
  BY <1>1, ThreadFacts DEF StepOf
<1>3. hdr.dqslots \in Nat /\ hdr.dquse \in Nat
  BY ThreadFacts, Fields
<1>4. res' \in [Threads -> Results] /\ \A u \in Threads \ {t} : res'[u] = res[u]
  <2> DEFINE got == <<hdr.dquse>>
  <2>1. got \in Seq(Cells \cup Nat)
    BY <1>3
  <2>2. res' = IF pc[t] = "stats" THEN [res EXCEPT ![t].slots = hdr.dqslots]
                                  ELSE [res EXCEPT ![t].item = got]
    BY <1>1
  <2> HIDE DEF got
  <2>3. QED BY <1>1, <1>3, <2>1, <2>2 DEF Results
<1>5. Types' /\ SlotsFit'
  <2>1. pc' \in [Threads -> Steps] /\ call' \in [Threads -> Calls]
    BY <1>1 DEF LockInv, Types, Steps, Touches
  <2>2. HeaderType(hdr, Cells)' /\ file' \in {"empty", "sized"} /\ memmapped' \in BOOLEAN
    BY <1>1 DEF LockInv, Types
  <2>3. QED BY <1>1, <1>4, <2>1, <2>2, StepTypes DEF LockInv, SlotsFit
<1>6. InCall(t)'
  BY <1>1, <1>2, ThreadFacts DEF InCall, StepOf, Inside, LockType, Adds, Removes
<1>7. QED BY <1>1, <1>4, <1>5, <1>6, Frame DEF Others

(* A thread outside a call has a well typed call and result.               *)
LEMMA NothingTypes == NoCall \in Calls /\ NoRes \in Results
  BY DEF NoCall, NoRes, Calls, Results, Ops, Cells

(* The end of mmdq_stats.                                                  *)
LEMMA StatsReturnLock ==
  ASSUME LockInv, OneThreadEach, NEW t \in Threads, StatsReturn(t)
  PROVE  LockInv'
<1>1. /\ pc[t] = "stats3" /\ pc' = [pc EXCEPT ![t] = "idle"]
      /\ call' = [call EXCEPT ![t] = NoCall] /\ res' = [res EXCEPT ![t] = NoRes]
      /\ pc \in [Threads -> Steps] /\ call \in [Threads -> Calls] /\ res \in [Threads -> Results]
      /\ UNCHANGED <<file, hdr, memmapped, lock, handle, counted>>
  BY DEF StatsReturn, Goto, LockInv, Types, memory
<1>2. Types' /\ SlotsFit'
  <2>1. /\ pc' \in [Threads -> Steps] /\ call' \in [Threads -> Calls]
        /\ res' \in [Threads -> Results]
    BY <1>1, NothingTypes DEF Steps
  <2>2. HeaderType(hdr, Cells)' /\ file' \in {"empty", "sized"} /\ memmapped' \in BOOLEAN
    BY <1>1 DEF LockInv, Types
  <2>3. QED BY <1>1, <2>1, <2>2, StepTypes DEF LockInv, SlotsFit
<1>3. InCall(t)' /\ call'[t].op = "none"
  BY <1>1 DEF InCall, StepOf, Inside, Adds, Removes, NoCall
<1>4. QED BY <1>1, <1>2, <1>3, Frame DEF Others

(* A granted lock conflicts with no lock of another process.               *)
LEMMA LockStepLock ==
  ASSUME LockInv, OneThreadEach, NEW t \in Threads, mma_lock_atom(t)
  PROVE  LockInv'
<1> DEFINE p == ProcOf[t]
<1>1. /\ pc[t] = "lock" /\ pc \in [Threads -> Steps] /\ lock \in [Procs -> {"none", "read", "write"}]
      /\ \A o \in Procs \ {p} :
           IF LockType(t) = "write" THEN lock[o] = "none" ELSE lock[o] # "write"
      /\ lock' = [lock EXCEPT ![p] = LockType(t)]
      /\ UNCHANGED <<file, hdr, memmapped, handle, call, res, counted>>
  BY DEF mma_lock_atom, LockInv, Types, memory, local
<1>2. /\ call[t].op \in Adds \cup Removes \cup {"isempty", "reset"}
      /\ call[t].op # "create" /\ call[t].op # "none"
      /\ p \in Procs /\ LockType(t) \in {"read", "write"}
      /\ \A u \in Threads \ {t} : ProcOf[u] \in Procs /\ ProcOf[u] # p
  BY <1>1, ThreadFacts DEF StepOf, LockType, Adds, Removes, OneThreadEach
<1>3. pc' = [pc EXCEPT ![t] = IF call[t].op = "reset" THEN "wipe"
                             ELSE IF call[t].op = "isempty" THEN "look" ELSE "test"]
  BY DEF mma_lock_atom, Goto
<1>4. Types' /\ SlotsFit'
  <2>1. pc' \in [Threads -> Steps]
    BY <1>1, <1>3 DEF Steps, Touches
  <2>2. lock' \in [Procs -> {"none", "read", "write"}]
    BY <1>1, <1>2
  <2>3. QED BY <1>1, <2>1, <2>2 DEF LockInv, Types, SlotsFit, counted
<1>5. WriteLockAlone'
  BY <1>1, <1>2 DEF WriteLockAlone, LockInv
<1>6. CreatorAlone'
  BY <1>1, <1>2, <1>3 DEF CreatorAlone, LockInv
<1>7. ASSUME NEW u \in Threads PROVE InCall(u)'
  <2>1. CASE u = t
    BY <1>1, <1>2, <1>3, <2>1, ThreadFacts DEF InCall, StepOf, Inside, LockType, Adds, Removes
  <2>2. CASE u # t
    <3>1. pc'[u] = pc[u] /\ lock'[ProcOf[u]] = lock[ProcOf[u]]
      BY <1>1, <1>2, <1>3, <2>2
    <3>2. QED BY <1>1, <3>1, ThreadFacts DEF InCall, Inside, LockType
  <2>3. QED BY <2>1, <2>2
<1>8. QED BY <1>4, <1>5, <1>6, <1>7 DEF LockInv

(* The end of a call that locked.                                          *)
LEMMA UnlockLock ==
  ASSUME LockInv, OneThreadEach, NEW t \in Threads, mma_unlock_atom(t)
  PROVE  LockInv'
<1> DEFINE p == ProcOf[t]
<1>1. /\ pc[t] = "unlock" /\ pc \in [Threads -> Steps] /\ lock \in [Procs -> {"none", "read", "write"}]
      /\ call \in [Threads -> Calls] /\ res \in [Threads -> Results]
      /\ lock' = [lock EXCEPT ![p] = "none"] /\ pc' = [pc EXCEPT ![t] = "idle"]
      /\ call' = [call EXCEPT ![t] = NoCall] /\ res' = [res EXCEPT ![t] = NoRes]
      /\ UNCHANGED <<file, hdr, memmapped, handle, counted>>
  BY DEF mma_unlock_atom, Goto, LockInv, Types, memory
<1>2. p \in Procs /\ \A u \in Threads \ {t} : ProcOf[u] \in Procs /\ ProcOf[u] # p
  BY ThreadFacts DEF OneThreadEach
<1>3. Types' /\ SlotsFit'
  <2>1. /\ pc' \in [Threads -> Steps] /\ call' \in [Threads -> Calls]
        /\ res' \in [Threads -> Results] /\ lock' \in [Procs -> {"none", "read", "write"}]
    BY <1>1, <1>2, NothingTypes DEF Steps
  <2>2. QED BY <1>1, <2>1 DEF LockInv, Types, SlotsFit, counted
<1>4. WriteLockAlone'
  BY <1>1, <1>2 DEF WriteLockAlone, LockInv
<1>5. call'[t].op = "none" /\ \A u \in Threads \ {t} : call'[u] = call[u] /\ pc'[u] = pc[u] /\ res'[u] = res[u]
  BY <1>1 DEF NoCall
<1>6. CreatorAlone'
  BY <1>1, <1>5 DEF CreatorAlone, LockInv
<1>7. ASSUME NEW u \in Threads PROVE InCall(u)'
  <2>1. CASE u = t
    BY <1>1, <2>1 DEF InCall, StepOf, Inside, Adds, Removes, NoCall
  <2>2. CASE u # t
    <3>1. lock'[ProcOf[u]] = lock[ProcOf[u]]
      BY <1>1, <1>2, <2>2
    <3>2. QED BY <1>1, <1>5, <2>2, <3>1, ThreadFacts DEF InCall, Inside, LockType
  <2>3. QED BY <2>1, <2>2
<1>8. QED BY <1>3, <1>4, <1>6, <1>7 DEF LockInv

(* A thread of a process that has the deque open starts a call.            *)
LEMMA CallLock ==
  ASSUME LockInv, OneThreadEach, NEW t \in Threads,
         NEW op \in Ops \ {"none", "create"}, NEW item \in Cells, Call(t, op, item)
  PROVE  LockInv'
<1>1. /\ pc[t] = "idle" /\ handle[ProcOf[t]]
      /\ pc \in [Threads -> Steps] /\ call \in [Threads -> Calls]
      /\ call' = [call EXCEPT ![t] = [op |-> op, item |-> item, slots |-> 0]]
      /\ pc' = [pc EXCEPT ![t] = IF op = "stats" THEN "stats" ELSE "lock"]
      /\ UNCHANGED <<file, hdr, memmapped, lock, handle, res, counted>>
  BY DEF Call, Goto, LockInv, Types, memory
<1>2. [op |-> op, item |-> item, slots |-> 0] \in Calls
  BY DEF Calls
<1>3. ProcOf[t] \in Procs /\ call[t].op = "none"
  BY <1>1, ThreadFacts DEF StepOf
<1>4. Types' /\ SlotsFit'
  <2>1. pc' \in [Threads -> Steps] /\ call' \in [Threads -> Calls]
    BY <1>1, <1>2 DEF Steps, Touches
  <2>2. QED BY <1>1, <2>1 DEF LockInv, Types, SlotsFit, counted
<1>5. WriteLockAlone'
  BY <1>1 DEF WriteLockAlone, LockInv
<1>6. /\ call'[t].op = op /\ call'[t].slots = 0 /\ pc'[t] = IF op = "stats" THEN "stats" ELSE "lock"
      /\ \A u \in Threads \ {t} : call'[u] = call[u] /\ pc'[u] = pc[u]
  BY <1>1
<1>7. CreatorAlone'
  <2>1. ASSUME NEW u \in Threads \ {t}, call[u].op = "create"
        PROVE  FALSE
    <3>1. ProcOf[t] = ProcOf[u]
      BY <1>1, <1>3, <2>1 DEF LockInv, CreatorAlone
    <3>2. QED BY <3>1 DEF OneThreadEach
  <2>2. QED BY <1>6, <2>1 DEF CreatorAlone
<1>8. ASSUME NEW u \in Threads PROVE InCall(u)'
  <2>1. CASE u = t
    BY <1>1, <1>6, <2>1 DEF InCall, StepOf, Inside, Adds, Removes, Ops
  <2>2. CASE u # t
    BY <1>1, <1>6, <2>2, ThreadFacts DEF InCall, Inside, LockType
  <2>3. QED BY <2>1, <2>2
<1>9. QED BY <1>4, <1>5, <1>7, <1>8 DEF LockInv

(* mmdq_create starts while no process has the deque open.                 *)
LEMMA CreateLock ==
  ASSUME LockInv, OneThreadEach, CreateAlone, NEW t \in Threads, NEW slots \in Capacities,
         mmdq_create(t, slots)
  PROVE  LockInv'
<1>1. /\ pc[t] = "idle" /\ ~Creating /\ \A p \in Procs : ~handle[p]
      /\ pc \in [Threads -> Steps] /\ call \in [Threads -> Calls]
      /\ creates' = creates + 1
      /\ file' = "empty" /\ hdr' = ZeroHeader /\ memmapped' = FALSE
      /\ call' = [call EXCEPT ![t] = [op |-> "create", item |-> Blank, slots |-> slots]]
      /\ pc' = [pc EXCEPT ![t] = "size"]
      /\ UNCHANGED <<lock, handle, res, kills, faulted>>
  BY DEF mmdq_create, Goto, LockInv, Types
<1>2. slots \in Nat /\ slots < 65536
  BY MmDequeAssumption
<1>3. [op |-> "create", item |-> Blank, slots |-> slots] \in Calls
  BY <1>2 DEF Calls, Ops, Cells
<1>4. /\ call'[t] = [op |-> "create", item |-> Blank, slots |-> slots] /\ pc'[t] = "size"
      /\ \A u \in Threads \ {t} : call'[u] = call[u] /\ pc'[u] = pc[u]
  BY <1>1
<1>5. \A u \in Threads : call[u].op = "none" /\ pc[u] = "idle"
  BY <1>1, ThreadFacts DEF InCall, Creating, StepOf, Adds, Removes
<1>6. Types' /\ SlotsFit'
  <2>1. pc' \in [Threads -> Steps] /\ call' \in [Threads -> Calls]
    BY <1>1, <1>3 DEF Steps
  <2>2. HeaderType(hdr, Cells)' /\ hdr'.dqslots = 0
    BY <1>1, ZeroType
  <2>3. creates' \in Nat /\ kills' \in Nat /\ faulted' \subseteq Procs
    BY <1>1 DEF LockInv, Types
  <2>4. SlotsFit'
    BY <2>2 DEF SlotsFit
  <2>5. QED BY <1>1, <2>1, <2>2, <2>3, <2>4 DEF LockInv, Types
<1>7. WriteLockAlone'
  BY <1>1 DEF WriteLockAlone, LockInv
<1>8. CreatorAlone'
  BY <1>1, <1>4, <1>5 DEF CreatorAlone
<1>9. ASSUME NEW u \in Threads PROVE InCall(u)'
  <2>1. CASE u = t
    BY <1>2, <1>4, <2>1 DEF InCall, StepOf, Inside, Adds, Removes
  <2>2. CASE u # t
    BY <1>4, <1>5, <2>2, ThreadFacts DEF InCall, Inside, StepOf, Adds, Removes
  <2>3. QED BY <2>1, <2>2
<1>10. QED BY <1>6, <1>7, <1>8, <1>9 DEF LockInv

(* mmdq_open keeps the locking invariant: no deque is being created.       *)
LEMMA OpenLock ==
  ASSUME LockInv, CreateAlone, NEW p \in Procs, mmdq_open(p)
  PROVE  LockInv'
<1>1. /\ handle \in [Procs -> BOOLEAN] /\ handle' = [handle EXCEPT ![p] = TRUE] /\ ~Creating
      /\ UNCHANGED <<file, hdr, memmapped, lock, pc, call, res, counted>>
  BY DEF mmdq_open, LockInv, Types, memory, local
<1>2. Types' /\ SlotsFit'
  BY <1>1 DEF LockInv, Types, SlotsFit, counted
<1>3. WriteLockAlone' /\ CreatorAlone'
  BY <1>1 DEF LockInv, WriteLockAlone, CreatorAlone, Creating
<1>4. ASSUME NEW u \in Threads PROVE InCall(u)'
  BY <1>1, ThreadFacts DEF InCall, Inside, LockType
<1>5. QED BY <1>2, <1>3, <1>4 DEF LockInv

(* mmdq_close of a process outside a call.                                 *)
LEMMA CloseLock ==
  ASSUME LockInv, NEW p \in Procs, mmdq_close(p)
  PROVE  LockInv'
<1>1. /\ handle \in [Procs -> BOOLEAN] /\ lock \in [Procs -> {"none", "read", "write"}]
      /\ handle' = [handle EXCEPT ![p] = FALSE] /\ lock' = [lock EXCEPT ![p] = "none"]
      /\ \A t \in Threads : ProcOf[t] = p => pc[t] = "idle"
      /\ UNCHANGED <<file, hdr, memmapped, pc, call, res, counted>>
  BY DEF mmdq_close, LockInv, Types, memory, local
<1>2. Types' /\ SlotsFit'
  BY <1>1 DEF LockInv, Types, SlotsFit, counted
<1>3. WriteLockAlone' /\ CreatorAlone'
  BY <1>1 DEF LockInv, WriteLockAlone, CreatorAlone
<1>4. ASSUME NEW u \in Threads PROVE InCall(u)'
  <2>1. CASE ProcOf[u] = p
    <3>1. pc[u] = "idle" /\ call[u].op = "none"
      BY <1>1, <2>1, ThreadFacts DEF StepOf
    <3>2. QED BY <1>1, <3>1, ThreadFacts DEF InCall, Inside, StepOf, Adds, Removes
  <2>2. CASE ProcOf[u] # p
    BY <1>1, <2>2, ThreadFacts DEF InCall, Inside, LockType
  <2>3. QED BY <2>1, <2>2
<1>5. QED BY <1>2, <1>3, <1>4 DEF LockInv

(* The death of a process with one thread keeps the locking invariant,     *)
(* whatever step the thread was at.                                        *)
LEMMA DiesLock ==
  ASSUME LockInv, NEW p \in Procs, Dies(p), creates' \in Nat, kills' \in Nat, faulted' \subseteq Procs
  PROVE  LockInv'
<1>1. /\ handle \in [Procs -> BOOLEAN] /\ lock \in [Procs -> {"none", "read", "write"}]
      /\ pc \in [Threads -> Steps] /\ call \in [Threads -> Calls] /\ res \in [Threads -> Results]
      /\ handle' = [handle EXCEPT ![p] = FALSE] /\ lock' = [lock EXCEPT ![p] = "none"]
      /\ pc' = [t \in Threads |-> IF ProcOf[t] = p THEN "idle" ELSE pc[t]]
      /\ call' = [t \in Threads |-> IF ProcOf[t] = p THEN NoCall ELSE call[t]]
      /\ res' = [t \in Threads |-> IF ProcOf[t] = p THEN NoRes ELSE res[t]]
      /\ UNCHANGED <<file, hdr, memmapped>>
  BY DEF Dies, LockInv, Types, memory
<1>2. Types' /\ SlotsFit'
  <2>1. /\ pc' \in [Threads -> Steps] /\ call' \in [Threads -> Calls] /\ res' \in [Threads -> Results]
    BY <1>1, NothingTypes DEF Steps
  <2>2. QED BY <1>1, <2>1 DEF LockInv, Types, SlotsFit
<1>3. WriteLockAlone'
  BY <1>1 DEF LockInv, WriteLockAlone
<1>4. CreatorAlone'
  BY <1>1 DEF LockInv, CreatorAlone, NoCall
<1>5. ASSUME NEW u \in Threads PROVE InCall(u)'
  <2>1. CASE ProcOf[u] = p
    BY <1>1, <2>1 DEF InCall, Inside, StepOf, Adds, Removes, NoCall
  <2>2. CASE ProcOf[u] # p
    <3>1. ProcOf[u] \in Procs
      BY ThreadFacts
    <3>2. /\ lock'[ProcOf[u]] = lock[ProcOf[u]] /\ handle'[ProcOf[u]] = handle[ProcOf[u]]
          /\ pc'[u] = pc[u] /\ call'[u] = call[u] /\ res'[u] = res[u]
      BY <1>1, <2>2, <3>1
    <3>3. InCall(u) /\ hdr' = hdr
      BY <1>1, ThreadFacts
    <3>4. QED BY <3>2, <3>3 DEF InCall, Inside, LockType
  <2>3. QED BY <2>1, <2>2
<1>6. QED BY <1>2, <1>3, <1>4, <1>5 DEF LockInv

(* Starting any call keeps the locking invariant.                          *)
LEMMA StartsLock ==
  ASSUME LockInv, OneThreadEach, CreateAlone, NEW t \in Threads, Starts(t)
  PROVE  LockInv'
<1>1. ASSUME NEW slots \in Capacities, mmdq_create(t, slots) PROVE LockInv'
  BY <1>1, CreateLock
<1>2. Blank \in Cells /\ Items \subseteq Cells
  BY DEF Cells
<1>3. ASSUME NEW op \in {"atd", "abd", "rtd", "rbd", "isempty", "reset", "stats"},
             NEW item \in Cells, Call(t, op, item)
      PROVE  LockInv'
  BY <1>3, CallLock DEF Ops, Adds, Removes
<1>4. CASE mmdq_atd(t) \/ mmdq_abd(t) \/ mmdq_rtd(t) \/ mmdq_rbd(t)
           \/ mmdq_isempty(t) \/ mmdq_reset(t) \/ mmdq_stats(t)
  BY <1>2, <1>3, <1>4 DEF mmdq_atd, mmdq_abd, mmdq_rtd, mmdq_rbd, mmdq_isempty, mmdq_reset, mmdq_stats
<1>5. QED BY <1>1, <1>4 DEF Starts

(* Every step of a call keeps the locking invariant.                       *)
LEMMA StepLock ==
  ASSUME LockInv, OneThreadEach, NEW t \in Threads, Step(t)
  PROVE  LockInv'
<1>1. CASE Fault(t)
  <2>1. ProcOf[t] \in Procs
    BY ThreadFacts
  <2>2. creates' \in Nat /\ kills' \in Nat /\ faulted' \subseteq Procs
    BY <1>1, <2>1 DEF Fault, LockInv, Types
  <2>3. QED BY <1>1, <2>1, <2>2, DiesLock DEF Fault
<1>2. CASE Size(t) \/ Init_dq(t) \/ MapBit(t) \/ mma_lock_atom(t) \/ Test(t)
  BY <1>2, SizeLock, InitDqLock, MapBitLock, LockStepLock, TestLock
<1>3. CASE Index(t) \/ Count(t) \/ Copy(t) \/ Wipe(t) \/ Look(t)
  BY <1>3, IndexLock, CountLock, CopyLock, WipeLock, LookLock
<1>4. CASE Stats(t) \/ StatsReturn(t) \/ mma_unlock_atom(t)
  BY <1>4, StatsLock, StatsReturnLock, UnlockLock
<1>5. QED BY <1>1, <1>2, <1>3, <1>4 DEF Step

(* Every step of the system keeps the locking invariant.                   *)
LEMMA NextLock ==
  ASSUME OneThreadEach, CreateAlone
  PROVE  LockInv /\ [Next]_vars => LockInv'
<1> SUFFICES ASSUME LockInv, [Next]_vars PROVE LockInv'
  OBVIOUS
<1>1. ASSUME NEW t \in Threads, Starts(t) PROVE LockInv'
  BY <1>1, StartsLock
<1>2. ASSUME NEW t \in Threads, Step(t) PROVE LockInv'
  BY <1>2, StepLock
<1>3. ASSUME NEW p \in Procs, mmdq_open(p) \/ mmdq_close(p) PROVE LockInv'
  BY <1>3, OpenLock, CloseLock
<1>4. ASSUME NEW p \in Procs, Kill(p) PROVE LockInv'
  <2>1. creates' \in Nat /\ kills' \in Nat /\ faulted' \subseteq Procs
    BY <1>4 DEF Kill, LockInv, Types
  <2>2. QED BY <1>4, <2>1, DiesLock DEF Kill
<1>5. CASE UNCHANGED vars
  <2>1. UNCHANGED <<file, hdr, memmapped, lock, handle, pc, call, res, creates, kills, faulted>>
    BY <1>5 DEF vars, memory, local, counted
  <2>2. Types' /\ SlotsFit' /\ WriteLockAlone' /\ CreatorAlone'
    BY <2>1 DEF LockInv, Types, SlotsFit, WriteLockAlone, CreatorAlone
  <2>3. \A u \in Threads : InCall(u)'
    BY <2>1, ThreadFacts DEF InCall, Inside, LockType
  <2>4. QED BY <2>2, <2>3 DEF LockInv
<1>6. QED BY <1>1, <1>2, <1>3, <1>4, <1>5 DEF Next

(* The locking invariant implies the properties TLC checks.                *)
LEMMA LockInvImplies ==
  LockInv /\ OneThreadEach => TypeOK /\ WriterAlone /\ IsEmptyAccurate
<1> SUFFICES ASSUME LockInv, OneThreadEach PROVE TypeOK /\ WriterAlone /\ IsEmptyAccurate
  OBVIOUS
<1>1. TypeOK
  BY DEF LockInv, Types, TypeOK, Steps
<1>2. WriterAlone
  <2> SUFFICES ASSUME NEW t \in Threads, NEW u \in Threads, t # u, Inside(t), Inside(u),
                      call[t].op # "isempty"
               PROVE  FALSE
    BY DEF WriterAlone
  <2>1. Writing(t)
    BY DEF Writing
  <2>2. pc[u] \in {"idle", "lock", "stats", "stats2", "stats3"}
    BY <2>1, Alone
  <2>3. QED BY <2>2 DEF Inside
<1>3. IsEmptyAccurate
  BY ThreadFacts DEF IsEmptyAccurate, InCall
<1>4. QED BY <1>1, <1>2, <1>3

(* Processes of one thread each that create the deque before they share    *)
(* it: whatever is killed, nobody is inside a call together with a writer, *)
(* the header stays well typed at every step, and what mmdq_isempty is     *)
(* about to return is still true (mmdeque.c: "All these functions perform  *)
(* locking").                                                              *)
THEOREM Locking ==
  ASSUME OneThreadEach, CreateAlone
  PROVE  Spec => [](TypeOK /\ WriterAlone /\ IsEmptyAccurate)
<1>1. Init => LockInv
  BY InitLock
<1>2. LockInv /\ [Next]_vars => LockInv'
  BY NextLock
<1>3. LockInv => TypeOK /\ WriterAlone /\ IsEmptyAccurate
  BY LockInvImplies
<1>4. QED BY <1>1, <1>2, <1>3, PTL DEF Spec

(* No thread is about to fault while the mapping is complete for it.       *)
LEMMA NobodyFaults ==
  ASSUME LockInv, NoFaultInv, OneThreadEach, NEW t \in Threads
  PROVE  ~Faults(t)
<1>1. ASSUME pc[t] \in Touches, file = "empty" PROVE FALSE
  <2>1. PICK u \in Threads : pc[u] = "size"
    BY <1>1 DEF NoFaultInv
  <2>2. call[u].op = "create" /\ t # u
    BY <1>1, <2>1, ThreadFacts DEF StepOf, Touches
  <2>3. pc[t] = "idle"
    BY <2>2, ThreadFacts DEF LockInv, CreatorAlone, StepOf, Adds, Removes
  <2>4. QED BY <1>1, <2>3 DEF Touches
<1>2. ASSUME pc[t] = "copy", ~memmapped PROVE FALSE
  <2>1. PICK u \in Threads : pc[u] \in {"size", "init", "map"}
    BY <1>2 DEF NoFaultInv
  <2>2. Writing(u) /\ t # u
    BY <1>2, <2>1, ThreadFacts DEF StepOf, Writing, Inside
  <2>3. QED BY <1>2, <2>2, Alone
<1>3. ASSUME pc[t] = "index", hdr.dqslots = 0 PROVE FALSE
  BY <1>3, DataCall
<1>4. QED BY <1>1, <1>2, <1>3 DEF Faults

(* A step of a thread that is not formatting keeps what NoFaultInv says.   *)
LEMMA KeepsMapping ==
  ASSUME LockInv, NoFaultInv, NEW t \in Threads, pc[t] \notin {"size", "init", "map"},
         NEW s, pc' = [pc EXCEPT ![t] = s], UNCHANGED <<file, memmapped, faulted>>
  PROVE  NoFaultInv'
<1>1. pc \in [Threads -> Steps]
  BY DEF LockInv, Types
<1>2. \A u \in Threads : pc[u] \in {"size", "init", "map"} => pc'[u] = pc[u]
  BY <1>1
<1>3. QED BY <1>2 DEF NoFaultInv

(* Without kills no step loses the mapping or makes a process fault.       *)
LEMMA NextNoFault ==
  ASSUME OneThreadEach, CreateAlone, MaxKills = 0
  PROVE  LockInv /\ NoFaultInv /\ [Next]_vars => NoFaultInv'
<1> SUFFICES ASSUME LockInv, NoFaultInv, [Next]_vars PROVE NoFaultInv'
  OBVIOUS
<1>1. pc \in [Threads -> Steps]
  BY DEF LockInv, Types
<1>2. ASSUME NEW t \in Threads, Starts(t) PROVE NoFaultInv'
  <2>1. ASSUME NEW slots \in Capacities, mmdq_create(t, slots) PROVE NoFaultInv'
    <3>1. pc'[t] = "size" /\ faulted' = faulted
      BY <1>1, <2>1 DEF mmdq_create, Goto
    <3>2. QED BY <3>1 DEF NoFaultInv
  <2>2. ASSUME NEW op, NEW item, Call(t, op, item) PROVE NoFaultInv'
    <3>1. /\ pc[t] = "idle" /\ UNCHANGED <<file, memmapped, faulted>>
          /\ \E s : pc' = [pc EXCEPT ![t] = s]
      BY <2>2 DEF Call, Goto, memory, counted
    <3>2. QED BY <3>1, KeepsMapping
  <2>3. QED BY <1>2, <2>1, <2>2 DEF Starts, mmdq_atd, mmdq_abd, mmdq_rtd, mmdq_rbd,
               mmdq_isempty, mmdq_reset, mmdq_stats
<1>3. ASSUME NEW t \in Threads, Step(t) PROVE NoFaultInv'
  <2>1. CASE Size(t)
    <3>1. pc'[t] = "init" /\ file' = "sized" /\ UNCHANGED <<memmapped, faulted>>
      BY <1>1, <2>1 DEF Size, Goto, counted
    <3>2. QED BY <3>1 DEF NoFaultInv
  <2>2. CASE Init_dq(t)
    <3>1. /\ pc[t] = "init" /\ pc' = [pc EXCEPT ![t] = "map"] /\ UNCHANGED <<file, faulted>>
      BY <2>2 DEF Init_dq, Goto, counted
    <3>2. \A u \in Threads : pc[u] = "size" => pc'[u] = "size"
      BY <1>1, <3>1
    <3>3. pc'[t] = "map"
      BY <1>1, <3>1
    <3>4. QED BY <3>1, <3>2, <3>3 DEF NoFaultInv
  <2>3. CASE MapBit(t)
    <3>1. /\ pc[t] = "map" /\ memmapped' = TRUE /\ UNCHANGED <<file, faulted>>
          /\ \E s : pc' = [pc EXCEPT ![t] = s]
      BY <2>3 DEF MapBit, Goto, counted
    <3>2. \A u \in Threads : pc[u] = "size" => pc'[u] = "size"
      BY <1>1, <3>1
    <3>3. QED BY <3>1, <3>2 DEF NoFaultInv
  <2>4. CASE Wipe(t)
    <3>1. /\ pc[t] = "wipe" /\ pc' = [pc EXCEPT ![t] = "init"] /\ UNCHANGED <<file, faulted>>
      BY <2>4 DEF Wipe, Goto, counted
    <3>2. \A u \in Threads : pc[u] = "size" => pc'[u] = "size"
      BY <1>1, <3>1
    <3>3. pc'[t] = "init"
      BY <1>1, <3>1
    <3>4. QED BY <3>1, <3>2, <3>3 DEF NoFaultInv
  <2>5. ASSUME pc[t] \notin {"size", "init", "map"}, UNCHANGED <<file, memmapped, faulted>>,
               \E s : pc' = [pc EXCEPT ![t] = s]
        PROVE  NoFaultInv'
    BY <2>5, KeepsMapping
  <2>8. CASE mma_lock_atom(t)
    BY <2>5, <2>8 DEF mma_lock_atom, Goto, memory, counted
  <2>9. CASE Test(t)
    BY <2>5, <2>9 DEF Test, Onward, Goto, memory, counted
  <2>10. CASE Index(t)
    BY <2>5, <2>10 DEF Index, Onward, Goto, counted
  <2>11. CASE Count(t)
    <3>1. pc[t] = "count" /\ Onward(t) /\ UNCHANGED <<file, memmapped, counted>>
      BY <2>11 DEF Count
    <3>2. QED BY <2>5, <3>1 DEF Onward, Goto, counted
  <2>12. CASE Copy(t)
    BY <2>5, <2>12 DEF Copy, Onward, Goto, counted
  <2>13. CASE Look(t)
    BY <2>5, <2>13 DEF Look, Goto, memory, counted
  <2>14. CASE Stats(t)
    BY <2>5, <2>14 DEF Stats, Goto, memory, counted
  <2>15. CASE StatsReturn(t)
    BY <2>5, <2>15 DEF StatsReturn, Goto, memory, counted
  <2>16. CASE mma_unlock_atom(t)
    BY <2>5, <2>16 DEF mma_unlock_atom, Goto, memory, counted
  <2>6. CASE Fault(t)
    BY <2>6, NobodyFaults DEF Fault
  <2>7. QED BY <1>3, <2>1, <2>2, <2>3, <2>4, <2>6, <2>8, <2>9, <2>10, <2>11, <2>12,
               <2>13, <2>14, <2>15, <2>16 DEF Step
<1>4. ASSUME NEW p \in Procs, mmdq_open(p) \/ mmdq_close(p) PROVE NoFaultInv'
  BY <1>4 DEF mmdq_open, mmdq_close, memory, counted, NoFaultInv
<1>5. ASSUME NEW p \in Procs, Kill(p) PROVE FALSE
  BY <1>5 DEF Kill, LockInv, Types
<1>6. CASE UNCHANGED vars
  BY <1>6 DEF vars, memory, counted, NoFaultInv
<1>7. QED BY <1>2, <1>3, <1>4, <1>5, <1>6 DEF Next

(* Nobody has faulted at the start.                                        *)
LEMMA InitNoFault == Init => NoFaultInv
  BY DEF Init, NoFaultInv

(* Without kills no call of such processes faults either: no SIGBUS behind *)
(* the truncated file, no foreign heap pointer, no division by a zero      *)
(* dqslots.                                                                *)
THEOREM LockingSafe ==
  ASSUME OneThreadEach, CreateAlone, MaxKills = 0
  PROVE  Spec => []LockingInv
<1>1. Init => LockInv /\ NoFaultInv
  BY InitLock, InitNoFault
<1>2. LockInv /\ NoFaultInv /\ [Next]_vars => LockInv' /\ NoFaultInv'
  BY NextLock, NextNoFault
<1>3. LockInv /\ NoFaultInv => LockingInv
  BY LockInvImplies DEF LockingInv, NoFaultInv, NoFault
<1>4. QED BY <1>1, <1>2, <1>3, PTL DEF Spec

(* Quotient and remainder.                                                 *)
LEMMA DivMod ==
  ASSUME NEW n \in Nat, n > 0, NEW x \in Int
  PROVE  x = (x \div n) * n + (x % n) /\ x \div n \in Int /\ x % n \in 0 .. n - 1
<1>1. x = (x \div n) * n + (x % n) OBVIOUS
<1>2. x \div n \in Int OBVIOUS
<1>3. x % n \in 0 .. n - 1 OBVIOUS
<1>4. QED BY <1>1, <1>2, <1>3

(* Adding the divisor leaves the remainder.                                *)
LEMMA ModOfSum ==
  ASSUME NEW n \in Nat, n > 0, NEW q \in Int, NEW r \in 0..n-1 PROVE (n*q + r) % n = r
  OBVIOUS

(* Adding a multiple of the divisor leaves the remainder.                  *)
LEMMA ModMultiple ==
  ASSUME NEW n \in Nat, n > 0, NEW q \in Int, NEW y \in Int
  PROVE  (q * n + y) % n = y % n
<1> DEFINE p == y \div n
           r == y % n
<1>1. y = p * n + r /\ p \in Int /\ r \in 0 .. n - 1
  BY DivMod
<1> HIDE DEF p, r
<1>2. q * n + y = n * (q + p) + r /\ q + p \in Int
  BY <1>1
<1>3. (n * (q + p) + r) % n = r
  BY <1>1, <1>2, ModOfSum
<1>4. QED BY <1>2, <1>3 DEF r

(* A sum may be reduced in one of its terms first.                         *)
LEMMA ModAdd ==
  ASSUME NEW n \in Nat, n > 0, NEW x \in Int, NEW k \in Int
  PROVE ((x % n) + k) % n = (x + k) % n
<1> DEFINE q == x \div n
           r == x % n
<1>1. x = q * n + r /\ q \in Int /\ r \in Int
  BY DivMod
<1> HIDE DEF q, r
<1>2. x + k = q * n + (r + k) /\ r + k \in Int
  BY <1>1
<1>3. (q * n + (r + k)) % n = (r + k) % n
  BY <1>1, <1>2, ModMultiple
<1>4. QED BY <1>2, <1>3 DEF r

(* Moving an index moves the two ends one slot apart, until the count step *)
(* follows.                                                                *)
LEMMA IndexSkew ==
  ASSUME LockInv, NEW t \in Threads, Index(t), NEW s \in Int, Apart(hdr, s)
  PROVE  Apart(hdr', s + Moved(t))
<1> DEFINE n == hdr.dqslots
           b == hdr.dqbottom
           top == hdr.dqtop
           u == hdr.dquse
           arc == IF u = 0 THEN 0 ELSE u - 1
           x == b + n + s + arc
<1>1. n \in Nat /\ n > 0 /\ b \in Nat /\ top \in Nat /\ u \in Nat
  <2>1. pc[t] = "index"
    BY DEF Index
  <2>2. QED BY <2>1, DataCall, ThreadFacts, Fields
<1>2. arc \in Int /\ x \in Int
  BY <1>1
<1>3. top = x % n
  BY DEF Apart
<1>4. /\ hdr'.dqslots = n /\ hdr'.dquse = u
      /\ call[t].op \in {"atd", "abd", "rtd", "rbd"}
      /\ call[t].op \in Adds <=> call[t].op \in {"atd", "abd"}
  <2>1. pc[t] = "index"
    BY DEF Index
  <2>2. QED BY <2>1, DataCall, IndexHeader
<1>5. Moved(t) = IF ~Moves(t) THEN 0 ELSE IF call[t].op \in {"atd", "abd"} THEN 1 ELSE -1
  BY <1>4 DEF Moved, Moves
<1>6. HeaderType(hdr, Cells)
  BY ThreadFacts
<1> HIDE DEF n, b, top, u, arc, x
<1>7. CASE ~Moves(t)
  <2>1. hdr' = hdr /\ s + Moved(t) = s
    BY <1>5, <1>7, IndexHeader
  <2>2. QED BY <2>1
<1>8. CASE Moves(t) /\ call[t].op = "atd"
  <2>1. hdr' = [hdr EXCEPT !.dqtop = (top + 1) % n]
    BY <1>8, IndexHeader DEF Above, top, n
  <2>2. hdr'.dqtop = (top + 1) % n /\ hdr'.dqbottom = b
    BY <1>6, <2>1 DEF b, HeaderType
  <2>3. (top + 1) % n = (x + 1) % n
    <3>1. n \in Nat /\ n > 0 /\ x \in Int /\ 1 \in Int
      BY <1>1, <1>2
    <3>2. ((x % n) + 1) % n = (x + 1) % n
      BY <3>1, ModAdd, Zenon
    <3>3. QED BY <1>3, <3>2
  <2>4. x + 1 = b + n + (s + 1) + arc
    BY <1>1, <1>2 DEF x
  <2>5. Moved(t) = 1
    BY <1>5, <1>8
  <2>6. QED BY <1>4, <2>2, <2>3, <2>4, <2>5 DEF Apart, arc
<1>9. CASE Moves(t) /\ call[t].op = "rtd"
  <2>1. hdr' = [hdr EXCEPT !.dqtop = (top + n - 1) % n]
    BY <1>9, IndexHeader DEF Below, top, n
  <2>2. hdr'.dqtop = (top + n - 1) % n /\ hdr'.dqbottom = b
    BY <1>6, <2>1 DEF b, HeaderType
  <2>3. (top + (n - 1)) % n = (x + (n - 1)) % n
    <3>1. n \in Nat /\ n > 0 /\ x \in Int /\ n - 1 \in Int
      BY <1>1, <1>2
    <3>2. ((x % n) + (n - 1)) % n = (x + (n - 1)) % n
      BY <3>1, ModAdd, Zenon
    <3>3. QED BY <1>3, <3>2
  <2>4. x + (n - 1) = 1 * n + (b + n + (s + -1) + arc) /\ b + n + (s + -1) + arc \in Int
        /\ top + n - 1 = top + (n - 1)
    BY <1>1, <1>2 DEF x
  <2>5. (1 * n + (b + n + (s + -1) + arc)) % n = (b + n + (s + -1) + arc) % n
    <3>1. n \in Nat /\ n > 0 /\ 1 \in Int /\ b + n + (s + -1) + arc \in Int
      BY <1>1, <2>4
    <3>2. QED BY <3>1, ModMultiple, Zenon
  <2>6. Moved(t) = -1
    BY <1>5, <1>9
  <2>7. QED BY <1>4, <2>2, <2>3, <2>4, <2>5, <2>6 DEF Apart, arc
<1>10. CASE Moves(t) /\ call[t].op = "abd"
  <2>1. hdr' = [hdr EXCEPT !.dqbottom = (b + n - 1) % n]
    BY <1>10, IndexHeader DEF Below, b, n
  <2>2. hdr'.dqbottom = (b + n - 1) % n /\ hdr'.dqtop = top
    BY <1>6, <2>1 DEF top, HeaderType
  <2> DEFINE y == b + n - 1
             k == n + (s + 1) + arc
  <2>3. y \in Int /\ k \in Int /\ y + k = 1 * n + x /\ x \in Int
    BY <1>1, <1>2 DEF x
  <2>4. (y % n) \in Int /\ (y % n) + n + (s + 1) + arc = (y % n) + k
    BY <1>1, <1>2, <2>3, DivMod
  <2> HIDE DEF y, k
  <2>5. ((y % n) + k) % n = (y + k) % n
    BY <1>1, <2>3, ModAdd
  <2>6. (1 * n + x) % n = x % n
    <3>1. n \in Nat /\ n > 0 /\ 1 \in Int /\ x \in Int
      BY <1>1, <1>2
    <3>2. QED BY <3>1, ModMultiple, Zenon
  <2>7. Moved(t) = 1
    BY <1>5, <1>10
  <2>8. ((y % n) + n + (s + 1) + arc) % n = top
    BY <1>3, <2>3, <2>4, <2>5, <2>6
  <2>9. QED BY <1>4, <2>2, <2>7, <2>8 DEF Apart, arc, y
<1>11. CASE Moves(t) /\ call[t].op = "rbd"
  <2>1. hdr' = [hdr EXCEPT !.dqbottom = (b + 1) % n]
    BY <1>4, <1>11, IndexHeader DEF Above, b, n
  <2>2. hdr'.dqbottom = (b + 1) % n /\ hdr'.dqtop = top
    BY <1>6, <2>1 DEF top, HeaderType
  <2> DEFINE y == b + 1
             k == n + (s + -1) + arc
  <2>3. y \in Int /\ k \in Int /\ y + k = x
    BY <1>1, <1>2 DEF x
  <2>4. (y % n) \in Int /\ (y % n) + n + (s + -1) + arc = (y % n) + k
    BY <1>1, <1>2, <2>3, DivMod
  <2> HIDE DEF y, k
  <2>5. ((y % n) + k) % n = (y + k) % n
    BY <1>1, <2>3, ModAdd
  <2>6. Moved(t) = -1
    BY <1>5, <1>11
  <2>7. ((y % n) + n + (s + -1) + arc) % n = top
    BY <1>3, <2>3, <2>4, <2>5
  <2>8. QED BY <1>4, <2>2, <2>6, <2>7 DEF Apart, arc, y
<1>12. QED BY <1>4, <1>7, <1>8, <1>9, <1>10, <1>11

(* Counting the item closes the gap the index step opened.                 *)
LEMMA CountSkew ==
  ASSUME LockInv, NEW t \in Threads, Count(t), NEW s \in Int, Apart(hdr, s + Moved(t))
  PROVE  Apart(hdr', s)
<1> DEFINE arc(u) == IF u = 0 THEN 0 ELSE u - 1
<1>1. pc[t] = "count"
  BY DEF Count
<1>2. /\ call[t].op \in Adds \cup Removes /\ HeaderType(hdr, Cells)
      /\ call[t].op \in Adds <=> call[t].op \notin Removes
      /\ call[t].op \in Removes => 0 < hdr.dquse
  BY <1>1, DataCall, ThreadFacts DEF InCall
<1>3. /\ hdr.dqslots \in Nat /\ hdr.dquse \in Nat /\ hdr.dqbottom \in Nat
  BY <1>2, Fields
<1>4. /\ hdr'.dqslots = hdr.dqslots
      /\ hdr'.dquse = IF call[t].op \in Adds THEN hdr.dquse + 1 ELSE hdr.dquse - 1
  BY <1>2, CountHeader
<1>5. hdr'.dqtop = hdr.dqtop /\ hdr'.dqbottom = hdr.dqbottom
  BY <1>2, CountHeader DEF HeaderType
<1>6. arc(hdr'.dquse) = Moved(t) + arc(hdr.dquse)
  BY <1>2, <1>3, <1>4 DEF Moved
<1>7. Moved(t) \in Int /\ arc(hdr.dquse) \in Int
  BY <1>3 DEF Moved
<1>8. hdr.dqbottom + hdr.dqslots + (s + Moved(t)) + arc(hdr.dquse)
        = hdr'.dqbottom + hdr'.dqslots + s + arc(hdr'.dquse)
  BY <1>3, <1>4, <1>5, <1>6, <1>7
<1>9. QED BY <1>4, <1>5, <1>8 DEF Apart

(* A step that leaves the ends, the use count and the count step alone.    *)
LEMMA SkewKeeps ==
  ASSUME LockInv, SkewInv, NEW t \in Threads, NEW s \in Steps \ {"count"}, pc[t] # "count",
         pc' = [pc EXCEPT ![t] = s], \A u \in Threads \ {t} : call'[u] = call[u],
         hdr'.dqslots = hdr.dqslots, hdr'.dquse = hdr.dquse,
         hdr'.dqtop = hdr.dqtop, hdr'.dqbottom = hdr.dqbottom,
         UNCHANGED <<kills, handle, file>>
  PROVE  SkewInv'
<1>1. \A d : SkewBy(d) => SkewBy(d)'
  BY DEF SkewBy, Apart
<1>2. \A u \in Threads : pc'[u] = "count" <=> pc[u] = "count"
  BY DEF LockInv, Types
<1>3. \A u \in Threads : pc'[u] = "count" => Moved(u)' = Moved(u)
  BY <1>2 DEF Moved
<1>4. (\A u \in Threads : pc'[u] # "count") => SkewBy(0)'
  BY <1>1, <1>2 DEF SkewInv
<1>5. \A u \in Threads : pc'[u] = "count" => SkewBy(Moved(u))'
  BY <1>1, <1>2, <1>3 DEF SkewInv
<1>6. QED BY <1>4, <1>5 DEF SkewInv

(* A ring just formatted.                                                  *)
LEMMA FreshSkew ==
  ASSUME NEW slots \in Nat, slots > 0
  PROVE  Apart(NewDeque(slots, Blank), 0)
<1>1. (0 + slots + 0 + 0) = 1 * slots + 0 /\ (1 * slots + 0) % slots = 0 % slots /\ 0 % slots = 0
  BY ModMultiple
<1>2. QED BY <1>1 DEF Apart, NewDeque

(* A process that dies at its count step leaves the ends one slot further  *)
(* apart, and that death counts as a kill; one that dies elsewhere leaves  *)
(* them as they are.                                                       *)
LEMMA DiesSkew ==
  ASSUME LockInv, SkewInv, NEW p \in Procs, Dies(p), kills' \in Nat,
         \/ kills' = kills + 1
         \/ kills' = kills /\ \A t \in Threads : ProcOf[t] = p => pc[t] # "count"
  PROVE  SkewInv'
<1>1. /\ handle \in [Procs -> BOOLEAN] /\ kills \in Nat
      /\ handle' = [handle EXCEPT ![p] = FALSE]
      /\ pc' = [t \in Threads |-> IF ProcOf[t] = p THEN "idle" ELSE pc[t]]
      /\ call' = [t \in Threads |-> IF ProcOf[t] = p THEN NoCall ELSE call[t]]
      /\ UNCHANGED <<file, hdr>>
  BY DEF Dies, LockInv, Types, memory
<1>2. ASSUME NEW d \in Int, SkewBy(d) PROVE SkewBy(d)'
  <2>1. \A skew \in - kills .. kills : skew \in - kills' .. kills'
    BY <1>1
  <2>2. QED BY <1>1, <1>2, <2>1 DEF SkewBy
<1>3. ASSUME NEW t \in Threads, pc'[t] = "count" PROVE SkewBy(Moved(t))'
  <2>1. pc[t] = "count" /\ Moved(t)' = Moved(t) /\ Moved(t) \in Int
    BY <1>1, <1>3 DEF Moved
  <2>2. SkewBy(Moved(t))
    BY <2>1 DEF SkewInv
  <2>3. PICK d \in Int : d = Moved(t)
    BY <2>1
  <2>4. SkewBy(d)'
    BY <1>2, <2>2, <2>3
  <2>5. QED BY <2>1, <2>3, <2>4 DEF SkewBy
<1>4. ASSUME \A t \in Threads : pc'[t] # "count" PROVE SkewBy(0)'
  <2>1. CASE \A t \in Threads : pc[t] # "count"
    BY <1>2, <2>1 DEF SkewInv
  <2>2. CASE \E t \in Threads : pc[t] = "count"
    <3>1. PICK t \in Threads : pc[t] = "count"
      BY <2>2
    <3>2. ProcOf[t] = p
      BY <1>1, <1>4, <3>1
    <3>3. kills' = kills + 1 /\ SkewBy(Moved(t)) /\ Moved(t) \in -1 .. 1
      BY <3>1, <3>2 DEF SkewInv, Moved
    <3> DEFINE d == Moved(t)
    <3>4. kills' = kills + 1 /\ SkewBy(d) /\ d \in -1 .. 1
      BY <3>3
    <3> HIDE DEF d
    <3>5. ASSUME hdr.dqslots > 0
          PROVE  \E skew \in - kills' .. kills' : Apart(hdr, skew + 0)
      <4>1. PICK skew \in - kills .. kills : Apart(hdr, skew + d)
        BY <3>4, <3>5 DEF SkewBy
      <4>2. skew + d \in - kills' .. kills' /\ (skew + d) + 0 = skew + d
        BY <1>1, <3>4
      <4>3. QED BY <4>1, <4>2
    <3>6. QED BY <1>1, <3>5 DEF SkewBy
  <2>3. QED BY <2>1, <2>2
<1>5. \A q \in Procs : handle'[q] => file' = "sized"
  BY <1>1 DEF SkewInv
<1>6. QED BY <1>3, <1>4, <1>5 DEF SkewInv

(* The ring created earlier has no gap.                                    *)
LEMMA InitSkew == Init => SkewInv
<1> SUFFICES ASSUME Init PROVE SkewInv
  OBVIOUS
<1>1. PICK slots \in Capacities : hdr = NewDeque(slots, Blank)
  BY DEF Init
<1>2. slots \in Nat /\ hdr.dqslots = slots
  BY <1>1, MmDequeAssumption DEF NewDeque
<1>3. hdr.dqslots > 0 => Apart(hdr, 0 + 0)
  BY <1>1, <1>2, FreshSkew
<1>4. 0 \in - kills .. kills
  BY DEF Init
<1>5. SkewBy(0)
  BY <1>3, <1>4 DEF SkewBy
<1>6. QED BY <1>5 DEF Init, SkewInv

(* Nobody else is at the count step of a call while a thread writes.       *)
LEMMA OnlyOne ==
  ASSUME LockInv, SkewInv, OneThreadEach, NEW t \in Threads, Writing(t)
  PROVE  /\ \A u \in Threads \ {t} : pc[u] # "count"
         /\ pc[t] # "count" => SkewBy(0)
<1>1. \A u \in Threads \ {t} : pc[u] # "count"
  BY Alone
<1>2. QED BY <1>1 DEF SkewInv

(* Every step of a call keeps the gap within the kills so far.             *)
LEMMA StepSkew ==
  ASSUME LockInv, SkewInv, OneThreadEach, NEW t \in Threads, Step(t)
  PROVE  SkewInv'
<1>1. pc \in [Threads -> Steps] /\ call \in [Threads -> Calls] /\ handle \in [Procs -> BOOLEAN] /\ kills \in Nat
  BY DEF LockInv, Types
<1>2. /\ hdr.dqslots \in Nat /\ hdr.dquse \in Nat /\ hdr.dqtop \in Nat /\ hdr.dqbottom \in Nat
      /\ HeaderType(hdr, Cells) /\ ProcOf[t] \in Procs
  BY ThreadFacts, Fields
<1>3. ASSUME pc[t] # "count", NEW s \in Steps \ {"count"}, pc' = [pc EXCEPT ![t] = s],
             \A u \in Threads \ {t} : call'[u] = call[u],
             hdr' = hdr, UNCHANGED <<kills, handle, file>>
      PROVE  SkewInv'
  BY <1>3, SkewKeeps
<1>4. CASE Size(t)
  <2>1. /\ pc[t] = "size" /\ pc' = [pc EXCEPT ![t] = "init"] /\ file' = "sized"
        /\ UNCHANGED <<hdr, call, kills>>
    BY <1>4 DEF Size, Goto, local, counted
  <2>2. Writing(t)
    BY <2>1, ThreadFacts DEF Writing, StepOf
  <2>3. \A u \in Threads : pc'[u] # "count"
    BY <1>1, <2>1, <2>2, OnlyOne
  <2>4. SkewBy(0)
    BY <2>1, <2>2, OnlyOne
  <2>5. QED BY <2>1, <2>3, <2>4 DEF SkewInv, SkewBy
<1>5. CASE Init_dq(t)
  <2>1. /\ pc[t] = "init" /\ pc' = [pc EXCEPT ![t] = "map"] /\ hdr' = NewDeque(call[t].slots, Blank)
        /\ UNCHANGED <<file, handle, kills>>
    BY <1>5 DEF Init_dq, Goto, counted
  <2>2. Writing(t) /\ call[t].slots \in Nat
    BY <2>1, ThreadFacts DEF Writing, StepOf, Inside
  <2>3. \A u \in Threads : pc'[u] # "count"
    BY <1>1, <2>1, <2>2, OnlyOne
  <2>4. hdr'.dqslots = call[t].slots
    BY <2>1 DEF NewDeque
  <2>5. hdr'.dqslots > 0 => Apart(hdr', 0 + 0)
    BY <2>1, <2>2, <2>4, FreshSkew
  <2>6. 0 \in - kills' .. kills'
    BY <1>1, <2>1
  <2>7. SkewBy(0)'
    BY <2>5, <2>6 DEF SkewBy
  <2>8. QED BY <2>1, <2>3, <2>7 DEF SkewInv
<1>6. CASE Wipe(t)
  <2>1. /\ pc[t] = "wipe" /\ pc' = [pc EXCEPT ![t] = "init"] /\ hdr' = ZeroHeader
        /\ UNCHANGED <<file, handle, kills>>
    BY <1>6 DEF Wipe, Goto, counted
  <2>2. hdr'.dqslots = 0
    BY <2>1, ZeroType
  <2>3. \A d : SkewBy(d)'
    BY <2>2 DEF SkewBy
  <2>4. QED BY <2>1, <2>3 DEF SkewInv
<1>7. CASE Index(t)
  <2>1. /\ pc[t] = "index" /\ Onward(t) /\ UNCHANGED <<file, handle, kills, call>>
    BY <1>7 DEF Index, local, counted
  <2>2. Writing(t) /\ call[t].op \in Adds \cup Removes
    BY <2>1, DataCall
  <2>3. pc' = [pc EXCEPT ![t] = "count"]
    BY <2>1, <2>2, AfterSteps DEF Onward, Goto
  <2>4. hdr'.dqslots = hdr.dqslots /\ hdr'.dquse = hdr.dquse
    BY <1>7, IndexHeader
  <2>5. Moved(t)' = Moved(t) /\ Moved(t) \in Int
    BY <2>1, <2>4 DEF Moved
  <2>6. PICK d \in Int : d = Moved(t)
    BY <2>5
  <2>7. SkewBy(d)'
    <3>1. SkewBy(0)
      BY <2>1, <2>2, OnlyOne
    <3>2. ASSUME hdr'.dqslots > 0
          PROVE  \E skew \in - kills' .. kills' : Apart(hdr', skew + d)
      <4>1. PICK skew \in - kills .. kills : Apart(hdr, skew + 0)
        BY <2>4, <3>1, <3>2 DEF SkewBy
      <4>2. skew \in Int /\ skew + 0 = skew
        BY <1>1
      <4>3. Apart(hdr', skew + d)
        BY <1>7, <2>6, <4>1, <4>2, IndexSkew
      <4>4. QED BY <2>1, <4>1, <4>3
    <3>3. QED BY <3>2 DEF SkewBy
  <2>8. \A u \in Threads : pc'[u] = "count" => u = t
    BY <1>1, <2>2, <2>3, OnlyOne
  <2>9. pc'[t] = "count"
    BY <1>1, <2>3
  <2>10. SkewBy(Moved(t))'
    BY <2>5, <2>6, <2>7 DEF SkewBy
  <2>11. QED BY <2>1, <2>8, <2>9, <2>10 DEF SkewInv
<1>8. CASE Count(t)
  <2>1. /\ pc[t] = "count" /\ Onward(t) /\ UNCHANGED <<file, handle, kills, call>>
    BY <1>8 DEF Count, local, counted
  <2>2. /\ Writing(t) /\ call[t].op \in Adds \cup Removes
        /\ call[t].op \in Adds <=> call[t].op \notin Removes
    BY <2>1, DataCall
  <2>3. pc' = [pc EXCEPT ![t] = IF call[t].op \in Adds THEN "copy" ELSE "unlock"]
    BY <2>1, <2>2, AfterSteps DEF Onward, Goto
  <2>4. hdr'.dqslots = hdr.dqslots
    BY <1>8, CountHeader
  <2>5. Moved(t) \in Int
    BY DEF Moved
  <2>6. SkewBy(Moved(t))
    BY <2>1 DEF SkewInv
  <2>7. SkewBy(0)'
    <3>1. ASSUME hdr'.dqslots > 0
          PROVE  \E skew \in - kills' .. kills' : Apart(hdr', skew + 0)
      <4>1. PICK skew \in - kills .. kills : Apart(hdr, skew + Moved(t))
        BY <2>4, <2>6, <3>1 DEF SkewBy
      <4>2. skew \in Int /\ skew + 0 = skew
        BY <1>1
      <4>3. Apart(hdr', skew)
        BY <1>8, <4>1, <4>2, CountSkew
      <4>4. QED BY <2>1, <4>1, <4>2, <4>3
    <3>2. QED BY <3>1 DEF SkewBy
  <2>8. \A u \in Threads : pc'[u] # "count"
    BY <1>1, <2>2, <2>3, OnlyOne
  <2>9. QED BY <2>1, <2>7, <2>8 DEF SkewInv
<1>9. CASE Copy(t)
  <2>1. /\ pc[t] = "copy" /\ Onward(t) /\ UNCHANGED <<file, handle, kills, call>>
    BY <1>9 DEF Copy, counted
  <2>2. /\ call[t].op \in Adds \cup Removes
        /\ call[t].op \in Adds <=> call[t].op \notin Removes
    BY <2>1, DataCall
  <2>3. pc' = [pc EXCEPT ![t] = IF call[t].op \in Adds THEN "unlock" ELSE "index"]
    BY <2>1, <2>2, AfterSteps DEF Onward, Goto
  <2>4. /\ hdr'.dqslots = hdr.dqslots /\ hdr'.dquse = hdr.dquse
        /\ hdr'.dqtop = hdr.dqtop /\ hdr'.dqbottom = hdr.dqbottom
    BY <1>9, CopyHeader
  <2>5. "unlock" \in Steps \ {"count"} /\ "index" \in Steps \ {"count"}
    BY DEF Steps, Touches
  <2>6. CASE call[t].op \in Adds
    <3>1. pc' = [pc EXCEPT ![t] = "unlock"]
      BY <2>3, <2>6
    <3>2. QED BY <2>1, <2>4, <2>5, <3>1, SkewKeeps
  <2>7. CASE call[t].op \notin Adds
    <3>1. pc' = [pc EXCEPT ![t] = "index"]
      BY <2>3, <2>7
    <3>2. QED BY <2>1, <2>4, <2>5, <3>1, SkewKeeps
  <2>8. QED BY <2>6, <2>7
<1>10. CASE MapBit(t)
  <2>1. /\ pc[t] = "map" /\ UNCHANGED <<hdr, file, handle, kills>>
        /\ \E s \in {"idle", "unlock"} : pc' = [pc EXCEPT ![t] = s]
        /\ \A u \in Threads \ {t} : call'[u] = call[u]
    BY <1>1, <1>10 DEF MapBit, Goto, counted
  <2>2. QED BY <1>3, <2>1 DEF Steps, Touches
<1>11. CASE mma_lock_atom(t)
  <2>1. /\ pc[t] = "lock" /\ UNCHANGED <<hdr, file, handle, kills, call>>
        /\ \E s \in {"wipe", "look", "test"} : pc' = [pc EXCEPT ![t] = s]
    BY <1>11 DEF mma_lock_atom, Goto, memory, local, counted
  <2>2. QED BY <1>3, <2>1 DEF Steps, Touches
<1>12. CASE Test(t)
  <2>1. /\ pc[t] = "test" /\ UNCHANGED <<hdr, file, handle, kills, call>>
        /\ Onward(t) \/ Goto(t, "unlock")
    BY <1>12 DEF Test, memory, counted
  <2>2. call[t].op \in Adds \cup Removes
    BY <2>1, ThreadFacts DEF StepOf
  <2>3. \E s \in {"index", "copy", "unlock"} : pc' = [pc EXCEPT ![t] = s]
    BY <2>1, <2>2, AfterSteps DEF Onward, Goto
  <2>4. QED BY <1>3, <2>1, <2>3 DEF Steps, Touches
<1>13. CASE Look(t) \/ Stats(t)
  <2>1. /\ pc[t] # "count" /\ UNCHANGED <<hdr, file, handle, kills, call>>
        /\ \E s \in {"unlock", "stats2", "stats3"} : pc' = [pc EXCEPT ![t] = s]
    BY <1>13 DEF Look, Stats, Goto, memory, counted
  <2>2. QED BY <1>3, <2>1 DEF Steps, Touches
<1>14. CASE StatsReturn(t) \/ mma_unlock_atom(t)
  <2>1. /\ pc[t] # "count" /\ UNCHANGED <<hdr, file, handle, kills>>
        /\ pc' = [pc EXCEPT ![t] = "idle"]
        /\ call' = [call EXCEPT ![t] = NoCall]
    BY <1>14 DEF StatsReturn, mma_unlock_atom, Goto, memory, counted
  <2>2. QED BY <1>1, <1>3, <2>1 DEF Steps
<1>15. CASE Fault(t)
  <2>1. pc[t] # "count"
    <3>1. ASSUME pc[t] = "count" PROVE file = "sized"
      <4>1. handle[ProcOf[t]]
        BY <3>1, DataCall, ThreadFacts DEF InCall
      <4>2. QED BY <1>2, <4>1 DEF SkewInv
    <3>2. QED BY <1>15, <3>1 DEF Fault, Faults
  <2>2. \A u \in Threads : ProcOf[u] = ProcOf[t] => pc[u] # "count"
    BY <2>1 DEF OneThreadEach
  <2>3. Dies(ProcOf[t]) /\ kills' = kills /\ kills' \in Nat
    BY <1>1, <1>15 DEF Fault
  <2>4. QED BY <1>2, <2>2, <2>3, DiesSkew
<1>16. QED BY <1>4, <1>5, <1>6, <1>7, <1>8, <1>9, <1>10, <1>11, <1>12, <1>13, <1>14, <1>15 DEF Step

(* Every step of the system keeps the gap within the kills so far.         *)
LEMMA NextSkew ==
  ASSUME OneThreadEach, CreateAlone
  PROVE  LockInv /\ SkewInv /\ [Next]_vars => SkewInv'
<1> SUFFICES ASSUME LockInv, SkewInv, [Next]_vars PROVE SkewInv'
  OBVIOUS
<1>1. pc \in [Threads -> Steps] /\ call \in [Threads -> Calls] /\ handle \in [Procs -> BOOLEAN] /\ kills \in Nat
  BY DEF LockInv, Types
<1>2. ASSUME NEW t \in Threads, Starts(t) PROVE SkewInv'
  <2>1. ASSUME NEW slots \in Capacities, mmdq_create(t, slots) PROVE SkewInv'
    <3>1. hdr' = ZeroHeader /\ handle' = handle /\ \A p \in Procs : ~handle[p]
      BY <2>1 DEF mmdq_create
    <3>2. hdr'.dqslots = 0
      BY <3>1, ZeroType
    <3>3. \A d : SkewBy(d)'
      BY <3>2 DEF SkewBy
    <3>4. QED BY <3>1, <3>3 DEF SkewInv
  <2>2. ASSUME NEW op, NEW item, Call(t, op, item) PROVE SkewInv'
    <3>1. /\ pc[t] = "idle" /\ UNCHANGED <<hdr, file, handle, kills>>
          /\ \E s \in {"stats", "lock"} : pc' = [pc EXCEPT ![t] = s]
          /\ \A u \in Threads \ {t} : call'[u] = call[u]
      BY <1>1, <2>2 DEF Call, Goto, memory, counted
    <3>2. QED BY <3>1, SkewKeeps DEF Steps, Touches
  <2>3. QED BY <1>2, <2>1, <2>2 DEF Starts, mmdq_atd, mmdq_abd, mmdq_rtd, mmdq_rbd,
               mmdq_isempty, mmdq_reset, mmdq_stats
<1>3. ASSUME NEW t \in Threads, Step(t) PROVE SkewInv'
  BY <1>3, StepSkew
<1>4. ASSUME NEW p \in Procs, mmdq_open(p) \/ mmdq_close(p) PROVE SkewInv'
  <2>1. /\ UNCHANGED <<hdr, file, pc, call, kills>>
        /\ \A q \in Procs : handle'[q] => handle[q] \/ file = "sized"
    BY <1>1, <1>4 DEF mmdq_open, mmdq_close, memory, local, counted
  <2>2. \A d : SkewBy(d) => SkewBy(d)'
    BY <2>1 DEF SkewBy
  <2>3. \A t \in Threads : Moved(t)' = Moved(t)
    BY <2>1 DEF Moved
  <2>4. QED BY <2>1, <2>2, <2>3 DEF SkewInv
<1>5. ASSUME NEW p \in Procs, Kill(p) PROVE SkewInv'
  BY <1>1, <1>5, DiesSkew DEF Kill
<1>6. CASE UNCHANGED vars
  <2>1. UNCHANGED <<hdr, file, pc, call, kills, handle>>
    BY <1>6 DEF vars, memory, local, counted
  <2>2. \A d : SkewBy(d) => SkewBy(d)'
    BY <2>1 DEF SkewBy
  <2>3. \A t \in Threads : Moved(t)' = Moved(t)
    BY <2>1 DEF Moved
  <2>4. QED BY <2>1, <2>2, <2>3 DEF SkewInv
<1>7. QED BY <1>2, <1>3, <1>4, <1>5, <1>6 DEF Next

(* The gap bound and the types are the damage bound TLC checks.            *)
LEMMA DamageImplied == LockInv /\ SkewInv => DamageBounded
<1> SUFFICES ASSUME LockInv, SkewInv PROVE DamageBounded
  OBVIOUS
<1>1. HeaderType(hdr, Cells) /\ kills \in Nat
  BY DEF LockInv, Types
<1>2. HeaderInBounds
  BY <1>1, Fields DEF HeaderInBounds
<1>3. ASSUME \A p \in Procs : lock[p] # "write", hdr.dqslots > 0
      PROVE  \E skew \in - kills .. kills :
               hdr.dqtop = (hdr.dqbottom + hdr.dqslots + skew
                             + (IF hdr.dquse = 0 THEN 0 ELSE hdr.dquse - 1)) % hdr.dqslots
  <2>1. ASSUME NEW t \in Threads, pc[t] = "count" PROVE FALSE
    <3>1. call[t].op \in Adds \cup Removes /\ Inside(t)
      BY <2>1, DataCall DEF Inside
    <3>2. lock[ProcOf[t]] = "write" /\ ProcOf[t] \in Procs
      BY <3>1, ThreadFacts DEF InCall, LockType, Adds, Removes
    <3>3. QED BY <1>3, <3>2
  <2>2. SkewBy(0)
    BY <2>1 DEF SkewInv
  <2>3. PICK skew \in - kills .. kills : Apart(hdr, skew + 0)
    BY <1>3, <2>2 DEF SkewBy
  <2>4. skew + 0 = skew
    BY <1>1
  <2>5. QED BY <2>3, <2>4 DEF Apart
<1>4. QED BY <1>2, <1>3 DEF DamageBounded, SkewBoundedByKills

(* However many processes are killed inside their calls, the indices and   *)
(* the count stay inside the slots, and each kill moves the two ends of    *)
(* the ring apart by one slot at most.                                     *)
THEOREM Damage ==
  ASSUME OneThreadEach, CreateAlone
  PROVE  Spec => []DamageBounded
<1>1. Init => LockInv /\ SkewInv
  BY InitLock, InitSkew
<1>2. LockInv /\ SkewInv /\ [Next]_vars => LockInv' /\ SkewInv'
  BY NextLock, NextSkew
<1>3. LockInv /\ SkewInv => DamageBounded
  BY DamageImplied
<1>4. QED BY <1>1, <1>2, <1>3, PTL DEF Spec

-----------------------------------------------------------------------------
(* The ends of the ring once the index step of a call on the committed     *)
(* header is done, and the header with these ends.                         *)
(* The ends of the ring once the index step of a call on the committed     *)
(* header is done, and the header with these ends.                         *)
EndTop(op) ==
  IF op = "atd" /\ committed.dquse # 0 THEN Above(committed, committed.dqtop)
  ELSE IF op = "rtd" /\ committed.dquse # 1 THEN Below(committed, committed.dqtop)
  ELSE committed.dqtop
EndBottom(op) ==
  IF op = "abd" /\ committed.dquse # 0 THEN Below(committed, committed.dqbottom)
  ELSE IF op = "rbd" /\ committed.dquse # 1 THEN Above(committed, committed.dqbottom)
  ELSE committed.dqbottom
Ends(op, use, slot) ==
  [ dq_open |-> committed.dq_open, dqslots |-> committed.dqslots, dquse |-> use,
    dqtop |-> EndTop(op), dqbottom |-> EndBottom(op), slot |-> slot ]

(* What the call of a thread will do to the committed header: whether it   *)
(* succeeds, the item it moves and the header it leaves; and the result    *)
(* the thread holds.                                                       *)
Fits(t)  == IF call[t].op \in Adds THEN HasRoom(committed) ELSE HasItem(committed)
Item(t)  == IF call[t].op \in Adds THEN call[t].item
            ELSE IF call[t].op = "rtd" THEN TopItem(committed) ELSE BottomItem(committed)
Done(t)  == IF call[t].op = "atd" THEN Atd(committed, call[t].item)
            ELSE IF call[t].op = "abd" THEN Abd(committed, call[t].item)
            ELSE IF call[t].op = "rtd" THEN Rtd(committed)
            ELSE Rbd(committed)
Holds(t) == ~res[t].flag /\ res[t].item = <<Item(t)>>
Fresh(t) == ~res[t].flag /\ res[t].item = << >>

(* How far an insertion has come: index, count, copy, in this order.       *)
AddProgress(t) == call[t].op \in Adds =>
  /\ call[t].item \in Items
  /\ pc[t] = "index" => Fits(t) /\ hdr = committed /\ Fresh(t)
  /\ pc[t] = "count" => /\ Fits(t) /\ Fresh(t)
                        /\ hdr = Ends(call[t].op, committed.dquse, committed.slot)
  /\ pc[t] = "copy" => /\ Fits(t) /\ Fresh(t)
                       /\ hdr = Ends(call[t].op, committed.dquse + 1, committed.slot)

(* How far a removal has come: copy, index, count, in this order.          *)
RemoveProgress(t) == call[t].op \in Removes =>
  /\ pc[t] = "copy" => Fits(t) /\ hdr = committed /\ Fresh(t)
  /\ pc[t] = "index" => Fits(t) /\ hdr = committed /\ Holds(t)
  /\ pc[t] = "count" => /\ Fits(t) /\ Holds(t)
                        /\ hdr = Ends(call[t].op, committed.dquse, committed.slot)

(* Before its stores an insertion or a removal sees the committed header,  *)
(* at its unlock the header is the one its call leaves.                    *)
DoneProgress(t) == call[t].op \in Adds \cup Removes =>
  /\ pc[t] = "test" => hdr = committed
  /\ pc[t] = "unlock" =>
       \/ Fits(t) /\ hdr = Done(t) /\ Holds(t)
       \/ ~Fits(t) /\ hdr = committed /\ res[t].flag /\ res[t].item = << >>

(* How far a reset or a creation has come.                                 *)
FormatProgress(t) ==
  /\ call[t].op = "reset" =>
       /\ pc[t] = "wipe" => hdr = committed
       /\ pc[t] \in {"init", "map"} => call[t].slots = committed.dqslots
       /\ pc[t] \in {"map", "unlock"} => hdr = NewDeque(committed.dqslots, Blank)
  /\ call[t].op = "create" =>
       /\ call[t].slots \in Capacities
       /\ pc[t] = "map" => hdr = NewDeque(call[t].slots, Blank)

(* Each call has done its part so far and nothing else.                    *)
Progress(t) ==
  /\ AddProgress(t) /\ RemoveProgress(t) /\ DoneProgress(t) /\ FormatProgress(t)
  /\ call[t].op \in {"none", "create", "reset"} \/ pc[t] \in {"lock", "test"} => Fresh(t)

(* The header the last writing call left is a consistent ring.             *)
Committed == /\ HeaderType(committed, Cells) /\ RingConsistent(committed)
             /\ committed.dq_open = TRUE

(* The refinement invariant, inductive with LockInv and NoFaultInv:        *)
(* between writing calls the header is the committed one, during one it is *)
(* as far from it as the call has come.                                    *)
CommitInv == /\ Committed
             /\ \A t \in Threads : Progress(t)
             /\ (\A t \in Threads : ~Writing(t)) => hdr = committed

(* A step of one thread that writes alone, or leaves the header alone,     *)
(* keeps what the other threads have done and the committed header.        *)
LEMMA CommitFrame ==
  ASSUME LockInv, CommitInv, OneThreadEach, NEW t \in Threads, Others(t), Committed',
         Progress(t)',
         UNCHANGED <<hdr, committed>> \/ Writing(t),
         Writing(t)' \/ hdr' = committed' \/ (~Writing(t) /\ UNCHANGED <<hdr, committed>>)
  PROVE  CommitInv'
<1>1. ASSUME NEW u \in Threads \ {t} PROVE Progress(u)'
  <2>1. Progress(u) /\ pc'[u] = pc[u] /\ call'[u] = call[u] /\ res'[u] = res[u]
    BY DEF CommitInv, Others
  <2>2. CASE UNCHANGED <<hdr, committed>>
    BY <2>1, <2>2 DEF Progress, AddProgress, RemoveProgress, DoneProgress, FormatProgress,
       Fits, Holds, Fresh, Item, Done, Ends, EndTop, EndBottom
  <2>3. CASE Writing(t)
    <3>1. pc[u] \in {"idle", "lock", "stats", "stats2", "stats3"} /\ call[u].op # "create"
      BY <2>3, Alone
    <3>2. QED BY <2>1, <3>1 DEF Progress, AddProgress, RemoveProgress, DoneProgress,
                 FormatProgress, Fresh
  <2>4. QED BY <2>2, <2>3
<1>2. ASSUME \A u \in Threads : ~Writing(u)' PROVE hdr' = committed'
  <2>1. ASSUME ~Writing(t), UNCHANGED <<hdr, committed>> PROVE hdr' = committed'
    <3>1. \A u \in Threads \ {t} : Writing(u)' = Writing(u)
      BY DEF Writing, Inside, Others
    <3>2. \A u \in Threads : ~Writing(u)
      BY <1>2, <2>1, <3>1
    <3>3. QED BY <2>1, <3>2 DEF CommitInv
  <2>2. QED BY <1>2, <2>1
<1>3. QED BY <1>1, <1>2 DEF CommitInv

(* The deque created earlier is committed.                                 *)
LEMMA InitCommit ==
  ASSUME Init
  PROVE  CommitInv /\ committed = hdr
<1>1. PICK slots \in Capacities : hdr = NewDeque(slots, Blank)
  BY DEF Init
<1>2. slots \in Nat /\ Blank \in Cells /\ hdr.dq_open = TRUE /\ committed = hdr
  BY <1>1, MmDequeAssumption DEF Cells, NewDeque, Init
<1>3. Committed
  BY <1>1, <1>2, NewDequeOK DEF Committed
<1>4. ASSUME NEW t \in Threads PROVE Progress(t)
  <2>1. pc[t] = "idle" /\ call[t].op = "none" /\ Fresh(t)
    BY DEF Init, NoCall, NoRes, Fresh
  <2>2. QED BY <2>1 DEF Progress, AddProgress, RemoveProgress, DoneProgress, FormatProgress, Adds, Removes
<1>5. QED BY <1>2, <1>3, <1>4 DEF CommitInv

(* Steps of a call that store nothing in the header.                       *)
LEMMA TestCommit ==
  ASSUME LockInv, CommitInv, OneThreadEach, NEW t \in Threads, Test(t)
  PROVE  CommitInv'
<1> DEFINE fits == IF call[t].op \in Adds THEN HasRoom(hdr) ELSE HasItem(hdr)
<1>1. /\ pc[t] = "test" /\ pc \in [Threads -> Steps] /\ res \in [Threads -> Results]
      /\ IF fits THEN Onward(t) ELSE Goto(t, "unlock")
      /\ res' = [res EXCEPT ![t].flag = ~fits]
      /\ UNCHANGED <<hdr, call, committed>>
  BY DEF Test, LockInv, Types, memory, history
<1>2. /\ call[t].op \in Adds \cup Removes /\ call[t].op \notin Adds \cap Removes
      /\ call[t].op \notin {"create", "reset", "none"} /\ Writing(t)
  BY <1>1, ThreadFacts DEF StepOf, Adds, Removes, Writing, Inside
<1>3. /\ Progress(t) /\ hdr = committed /\ Fresh(t)
      /\ call[t].op \in Adds => call[t].item \in Items
  BY <1>1, <1>2 DEF CommitInv, Progress, DoneProgress, AddProgress
<1>4. fits = Fits(t)
  BY <1>3 DEF Fits
<1> HIDE DEF fits
<1>5. pc' = [pc EXCEPT ![t] = IF ~fits THEN "unlock"
                             ELSE IF call[t].op \in Adds THEN "index" ELSE "copy"]
  BY <1>1, <1>2, AfterSteps DEF Onward, Goto
<1>6. /\ Fits(t)' = Fits(t) /\ res'[t].flag = ~fits /\ res'[t].item = << >>
      /\ call'[t] = call[t] /\ Others(t)
      /\ pc'[t] = IF ~fits THEN "unlock" ELSE IF call[t].op \in Adds THEN "index" ELSE "copy"
  <2>1. res[t] \in Results
    BY ThreadFacts
  <2>2. Others(t)
    BY <1>1, <1>5 DEF Others
  <2>3. res'[t].flag = ~fits /\ res'[t].item = << >>
    BY <1>1, <1>3, <2>1 DEF Results, Fresh
  <2>4. QED BY <1>1, <1>5, <2>2, <2>3 DEF Fits
<1>7. Progress(t)'
  BY <1>1, <1>2, <1>3, <1>4, <1>6 DEF Progress, AddProgress, RemoveProgress, DoneProgress,
     FormatProgress, Fresh
<1>8. Committed' /\ Writing(t)'
  BY <1>1, <1>2, <1>6 DEF CommitInv, Committed, Writing, Inside
<1>9. QED BY <1>1, <1>2, <1>6, <1>7, <1>8, CommitFrame

(* A header is the record of its fields.                                   *)
LEMMA RecordOfHeader ==
  ASSUME NEW items, NEW dq, HeaderType(dq, items)
  PROVE  dq = [ dq_open |-> dq.dq_open, dqslots |-> dq.dqslots, dquse |-> dq.dquse,
                dqtop |-> dq.dqtop, dqbottom |-> dq.dqbottom, slot |-> dq.slot ]
  BY DEF HeaderType

(* The index step of a call on the committed header gives the ends its     *)
(* result will have.                                                       *)
LEMMA IndexEnds ==
  ASSUME LockInv, NEW t \in Threads, Index(t), hdr = committed
  PROVE  hdr' = Ends(call[t].op, committed.dquse, committed.slot)
<1>1. /\ pc[t] = "index" /\ call[t].op \in {"atd", "abd", "rtd", "rbd"}
      /\ call[t].op \in Adds <=> call[t].op \in {"atd", "abd"}
      /\ HeaderType(hdr, Cells) /\ hdr.dqslots > 0
  BY DataCall, ThreadFacts DEF Index
<1>2. /\ Above(hdr, hdr.dqtop) \in 0 .. hdr.dqslots - 1
      /\ Above(hdr, hdr.dqbottom) \in 0 .. hdr.dqslots - 1
      /\ Below(hdr, hdr.dqtop) \in 0 .. hdr.dqslots - 1
      /\ Below(hdr, hdr.dqbottom) \in 0 .. hdr.dqslots - 1
  <2>1. hdr.dqslots \in Nat /\ hdr.dqtop \in Nat /\ hdr.dqbottom \in Nat
    BY <1>1, Fields
  <2>2. /\ hdr.dqtop + 1 \in Nat /\ hdr.dqtop + hdr.dqslots - 1 \in Nat
        /\ hdr.dqbottom + 1 \in Nat /\ hdr.dqbottom + hdr.dqslots - 1 \in Nat
    BY <1>1, <2>1
  <2>3. QED BY <1>1, <2>1, <2>2, ModRange DEF Above, Below
<1>3. CASE ~Moves(t)
  <2>1. hdr' = hdr
    BY <1>3, IndexHeader
  <2>2. EndTop(call[t].op) = hdr.dqtop /\ EndBottom(call[t].op) = hdr.dqbottom
    BY <1>1, <1>3 DEF Moves, EndTop, EndBottom
  <2>3. QED BY <1>1, <2>1, <2>2, RecordOfHeader DEF Ends
<1>4. CASE Moves(t) /\ call[t].op = "atd"
  <2>1. hdr' = [hdr EXCEPT !.dqtop = Above(hdr, hdr.dqtop)]
    BY <1>4, IndexHeader
  <2>2. EndTop(call[t].op) = Above(hdr, hdr.dqtop) /\ EndBottom(call[t].op) = hdr.dqbottom
    BY <1>1, <1>4 DEF Moves, EndTop, EndBottom
  <2>3. QED BY <1>1, <1>2, <2>1, <2>2, SetTop DEF Ends
<1>5. CASE Moves(t) /\ call[t].op = "abd"
  <2>1. hdr' = [hdr EXCEPT !.dqbottom = Below(hdr, hdr.dqbottom)]
    BY <1>5, IndexHeader
  <2>2. EndTop(call[t].op) = hdr.dqtop /\ EndBottom(call[t].op) = Below(hdr, hdr.dqbottom)
    BY <1>1, <1>5 DEF Moves, EndTop, EndBottom
  <2>3. QED BY <1>1, <1>2, <2>1, <2>2, SetBottom DEF Ends
<1>6. CASE Moves(t) /\ call[t].op = "rtd"
  <2>1. hdr' = [hdr EXCEPT !.dqtop = Below(hdr, hdr.dqtop)]
    BY <1>6, IndexHeader
  <2>2. EndTop(call[t].op) = Below(hdr, hdr.dqtop) /\ EndBottom(call[t].op) = hdr.dqbottom
    BY <1>1, <1>6 DEF Moves, EndTop, EndBottom
  <2>3. QED BY <1>1, <1>2, <2>1, <2>2, SetTop DEF Ends
<1>7. CASE Moves(t) /\ call[t].op = "rbd"
  <2>1. hdr' = [hdr EXCEPT !.dqbottom = Above(hdr, hdr.dqbottom)]
    BY <1>7, IndexHeader
  <2>2. EndTop(call[t].op) = hdr.dqtop /\ EndBottom(call[t].op) = Above(hdr, hdr.dqbottom)
    BY <1>1, <1>7 DEF Moves, EndTop, EndBottom
  <2>3. QED BY <1>1, <1>2, <2>1, <2>2, SetBottom DEF Ends
<1>8. QED BY <1>1, <1>3, <1>4, <1>5, <1>6, <1>7

(* The store to dqtop or dqbottom does its part of the call.               *)
LEMMA IndexCommit ==
  ASSUME LockInv, CommitInv, OneThreadEach, NEW t \in Threads, Index(t)
  PROVE  CommitInv'
<1>1. /\ pc[t] = "index" /\ pc \in [Threads -> Steps] /\ Onward(t)
      /\ UNCHANGED <<call, res, committed>>
  BY DEF Index, LockInv, Types, local, history
<1>2. /\ call[t].op \in Adds <=> call[t].op \notin Removes
      /\ call[t].op \in Adds \cup Removes /\ Writing(t)
      /\ call[t].op \notin {"create", "reset", "none", "isempty"}
  BY <1>1, DataCall
<1>3. pc' = [pc EXCEPT ![t] = "count"]
  BY <1>1, <1>2, AfterSteps DEF Onward, Goto
<1>4. /\ hdr = committed /\ Fits(t)
      /\ call[t].op \in Adds => call[t].item \in Items /\ Fresh(t)
      /\ call[t].op \in Removes => Holds(t)
  BY <1>1, <1>2 DEF CommitInv, Progress, AddProgress, RemoveProgress
<1>5. hdr' = Ends(call[t].op, committed.dquse, committed.slot)
  BY <1>4, IndexEnds
<1>6. /\ Fits(t)' = Fits(t) /\ Holds(t)' = Holds(t) /\ Fresh(t)' = Fresh(t)
      /\ Ends(call[t].op, committed.dquse, committed.slot)' = hdr'
      /\ pc'[t] = "count" /\ call'[t] = call[t] /\ Others(t)
  BY <1>1, <1>3, <1>5 DEF Fits, Holds, Fresh, Item, Ends, EndTop, EndBottom, Others
<1>7. Progress(t)'
  BY <1>2, <1>4, <1>6 DEF Progress, AddProgress, RemoveProgress, DoneProgress, FormatProgress
<1>8. Committed' /\ Writing(t)'
  BY <1>1, <1>2, <1>6 DEF CommitInv, Committed, Writing, Inside
<1>9. QED BY <1>2, <1>6, <1>7, <1>8, CommitFrame

(* The header after the count and copy steps of a call that succeeds.      *)
LEMMA DoneEnds ==
  ASSUME Committed, NEW t \in Threads, Fits(t), call[t].op \in {"atd", "abd", "rtd", "rbd"}
  PROVE  LET op == call[t].op
             slot(i) == [committed.slot EXCEPT ![i] = call[t].item]
         IN  /\ op = "atd" => Done(t) = Ends(op, committed.dquse + 1, slot(EndTop(op)))
             /\ op = "abd" => Done(t) = Ends(op, committed.dquse + 1, slot(EndBottom(op)))
             /\ op \in {"rtd", "rbd"} => Done(t) = Ends(op, committed.dquse - 1, committed.slot)
<1>1. HeaderType(committed, Cells)
  BY DEF Committed
<1>2. CASE call[t].op = "atd"
  <2>1. HasRoom(committed) /\ Done(t) = Atd(committed, call[t].item)
    BY <1>2 DEF Fits, Done, Adds
  <2>2. /\ EndTop("atd") = IF committed.dquse # 0 THEN Above(committed, committed.dqtop)
                           ELSE committed.dqtop
        /\ EndBottom("atd") = committed.dqbottom
    BY DEF EndTop, EndBottom
  <2>3. Atd(committed, call[t].item) =
          Ends("atd", committed.dquse + 1, [committed.slot EXCEPT ![EndTop("atd")] = call[t].item])
    BY <1>1, <2>1, <2>2, AtdFields DEF Ends
  <2>4. QED BY <1>2, <2>1, <2>3
<1>3. CASE call[t].op = "abd"
  <2>1. HasRoom(committed) /\ Done(t) = Abd(committed, call[t].item)
    BY <1>3 DEF Fits, Done, Adds
  <2>2. /\ EndBottom("abd") = IF committed.dquse # 0 THEN Below(committed, committed.dqbottom)
                              ELSE committed.dqbottom
        /\ EndTop("abd") = committed.dqtop
    BY DEF EndTop, EndBottom
  <2>3. Abd(committed, call[t].item) =
          Ends("abd", committed.dquse + 1, [committed.slot EXCEPT ![EndBottom("abd")] = call[t].item])
    BY <1>1, <2>1, <2>2, AbdFields DEF Ends
  <2>4. QED BY <1>3, <2>1, <2>3
<1>4. CASE call[t].op = "rtd"
  <2>1. HasItem(committed) /\ Done(t) = Rtd(committed)
    BY <1>4 DEF Fits, Done, Adds
  <2>2. /\ EndTop("rtd") = IF committed.dquse # 1 THEN Below(committed, committed.dqtop)
                           ELSE committed.dqtop
        /\ EndBottom("rtd") = committed.dqbottom
    BY DEF EndTop, EndBottom
  <2>3. Rtd(committed) = Ends("rtd", committed.dquse - 1, committed.slot)
    BY <1>1, <2>1, <2>2, RtdFields DEF Ends
  <2>4. QED BY <1>4, <2>1, <2>3
<1>5. CASE call[t].op = "rbd"
  <2>1. HasItem(committed) /\ Done(t) = Rbd(committed)
    BY <1>5 DEF Fits, Done, Adds
  <2>2. /\ EndBottom("rbd") = IF committed.dquse # 1 THEN Above(committed, committed.dqbottom)
                              ELSE committed.dqbottom
        /\ EndTop("rbd") = committed.dqtop
    BY DEF EndTop, EndBottom
  <2>3. Rbd(committed) = Ends("rbd", committed.dquse - 1, committed.slot)
    BY <1>1, <2>1, <2>2, RbdFields DEF Ends
  <2>4. QED BY <1>5, <2>1, <2>3
<1>6. QED BY <1>2, <1>3, <1>4, <1>5

(* The store to dquse does its part of the call; a removal is done with    *)
(* it.                                                                     *)
LEMMA CountCommit ==
  ASSUME LockInv, CommitInv, OneThreadEach, NEW t \in Threads, Count(t)
  PROVE  CommitInv'
<1> DEFINE op == call[t].op
           use == IF op \in Adds THEN committed.dquse + 1 ELSE committed.dquse - 1
<1>1. /\ pc[t] = "count" /\ pc \in [Threads -> Steps] /\ Onward(t)
      /\ UNCHANGED <<call, res, committed>>
  BY DEF Count, LockInv, Types, local, history
<1>2. /\ op \in Adds <=> op \notin Removes
      /\ op \in Adds \cup Removes /\ Writing(t) /\ op \in {"atd", "abd", "rtd", "rbd"}
      /\ op \notin {"create", "reset", "none", "isempty"}
      /\ op \in Removes <=> op \in {"rtd", "rbd"}
  BY <1>1, DataCall
<1>3. pc' = [pc EXCEPT ![t] = IF op \in Adds THEN "copy" ELSE "unlock"]
  BY <1>1, <1>2, AfterSteps DEF Onward, Goto
<1>4. /\ hdr = Ends(op, committed.dquse, committed.slot) /\ Fits(t)
      /\ op \in Adds => call[t].item \in Items /\ Fresh(t)
      /\ op \in Removes => Holds(t)
  BY <1>1, <1>2 DEF CommitInv, Progress, AddProgress, RemoveProgress
<1>5. hdr' = Ends(op, use, committed.slot)
  <2>1. hdr' = [hdr EXCEPT !.dquse = IF op \in Adds THEN hdr.dquse + 1 ELSE hdr.dquse - 1]
    BY CountHeader
  <2>2. hdr.dquse = committed.dquse
    BY <1>4 DEF Ends
  <2>3. hdr' = [hdr EXCEPT !.dquse = use]
    BY <2>1, <2>2
  <2> HIDE DEF use
  <2>4. QED BY <1>4, <2>3 DEF Ends
<1>6. /\ Fits(t)' = Fits(t) /\ Holds(t)' = Holds(t) /\ Fresh(t)' = Fresh(t) /\ Done(t)' = Done(t)
      /\ Ends(op, use, committed.slot)' = Ends(op, use, committed.slot)
      /\ pc'[t] = (IF op \in Adds THEN "copy" ELSE "unlock")
      /\ call'[t] = call[t] /\ Others(t)
  BY <1>1, <1>3 DEF Fits, Holds, Fresh, Item, Done, Ends, EndTop, EndBottom, Others
<1>7. op \in Removes => hdr' = Done(t)
  <2>1. Committed
    BY DEF CommitInv
  <2>2. QED BY <1>2, <1>4, <1>5, <2>1, DoneEnds
<1>8. Progress(t)'
  <2>1. CASE op \in Adds
    <3>1. (hdr = Ends(call[t].op, committed.dquse + 1, committed.slot))'
      BY <1>5, <1>6, <2>1
    <3>2. QED BY <1>2, <1>4, <1>6, <2>1, <3>1 DEF Progress, AddProgress, RemoveProgress, DoneProgress, FormatProgress
  <2>2. CASE op \notin Adds
    BY <1>2, <1>4, <1>6, <1>7, <2>2 DEF Progress, AddProgress, RemoveProgress, DoneProgress, FormatProgress
  <2>3. QED BY <2>1, <2>2
<1>9. Committed' /\ Writing(t)'
  BY <1>1, <1>2, <1>6 DEF CommitInv, Committed, Writing, Inside
<1>10. QED BY <1>2, <1>6, <1>8, <1>9, CommitFrame

(* The memcpy does its part of the call; an insertion is done with it.     *)
LEMMA CopyCommit ==
  ASSUME LockInv, CommitInv, OneThreadEach, NEW t \in Threads, Copy(t)
  PROVE  CommitInv'
<1> DEFINE op == call[t].op
           i == IF op \in {"atd", "rtd"} THEN hdr.dqtop ELSE hdr.dqbottom
<1>1. /\ pc[t] = "copy" /\ pc \in [Threads -> Steps] /\ res \in [Threads -> Results] /\ Onward(t)
      /\ UNCHANGED <<call, committed>>
  BY DEF Copy, LockInv, Types, history
<1>2. /\ op \in Adds <=> op \notin Removes
      /\ op \in Adds \cup Removes /\ Writing(t) /\ op \in {"atd", "abd", "rtd", "rbd"}
      /\ op \notin {"create", "reset", "none", "isempty"}
      /\ op \in Adds <=> op \in {"atd", "abd"}
  BY <1>1, DataCall
<1>3. pc' = [pc EXCEPT ![t] = IF op \in Adds THEN "unlock" ELSE "index"]
  BY <1>1, <1>2, AfterSteps DEF Onward, Goto
<1>4. /\ IF op \in Adds THEN hdr = Ends(op, committed.dquse + 1, committed.slot)
                             /\ call[t].item \in Items
         ELSE hdr = committed
      /\ Fits(t) /\ Fresh(t) /\ res[t] \in Results
  BY <1>1, <1>2, ThreadFacts DEF CommitInv, Progress, AddProgress, RemoveProgress
<1>5. IF op \in Adds THEN /\ hdr' = [hdr EXCEPT !.slot[i] = call[t].item]
                          /\ res' = [res EXCEPT ![t].item = <<call[t].item>>]
      ELSE hdr' = hdr /\ res' = [res EXCEPT ![t].item = <<hdr.slot[i]>>]
  BY CopyHeader
<1>6. op \in Adds => hdr' = Done(t)
  <2>1. ASSUME op \in Adds PROVE hdr' = Done(t)
    <3>1. hdr' = Ends(op, committed.dquse + 1, [committed.slot EXCEPT ![i] = call[t].item])
      BY <1>4, <1>5, <2>1 DEF Ends
    <3>2. i = IF op = "atd" THEN EndTop(op) ELSE EndBottom(op)
      BY <1>2, <1>4, <2>1 DEF Ends
    <3>3. Committed
      BY DEF CommitInv
    <3>4. QED BY <1>2, <1>4, <2>1, <3>1, <3>2, <3>3, DoneEnds
  <2>2. QED BY <2>1
<1>7. /\ Fits(t)' = Fits(t) /\ Done(t)' = Done(t) /\ Item(t)' = Item(t)
      /\ pc'[t] = (IF op \in Adds THEN "unlock" ELSE "index")
      /\ call'[t] = call[t] /\ Others(t)
  BY <1>1, <1>3, <1>5 DEF Fits, Item, Done, Others
<1>8. Holds(t)'
  <2>1. ~res'[t].flag /\ res'[t].item = IF op \in Adds THEN <<call[t].item>> ELSE <<hdr.slot[i]>>
    <3> DEFINE got == IF op \in Adds THEN call[t].item ELSE hdr.slot[i]
    <3>1. res' = [res EXCEPT ![t].item = <<got>>]
      BY <1>5
    <3> HIDE DEF got
    <3>2. ~res'[t].flag /\ res'[t].item = <<got>>
      BY <1>1, <1>4, <3>1 DEF Fresh, Results
    <3>3. QED BY <3>2 DEF got
  <2>2. IF op \in Adds THEN Item(t) = call[t].item ELSE Item(t) = hdr.slot[i]
    BY <1>2, <1>4 DEF Item, TopItem, BottomItem
  <2>3. QED BY <1>7, <2>1, <2>2 DEF Holds
<1>9. Progress(t)'
  <2>1. CASE op \in Adds
    BY <1>2, <1>4, <1>6, <1>7, <1>8, <2>1 DEF Progress, AddProgress, RemoveProgress, DoneProgress, FormatProgress
  <2>2. CASE op \notin Adds
    <3>1. hdr' = committed'
      BY <1>1, <1>4, <1>5, <2>2
    <3>2. QED BY <1>2, <1>4, <1>7, <1>8, <2>2, <3>1
              DEF Progress, AddProgress, RemoveProgress, DoneProgress, FormatProgress
  <2>3. QED BY <2>1, <2>2
<1>10. Committed' /\ Writing(t)'
  BY <1>1, <1>2, <1>7 DEF CommitInv, Committed, Writing, Inside
<1>11. QED BY <1>2, <1>7, <1>9, <1>10, CommitFrame

(* Steps that format the ring: size, init and wipe.                        *)
LEMMA FormatCommit ==
  ASSUME LockInv, CommitInv, OneThreadEach, NEW t \in Threads,
         Size(t) \/ Init_dq(t) \/ Wipe(t)
  PROVE  CommitInv'
<1>1. /\ pc \in [Threads -> Steps] /\ call \in [Threads -> Calls]
      /\ UNCHANGED <<res, committed>> /\ call[t] \in Calls
  BY ThreadFacts DEF Size, Init_dq, Wipe, LockInv, Types, local, history
<1>2. CASE Size(t)
  <2>1. /\ pc[t] = "size" /\ pc' = [pc EXCEPT ![t] = "init"] /\ UNCHANGED <<hdr, call>>
    BY <1>2 DEF Size, Goto, local
  <2>2. call[t].op = "create" /\ Writing(t)
    BY <2>1, ThreadFacts DEF StepOf, Writing
  <2>3. Progress(t)' /\ Others(t)
    BY <1>1, <2>1, <2>2 DEF CommitInv, Progress, AddProgress, RemoveProgress, DoneProgress,
       FormatProgress, Fresh, Others, Adds, Removes
  <2>4. Committed' /\ Writing(t)'
    BY <1>1, <2>1, <2>2 DEF CommitInv, Committed, Writing
  <2>5. QED BY <2>2, <2>3, <2>4, CommitFrame
<1>3. CASE Init_dq(t)
  <2>1. /\ pc[t] = "init" /\ pc' = [pc EXCEPT ![t] = "map"] /\ call' = call
        /\ hdr' = NewDeque(call[t].slots, Blank)
    BY <1>3 DEF Init_dq, Goto, local
  <2>2. call[t].op \in {"create", "reset"} /\ Writing(t)
    BY <2>1, ThreadFacts DEF StepOf, Writing, Inside
  <2>3. Progress(t)' /\ Others(t)
    BY <1>1, <2>1, <2>2 DEF CommitInv, Progress, AddProgress, RemoveProgress, DoneProgress,
       FormatProgress, Fresh, Others, Adds, Removes
  <2>4. Committed' /\ Writing(t)'
    BY <1>1, <2>1, <2>2 DEF CommitInv, Committed, Writing, Inside
  <2>5. QED BY <2>2, <2>3, <2>4, CommitFrame
<1>4. CASE Wipe(t)
  <2>1. /\ pc[t] = "wipe" /\ pc' = [pc EXCEPT ![t] = "init"]
        /\ call' = [call EXCEPT ![t].slots = hdr.dqslots]
    BY <1>4 DEF Wipe, Goto
  <2>2. call[t].op = "reset" /\ Writing(t) /\ hdr = committed /\ Fresh(t)
    <3>1. call[t].op = "reset"
      BY <2>1, ThreadFacts DEF StepOf
    <3>2. QED BY <2>1, <3>1 DEF Writing, Inside, CommitInv, Progress, FormatProgress
  <2>3. call'[t].op = "reset" /\ call'[t].slots = committed.dqslots /\ Others(t) /\ pc'[t] = "init"
    BY <1>1, <2>1, <2>2 DEF Others, Calls
  <2>4. Progress(t)'
    BY <1>1, <2>2, <2>3 DEF Progress, AddProgress, RemoveProgress, DoneProgress,
       FormatProgress, Fresh, Adds, Removes
  <2>5. Committed' /\ Writing(t)'
    BY <1>1, <2>3 DEF CommitInv, Committed, Writing, Inside
  <2>6. QED BY <2>2, <2>3, <2>4, <2>5, CommitFrame
<1>5. QED BY <1>2, <1>3, <1>4

(* Steps that only read the header.                                        *)
LEMMA ReadCommit ==
  ASSUME LockInv, CommitInv, OneThreadEach, NEW t \in Threads,
         Look(t) \/ Stats(t) \/ StatsReturn(t)
  PROVE  CommitInv'
<1>1. /\ pc \in [Threads -> Steps] /\ call \in [Threads -> Calls] /\ res \in [Threads -> Results]
      /\ UNCHANGED <<hdr, committed>>
  BY DEF Look, Stats, StatsReturn, LockInv, Types, memory, history
<1>2. ASSUME call[t].op \in {"isempty", "stats"}, ~Writing(t), Others(t),
             call'[t] = call[t], pc'[t] \in {"unlock", "stats2", "stats3"}
      PROVE  CommitInv'
  <2>1. Progress(t)'
    BY <1>2 DEF Progress, AddProgress, RemoveProgress, DoneProgress, FormatProgress, Adds, Removes
  <2>2. Committed'
    BY <1>1 DEF CommitInv, Committed
  <2>3. QED BY <1>1, <1>2, <2>1, <2>2, CommitFrame
<1>3. CASE Look(t)
  <2>1. /\ pc[t] = "look" /\ pc' = [pc EXCEPT ![t] = "unlock"] /\ call' = call
        /\ \A u \in Threads \ {t} : res'[u] = res[u]
    BY <1>1, <1>3 DEF Look, Goto
  <2>2. call[t].op = "isempty"
    BY <2>1, ThreadFacts DEF StepOf, Adds, Removes
  <2>3. QED BY <1>1, <1>2, <2>1, <2>2 DEF Others, Writing
<1>4. CASE Stats(t)
  <2>1. /\ pc[t] \in {"stats", "stats2"}
        /\ pc' = [pc EXCEPT ![t] = IF pc[t] = "stats" THEN "stats2" ELSE "stats3"]
        /\ call' = call /\ \A u \in Threads \ {t} : res'[u] = res[u]
    BY <1>1, <1>4 DEF Stats, Goto
  <2>2. call[t].op = "stats"
    BY <2>1, ThreadFacts DEF StepOf, Adds, Removes
  <2>3. QED BY <1>1, <1>2, <2>1, <2>2 DEF Others, Writing, Inside
<1>5. CASE StatsReturn(t)
  <2>1. /\ pc[t] = "stats3" /\ pc' = [pc EXCEPT ![t] = "idle"]
        /\ call' = [call EXCEPT ![t] = NoCall] /\ res' = [res EXCEPT ![t] = NoRes]
    BY <1>5 DEF StatsReturn, Goto
  <2>2. call[t].op = "stats" /\ call'[t].op = "none" /\ pc'[t] = "idle" /\ Others(t) /\ Fresh(t)'
    BY <1>1, <2>1, ThreadFacts DEF StepOf, Adds, Removes, Others, NoCall, NoRes, Fresh
  <2>3. Progress(t)'
    BY <2>2 DEF Progress, AddProgress, RemoveProgress, DoneProgress, FormatProgress, Adds, Removes
  <2>4. Committed' /\ ~Writing(t)
    BY <1>1, <2>1, <2>2 DEF CommitInv, Committed, Writing, Inside
  <2>5. QED BY <1>1, <2>2, <2>3, <2>4, CommitFrame
<1>6. QED BY <1>3, <1>4, <1>5

(* Taking the lock: nobody writes, so the header is the committed one.     *)
LEMMA LockCommit ==
  ASSUME LockInv, CommitInv, OneThreadEach, NEW t \in Threads, mma_lock_atom(t)
  PROVE  CommitInv'
<1>1. /\ pc[t] = "lock" /\ pc \in [Threads -> Steps]
      /\ \A o \in Procs \ {ProcOf[t]} :
           IF LockType(t) = "write" THEN lock[o] = "none" ELSE lock[o] # "write"
      /\ UNCHANGED <<hdr, call, res, committed>>
  BY DEF mma_lock_atom, LockInv, Types, memory, local, history
<1>2. /\ call[t].op \in Adds \cup Removes \cup {"isempty", "reset"}
      /\ call[t].op \notin {"create", "none"}
      /\ call[t].op \in Adds \cup Removes => call[t].op \notin {"isempty", "reset"}
      /\ ~Writing(t) /\ Fresh(t)
  <2>1. call[t].op \in Adds \cup Removes \cup {"isempty", "reset"}
    BY <1>1, ThreadFacts DEF StepOf
  <2>2. QED BY <1>1, <2>1 DEF Adds, Removes, Writing, Inside, CommitInv, Progress
<1>3. pc' = [pc EXCEPT ![t] = IF call[t].op = "reset" THEN "wipe"
                             ELSE IF call[t].op = "isempty" THEN "look" ELSE "test"]
  BY DEF mma_lock_atom, Goto
<1>4. call[t].op # "isempty" => hdr = committed
  <2>1. ASSUME call[t].op # "isempty", NEW u \in Threads PROVE ~Writing(u)
    <3>1. CASE u = t
      BY <1>2, <3>1
    <3>2. CASE u # t
      <4>1. ProcOf[u] \in Procs \ {ProcOf[t]}
        BY <3>2, ThreadFacts DEF OneThreadEach
      <4>2. lock[ProcOf[u]] = "none"
        BY <1>1, <2>1, <4>1 DEF LockType
      <4>3. ~Inside(u)
        BY <4>2, ThreadFacts DEF InCall, LockType
      <4>4. call[u].op # "create"
        BY <1>2, <3>2 DEF LockInv, CreatorAlone
      <4>5. QED BY <4>3, <4>4 DEF Writing
    <3>3. QED BY <3>1, <3>2
  <2>2. QED BY <2>1 DEF CommitInv
<1>5. Others(t) /\ Fresh(t)' /\ call'[t] = call[t] /\ Progress(t)
      /\ pc'[t] = IF call[t].op = "reset" THEN "wipe"
                  ELSE IF call[t].op = "isempty" THEN "look" ELSE "test"
  BY <1>1, <1>2, <1>3 DEF Others, Fresh, CommitInv
<1>6. Progress(t)'
  BY <1>1, <1>2, <1>4, <1>5 DEF Progress, AddProgress, RemoveProgress, DoneProgress, FormatProgress
<1>7. Committed'
  BY <1>1 DEF CommitInv, Committed
<1>8. QED BY <1>1, <1>2, <1>5, <1>6, <1>7, CommitFrame

(* mmdq_reset goes on to unlock after its memmapped bit is set.            *)
LEMMA MapCommit ==
  ASSUME LockInv, CommitInv, OneThreadEach, NEW t \in Threads, MapBit(t), call[t].op # "create"
  PROVE  CommitInv' /\ UNCHANGED history
<1>1. /\ pc[t] = "map" /\ pc \in [Threads -> Steps] /\ pc' = [pc EXCEPT ![t] = "unlock"]
      /\ UNCHANGED <<hdr, call, res, history, committed>>
  BY DEF MapBit, Goto, LockInv, Types, history
<1>2. call[t].op = "reset" /\ Writing(t)
  BY <1>1, ThreadFacts DEF StepOf, Writing, Inside
<1>3. Progress(t)' /\ Others(t)
  BY <1>1, <1>2 DEF CommitInv, Progress, AddProgress, RemoveProgress, DoneProgress,
     FormatProgress, Fresh, Others, Adds, Removes
<1>4. Committed' /\ Writing(t)'
  BY <1>1, <1>2 DEF CommitInv, Committed, Writing, Inside
<1>5. QED BY <1>1, <1>2, <1>3, <1>4, CommitFrame

(* mmdq_isempty changes nothing when it unlocks.                           *)
LEMMA IsEmptyCommit ==
  ASSUME LockInv, CommitInv, OneThreadEach, NEW t \in Threads, mma_unlock_atom(t),
         call[t].op = "isempty"
  PROVE  CommitInv' /\ UNCHANGED history
<1>1. /\ pc[t] = "unlock" /\ pc' = [pc EXCEPT ![t] = "idle"] /\ pc \in [Threads -> Steps]
      /\ call \in [Threads -> Calls] /\ res \in [Threads -> Results]
      /\ call' = [call EXCEPT ![t] = NoCall] /\ res' = [res EXCEPT ![t] = NoRes]
      /\ UNCHANGED <<hdr, history, committed>>
  BY DEF mma_unlock_atom, Goto, LockInv, Types, memory, history
<1>2. call'[t].op = "none" /\ pc'[t] = "idle" /\ Others(t) /\ Fresh(t)' /\ ~Writing(t)
  BY <1>1 DEF Others, NoCall, NoRes, Fresh, Writing
<1>3. Progress(t)'
  BY <1>2 DEF Progress, AddProgress, RemoveProgress, DoneProgress, FormatProgress, Adds, Removes
<1>4. Committed'
  BY <1>1 DEF CommitInv, Committed
<1>5. QED BY <1>1, <1>2, <1>3, <1>4, CommitFrame

(* A call starts.                                                          *)
LEMMA CallCommit ==
  ASSUME LockInv, CommitInv, OneThreadEach, NEW t \in Threads,
         NEW op \in Ops \ {"none", "create"}, NEW item \in Cells, Call(t, op, item),
         op \in Adds => item \in Items
  PROVE  CommitInv' /\ UNCHANGED history
<1>1. /\ pc[t] = "idle" /\ pc \in [Threads -> Steps] /\ call \in [Threads -> Calls]
      /\ call' = [call EXCEPT ![t] = [op |-> op, item |-> item, slots |-> 0]]
      /\ pc' = [pc EXCEPT ![t] = IF op = "stats" THEN "stats" ELSE "lock"]
      /\ UNCHANGED <<hdr, res, committed, history>>
  BY DEF Call, Goto, LockInv, Types, memory, history
<1>2. call[t].op = "none" /\ ~Writing(t) /\ Fresh(t)
  <2>1. call[t].op = "none"
    BY <1>1, ThreadFacts DEF StepOf, Adds, Removes
  <2>2. QED BY <1>1, <2>1 DEF Writing, Inside, CommitInv, Progress
<1>3. /\ call'[t].op = op /\ call'[t].item = item /\ Others(t) /\ Fresh(t)'
      /\ pc'[t] = IF op = "stats" THEN "stats" ELSE "lock"
  BY <1>1, <1>2 DEF Others, Fresh
<1>4. Progress(t)'
  BY <1>3 DEF Progress, AddProgress, RemoveProgress, DoneProgress, FormatProgress
<1>5. Committed'
  BY <1>1 DEF CommitInv, Committed
<1>6. QED BY <1>1, <1>2, <1>3, <1>4, <1>5, CommitFrame

(* mmdq_create starts while nobody has the file open or is in a call.      *)
LEMMA CreateCommit ==
  ASSUME LockInv, CommitInv, OneThreadEach, CreateAlone, NEW t \in Threads,
         NEW slots \in Capacities, mmdq_create(t, slots)
  PROVE  CommitInv' /\ UNCHANGED history
<1>1. /\ pc[t] = "idle" /\ pc \in [Threads -> Steps] /\ call \in [Threads -> Calls]
      /\ ~Creating /\ \A p \in Procs : ~handle[p]
      /\ call' = [call EXCEPT ![t] = [op |-> "create", item |-> Blank, slots |-> slots]]
      /\ pc' = [pc EXCEPT ![t] = "size"]
      /\ UNCHANGED <<res, committed, history>>
  BY DEF mmdq_create, Goto, LockInv, Types, history
<1>2. \A u \in Threads : call[u].op = "none" /\ pc[u] = "idle" /\ Fresh(u)
  <2>1. ASSUME NEW u \in Threads PROVE call[u].op = "none" /\ pc[u] = "idle" /\ Fresh(u)
    <3>1. call[u].op = "none"
      BY <1>1, ThreadFacts DEF InCall, Creating
    <3>2. pc[u] = "idle"
      BY <3>1, ThreadFacts DEF StepOf, Adds, Removes
    <3>3. Fresh(u)
      BY <3>1 DEF CommitInv, Progress
    <3>4. QED BY <3>1, <3>2, <3>3
  <2>2. QED BY <2>1
<1>3. \A u \in Threads : Fresh(u)'
  BY <1>1, <1>2 DEF Fresh
<1>4. ASSUME NEW u \in Threads PROVE Progress(u)'
  <2>1. CASE u = t
    <3>1. call'[u].op = "create" /\ call'[u].slots = slots /\ pc'[u] = "size"
      BY <1>1, <2>1
    <3>2. QED BY <1>3, <3>1 DEF Progress, AddProgress, RemoveProgress, DoneProgress,
                 FormatProgress, Adds, Removes
  <2>2. CASE u # t
    <3>1. call'[u].op = "none" /\ pc'[u] = "idle"
      BY <1>1, <1>2, <2>2
    <3>2. QED BY <1>3, <3>1 DEF Progress, AddProgress, RemoveProgress, DoneProgress,
                 FormatProgress, Adds, Removes
  <2>3. QED BY <2>1, <2>2
<1>5. Committed' /\ Writing(t)'
  BY <1>1 DEF CommitInv, Committed, Writing
<1>6. QED BY <1>1, <1>4, <1>5 DEF CommitInv

(* A writing call returns: what it leaves is the committed header.         *)
LEMMA ReturnCommit ==
  ASSUME LockInv, CommitInv, OneThreadEach, NEW t \in Threads, Writing(t),
         pc' = [pc EXCEPT ![t] = "idle"], call' = [call EXCEPT ![t] = NoCall],
         \A u \in Threads \ {t} : res'[u] = res[u], Fresh(t)',
         hdr' = hdr, committed' = hdr, Committed'
  PROVE  CommitInv'
<1>1. pc \in [Threads -> Steps] /\ call \in [Threads -> Calls]
  BY DEF LockInv, Types
<1>2. call'[t].op = "none" /\ pc'[t] = "idle" /\ Others(t)
  BY <1>1 DEF Others, NoCall
<1>3. Progress(t)'
  BY <1>2 DEF Progress, AddProgress, RemoveProgress, DoneProgress, FormatProgress, Adds, Removes
<1>4. QED BY <1>2, <1>3, CommitFrame

(* Nothing outside the history decides the abstract deque.                 *)
LEMMA Stutters == ASSUME UNCHANGED history PROVE UNCHANGED Abstract!vars
  BY DEF history, Abstract!vars

(* mmdq_create returns: the abstract deque is created.                     *)
LEMMA CreatedCommit ==
  ASSUME LockInv, CommitInv, OneThreadEach, Track, NEW t \in Threads, MapBit(t),
         call[t].op = "create"
  PROVE  CommitInv' /\ Abstract!Create
<1>1. /\ pc[t] = "map" /\ pc' = [pc EXCEPT ![t] = "idle"] /\ call' = [call EXCEPT ![t] = NoCall]
      /\ UNCHANGED <<hdr, res>> /\ committed' = hdr
      /\ ret' = [op |-> "init", flag |-> FALSE, item |-> << >>]
  BY DEF MapBit, Goto, Commit
<1>2. call[t].slots \in Capacities /\ hdr = NewDeque(call[t].slots, Blank) /\ Fresh(t)
  BY <1>1 DEF CommitInv, Progress, FormatProgress
<1>3. call[t].slots \in Nat /\ Blank \in Cells
  <2>1. Capacities \subseteq Nat
    BY MmDequeAssumption
  <2>2. QED BY <1>2, <2>1 DEF Cells
<1>4. /\ HeaderType(hdr, Cells) /\ RingConsistent(hdr) /\ Contents(hdr) = << >>
      /\ hdr.dq_open = TRUE /\ hdr.dqslots = call[t].slots
  <2>1. hdr.dq_open = TRUE /\ hdr.dqslots = call[t].slots
    BY <1>2 DEF NewDeque
  <2>2. QED BY <1>2, <1>3, <2>1, NewDequeOK
<1>5. Committed'
  BY <1>1, <1>4 DEF Committed
<1>6. CommitInv'
  <2>1. Writing(t) /\ Fresh(t)'
    BY <1>1, <1>2 DEF Writing, Fresh
  <2>2. QED BY <1>1, <1>5, <2>1, ReturnCommit
<1>7. Abstract!Create
  BY <1>1, <1>2, <1>4 DEF Abstract!Create
<1>8. QED BY <1>6, <1>7

(* The committed ring has room, or an item, while the abstract deque does. *)
LEMMA CommittedGuards ==
  ASSUME Committed
  PROVE  /\ HasRoom(committed) <=> Abstract!Fits
         /\ HasItem(committed) <=> Abstract!Some
<1>1. HeaderType(committed, Cells)
  BY DEF Committed
<1>2. /\ Contents(committed) \in Seq(Cells) /\ Len(Contents(committed)) = committed.dquse
      /\ committed.dquse \in Nat /\ committed.dqslots \in Nat /\ committed.dq_open \in BOOLEAN
  BY <1>1, ContentsSeq, Fields
<1>3. Contents(committed) # << >> <=> committed.dquse > 0
  BY <1>2, EmptySeq
<1>4. HasRoom(committed) <=> Abstract!Fits
  BY <1>2 DEF HasRoom, Abstract!Fits
<1>5. HasItem(committed) <=> Abstract!Some
  BY <1>3 DEF HasItem, Abstract!Some
<1>6. QED BY <1>4, <1>5

(* The call that succeeded did what the abstract deque does.               *)
LEMMA DoneRefines ==
  ASSUME Committed, NEW t \in Threads, call[t].op \in {"atd", "abd", "rtd", "rbd"}, Fits(t),
         call[t].op \in Adds => call[t].item \in Items,
         committed' = Done(t),
         ret' = [op |-> call[t].op, flag |-> FALSE, item |-> <<Item(t)>>]
  PROVE  Committed' /\ Abstract!Next
<1> DEFINE op == call[t].op
           item == call[t].item
<1>1. /\ HeaderType(committed, Cells) /\ RingConsistent(committed) /\ committed.dq_open = TRUE
      /\ op \in Adds <=> op \in {"atd", "abd"}
      /\ op \in Adds => item \in Items /\ item \in Cells
      /\ op \in Adds => HasRoom(committed) /\ Abstract!Fits
      /\ op \notin Adds => HasItem(committed) /\ Abstract!Some
  BY CommittedGuards DEF Committed, Cells, Adds, Fits
<1>2. CASE op = "atd"
  <2>1. committed' = Atd(committed, item)
    BY <1>2 DEF Done
  <2>2. HeaderType(committed', Cells) /\ RingConsistent(committed')
    BY <1>1, <1>2, <2>1, AtdType, AtdRing
  <2>3. Contents(committed') = Append(Contents(committed), item)
    BY <1>1, <1>2, <2>1, AtdContents
  <2>4. committed'.dq_open = committed.dq_open /\ committed'.dqslots = committed.dqslots
    BY <1>1, <1>2, <2>1, AtdFields
  <2>5. ret' = [op |-> "atd", flag |-> FALSE, item |-> <<item>>]
    BY <1>1, <1>2 DEF Item
  <2>6. Abstract!AddTop(item)
    BY <1>1, <1>2, <2>3, <2>4, <2>5 DEF Abstract!AddTop, Abstract!Did
  <2>7. QED BY <1>1, <1>2, <2>2, <2>4, <2>6 DEF Committed, Abstract!Next
<1>3. CASE op = "abd"
  <2>1. committed' = Abd(committed, item)
    BY <1>3 DEF Done
  <2>2. HeaderType(committed', Cells) /\ RingConsistent(committed')
    BY <1>1, <1>3, <2>1, AbdType, AbdRing
  <2>3. Contents(committed') = <<item>> \o Contents(committed)
    BY <1>1, <1>3, <2>1, AbdContents
  <2>4. committed'.dq_open = committed.dq_open /\ committed'.dqslots = committed.dqslots
    BY <1>1, <1>3, <2>1, AbdFields
  <2>5. ret' = [op |-> "abd", flag |-> FALSE, item |-> <<item>>]
    BY <1>1, <1>3 DEF Item
  <2>6. Abstract!AddBottom(item)
    BY <1>1, <1>3, <2>3, <2>4, <2>5 DEF Abstract!AddBottom, Abstract!Did
  <2>7. QED BY <1>1, <1>3, <2>2, <2>4, <2>6 DEF Committed, Abstract!Next
<1>4. CASE op = "rtd"
  <2>1. committed' = Rtd(committed)
    BY <1>4 DEF Done
  <2>2. HeaderType(committed', Cells) /\ RingConsistent(committed')
    BY <1>1, <2>1, RtdType, RtdRing
  <2>3. /\ Contents(committed') = SubSeq(Contents(committed), 1, Len(Contents(committed)) - 1)
        /\ TopItem(committed) = Contents(committed)[Len(Contents(committed))]
    BY <1>1, <1>4, <2>1, RtdContents
  <2>4. committed'.dq_open = committed.dq_open /\ committed'.dqslots = committed.dqslots
    BY <1>1, <1>4, <2>1, RtdFields
  <2>5. ret' = [op |-> "rtd", flag |-> FALSE, item |-> <<TopItem(committed)>>]
    BY <1>1, <1>4 DEF Item
  <2>6. Abstract!RemoveTop
    BY <1>1, <1>4, <2>3, <2>4, <2>5 DEF Abstract!RemoveTop, Abstract!Did
  <2>7. QED BY <1>1, <2>2, <2>4, <2>6 DEF Committed, Abstract!Next
<1>5. CASE op = "rbd"
  <2>1. committed' = Rbd(committed)
    BY <1>5 DEF Done
  <2>2. HeaderType(committed', Cells) /\ RingConsistent(committed')
    BY <1>1, <2>1, RbdType, RbdRing
  <2>3. /\ Contents(committed') = Tail(Contents(committed))
        /\ BottomItem(committed) = Contents(committed)[1]
    BY <1>1, <1>5, <2>1, RbdContents
  <2>4. committed'.dq_open = committed.dq_open /\ committed'.dqslots = committed.dqslots
    BY <1>1, <1>5, <2>1, RbdFields
  <2>5. ret' = [op |-> "rbd", flag |-> FALSE, item |-> <<BottomItem(committed)>>]
    BY <1>1, <1>5 DEF Item
  <2>6. Abstract!RemoveBottom
    BY <1>1, <1>5, <2>3, <2>4, <2>5 DEF Abstract!RemoveBottom, Abstract!Did
  <2>7. QED BY <1>1, <2>2, <2>4, <2>6 DEF Committed, Abstract!Next
<1>6. QED BY <1>2, <1>3, <1>4, <1>5

(* The call that failed changed nothing, and the abstract deque agrees.    *)
LEMMA RefusedRefines ==
  ASSUME Committed, NEW t \in Threads, call[t].op \in {"atd", "abd", "rtd", "rbd"}, ~Fits(t),
         call[t].op \in Adds => call[t].item \in Items,
         committed' = committed,
         ret' = [op |-> call[t].op, flag |-> TRUE, item |-> << >>]
  PROVE  Committed' /\ Abstract!Next
<1> DEFINE op == call[t].op
           item == call[t].item
<1>1. /\ op \in Adds <=> op \in {"atd", "abd"}
      /\ op \in Adds => item \in Items
      /\ op \in Adds => ~Abstract!Fits
      /\ op \notin Adds => ~Abstract!Some
  BY CommittedGuards DEF Adds, Fits
<1>2. Abstract!Refused(op)
  BY DEF Abstract!Refused
<1>3. CASE op = "atd"
  BY <1>1, <1>2, <1>3 DEF Abstract!AddTop, Abstract!Next, Committed
<1>4. CASE op = "abd"
  BY <1>1, <1>2, <1>4 DEF Abstract!AddBottom, Abstract!Next, Committed
<1>5. CASE op = "rtd"
  BY <1>1, <1>2, <1>5 DEF Abstract!RemoveTop, Abstract!Next, Committed
<1>6. CASE op = "rbd"
  BY <1>1, <1>2, <1>6 DEF Abstract!RemoveBottom, Abstract!Next, Committed
<1>7. QED BY <1>3, <1>4, <1>5, <1>6

(* A writing call unlocks: the abstract deque makes the same call.         *)
LEMMA UnlockCommit ==
  ASSUME LockInv, CommitInv, OneThreadEach, Track, NEW t \in Threads, mma_unlock_atom(t),
         call[t].op # "isempty"
  PROVE  CommitInv' /\ Abstract!Next
<1>1. /\ pc[t] = "unlock" /\ pc' = [pc EXCEPT ![t] = "idle"] /\ pc \in [Threads -> Steps]
      /\ call \in [Threads -> Calls] /\ res \in [Threads -> Results]
      /\ call' = [call EXCEPT ![t] = NoCall] /\ res' = [res EXCEPT ![t] = NoRes]
      /\ hdr' = hdr /\ committed' = hdr
      /\ ret' = [op |-> call[t].op, flag |-> res[t].flag, item |-> res[t].item]
  BY DEF mma_unlock_atom, Goto, LockInv, Types, memory, Commit
<1>2. /\ call[t].op \in {"atd", "abd", "rtd", "rbd", "reset"} /\ Writing(t) /\ Fresh(t)'
      /\ \A u \in Threads \ {t} : res'[u] = res[u]
  BY <1>1, ThreadFacts DEF StepOf, Adds, Removes, Writing, Inside, Fresh, NoRes
<1>3. /\ Committed /\ Progress(t) /\ res[t] \in Results
      /\ call[t].op \in Adds => call[t].item \in Items
  BY ThreadFacts DEF CommitInv, Progress, AddProgress
<1>4. CASE call[t].op = "reset"
  <2>1. hdr = NewDeque(committed.dqslots, Blank) /\ ~res[t].flag /\ res[t].item = << >>
    BY <1>1, <1>3, <1>4 DEF Progress, FormatProgress, Fresh
  <2>2. committed.dqslots \in Nat /\ Blank \in Cells
    BY <1>3, Fields DEF Committed, Cells
  <2>3. hdr.dq_open = TRUE /\ hdr.dqslots = committed.dqslots
    BY <2>1 DEF NewDeque
  <2>4. HeaderType(hdr, Cells) /\ RingConsistent(hdr) /\ Contents(hdr) = << >>
    BY <2>1, <2>2, NewDequeOK
  <2>5. Committed'
    BY <1>1, <2>3, <2>4 DEF Committed
  <2>6. ret' = [op |-> "reset", flag |-> FALSE, item |-> << >>]
    BY <1>1, <1>3, <1>4, <2>1 DEF Results
  <2>7. Abstract!Reset
    BY <1>1, <2>3, <2>4, <2>6 DEF Abstract!Reset
  <2>8. QED BY <1>1, <1>2, <2>5, <2>7, ReturnCommit DEF Abstract!Next
<1>5. CASE call[t].op \in {"atd", "abd", "rtd", "rbd"}
  <2>1. call[t].op \in Adds \cup Removes
    BY <1>5 DEF Adds, Removes
  <2>2. \/ Fits(t) /\ hdr = Done(t) /\ Holds(t)
        \/ ~Fits(t) /\ hdr = committed /\ res[t].flag /\ res[t].item = << >>
    BY <1>1, <1>3, <2>1 DEF Progress, DoneProgress
  <2>3. CASE Fits(t) /\ hdr = Done(t) /\ Holds(t)
    <3>1. ret' = [op |-> call[t].op, flag |-> FALSE, item |-> <<Item(t)>>]
      BY <1>1, <1>3, <2>3 DEF Results, Holds
    <3>2. Committed' /\ Abstract!Next
      BY <1>1, <1>3, <1>5, <2>3, <3>1, DoneRefines
    <3>3. QED BY <1>1, <1>2, <3>2, ReturnCommit
  <2>4. CASE ~Fits(t) /\ hdr = committed /\ res[t].flag /\ res[t].item = << >>
    <3>1. ret' = [op |-> call[t].op, flag |-> TRUE, item |-> << >>]
      BY <1>1, <1>3, <2>4 DEF Results
    <3>2. Committed' /\ Abstract!Next
      BY <1>1, <1>3, <1>5, <2>4, <3>1, RefusedRefines
    <3>3. QED BY <1>1, <1>2, <3>2, ReturnCommit
  <2>5. QED BY <2>2, <2>3, <2>4
<1>6. QED BY <1>2, <1>4, <1>5

(* Every step keeps the refinement invariant, and is a step of the         *)
(* abstract deque or a stutter.                                            *)
LEMMA NextCommit ==
  ASSUME OneThreadEach, CreateAlone, Track, MaxKills = 0
  PROVE  LockInv /\ NoFaultInv /\ CommitInv /\ [Next]_vars
           => CommitInv' /\ [Abstract!Next]_(Abstract!vars)
<1> SUFFICES ASSUME LockInv, NoFaultInv, CommitInv, [Next]_vars
             PROVE  CommitInv' /\ [Abstract!Next]_(Abstract!vars)
  OBVIOUS
<1>1. ASSUME NEW t \in Threads, Starts(t) PROVE CommitInv' /\ UNCHANGED history
  <2>1. ASSUME NEW slots \in Capacities, mmdq_create(t, slots)
        PROVE  CommitInv' /\ UNCHANGED history
    BY <2>1, CreateCommit
  <2>2. Blank \in Cells /\ Items \subseteq Cells
    BY DEF Cells
  <2>3. ASSUME NEW item \in Items, Call(t, "atd", item) \/ Call(t, "abd", item)
        PROVE  CommitInv' /\ UNCHANGED history
    BY <2>2, <2>3, CallCommit DEF Ops, Adds
  <2>4. ASSUME NEW op \in {"rtd", "rbd", "isempty", "reset", "stats"}, Call(t, op, Blank)
        PROVE  CommitInv' /\ UNCHANGED history
    BY <2>2, <2>4, CallCommit DEF Ops, Adds, Removes
  <2>5. QED BY <1>1, <2>1, <2>3, <2>4 DEF Starts, mmdq_atd, mmdq_abd, mmdq_rtd, mmdq_rbd,
               mmdq_isempty, mmdq_reset, mmdq_stats
<1>2. ASSUME NEW t \in Threads, Step(t)
      PROVE  CommitInv' /\ (Abstract!Next \/ UNCHANGED history)
  <2>1. CASE Size(t) \/ Init_dq(t) \/ Wipe(t)
    BY <2>1, FormatCommit DEF Size, Init_dq, Wipe
  <2>2. CASE Look(t) \/ Stats(t) \/ StatsReturn(t)
    BY <2>2, ReadCommit DEF Look, Stats, StatsReturn
  <2>3. CASE mma_lock_atom(t)
    BY <2>3, LockCommit DEF mma_lock_atom
  <2>4. CASE Test(t)
    BY <2>4, TestCommit DEF Test
  <2>5. CASE Index(t)
    BY <2>5, IndexCommit DEF Index
  <2>6. CASE Count(t)
    <3>1. UNCHANGED history
      BY <2>6 DEF Count
    <3>2. QED BY <2>6, <3>1, CountCommit
  <2>7. CASE Copy(t)
    BY <2>7, CopyCommit DEF Copy
  <2>8. CASE MapBit(t)
    BY <2>8, MapCommit, CreatedCommit DEF Abstract!Next
  <2>9. CASE mma_unlock_atom(t)
    BY <2>9, IsEmptyCommit, UnlockCommit
  <2>10. CASE Fault(t)
    BY <2>10, NobodyFaults DEF Fault
  <2>11. QED BY <1>2, <2>1, <2>2, <2>3, <2>4, <2>5, <2>6, <2>7, <2>8, <2>9, <2>10 DEF Step
<1>3. ASSUME UNCHANGED <<hdr, pc, call, res, history>> PROVE CommitInv'
  BY <1>3 DEF history, CommitInv, Committed, Progress, AddProgress, RemoveProgress, DoneProgress,
     FormatProgress, Fits, Holds, Fresh, Item, Done, Ends, EndTop, EndBottom, Writing, Inside
<1>4. ASSUME NEW p \in Procs, mmdq_open(p) \/ mmdq_close(p)
      PROVE  CommitInv' /\ UNCHANGED history
  BY <1>3, <1>4 DEF mmdq_open, mmdq_close, memory, local
<1>5. ASSUME NEW p \in Procs, Kill(p) PROVE FALSE
  BY <1>5 DEF Kill, LockInv, Types
<1>6. CASE UNCHANGED vars
  BY <1>3, <1>6, Stutters DEF vars, memory, local
<1>7. QED BY <1>1, <1>2, <1>4, <1>5, <1>6, Stutters DEF Next

(* The deque created earlier is an empty abstract deque.                   *)
LEMMA InitRefines == Init => Abstract!Init
<1> SUFFICES ASSUME Init PROVE Abstract!Init
  OBVIOUS
<1>1. PICK slots \in Capacities : hdr = NewDeque(slots, Blank)
  BY DEF Init
<1>2. slots \in Nat /\ Blank \in Cells
  BY MmDequeAssumption DEF Cells
<1>3. Contents(hdr) = << >>
  BY <1>1, <1>2, NewDequeOK
<1>4. hdr.dqslots = slots /\ hdr.dq_open = TRUE
  BY <1>1 DEF NewDeque
<1>5. QED BY <1>3, <1>4 DEF Init, Abstract!Init

(* Without kills the calls of all processes, in the order they unlock, are *)
(* calls of one bounded deque, each with the flag and the item that order  *)
(* gives; the abstract deque is the one the deque of a single process      *)
(* implements too.                                                         *)
THEOREM Refinement ==
  ASSUME OneThreadEach, CreateAlone, Track, MaxKills = 0
  PROVE  Spec => ImplementsDeque
<1>1. Init => LockInv /\ NoFaultInv /\ CommitInv /\ Abstract!Init
  BY InitLock, InitNoFault, InitCommit, InitRefines
<1>2. LockInv /\ NoFaultInv /\ CommitInv /\ [Next]_vars
        => LockInv' /\ NoFaultInv' /\ CommitInv' /\ [Abstract!Next]_(Abstract!vars)
  BY NextLock, NextNoFault, NextCommit
<1>3. QED BY <1>1, <1>2, PTL DEF Spec, ImplementsDeque, Abstract!Spec
=============================================================================
