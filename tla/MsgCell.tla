------------------------------ MODULE MsgCell ------------------------------
(***************************************************************************)
(* msgcell.c: a named semaphore that announces changes of a data object.   *)
(* The object belongs to the application: here a number of items, of which *)
(* the data check function says whether there are any.  A process that     *)
(* transmits puts an item there first; one whose receive succeeded takes   *)
(* one, if it is still there.                                              *)
(*                                                                         *)
(* The check of the data, the wait for the semaphore and the post are      *)
(* steps of their own.  msgcell_timedrec compares what it means to return  *)
(* with ETIMEDOUT, not errno: the data are not looked at again after the   *)
(* wait, whether it ended by a post or by the timeout.  No function stores *)
(* the name in the cell, so msgcell_delete unlinks the empty name.         *)
(***************************************************************************)
EXTENDS Integers, FiniteSets

CONSTANTS CProcs,         \* the processes
          CellMax,        \* SEM_VALUE_MAX
          MaxItems,       \* bound: the items in the data object
          MaxCellCalls,   \* bound: the calls of a behaviour
          MaxCellSignals, \* bound: the signals that interrupt a wait
          MaxResets       \* bound: the calls of msgcell_reset

ASSUME MsgCellAssumption == /\ IsFiniteSet(CProcs)
                            /\ CellMax \in Nat \ {0} /\ MaxItems \in 1 .. CellMax
                            /\ MaxCellCalls \in Nat /\ MaxCellSignals \in Nat
                            /\ MaxResets \in Nat

VARIABLES semaphore, \* its value, NoSem when no semaphore has the name
          items,     \* the data object
          at,        \* the next step of each process
          cell,      \* whether it has the semaphore open
          errcode,   \* of its MSGCELL
          answer,    \* what its receive will return
          present,   \* history: whether there were data at some time in the call
          unheard,   \* history: a receive that failed, or a reset, took a post away
          cellcalls, cellsignals, resets \* counters for the bounds

cellcounted == <<cellcalls, cellsignals, resets>>
cellvars == <<semaphore, items, at, cell, errcode, answer, present, unheard, cellcounted>>

NoSem     == -1
CellGoto(p, step) == at' = [at EXCEPT ![p] = step]
datacheckfunc     == items > 0
(* A call begins. *)
CellCall(p) == /\ at[p] = "idle" /\ cellcalls < MaxCellCalls /\ cellcalls' = cellcalls + 1
               /\ UNCHANGED <<cellsignals, resets>>
Fails(p, e) == errcode' = [errcode EXCEPT ![p] = e]

CellInit == /\ semaphore \in {NoSem} \cup 0 .. CellMax /\ items = 0
            /\ at = [p \in CProcs |-> "idle"] /\ cell = [p \in CProcs |-> FALSE]
            /\ errcode = [p \in CProcs |-> "0"] /\ answer = [p \in CProcs |-> 0]
            /\ present = [p \in CProcs |-> FALSE] /\ unheard = FALSE
            /\ cellcalls = 0 /\ cellsignals = 0 /\ resets = 0

-----------------------------------------------------------------------------
(* A semaphore of the name that is there already keeps its value. *)
msgcell_create(p) ==
  /\ CellCall(p) /\ ~cell[p]
  /\ semaphore' = IF semaphore = NoSem THEN 0 ELSE semaphore
  /\ cell' = [cell EXCEPT ![p] = TRUE] /\ Fails(p, "0")
  /\ UNCHANGED <<items, at, answer, present, unheard>>

msgcell_attach(p) ==
  /\ CellCall(p) /\ ~cell[p]
  /\ IF semaphore = NoSem THEN Fails(p, "ENOENT") /\ UNCHANGED cell
     ELSE Fails(p, "0") /\ cell' = [cell EXCEPT ![p] = TRUE]
  /\ UNCHANGED <<semaphore, items, at, answer, present, unheard>>

msgcell_close(p) ==
  /\ CellCall(p) /\ cell[p]
  /\ cell' = [cell EXCEPT ![p] = FALSE]
  /\ UNCHANGED <<semaphore, items, at, errcode, answer, present, unheard>>

(* The empty name is no semaphore's: sem_unlink fails. *)
msgcell_delete(p) ==
  /\ CellCall(p) /\ ~cell[p]
  /\ UNCHANGED <<semaphore, items, at, cell, errcode, answer, present, unheard>>

-----------------------------------------------------------------------------
(* The application puts its data there, and transmits. *)
Supply(p) ==
  /\ CellCall(p) /\ cell[p] /\ items < MaxItems
  /\ items' = items + 1 /\ present' = [r \in CProcs |-> TRUE]
  /\ CellGoto(p, "send")
  /\ UNCHANGED <<semaphore, cell, errcode, answer, unheard>>

(* Faulty: only the first item is announced. *)
msgcell_send_OnlyFirst(p) ==
  /\ at[p] = "send"
  /\ IF datacheckfunc THEN CellGoto(p, IF items = 1 THEN "post" ELSE "idle") /\ UNCHANGED errcode
     ELSE CellGoto(p, "idle") /\ Fails(p, "ENODATA")
  /\ UNCHANGED <<semaphore, items, cell, answer, present, unheard, cellcounted>>

msgcell_send(p) ==
  /\ at[p] = "send"
  /\ IF datacheckfunc THEN CellGoto(p, "post") /\ UNCHANGED errcode
     ELSE CellGoto(p, "idle") /\ Fails(p, "ENODATA")
  /\ UNCHANGED <<semaphore, items, cell, answer, present, unheard, cellcounted>>

sem_post(p) ==
  /\ at[p] = "post"
  /\ IF semaphore < CellMax THEN semaphore' = semaphore + 1 /\ UNCHANGED errcode
     ELSE Fails(p, "EOVERFLOW") /\ UNCHANGED semaphore
  /\ CellGoto(p, "idle")
  /\ UNCHANGED <<items, cell, answer, present, unheard, cellcounted>>

-----------------------------------------------------------------------------
Receive(p, step) ==
  /\ CellCall(p) /\ cell[p]
  /\ CellGoto(p, step)
  /\ answer' = [answer EXCEPT ![p] = 0]
  /\ present' = [present EXCEPT ![p] = datacheckfunc]
  /\ UNCHANGED <<semaphore, items, cell, errcode, unheard>>

msgcell_rec(p)      == Receive(p, "rec")
msgcell_timedrec(p) == Receive(p, "timedrec")

(* With data a receive returns, msgcell_rec with 1 when an earlier wait of *)
(* the call was interrupted.                                               *)
DataCheck(p) ==
  /\ at[p] \in {"rec", "timedrec"}
  /\ CellGoto(p, CASE ~datacheckfunc -> (IF at[p] = "rec" THEN "wait" ELSE "timedwait")
                   [] datacheckfunc /\ answer[p] = 0 -> "take"
                   [] datacheckfunc /\ answer[p] # 0 -> "idle")
  /\ unheard' = (unheard \/ (datacheckfunc /\ answer[p] = 1))
  /\ UNCHANGED <<semaphore, items, cell, errcode, answer, present, cellcounted>>

(* The semaphore is decremented: msgcell_rec looks at the data again,      *)
(* msgcell_timedrec returns 0.                                             *)
sem_wait(p) ==
  /\ at[p] \in {"wait", "timedwait"} /\ semaphore > 0
  /\ semaphore' = semaphore - 1
  /\ CellGoto(p, IF at[p] = "wait" THEN "rec" ELSE "take")
  /\ UNCHANGED <<items, cell, errcode, answer, present, unheard, cellcounted>>

WaitInterrupted(p) ==
  /\ at[p] \in {"wait", "timedwait"} /\ cellsignals < MaxCellSignals
  /\ cellsignals' = cellsignals + 1
  /\ Fails(p, "EINTR") /\ answer' = [answer EXCEPT ![p] = 1]
  /\ CellGoto(p, IF at[p] = "wait" THEN "rec" ELSE "idle")
  /\ UNCHANGED <<semaphore, items, cell, present, unheard, cellcalls, resets>>

TimedOut(p) ==
  /\ at[p] = "timedwait"
  /\ Fails(p, "ETIMEDOUT") /\ answer' = [answer EXCEPT ![p] = 1]
  /\ CellGoto(p, "idle")
  /\ UNCHANGED <<semaphore, items, cell, present, unheard, cellcounted>>

(* The application takes what it was told is there. *)
TakeItem(p) ==
  /\ at[p] = "take"
  /\ items' = IF datacheckfunc THEN items - 1 ELSE items
  /\ CellGoto(p, "idle")
  /\ UNCHANGED <<semaphore, cell, errcode, answer, present, unheard, cellcounted>>

-----------------------------------------------------------------------------
msgcell_reset(p) ==
  /\ CellCall(p) /\ cell[p] /\ resets < MaxResets
  /\ CellGoto(p, "reset")
  /\ UNCHANGED <<semaphore, items, cell, errcode, answer, present, unheard>>

(* sem_trywait until it fails, which it does with EAGAIN. *)
sem_trywait(p) ==
  /\ at[p] = "reset"
  /\ IF semaphore > 0 THEN semaphore' = semaphore - 1 /\ unheard' = TRUE /\ UNCHANGED <<at, resets>>
     ELSE CellGoto(p, "idle") /\ resets' = resets + 1 /\ UNCHANGED <<semaphore, unheard>>
  /\ UNCHANGED <<items, cell, errcode, answer, present, cellcalls, cellsignals>>

-----------------------------------------------------------------------------
CellStep(p) == \/ msgcell_send(p) \/ sem_post(p) \/ DataCheck(p) \/ sem_wait(p)
               \/ TimedOut(p) \/ TakeItem(p) \/ sem_trywait(p)
CellNext == \E p \in CProcs :
  \/ msgcell_create(p) \/ msgcell_attach(p) \/ msgcell_close(p) \/ msgcell_delete(p)
  \/ Supply(p) \/ msgcell_rec(p) \/ msgcell_timedrec(p) \/ msgcell_reset(p)
  \/ WaitInterrupted(p) \/ CellStep(p)
CellSpec == CellInit /\ [][CellNext]_cellvars

-----------------------------------------------------------------------------
(* Nobody sleeps over data: when every item has a process that waits, and  *)
(* no process is about to post, to look at the data or to take them, the   *)
(* semaphore is positive.  An interrupted msgcell_rec that goes on to take *)
(* a post and then returns an error ends this, and so does a reset.  A     *)
(* timed receive that gives up takes no post along.                        *)
CellInv ==
  /\ semaphore \in {NoSem} \cup 0 .. CellMax /\ items \in 0 .. MaxItems
  /\ \A p \in CProcs : at[p] # "idle" => cell[p] /\ semaphore # NoSem
  /\ ~unheard /\ items > 0 /\ (\E p \in CProcs : at[p] \in {"wait", "timedwait"}) =>
        semaphore > 0 \/ \E p \in CProcs : at[p] \notin {"idle", "wait", "timedwait"}

(* "If the data check again returns false, the function returns 1 and sets *)
(* msgcellp->errcode to ENODATA" (msgcell.c:240-242): a receive that       *)
(* returned 0 was called, or ran, while there were data.                   *)
ReceivedData == \A p \in CProcs : at[p] = "take" => present[p]
=============================================================================
