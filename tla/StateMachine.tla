---------------------------- MODULE StateMachine ----------------------------
(***************************************************************************)
(* statemachine.c: a table of events, action lists, states and             *)
(* transitions, and a machine that runs on it.  The registration functions *)
(* are operators on the table that return the new table, a handle and the  *)
(* diagnostic they leave.  A handle is the index in C plus one, so that    *)
(* Null stands for SM_NULL_HANDLE and handle 1 for the initial state.      *)
(*                                                                         *)
(* sm_transition calls itself for the events its action handlers return:   *)
(* frames is the stack of the calls that have not returned.  A handler     *)
(* returns any registered event; the application's data is left out.       *)
(***************************************************************************)
EXTENDS Integers, Sequences, FiniteSets, SequencesExt

CONSTANTS EventNames, ListNames, ActionNames, StateNames, \* what an application registers
          Tables,          \* the tables a machine may be made on
          MAX_TRANSITIONS_PER_STATE, MAX_STATES_PER_MACHINE,
          MAX_EVENTS_PER_MACHINE, MAX_ACTION_LISTS_PER_MACHINE,
          MACHINE_EVENT_STACK_LEN, MACHINE_ERROR_QUEUE_LEN,
          MaxDefs,         \* bound: registrations in a behaviour
          MaxRaised        \* bound: events but EV_NULL that handlers raise in a call

Null    == 0
First   == 1
EV_NULL == "EVnull"  EV_INIT == "EVinit"  EV_ABORT == "EVabort"  EV_CLOCK == "EVclock"
StockEvents == {EV_NULL, EV_INIT, EV_ABORT, EV_CLOCK}
Unnamed == ""        \* the name in a slot that was never registered

ASSUME StateMachineAssumption ==
  /\ \A n \in {MAX_TRANSITIONS_PER_STATE, MAX_STATES_PER_MACHINE, MAX_EVENTS_PER_MACHINE,
               MAX_ACTION_LISTS_PER_MACHINE, MACHINE_EVENT_STACK_LEN,
               MACHINE_ERROR_QUEUE_LEN} : n \in Nat \ {0}
  /\ Unnamed \notin StateNames
  /\ MaxDefs \in Nat /\ MaxRaised \in Nat

VARIABLES table,     \* the definition, stdefp
          curr_state, prev_state, last_event, event_queue, txerrors, smerrno, \* SM_MACHINE
          frames,    \* the calls of sm_transition, the innermost last
          status,    \* what the last call returned
          defs, raised,       \* bounds: registrations, events raised in this call
          accepted, served    \* history: the events queued and taken off in this call, those found queued first

machine == <<curr_state, prev_state, last_event, event_queue, txerrors, smerrno>>
smvars  == <<table, machine, frames, status, defs, raised, accepted, served>>

-----------------------------------------------------------------------------
(* The table and its registration functions. *)
EmptyTable == [events |-> <<>>, actlists |-> <<>>, states |-> <<>>, complete |-> FALSE]

Index(names, n) == IF \E i \in DOMAIN names : names[i] = n
                   THEN CHOOSE i \in DOMAIN names : names[i] = n ELSE Null
NamesOf(s)      == [i \in DOMAIN s |-> s[i].name]

find_event(t, n)       == Index(t.events, n)
find_action_list(t, n) == Index(NamesOf(t.actlists), n)

(* The states are searched in all the slots: a slot never registered has   *)
(* an empty name and the handle of the first.                              *)
StateSlots(t)    == [i \in 1..MAX_STATES_PER_MACHINE |->
                       IF i <= Len(t.states) THEN t.states[i].name ELSE Unnamed]
find_state(t, n) == LET i == Index(StateSlots(t), n)
                    IN  IF i = Null \/ i <= Len(t.states) THEN i ELSE First

(* A result: the table, the handle, and the error posted (KEEP: none is). *)
Res(t, h, e) == [table |-> t, handle |-> h, err |-> e]

sm_register_event(t, n) ==
  CASE find_event(t, n) # Null -> Res(t, Null, "REGISTER_DUPLICATE")
    [] Len(t.events) = MAX_EVENTS_PER_MACHINE -> Res(t, Null, "NO_ERROR")
    [] OTHER -> Res([t EXCEPT !.events = Append(@, n)], Len(t.events) + 1, "NO_ERROR")

sm_register_stock_defs(t) ==
  LET null  == sm_register_event(t, EV_NULL)
      init  == sm_register_event(null.table, EV_INIT)
      abort == sm_register_event(init.table, EV_ABORT)
  IN  sm_register_event(abort.table, EV_CLOCK)

sm_register_action_list(t, n) ==
  CASE find_action_list(t, n) # Null -> Res(t, Null, "REGISTER_DUPLICATE")
    [] Len(t.actlists) = MAX_ACTION_LISTS_PER_MACHINE -> Res(t, Null, "NO_ERROR")
    [] OTHER -> Res([t EXCEPT !.actlists = Append(@, [name |-> n, list |-> <<>>])],
                    Len(t.actlists) + 1, "NO_ERROR")

find_action(t, al, n) == Index(t.actlists[find_action_list(t, al)].list, n)

sm_register_action(t, al, n) ==
  LET alh == find_action_list(t, al)
  IN  CASE alh = Null -> Res(t, Null, "PARENT_OBJECT_NOT_FOUND")
        [] alh # Null /\ find_action(t, al, n) # Null -> Res(t, Null, "REGISTER_DUPLICATE")
        [] OTHER -> Res([t EXCEPT !.actlists[alh].list = Append(@, n)], alh, "NO_ERROR")

(* No slot may be left for the state: the code does not look, and writes   *)
(* behind the array.  The model stops there (Registration).                *)
sm_register_state(t, n) ==
  IF find_state(t, n) # Null
  THEN Res(t, find_state(t, n), "REGISTER_DUPLICATE")
  ELSE Res([t EXCEPT !.states = Append(@, [name |-> n, transitions |-> <<>>])],
           Len(t.states) + 1, "KEEP")

sm_register_transition(t, s1, s2, ev, al) ==
  LET st1h == find_state(t, s1)   evh == find_event(t, ev)
      st2h == find_state(t, s2)   alh == find_action_list(t, al)
  IN  CASE Null \in {st1h, st2h, evh, alh} -> Res(t, Null, "OBJECT_NOT_FOUND")
        [] OTHER ->
             IF Len(t.states[st1h].transitions) >= MAX_TRANSITIONS_PER_STATE
             THEN Res(t, Null, "TOO_MANY_OBJECTS")
             ELSE Res([t EXCEPT !.states[st1h].transitions =
                         Append(@, [eventh |-> evh, s2 |-> st2h, alisth |-> alh])],
                      Len(t.states[st1h].transitions) + 1, "KEEP")

(* All the slots, the ones without a state too, until one is refused.  The *)
(* value returned is 0 when none was.                                      *)
Slot(r, s1, s2, ev, al) == IF r.handle = Null THEN r
                           ELSE sm_register_transition(r.table, s1, s2, ev, al)
sm_register_global_transition(t, s2, ev, al) ==
  LET slot[i \in 0..MAX_STATES_PER_MACHINE] ==
        IF i = 0 THEN Res(t, First, "KEEP") ELSE Slot(slot[i - 1], StateSlots(t)[i], s2, ev, al)
      end == slot[MAX_STATES_PER_MACHINE]
  IN  [end EXCEPT !.handle = IF end.handle = Null THEN 1 ELSE 0]

sm_set_definition_complete(t) == Res([t EXCEPT !.complete = TRUE], Null, "KEEP")
sm_get_definition_complete    == table.complete

TransitionType == [eventh : Nat, s2 : Nat, alisth : Nat]
ActionListType == [name : ListNames, list : Seq(ActionNames)]
StateType      == [name : StateNames, transitions : Seq(TransitionType)]
TableType == [events   : Seq(EventNames \cup StockEvents),
              actlists : Seq(ActionListType), states : Seq(StateType), complete : BOOLEAN]

(* Every handle in the table is one of the table's own, and no two objects *)
(* of a kind have the same name.                                           *)
TableOK(t) ==
  /\ \A names \in {t.events, NamesOf(t.actlists), NamesOf(t.states)} : IsInjective(names)
  /\ \A l \in ToSet(t.actlists) : IsInjective(l.list)
  /\ Len(t.states) <= MAX_STATES_PER_MACHINE
  /\ \A s \in ToSet(t.states) :
       /\ Len(s.transitions) <= MAX_TRANSITIONS_PER_STATE
       /\ \A x \in ToSet(s.transitions) : /\ x.eventh \in DOMAIN t.events
                                          /\ x.s2 \in DOMAIN t.states
                                          /\ x.alisth \in DOMAIN t.actlists

(* A machine is made on a table that these functions have filled.          *)
ASSUME TablesAssumption == \A t \in Tables : t \in TableType /\ TableOK(t)

-----------------------------------------------------------------------------
(* The machine. *)
set_diag(e) == smerrno' = IF e = "KEEP" THEN smerrno ELSE e

NewMachine(t) == /\ curr_state = First /\ prev_state = First
                 /\ last_event = find_event(t, EV_INIT)
                 /\ event_queue = <<>> /\ txerrors = <<>> /\ smerrno = "NO_ERROR"

(* sm_new_machine on any of the tables. *)
SMInit == /\ table \in Tables /\ NewMachine(table)
          /\ frames = <<>> /\ status = "NO_ERROR"
          /\ defs = 0 /\ raised = 0 /\ accepted = <<>> /\ served = <<>>

Idle == frames = <<>>

Registration(r) == /\ Idle /\ defs < MaxDefs
                   /\ Len(r.table.states) <= MAX_STATES_PER_MACHINE
                   /\ table' = r.table /\ set_diag(r.err) /\ defs' = defs + 1
                   /\ UNCHANGED <<curr_state, prev_state, last_event, event_queue, txerrors,
                                  frames, status, raised, accepted, served>>

Register ==
  \/ Registration(sm_register_stock_defs(table))
  \/ \E n \in EventNames : Registration(sm_register_event(table, n))
  \/ \E n \in ListNames : Registration(sm_register_action_list(table, n))
  \/ \E al \in ListNames, n \in ActionNames : Registration(sm_register_action(table, al, n))
  \/ \E n \in StateNames : Registration(sm_register_state(table, n))
  \/ \E s1, s2 \in StateNames, ev \in EventNames, al \in ListNames :
        Registration(sm_register_transition(table, s1, s2, ev, al))
  \/ \E s2 \in StateNames, ev \in EventNames, al \in ListNames :
        Registration(sm_register_global_transition(table, s2, ev, al))
  \/ Registration(sm_set_definition_complete(table))

sm_reset_machine ==
  /\ Idle
  /\ curr_state' = First /\ prev_state' = First /\ last_event' = find_event(table, EV_INIT)
  /\ event_queue' = <<>> /\ txerrors' = <<>> /\ smerrno' = "NO_ERROR"
  /\ accepted' = <<>> /\ served' = <<>>
  /\ UNCHANGED <<table, frames, status, defs, raised>>

sm_pop_tx_error ==
  /\ Idle /\ txerrors # <<>>
  /\ txerrors' = Tail(txerrors)
  /\ UNCHANGED <<table, curr_state, prev_state, last_event, event_queue, smerrno, frames,
                 status, defs, raised, accepted, served>>

Top           == Last(frames)
Pop           == Front(frames)
Update(f)     == Append(Pop, f)
HandlersOf(f) == table.actlists[f.tx.alisth].list
NoTx          == [eventh |-> Null, s2 |-> Null, alisth |-> Null]

(* The transition of the current state that an event selects: the first. *)
Select(evh) == LET txs == table.states[curr_state].transitions
                   m   == {i \in DOMAIN txs : txs[i].eventh = evh}
               IN  IF curr_state > Len(table.states) \/ m = {} THEN NoTx
                   ELSE txs[CHOOSE i \in m : \A j \in m : i <= j]

(* The early returns of sm_transition, and the frame of a call that goes on.*)
Enter(evh, n) ==
  CASE evh = Null   -> "OBJECT_NOT_FOUND"
    [] n = EV_NULL  -> "NO_ERROR"
    [] n = EV_ABORT -> "MACHINE_ABORT"
    [] OTHER -> IF table.complete THEN "run" ELSE "MACHINE_DEF_NOT_COMPLETE"
Frame(evh)   == [tx |-> Select(evh), next |-> 1, status |-> "NO_ERROR"]

(* A call by the application with the name of an event. *)
sm_transition(n) ==
  LET evh == find_event(table, n)
      e   == Enter(evh, n)
  IN  /\ Idle
      /\ frames' = IF e = "run" THEN <<Frame(evh)>> ELSE <<>>
      /\ status' = IF e = "run" THEN "NO_ERROR" ELSE e
      /\ set_diag(IF e \in {"OBJECT_NOT_FOUND", "MACHINE_DEF_NOT_COMPLETE"} THEN e ELSE "KEEP")
      /\ UNCHANGED <<table, curr_state, prev_state, last_event, event_queue, txerrors, defs,
                     raised, accepted, served>>

Acting == frames # <<>> /\ Top.tx # NoTx

(* The next handler of the list returns an event, which is queued if there *)
(* is room.                                                                *)
Handler == /\ Acting /\ Top.next <= Len(HandlersOf(Top))
           /\ \E e \in DOMAIN table.events :
                /\ raised' = raised + (IF table.events[e] = EV_NULL THEN 0 ELSE 1)
                /\ raised' <= MaxRaised
                /\ IF Len(event_queue) < MACHINE_EVENT_STACK_LEN
                   THEN event_queue' = Append(event_queue, e) /\ accepted' = Append(accepted, e)
                   ELSE UNCHANGED <<event_queue, accepted>>
           /\ frames' = Update([Top EXCEPT !.next = @ + 1])
           /\ UNCHANGED <<table, curr_state, prev_state, last_event, txerrors, smerrno, status,
                          defs, served>>
(* Faulty: the list of actions starts over. *)
Land_Stays == /\ Acting /\ Top.next > Len(HandlersOf(Top))
              /\ frames' = Update([Top EXCEPT !.next = 1])
              /\ UNCHANGED <<table, machine, status, defs, raised, accepted, served>>

(* The list is done: the machine enters the state of the transition. *)
Land == /\ Acting /\ Top.next > Len(HandlersOf(Top))
        /\ prev_state' = curr_state /\ curr_state' = Top.tx.s2 /\ last_event' = Top.tx.eventh
        /\ frames' = Update([Top EXCEPT !.tx = NoTx])
        /\ UNCHANGED <<table, event_queue, txerrors, smerrno, status, defs, raised, accepted,
                       served>>
(* Faulty: an event is served before the list of the last one is done. *)
Draining_Early == frames # <<>> /\ Top.status = "NO_ERROR" /\ event_queue # <<>>
Draining == frames # <<>> /\ Top.tx = NoTx /\ Top.status = "NO_ERROR" /\ event_queue # <<>>

(* The oldest queued event is taken off for a nested call. *)
Dispatch == LET evh == Head(event_queue)
                e   == Enter(evh, table.events[evh])
            IN  /\ Draining
                /\ event_queue' = Tail(event_queue) /\ served' = Append(served, evh)
                /\ frames' = IF e = "run" THEN Append(frames, Frame(evh))
                             ELSE Update([Top EXCEPT !.status = e])
                /\ UNCHANGED <<table, curr_state, prev_state, last_event, txerrors, smerrno,
                               status, defs, raised, accepted>>

push_txdiag(f) == txerrors' = IF Len(txerrors) < MACHINE_ERROR_QUEUE_LEN
                              THEN Append(txerrors, f.status) ELSE txerrors

(* Faulty: what the nested call returned is dropped. *)
Received_Dropped(f, s) == f

(* The loop of a call goes on with what a nested call returned. *)
Received(f, s) == [f EXCEPT !.status = s]

(* The call returns to the call below, or to the application. *)
Return == /\ frames # <<>> /\ Top.tx = NoTx /\ ~Draining
          /\ IF Top.status = "NO_ERROR" THEN UNCHANGED <<smerrno, txerrors>>
             ELSE set_diag(Top.status) /\ push_txdiag(Top)
          /\ IF Len(frames) = 1
             THEN /\ frames' = <<>> /\ status' = Top.status
                  /\ raised' = 0 /\ accepted' = event_queue /\ served' = <<>>
             ELSE /\ frames' = Append(Front(Pop), Received(Last(Pop), Top.status))
                  /\ UNCHANGED <<status, raised, accepted, served>>
          /\ UNCHANGED <<table, curr_state, prev_state, last_event, event_queue, defs>>

Run    == Handler \/ Land \/ Dispatch \/ Return
SMNext == \/ Register \/ sm_reset_machine \/ sm_pop_tx_error \/ Run
          \/ \E n \in EventNames \cup StockEvents : sm_transition(n)
SMSpec == SMInit /\ [][SMNext]_smvars /\ WF_smvars(Run)

-----------------------------------------------------------------------------
Diagnostics == {"NO_ERROR", "REGISTER_DUPLICATE", "PARENT_OBJECT_NOT_FOUND", "OBJECT_NOT_FOUND",
                "TOO_MANY_OBJECTS", "MACHINE_ABORT", "MACHINE_DEF_NOT_COMPLETE"}

FrameType == [tx : TransitionType, next : Nat \ {0}, status : Diagnostics]

(* The types; an event in the queue is one of the table.                   *)
SMTypeOK ==
  /\ table \in TableType
  /\ {event_queue, accepted, served} \subseteq Seq(DOMAIN table.events)
  /\ txerrors \in Seq(Diagnostics) /\ {smerrno, status} \subseteq Diagnostics
  /\ frames \in Seq(FrameType)
  /\ defs \in 0..MaxDefs /\ raised \in 0..MaxRaised

(* A machine's type and the consistency of its table; and run to           *)
(* completion: only the innermost call of sm_transition runs handlers, all *)
(* of them of a transition that leaves the machine's current state, and    *)
(* the events are served, across the nested calls and the calls after an   *)
(* abort, in the order in which the handlers raised them.                  *)
MachineInv ==
  /\ SMTypeOK /\ TableOK(table)
  /\ {curr_state, prev_state} \subseteq 1..Len(table.states) \cup {First}
  /\ last_event \in DOMAIN table.events \cup {Null}
  /\ Len(event_queue) <= MACHINE_EVENT_STACK_LEN /\ Len(txerrors) <= MACHINE_ERROR_QUEUE_LEN
  /\ \A i \in 1..(Len(frames) - 1) : frames[i].tx = NoTx
  /\ Acting => /\ curr_state \in DOMAIN table.states
               /\ Top.tx \in ToSet(table.states[curr_state].transitions)
  /\ accepted = served \o event_queue

(* A call that went well has served every event, and leaves no error; a    *)
(* call that an abort or an error ended unwinds without another transition *)
(* and posts one error, the same for each call on the stack, while there   *)
(* is room.                                                                *)
AbortUnwinds ==
  [][Len(frames') < Len(frames) =>
       IF Top.status = "NO_ERROR"
       THEN event_queue = <<>> /\ txerrors' = txerrors
       ELSE /\ UNCHANGED <<curr_state, event_queue>>
            /\ Len(txerrors') = IF Len(txerrors) = MACHINE_ERROR_QUEUE_LEN
                                THEN Len(txerrors) ELSE Len(txerrors) + 1
            /\ IF Idle' THEN status' = Top.status ELSE Last(frames').status = Top.status]_smvars

(* Every call of sm_transition returns, although handlers raise events     *)
(* that lead to other transitions, when they raise no more than MaxRaised. *)
CallReturns == frames # <<>> ~> frames = <<>>
=============================================================================
