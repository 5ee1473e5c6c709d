-------------------------- MODULE StructuresProofs --------------------------
(***************************************************************************)
(* The structures and the dispatcher in the memory of one process. Dqacc   *)
(* keeps its invariants, and implements BoundedDeque, for every set of     *)
(* items and of capacities; the state machine processor runs each          *)
(* transition to its end, for every set of registered names and every      *)
(* table; llacc.c keeps one chain, and implements NodeList, for every set  *)
(* of nodes; the settings of a process agree and have their                *)
(* precedence, for every shell and every set of .ini files; and the reader *)
(* makes of every grammatical .ini file the sections and the values that   *)
(* its lines write, for every size of its buffer.                          *)
(***************************************************************************)
EXTENDS Dqacc, StateMachine, LinkedList, SysConfig, IniFile,
        DequeOpsProofs, SequenceTheorems, FiniteSetTheorems,
        WellFoundedInduction

(***************************************************************************)
(* The deque (dqacc.c).                                                    *)
(***************************************************************************)

(* What the initial states establish and every step keeps: the types, the  *)
(* consistency of the ring, and what the refinement rests on.              *)
IInv == /\ HeaderType(dq, Cells)
        /\ RingInv
        /\ NoBlankStored
        /\ HeapBalance

LEMMA FreshRing ==
  ASSUME NEW slots \in Capacities
  PROVE  LET d == NewDeque(slots, Blank)
         IN  /\ HeaderType(d, Cells) /\ RingConsistent(d) /\ Contents(d) = << >>
             /\ Contents(d) \in Seq(Items) /\ d.dq_open = TRUE /\ d.dqslots = slots
<1>1. slots \in Nat /\ Blank \in Cells
  BY DqaccAssumption DEF Cells
<1>2. << >> \in Seq(Items)
  OBVIOUS
<1>3. NewDeque(slots, Blank).dq_open = TRUE /\ NewDeque(slots, Blank).dqslots = slots
  BY DEF NewDeque
<1>4. QED BY <1>1, <1>2, <1>3, NewDequeOK

LEMMA InitIInv == Init => IInv
<1> SUFFICES ASSUME Init PROVE IInv
  OBVIOUS
<1>1. PICK slots \in Capacities : dq = NewDeque(slots, Blank)
  BY DEF Init
<1>2. /\ HeaderType(dq, Cells) /\ RingConsistent(dq)
      /\ Contents(dq) \in Seq(Items) /\ dq.dq_open = TRUE
  BY <1>1, FreshRing
<1>3. HeapBalance
  BY <1>2 DEF Init, HeapBalance
<1>4. QED BY <1>2, <1>3 DEF IInv, RingInv, NoBlankStored

(* The invariant is inductive, one step per action.                        *)
LEMMA NextIInv == IInv /\ [Next]_vars => IInv'
<1> SUFFICES ASSUME IInv, [Next]_vars PROVE IInv'
  OBVIOUS
<1>1. /\ HeaderType(dq, Cells) /\ RingConsistent(dq)
      /\ Contents(dq) \in Seq(Items) /\ HeapBalance
  BY DEF IInv, RingInv, NoBlankStored
<1>2. ASSUME NEW slots \in Capacities, Create(slots)
      PROVE  IInv'
  <2>1. dq' = NewDeque(slots, Blank)
    BY <1>2 DEF Create, dq_init, dq_init_buffer, dq_init_memmap
  <2>2. /\ HeaderType(dq', Cells) /\ RingConsistent(dq')
        /\ Contents(dq') \in Seq(Items) /\ dq'.dq_open = TRUE
    BY <2>1, FreshRing
  <2>3. HeapBalance'
    <3>1. CASE ~dq.dq_open /\ dq_init(slots)
      <4>1. heap = 0
        BY <1>1, <3>1 DEF HeapBalance
      <4>2. heap' = 1 /\ dqbuff' = "heap" /\ memmapped' = FALSE /\ buffctrl' = FALSE
        BY <3>1, <4>1 DEF dq_init
      <4>3. QED BY <2>2, <4>2 DEF HeapBalance
    <3>2. CASE ~dq.dq_open /\ dq_init_buffer(slots)
      <4>1. heap = 0
        BY <1>1, <3>2 DEF HeapBalance
      <4>2. heap' = 0 /\ dqbuff' = "user" /\ buffctrl' = TRUE
        BY <3>2, <4>1 DEF dq_init_buffer
      <4>3. QED BY <2>2, <4>2 DEF HeapBalance
    <3>3. CASE (~dq.dq_open \/ memmapped) /\ dq_init_memmap(slots)
      <4>1. heap = 0
        BY <1>1, <3>3 DEF HeapBalance
      <4>2. heap' = 0 /\ dqbuff' = "null" /\ memmapped' = TRUE
        BY <3>3, <4>1 DEF dq_init_memmap
      <4>3. QED BY <2>2, <4>2 DEF HeapBalance
    <3>4. QED BY <1>2, <3>1, <3>2, <3>3 DEF Create
  <2>4. QED BY <2>2, <2>3 DEF IInv, RingInv, NoBlankStored
<1>3. CASE dq_close
  <2>1. dq' = [dq EXCEPT !.dq_open = FALSE]
    BY <1>3 DEF dq_close
  <2>2. /\ HeaderType(dq', Cells) /\ RingConsistent(dq')
        /\ Contents(dq') \in Seq(Items) /\ dq'.dq_open = FALSE
    BY <1>1, <2>1, CloseOK
  <2>3. dq.dq_open \in BOOLEAN
    BY <1>1, Fields
  <2>4. HeapBalance'
    BY <1>1, <1>3, <2>2, <2>3 DEF dq_close, HeapBalance
  <2>5. QED BY <2>2, <2>4 DEF IInv, RingInv, NoBlankStored
<1>4. ASSUME HeaderType(dq', Cells), RingConsistent(dq'), Contents(dq') \in Seq(Items),
             dq'.dq_open = dq.dq_open, UNCHANGED owner
      PROVE  IInv'
  <2>1. HeapBalance'
    BY <1>1, <1>4 DEF HeapBalance, owner
  <2>2. QED BY <1>4, <2>1 DEF IInv, RingInv, NoBlankStored
<1>5. ASSUME NEW item \in Items, dq_atd(item)
      PROVE  IInv'
  <2>1. dq' = Atd(dq, item) /\ UNCHANGED owner /\ item \in Cells
    BY <1>5 DEF dq_atd, Cells
  <2>2. HeaderType(dq', Cells) /\ RingConsistent(dq')
    BY <1>1, <2>1, AtdType, AtdRing
  <2>3. Contents(dq') \in Seq(Items) /\ dq'.dq_open = dq.dq_open
    <3>1. CASE HasRoom(dq)
      <4>1. Contents(dq') = Append(Contents(dq), item)
        BY <1>1, <2>1, <3>1, AtdContents
      <4>2. dq'.dq_open = dq.dq_open
        BY <1>1, <2>1, <3>1, AtdFields
      <4>3. QED BY <1>1, <4>1, <4>2, AppendProperties
    <3>2. QED BY <1>1, <2>1, <3>1 DEF Atd
  <2>4. QED BY <1>4, <2>1, <2>2, <2>3
<1>6. ASSUME NEW item \in Items, dq_abd(item)
      PROVE  IInv'
  <2>1. dq' = Abd(dq, item) /\ UNCHANGED owner /\ item \in Cells
    BY <1>6 DEF dq_abd, Cells
  <2>2. HeaderType(dq', Cells) /\ RingConsistent(dq')
    BY <1>1, <2>1, AbdType, AbdRing
  <2>3. Contents(dq') \in Seq(Items) /\ dq'.dq_open = dq.dq_open
    <3>1. CASE HasRoom(dq)
      <4>1. Contents(dq') = <<item>> \o Contents(dq) /\ <<item>> \in Seq(Items)
        BY <1>1, <2>1, <3>1, AbdContents
      <4>2. dq'.dq_open = dq.dq_open
        BY <1>1, <2>1, <3>1, AbdFields
      <4>3. QED BY <1>1, <4>1, <4>2, ConcatProperties
    <3>2. QED BY <1>1, <2>1, <3>1 DEF Abd
  <2>4. QED BY <1>4, <2>1, <2>2, <2>3
<1>7. CASE dq_rtd
  <2>1. dq' = Rtd(dq) /\ UNCHANGED owner
    BY <1>7 DEF dq_rtd
  <2>2. HeaderType(dq', Cells) /\ RingConsistent(dq')
    BY <1>1, <2>1, RtdType, RtdRing
  <2>3. Contents(dq') \in Seq(Items) /\ dq'.dq_open = dq.dq_open
    <3>1. CASE HasItem(dq)
      <4>1. Contents(dq') = SubSeq(Contents(dq), 1, Len(Contents(dq)) - 1)
        BY <1>1, <2>1, <3>1, RtdContents
      <4>2. dq'.dq_open = dq.dq_open
        BY <1>1, <2>1, <3>1, RtdFields
      <4>3. /\ Len(Contents(dq)) - 1 \in Int /\ 1 \in Int
            /\ \A i \in 1 .. Len(Contents(dq)) - 1 : Contents(dq)[i] \in Items
        BY <1>1, LenProperties, ElementOfSeq
      <4>4. SubSeq(Contents(dq), 1, Len(Contents(dq)) - 1) \in Seq(Items)
        BY <4>3, SubSeqProperties
      <4>5. QED BY <4>1, <4>2, <4>4
    <3>2. QED BY <1>1, <2>1, <3>1 DEF Rtd
  <2>4. QED BY <1>4, <2>1, <2>2, <2>3
<1>8. CASE dq_rbd
  <2>1. dq' = Rbd(dq) /\ UNCHANGED owner
    BY <1>8 DEF dq_rbd
  <2>2. HeaderType(dq', Cells) /\ RingConsistent(dq')
    BY <1>1, <2>1, RbdType, RbdRing
  <2>3. Contents(dq') \in Seq(Items) /\ dq'.dq_open = dq.dq_open
    <3>1. CASE HasItem(dq)
      <4>1. Contents(dq') = Tail(Contents(dq)) /\ Contents(dq) # << >>
        BY <1>1, <2>1, <3>1, RbdContents
      <4>2. dq'.dq_open = dq.dq_open
        BY <1>1, <2>1, <3>1, RbdFields
      <4>3. QED BY <1>1, <4>1, <4>2, HeadTailProperties
    <3>2. QED BY <1>1, <2>1, <3>1 DEF Rbd
  <2>4. QED BY <1>4, <2>1, <2>2, <2>3
<1>9. CASE UNCHANGED vars
  BY <1>1, <1>4, <1>9 DEF vars, owner
<1>10. QED BY <1>2, <1>3, <1>5, <1>6, <1>7, <1>8, <1>9 DEF Next

(* In every reachable state the ring is well typed and consistent, holds   *)
(* only stored items, and its buffer is on the heap while it must be.      *)
THEOREM Invariance == Spec => [](RingInv /\ NoBlankStored /\ HeapBalance)
<1>1. IInv => RingInv /\ NoBlankStored /\ HeapBalance
  BY DEF IInv
<1>2. QED BY InitIInv, NextIInv, <1>1, PTL DEF Spec

(* The type invariant: IInv with the types of the bookkeeping variables.   *)
OwnerType == /\ memmapped \in BOOLEAN /\ buffctrl \in BOOLEAN
             /\ dqbuff \in {"null", "heap", "user"}
             /\ bufflen \in Nat
RetType == ret.flag \in BOOLEAN /\ ret.item \in Seq(Cells)

LEMMA Sizes ==
  ASSUME NEW slots \in Nat
  PROVE  BuffSize(slots) \in Nat /\ ItemSize * slots \in Nat
<1>1. ItemSize * slots \in Nat
  BY DqaccAssumption
<1>2. QED BY <1>1, DqaccAssumption, ModRange DEF BuffSize

LEMMA ReturnedType ==
  ASSUME NEW op, NEW flag \in BOOLEAN, NEW item \in Seq(Cells), Returned(op, flag, item)
  PROVE  RetType'
  BY DEF Returned, RetType, Cells

LEMMA InitTypes == Init => OwnerType /\ RetType
<1> SUFFICES ASSUME Init PROVE OwnerType /\ RetType
  OBVIOUS
<1>1. PICK slots \in Capacities : dq = NewDeque(slots, Blank)
  BY DEF Init
<1>2. dq.dqslots \in Nat
  BY <1>1, DqaccAssumption, FreshRing
<1>3. BuffSize(dq.dqslots) \in Nat /\ ItemSize * dq.dqslots \in Nat
  BY <1>2, Sizes
<1>4. OwnerType
  BY <1>3 DEF Init, OwnerType
<1>5. << >> \in Seq(Cells)
  OBVIOUS
<1>6. RetType
  BY <1>5 DEF Init, RetType
<1>7. QED BY <1>4, <1>6

LEMMA NextTypes == IInv /\ OwnerType /\ RetType /\ [Next]_vars => OwnerType' /\ RetType'
<1> SUFFICES ASSUME IInv, OwnerType, RetType, [Next]_vars
             PROVE  OwnerType' /\ RetType'
  OBVIOUS
<1>1. HeaderType(dq, Cells) /\ Items \subseteq Cells
  BY DEF IInv, Cells
<1>2. << >> \in Seq(Cells)
  OBVIOUS
<1>3. (UNCHANGED owner) => OwnerType'
  BY DEF OwnerType, owner
<1>4. ASSUME NEW slots \in Capacities, Create(slots)
      PROVE  OwnerType' /\ RetType'
  <2>1. BuffSize(slots) \in Nat /\ ItemSize * slots \in Nat
    BY DqaccAssumption, Sizes
  <2>2. OwnerType'
    BY <1>4, <2>1 DEF Create, dq_init, dq_init_buffer, dq_init_memmap, OwnerType
  <2>3. Returned("init", FALSE, << >>)
    BY <1>4 DEF Create, dq_init, dq_init_buffer, dq_init_memmap
  <2>4. QED BY <1>2, <2>2, <2>3, ReturnedType
<1>5. CASE dq_close
  <2>1. OwnerType'
    BY <1>5 DEF dq_close, OwnerType
  <2>2. Returned("close", FALSE, << >>)
    BY <1>5 DEF dq_close
  <2>3. QED BY <1>2, <2>1, <2>2, ReturnedType
<1>6. ASSUME NEW item \in Items, dq_atd(item) \/ dq_abd(item)
      PROVE  OwnerType' /\ RetType'
  <2> DEFINE got == IF HasRoom(dq) THEN <<item>> ELSE << >>
             full == ~HasRoom(dq)
  <2>1. got \in Seq(Cells)
    BY <1>1, <1>2
  <2>2. full \in BOOLEAN
    OBVIOUS
  <2>3. UNCHANGED owner /\ (Returned("atd", full, got) \/ Returned("abd", full, got))
    BY <1>6 DEF dq_atd, dq_abd
  <2> HIDE DEF got, full
  <2>4. QED BY <1>3, <2>1, <2>2, <2>3, ReturnedType
<1>7. ASSUME NEW item \in Cells, UNCHANGED owner,
             NEW op, Returned(op, ~HasItem(dq), IF HasItem(dq) THEN <<item>> ELSE << >>)
      PROVE  OwnerType' /\ RetType'
  <2> DEFINE got == IF HasItem(dq) THEN <<item>> ELSE << >>
             empty == ~HasItem(dq)
  <2>1. got \in Seq(Cells)
    BY <1>2
  <2>2. empty \in BOOLEAN
    OBVIOUS
  <2>3. Returned(op, empty, got)
    BY <1>7
  <2> HIDE DEF got, empty
  <2>4. QED BY <1>3, <1>7, <2>1, <2>2, <2>3, ReturnedType
<1>8. ASSUME NEW item, NEW op, ~HasItem(dq), UNCHANGED owner,
             Returned(op, ~HasItem(dq), IF HasItem(dq) THEN <<item>> ELSE << >>)
      PROVE  OwnerType' /\ RetType'
  <2>1. Returned(op, TRUE, << >>)
    BY <1>8
  <2>2. QED BY <1>2, <1>3, <1>8, <2>1, ReturnedType
<1>9. HasItem(dq) => TopItem(dq) \in Cells /\ BottomItem(dq) \in Cells
  BY <1>1, Fields DEF HasItem, TopItem, BottomItem
<1>10. CASE dq_rtd
  <2>1. /\ UNCHANGED owner
        /\ Returned("rtd", ~HasItem(dq), IF HasItem(dq) THEN <<TopItem(dq)>> ELSE << >>)
    BY <1>10 DEF dq_rtd
  <2>2. QED BY <1>7, <1>8, <1>9, <2>1
<1>11. CASE dq_rbd
  <2>1. /\ UNCHANGED owner
        /\ Returned("rbd", ~HasItem(dq), IF HasItem(dq) THEN <<BottomItem(dq)>> ELSE << >>)
    BY <1>11 DEF dq_rbd
  <2>2. QED BY <1>7, <1>8, <1>9, <2>1
<1>12. CASE UNCHANGED vars
  BY <1>12 DEF vars, OwnerType, RetType
<1>13. QED BY <1>4, <1>5, <1>6, <1>10, <1>11, <1>12 DEF Next

(* Every header reachable by calls of dqacc.c is well typed.               *)
THEOREM TypeCorrect == Spec => []TypeOK
<1>1. IInv /\ OwnerType /\ RetType => TypeOK
  <2>1. HeapBalance => heap \in Nat
    BY DEF HeapBalance
  <2>2. QED BY <2>1 DEF IInv, OwnerType, RetType, TypeOK
<1>2. QED BY InitIInv, NextIInv, InitTypes, NextTypes, <1>1, PTL DEF Spec

-----------------------------------------------------------------------------
(* The ring has room exactly while the abstract deque fits one more item,  *)
(* and an item exactly while the abstract deque has one.                   *)
LEMMA Guards ==
  ASSUME IInv
  PROVE  /\ HasRoom(dq) <=> Abstract!Fits
         /\ HasItem(dq) <=> Abstract!Some
<1>1. HeaderType(dq, Cells)
  BY DEF IInv
<1>2. /\ Contents(dq) \in Seq(Cells) /\ Len(Contents(dq)) = dq.dquse
      /\ dq.dquse \in Nat /\ dq.dqslots \in Nat /\ dq.dq_open \in BOOLEAN
  BY <1>1, ContentsSeq, Fields
<1>3. Contents(dq) # << >> <=> dq.dquse > 0
  BY <1>2, EmptySeq
<1>4. HasRoom(dq) <=> Abstract!Fits
  BY <1>2 DEF HasRoom, Abstract!Fits
<1>5. HasItem(dq) <=> Abstract!Some
  BY <1>3 DEF HasItem, Abstract!Some
<1>6. QED BY <1>4, <1>5

(* Every step of the ring is a step of the abstract deque or a stutter.    *)
LEMMA StepRefines == IInv /\ [Next]_vars => [Abstract!Next]_(Abstract!vars)
<1> SUFFICES ASSUME IInv, [Next]_vars PROVE [Abstract!Next]_(Abstract!vars)
  OBVIOUS
<1>1. HeaderType(dq, Cells) /\ RingConsistent(dq) /\ Items \subseteq Cells
  BY DEF IInv, RingInv, Cells
<1>2. ASSUME NEW slots \in Capacities, Create(slots)
      PROVE  Abstract!Create
  <2>1. dq' = NewDeque(slots, Blank) /\ Returned("init", FALSE, << >>)
    BY <1>2 DEF Create, dq_init, dq_init_buffer, dq_init_memmap
  <2>2. Contents(dq') = << >> /\ dq'.dqslots = slots /\ dq'.dq_open = TRUE
    BY <2>1, FreshRing
  <2>3. QED BY <2>1, <2>2 DEF Abstract!Create, Returned
<1>3. CASE dq_close
  <2>1. dq' = [dq EXCEPT !.dq_open = FALSE] /\ Returned("close", FALSE, << >>)
    BY <1>3 DEF dq_close
  <2>2. Contents(dq') = Contents(dq) /\ dq'.dqslots = dq.dqslots /\ dq'.dq_open = FALSE
    BY <1>1, <2>1, CloseOK
  <2>3. Abstract!Close
    BY <2>1, <2>2 DEF Abstract!Close, Returned
  <2>4. QED BY <2>3 DEF Abstract!Next
<1>4. ASSUME NEW item \in Items, dq_atd(item)
      PROVE  Abstract!AddTop(item)
  <2>1. dq' = Atd(dq, item)
    BY <1>4 DEF dq_atd
  <2>2. CASE HasRoom(dq)
    <3>1. Contents(dq') = Append(Contents(dq), item)
      BY <1>1, <2>1, <2>2, AtdContents
    <3>2. dq'.dq_open = dq.dq_open /\ dq'.dqslots = dq.dqslots
      BY <1>1, <2>1, <2>2, AtdFields
    <3>3. ret' = [op |-> "atd", flag |-> FALSE, item |-> <<item>>]
      BY <1>4, <2>2 DEF dq_atd, Returned
    <3>4. QED BY <2>2, <3>1, <3>2, <3>3, Guards DEF Abstract!AddTop, Abstract!Did
  <2>3. CASE ~HasRoom(dq)
    <3>1. dq' = dq
      BY <2>1, <2>3 DEF Atd
    <3>2. ret' = [op |-> "atd", flag |-> TRUE, item |-> << >>]
      BY <1>4, <2>3 DEF dq_atd, Returned
    <3>3. QED BY <2>3, <3>1, <3>2, Guards DEF Abstract!AddTop, Abstract!Refused
  <2>4. QED BY <2>2, <2>3
<1>5. ASSUME NEW item \in Items, dq_abd(item)
      PROVE  Abstract!AddBottom(item)
  <2>1. dq' = Abd(dq, item)
    BY <1>5 DEF dq_abd
  <2>2. CASE HasRoom(dq)
    <3>1. Contents(dq') = <<item>> \o Contents(dq)
      BY <1>1, <2>1, <2>2, AbdContents
    <3>2. dq'.dq_open = dq.dq_open /\ dq'.dqslots = dq.dqslots
      BY <1>1, <2>1, <2>2, AbdFields
    <3>3. ret' = [op |-> "abd", flag |-> FALSE, item |-> <<item>>]
      BY <1>5, <2>2 DEF dq_abd, Returned
    <3>4. QED BY <2>2, <3>1, <3>2, <3>3, Guards DEF Abstract!AddBottom, Abstract!Did
  <2>3. CASE ~HasRoom(dq)
    <3>1. dq' = dq
      BY <2>1, <2>3 DEF Abd
    <3>2. ret' = [op |-> "abd", flag |-> TRUE, item |-> << >>]
      BY <1>5, <2>3 DEF dq_abd, Returned
    <3>3. QED BY <2>3, <3>1, <3>2, Guards DEF Abstract!AddBottom, Abstract!Refused
  <2>4. QED BY <2>2, <2>3
<1>6. CASE dq_rtd
  <2>1. dq' = Rtd(dq)
    BY <1>6 DEF dq_rtd
  <2>2. CASE HasItem(dq)
    <3>1. /\ Contents(dq') = SubSeq(Contents(dq), 1, Len(Contents(dq)) - 1)
          /\ TopItem(dq) = Contents(dq)[Len(Contents(dq))]
      BY <1>1, <2>1, <2>2, RtdContents
    <3>2. dq'.dq_open = dq.dq_open /\ dq'.dqslots = dq.dqslots
      BY <1>1, <2>1, <2>2, RtdFields
    <3>3. ret' = [op |-> "rtd", flag |-> FALSE, item |-> <<TopItem(dq)>>]
      BY <1>6, <2>2 DEF dq_rtd, Returned
    <3>4. Abstract!RemoveTop
      BY <2>2, <3>1, <3>2, <3>3, Guards DEF Abstract!RemoveTop, Abstract!Did
    <3>5. QED BY <3>4 DEF Abstract!Next
  <2>3. CASE ~HasItem(dq)
    <3>1. dq' = dq
      BY <2>1, <2>3 DEF Rtd
    <3>2. ret' = [op |-> "rtd", flag |-> TRUE, item |-> << >>]
      BY <1>6, <2>3 DEF dq_rtd, Returned
    <3>3. Abstract!RemoveTop
      BY <2>3, <3>1, <3>2, Guards DEF Abstract!RemoveTop, Abstract!Refused
    <3>4. QED BY <3>3 DEF Abstract!Next
  <2>4. QED BY <2>2, <2>3
<1>7. CASE dq_rbd
  <2>1. dq' = Rbd(dq)
    BY <1>7 DEF dq_rbd
  <2>2. CASE HasItem(dq)
    <3>1. /\ Contents(dq') = Tail(Contents(dq))
          /\ BottomItem(dq) = Contents(dq)[1]
      BY <1>1, <2>1, <2>2, RbdContents
    <3>2. dq'.dq_open = dq.dq_open /\ dq'.dqslots = dq.dqslots
      BY <1>1, <2>1, <2>2, RbdFields
    <3>3. ret' = [op |-> "rbd", flag |-> FALSE, item |-> <<BottomItem(dq)>>]
      BY <1>7, <2>2 DEF dq_rbd, Returned
    <3>4. Abstract!RemoveBottom
      BY <2>2, <3>1, <3>2, <3>3, Guards DEF Abstract!RemoveBottom, Abstract!Did
    <3>5. QED BY <3>4 DEF Abstract!Next
  <2>3. CASE ~HasItem(dq)
    <3>1. dq' = dq
      BY <2>1, <2>3 DEF Rbd
    <3>2. ret' = [op |-> "rbd", flag |-> TRUE, item |-> << >>]
      BY <1>7, <2>3 DEF dq_rbd, Returned
    <3>3. Abstract!RemoveBottom
      BY <2>3, <3>1, <3>2, Guards DEF Abstract!RemoveBottom, Abstract!Refused
    <3>4. QED BY <3>3 DEF Abstract!Next
  <2>4. QED BY <2>2, <2>3
<1>8. CASE UNCHANGED vars
  BY <1>8 DEF vars, Abstract!vars
<1>9. QED BY <1>2, <1>3, <1>4, <1>5, <1>6, <1>7, <1>8 DEF Next, Abstract!Next

LEMMA InitRefines == Init => Abstract!Init
<1> SUFFICES ASSUME Init PROVE Abstract!Init
  OBVIOUS
<1>1. PICK slots \in Capacities : dq = NewDeque(slots, Blank)
  BY DEF Init
<1>2. Contents(dq) = << >> /\ dq.dqslots = slots /\ dq.dq_open = TRUE
  BY <1>1, FreshRing
<1>3. QED BY <1>2 DEF Init, Abstract!Init

(* The ring of dqacc.c is a bounded deque: every call takes and returns    *)
(* what the same call of BoundedDeque does, for any items and capacities.  *)
THEOREM Refinement == Spec => ImplementsDeque
  BY InitIInv, NextIInv, InitRefines, StepRefines, PTL
     DEF Spec, ImplementsDeque, Abstract!Spec

(* The buffer of an open deque is as long as its slots, while the product  *)
(* of dq_init does not wrap.                                               *)
SizesFit == \A slots \in Capacities : ItemSize * slots < UShortRange
Sized == dq.dq_open => bufflen = ItemSize * dq.dqslots

(* The product that fits is not cut off.                                   *)
LEMMA SizeKept ==
  ASSUME SizesFit, NEW slots \in Capacities
  PROVE  BuffSize(slots) = ItemSize * slots
<1>1. ItemSize \in Nat /\ slots \in Nat /\ UShortRange \in Nat \ {0}
  BY DqaccAssumption
<1>2. PICK n \in Nat : n = ItemSize * slots
  BY <1>1
<1>3. n < UShortRange
  BY <1>2 DEF SizesFit
<1>4. n % UShortRange = n
  BY <1>1, <1>3
<1>5. QED BY <1>2, <1>4 DEF BuffSize

(* The slots of a buffer of that length lie inside it.                     *)
LEMMA SizedSafe == IInv /\ Sized => SlotsInBuffer
<1> SUFFICES ASSUME IInv, Sized, dq.dq_open, NEW i \in 0 .. dq.dqslots - 1
             PROVE  (i + 1) * ItemSize <= bufflen
  BY DEF SlotsInBuffer
<1>1. dq.dqslots \in Nat /\ ItemSize \in Nat
  BY Fields, DqaccAssumption DEF IInv
<1>2. PICK d \in Nat : d = dq.dqslots - (i + 1)
  BY <1>1
<1>3. PICK k \in Nat : k = i + 1
  BY <1>1
<1>4. dq.dqslots = k + d
  BY <1>1, <1>2, <1>3
<1>5. ItemSize * (k + d) = k * ItemSize + d * ItemSize /\ d * ItemSize \in Nat /\ k * ItemSize \in Nat
  BY <1>1
<1>6. bufflen = ItemSize * (k + d)
  BY <1>4 DEF Sized
<1>7. k * ItemSize <= bufflen
  BY <1>5, <1>6
<1>8. QED BY <1>3, <1>7

(* The length is set with the slots, and neither changes while it is open. *)
LEMMA NextSized ==
  ASSUME SizesFit, IInv, Sized, [Next]_vars
  PROVE  Sized'
<1>1. HeaderType(dq, Cells) /\ RingConsistent(dq)
  BY DEF IInv, RingInv
<1>2. CASE UNCHANGED vars
  BY <1>2 DEF vars, Sized
<1>3. ASSUME NEW slots \in Capacities, Create(slots) PROVE Sized'
  <2>1. dq' = NewDeque(slots, Blank) /\ bufflen' = ItemSize * slots
    BY <1>3, SizeKept DEF Create, dq_init, dq_init_buffer, dq_init_memmap
  <2>2. dq'.dqslots = slots
    BY <2>1, FreshRing
  <2>3. QED BY <2>1, <2>2 DEF Sized
<1>4. CASE dq_close
  <2>1. dq' = [dq EXCEPT !.dq_open = FALSE]
    BY <1>4 DEF dq_close
  <2>2. dq'.dq_open = FALSE
    BY <1>1, <2>1, CloseOK
  <2>3. QED BY <2>2 DEF Sized
<1>5. ASSUME UNCHANGED owner, dq'.dq_open = dq.dq_open, dq'.dqslots = dq.dqslots PROVE Sized'
  BY <1>5 DEF owner, Sized
<1>6. ASSUME NEW item \in Items, dq_atd(item) \/ dq_abd(item) PROVE Sized'
  <2>1. UNCHANGED owner /\ (dq' = Atd(dq, item) \/ dq' = Abd(dq, item)) /\ item \in Cells
    BY <1>6 DEF dq_atd, dq_abd, Cells
  <2>2. dq'.dq_open = dq.dq_open /\ dq'.dqslots = dq.dqslots
    <3>1. CASE HasRoom(dq)
      BY <1>1, <2>1, <3>1, AtdFields, AbdFields
    <3>2. CASE ~HasRoom(dq)
      BY <2>1, <3>2 DEF Atd, Abd
    <3>3. QED BY <3>1, <3>2
  <2>3. QED BY <1>5, <2>1, <2>2
<1>7. CASE dq_rtd \/ dq_rbd
  <2>1. UNCHANGED owner /\ (dq' = Rtd(dq) \/ dq' = Rbd(dq))
    BY <1>7 DEF dq_rtd, dq_rbd
  <2>2. dq'.dq_open = dq.dq_open /\ dq'.dqslots = dq.dqslots
    <3>1. CASE HasItem(dq)
      BY <1>1, <2>1, <3>1, RtdFields, RbdFields
    <3>2. CASE ~HasItem(dq)
      BY <2>1, <3>2 DEF Rtd, Rbd
    <3>3. QED BY <3>1, <3>2
  <2>3. QED BY <1>5, <2>1, <2>2
<1>8. QED BY <1>2, <1>3, <1>4, <1>6, <1>7 DEF Next

(* While the bytes of a dq_init deque fit a ushort: the buffer is freed    *)
(* once and by its owner, and every slot lies inside it.                   *)
THEOREM Memory == ASSUME SizesFit PROVE Spec => []MemoryInv
<1>1. Init => IInv /\ Sized
  <2> SUFFICES ASSUME Init PROVE IInv /\ Sized
    OBVIOUS
  <2>1. PICK slots \in Capacities : dq = NewDeque(slots, Blank)
    BY DEF Init
  <2>2. dq.dqslots = slots
    BY <2>1, FreshRing
  <2>3. bufflen = ItemSize * slots
    BY <2>2, SizeKept DEF Init
  <2>4. QED BY <2>2, <2>3, InitIInv DEF Sized
<1>2. IInv /\ Sized /\ [Next]_vars => IInv' /\ Sized'
  BY NextIInv, NextSized
<1>3. IInv /\ Sized => MemoryInv
  BY SizedSafe DEF IInv, MemoryInv
<1>4. QED BY <1>1, <1>2, <1>3, PTL DEF Spec

(***************************************************************************)
(* Induction over an interval of numbers, from the existence of a least    *)
(* number in a set of numbers.                                             *)
(***************************************************************************)

(* A set of numbers that is not empty has a least one.                     *)
LEMMA LeastNumber ==
  \A T : T \subseteq Nat /\ T # {} => \E n \in T : \A m \in T : n <= m
<1> TAKE T
<1> HAVE T \subseteq Nat /\ T # {}
<1> DEFINE M == {1..n : n \in T}
<1>1. IsWellFoundedOn(StrictSubsetOrdering(Nat), FiniteSubsetsOf(Nat))
  BY FS_StrictSubsetOrderingWellFounded
<1>2. M \subseteq FiniteSubsetsOf(Nat) /\ M # {}
  <2>1. \A n \in T : IsFiniteSet(1..n) /\ 1..n \in SUBSET Nat
    BY FS_Interval, SMT
  <2>2. \A n \in T : 1..n \in FiniteSubsetsOf(Nat)
    BY <2>1 DEF FiniteSubsetsOf
  <2>3. QED
    BY <2>2
<1>3. \E x \in M : \A y \in M : ~(<<y, x>> \in StrictSubsetOrdering(Nat))
  BY <1>1, <1>2, WFMin
<1>4. PICK n \in T : \A m \in T : ~(<<1..m, 1..n>> \in StrictSubsetOrdering(Nat))
  BY <1>3
<1>5. ASSUME NEW m \in T, m < n PROVE FALSE
  <2>1. 1..m \subseteq 1..n /\ n \in 1..n /\ n \notin 1..m /\ 1..n \subseteq Nat
    BY <1>5
  <2>2. PICK a, b : a = 1..m /\ b = 1..n
    OBVIOUS
  <2>3. a \subseteq Nat /\ b \subseteq Nat /\ a \subseteq b /\ a # b
    BY <2>1, <2>2
  <2>4. <<a, b>> \in StrictSubsetOrdering(Nat)
    BY <2>3 DEF StrictSubsetOrdering
  <2>5. QED
    BY <1>4, <2>2, <2>4
<1>6. QED
  BY <1>5

(* Induction: a set of numbers that holds 0 and the successor of each of   *)
(* its members up to a bound holds all of them to the bound.               *)
LEMMA UpTo ==
  \A T, N : /\ N \in Nat /\ 0 \in T /\ \A n \in 0..(N - 1) : n \in T => n + 1 \in T
            => \A n \in 0..N : n \in T
<1> TAKE T, N
<1> HAVE N \in Nat /\ 0 \in T /\ \A n \in 0..(N - 1) : n \in T => n + 1 \in T
<1> DEFINE Bad == {n \in 0..N : n \notin T}
<1>1. SUFFICES ASSUME Bad # {} PROVE FALSE
  OBVIOUS
<1>2. PICK n \in Bad : \A m \in Bad : n <= m
  <2>1. Bad \subseteq Nat
    OBVIOUS
  <2> HIDE DEF Bad
  <2>2. QED
    BY <1>1, <2>1, LeastNumber
<1>3. n \in 1..N /\ n - 1 \in 0..(N - 1) /\ (n - 1) + 1 = n
  BY <1>2
<1>4. n - 1 \notin T
  BY <1>2, <1>3
<1>5. n - 1 \in Bad
  BY <1>3, <1>4
<1>6. QED
  BY <1>2, <1>3, <1>5

(* Recursion: there is a sequence of values that starts with b, each the   *)
(* one that F gives of the last.                                           *)
IsRule(F, N, X)        == F \in [(1..N) \X X -> X]
Follows(f, F, N, X, b) == /\ f \in [0..N -> X] /\ f[0] = b
                          /\ \A i \in 1..N : f[i] = F[<<i, f[i - 1]>>]
LEMMA Recursion ==
  \A X, N, b, F : N \in Nat /\ b \in X /\ IsRule(F, N, X) => \E f : Follows(f, F, N, X, b)
<1> TAKE X, N, b, F
<1> HAVE N \in Nat /\ b \in X /\ IsRule(F, N, X)
<1> USE DEF IsRule, Follows
<1> DEFINE OK(n, f) == f[0] = b /\ \A i \in 1..n : f[i] = F[<<i, f[i - 1]>>]
           T == {n \in 0..N : \E f \in [0..n -> X] : OK(n, f)}
<1>1. 0 \in T
  <2>1. PICK g : g = [i \in 0..0 |-> b]
    OBVIOUS
  <2>2. g \in [0..0 -> X] /\ OK(0, g) /\ 0 \in 0..N
    BY <2>1
  <2>3. QED
    BY <2>2
<1>2. ASSUME NEW n \in 0..(N - 1), n \in T PROVE n + 1 \in T
  <2>1. PICK f \in [0..n -> X] : OK(n, f)
    BY <1>2
  <2>2. PICK x \in X : x = F[<<n + 1, f[n]>>]
    OBVIOUS
  <2>3. PICK g : g = [i \in 0..(n + 1) |-> IF i = n + 1 THEN x ELSE f[i]]
    OBVIOUS
  <2>4. g \in [0..(n + 1) -> X] /\ g[n + 1] = x /\ \A i \in 0..n : g[i] = f[i]
    BY <2>2, <2>3
  <2>5. g[0] = b
    BY <2>1, <2>4
  <2>6. ASSUME NEW i \in 1..(n + 1) PROVE g[i] = F[<<i, g[i - 1]>>]
    <3>1. CASE i = n + 1
      <4>1. i - 1 = n /\ n \in 0..n
        BY <3>1
      <4>2. g[i - 1] = f[n]
        BY <2>4, <4>1
      <4>3. QED
        BY <2>2, <2>4, <3>1, <4>2
    <3>2. CASE i \in 1..n
      <4>1. i - 1 \in 0..n /\ i \in 0..n
        BY <3>2
      <4>2. g[i] = f[i] /\ g[i - 1] = f[i - 1]
        BY <2>4, <4>1
      <4>3. QED
        BY <2>1, <3>2, <4>2
    <3>3. QED
      BY <3>1, <3>2
  <2>7. n + 1 \in 0..N
    OBVIOUS
  <2>8. QED
    BY <2>4, <2>5, <2>6, <2>7
<1>3. \A n \in 0..N : n \in T
  <2> HIDE DEF T
  <2>1. QED
    BY <1>1, <1>2, UpTo
<1>4. N \in T
  BY <1>3
<1>5. QED
  BY <1>4

(***************************************************************************)
(* The state machine (statemachine.c).                                     *)
(***************************************************************************)

(* A name is found in its slot, or in none.                                *)
LEMMA IndexIn ==
  ASSUME NEW names, NEW n, DOMAIN names \subseteq Nat \ {0}
  PROVE  /\ Index(names, n) # Null => Index(names, n) \in DOMAIN names /\ names[Index(names, n)] = n
         /\ Index(names, n) = Null => \A i \in DOMAIN names : names[i] # n
<1>1. CASE \E i \in DOMAIN names : names[i] = n
  BY <1>1 DEF Index, Null
<1>2. CASE ~ \E i \in DOMAIN names : names[i] = n
  BY <1>2 DEF Index, Null
<1>3. QED
  BY <1>1, <1>2

(* A sequence without repetition stays one with a new element behind it.   *)
LEMMA AppendOnce ==
  \A S, s, x : /\ s \in Seq(S) /\ x \in S /\ IsInjective(s) /\ \A i \in DOMAIN s : s[i] # x
               => /\ Append(s, x) \in Seq(S) /\ IsInjective(Append(s, x))
                  /\ Len(Append(s, x)) = Len(s) + 1
                  /\ DOMAIN s \subseteq DOMAIN Append(s, x)
<1>1. SUFFICES ASSUME NEW S, NEW s, NEW x,
                      s \in Seq(S), x \in S, IsInjective(s), \A i \in DOMAIN s : s[i] # x
               PROVE  /\ Append(s, x) \in Seq(S) /\ IsInjective(Append(s, x))
                      /\ Len(Append(s, x)) = Len(s) + 1
                      /\ DOMAIN s \subseteq DOMAIN Append(s, x)
  OBVIOUS
<1>2. PICK n \in Nat : n = Len(s)
  BY <1>1
<1>3. DOMAIN s = 1..n /\ DOMAIN Append(s, x) = 1..(n + 1) /\ Append(s, x)[n + 1] = x
      /\ \A i \in 1..n : Append(s, x)[i] = s[i]
  BY <1>1, <1>2
<1>4. ASSUME NEW i \in 1..(n + 1), NEW j \in 1..(n + 1), Append(s, x)[i] = Append(s, x)[j]
      PROVE  i = j
  <2>1. CASE i = n + 1 /\ j = n + 1
    BY <2>1
  <2>2. CASE i = n + 1 /\ j \in 1..n
    BY <1>1, <1>3, <1>4, <2>2
  <2>3. CASE i \in 1..n /\ j = n + 1
    BY <1>1, <1>3, <1>4, <2>3
  <2>4. CASE i \in 1..n /\ j \in 1..n
    BY <1>1, <1>3, <1>4, <2>4 DEF IsInjective
  <2>5. QED
    BY <1>2, <2>1, <2>2, <2>3, <2>4
<1>5. IsInjective(Append(s, x))
  BY <1>3, <1>4 DEF IsInjective
<1>6. QED
  BY <1>1, <1>2, <1>3, <1>5

(* The names of objects.                                                   *)
LEMMA NamesSeq ==
  \A N, S, q : q \in Seq(S) /\ (\A o \in S : o.name \in N)
               => NamesOf(q) \in Seq(N) /\ DOMAIN NamesOf(q) = DOMAIN q
<1>1. SUFFICES ASSUME NEW N, NEW S, NEW q, q \in Seq(S), \A o \in S : o.name \in N
               PROVE  NamesOf(q) \in Seq(N) /\ DOMAIN NamesOf(q) = DOMAIN q
  OBVIOUS
<1>2. PICK n \in Nat : n = Len(q)
  BY <1>1
<1>3. DOMAIN q = 1..n /\ \A i \in 1..n : q[i] \in S
  BY <1>1, <1>2
<1>4. NamesOf(q) = [i \in 1..n |-> q[i].name]
  BY <1>3 DEF NamesOf
<1>5. \A i \in 1..n : q[i].name \in N
  BY <1>1, <1>3
<1>6. [i \in 1..n |-> q[i].name] \in Seq(N)
  BY <1>5
<1>7. QED
  BY <1>3, <1>4, <1>6

(* The names of objects of which one more is registered.                   *)
LEMMA NamesAppend ==
  \A N, S, q, x : /\ q \in Seq(S) /\ x \in S /\ \A o \in S : o.name \in N
                  => /\ NamesOf(q) \in Seq(N) /\ DOMAIN NamesOf(q) = DOMAIN q
                     /\ NamesOf(Append(q, x)) = Append(NamesOf(q), x.name)
<1> TAKE N, S, q, x
<1> HAVE q \in Seq(S) /\ x \in S /\ \A o \in S : o.name \in N
<1>1. q \in Seq(S) /\ x \in S /\ \A o \in S : o.name \in N
  OBVIOUS
<1>2. PICK n \in Nat : n = Len(q)
  BY <1>1
<1>3. /\ DOMAIN q = 1..n /\ \A i \in 1..n : q[i] \in S
      /\ DOMAIN Append(q, x) = 1..(n + 1) /\ Append(q, x)[n + 1] = x
      /\ \A i \in 1..n : Append(q, x)[i] = q[i]
  <2>1. DOMAIN q = 1..n /\ \A i \in 1..n : q[i] \in S
    BY <1>1, <1>2
  <2>2. PICK w : w = Append(q, x)
    OBVIOUS
  <2>3. w \in Seq(S) /\ Len(w) = n + 1 /\ w[n + 1] = x /\ \A i \in 1..n : w[i] = q[i]
    BY <1>1, <1>2, <2>2
  <2>4. DOMAIN w = 1..(n + 1)
    BY <2>3
  <2>5. QED
    BY <2>1, <2>2, <2>3, <2>4
<1>4. NamesOf(q) = [i \in 1..n |-> q[i].name]
      /\ NamesOf(Append(q, x)) = [i \in 1..(n + 1) |-> Append(q, x)[i].name]
  BY <1>3 DEF NamesOf
<1>5. NamesOf(q) \in Seq(N) /\ Len(NamesOf(q)) = n
  BY <1>1, <1>3, <1>4
<1>6. PICK s \in Seq(N) : s = NamesOf(q)
  BY <1>5
<1>7. DOMAIN s = 1..n /\ Len(s) = n /\ \A i \in 1..n : s[i] = q[i].name
  BY <1>4, <1>5, <1>6
<1>8. PICK y \in N : y = x.name
  BY <1>1
<1>9. Append(s, y) = [i \in 1..(n + 1) |-> IF i = n + 1 THEN y ELSE s[i]]
  BY <1>7, <1>6, <1>8
<1>10. \A i \in 1..(n + 1) : Append(q, x)[i].name = IF i = n + 1 THEN y ELSE s[i]
  BY <1>3, <1>7, <1>8
<1>11. NamesOf(Append(q, x)) = Append(s, y)
  BY <1>4, <1>9, <1>10
<1>12. QED
  BY <1>3, <1>4, <1>5, <1>6, <1>8, <1>11

(* What a registration keeps: the table's type and consistency, when it    *)
(* has not run over, and the objects that were there.                      *)
Registered(t, r) ==
  /\ r.table \in TableType /\ r.err \in Diagnostics \cup {"KEEP"} /\ r.handle \in Nat
  /\ Len(r.table.states) <= MAX_STATES_PER_MACHINE => TableOK(r.table)
  /\ DOMAIN t.events \subseteq DOMAIN r.table.events
  /\ DOMAIN t.states \subseteq DOMAIN r.table.states

(* Of a table: the types of its parts.                                     *)
LEMMA Parts ==
  ASSUME NEW t \in TableType
  PROVE  /\ t.events \in Seq(EventNames \cup StockEvents) /\ Len(t.events) \in Nat
         /\ t.actlists \in Seq(ActionListType)
         /\ t.states \in Seq(StateType)
         /\ Len(t.states) \in Nat /\ Len(t.actlists) \in Nat
         /\ NamesOf(t.actlists) \in Seq(ListNames) /\ NamesOf(t.states) \in Seq(StateNames)
         /\ DOMAIN NamesOf(t.actlists) = DOMAIN t.actlists
         /\ DOMAIN NamesOf(t.states) = DOMAIN t.states
         /\ DOMAIN t.events = 1..Len(t.events) /\ DOMAIN t.actlists = 1..Len(t.actlists)
         /\ DOMAIN t.states = 1..Len(t.states)
<1>1. /\ t.events \in Seq(EventNames \cup StockEvents)
      /\ t.actlists \in Seq(ActionListType)
      /\ t.states \in Seq(StateType)
  BY DEF TableType
<1>2. /\ NamesOf(t.actlists) \in Seq(ListNames) /\ DOMAIN NamesOf(t.actlists) = DOMAIN t.actlists
  <2>1. \A o \in ActionListType : o.name \in ListNames
    BY DEF ActionListType
  <2>2. QED
    BY <1>1, <2>1, NamesSeq
<1>3. /\ NamesOf(t.states) \in Seq(StateNames) /\ DOMAIN NamesOf(t.states) = DOMAIN t.states
  <2>1. \A o \in StateType : o.name \in StateNames
    BY DEF StateType
  <2>2. QED
    BY <1>1, <2>1, NamesSeq
<1>4. QED
  BY <1>1, <1>2, <1>3

(* The searches find an object of the table with the name, or there is     *)
(* none; a slot without a state stands for the first.                      *)
LEMMA Found ==
  ASSUME NEW t \in TableType, NEW n
  PROVE  /\ find_event(t, n) # Null => find_event(t, n) \in DOMAIN t.events
         /\ find_event(t, n) = Null => \A i \in DOMAIN t.events : t.events[i] # n
         /\ find_action_list(t, n) # Null => find_action_list(t, n) \in DOMAIN t.actlists
         /\ find_action_list(t, n) = Null
              => \A i \in DOMAIN NamesOf(t.actlists) : NamesOf(t.actlists)[i] # n
<1>1. /\ DOMAIN t.events \subseteq Nat \ {0}
      /\ DOMAIN NamesOf(t.actlists) \subseteq Nat \ {0}
      /\ DOMAIN NamesOf(t.actlists) = DOMAIN t.actlists
  BY Parts
<1>2. /\ find_event(t, n) # Null => find_event(t, n) \in DOMAIN t.events
      /\ find_event(t, n) = Null => \A i \in DOMAIN t.events : t.events[i] # n
  BY <1>1, IndexIn DEF find_event
<1>3. /\ find_action_list(t, n) # Null => find_action_list(t, n) \in DOMAIN t.actlists
      /\ find_action_list(t, n) = Null
           => \A i \in DOMAIN NamesOf(t.actlists) : NamesOf(t.actlists)[i] # n
  BY <1>1, IndexIn DEF find_action_list
<1>4. QED
  BY <1>2, <1>3

(* An event.                                                               *)
LEMMA EventRegistered ==
  ASSUME NEW t \in TableType, TableOK(t), NEW n \in EventNames \cup StockEvents
  PROVE  LET r == sm_register_event(t, n)
         IN  Registered(t, r) /\ r.table.states = t.states
<1> DEFINE r == sm_register_event(t, n)
<1>1. CASE find_event(t, n) # Null \/ Len(t.events) = MAX_EVENTS_PER_MACHINE
  BY <1>1 DEF sm_register_event, Res, Registered, Diagnostics, Null
<1>2. CASE ~(find_event(t, n) # Null \/ Len(t.events) = MAX_EVENTS_PER_MACHINE)
  <2>1. r = Res([t EXCEPT !.events = Append(@, n)], Len(t.events) + 1, "NO_ERROR")
    BY <1>2 DEF sm_register_event
  <2>2. PICK u : u = [t EXCEPT !.events = Append(@, n)]
    OBVIOUS
  <2>3. \A i \in DOMAIN t.events : t.events[i] # n
    BY <1>2, Parts, IndexIn DEF find_event
  <2>4. t.events \in Seq(EventNames \cup StockEvents) /\ IsInjective(t.events)
    BY Parts DEF TableOK
  <2>5. PICK s : s = Append(t.events, n)
    OBVIOUS
  <2>6. s \in Seq(EventNames \cup StockEvents) /\ IsInjective(s) /\ DOMAIN t.events \subseteq DOMAIN s
    BY <2>3, <2>4, <2>5, AppendOnce
  <2>7. u = [t EXCEPT !.events = s]
    BY <2>2, <2>5
  <2>8. u \in TableType /\ u.events = s /\ u.actlists = t.actlists /\ u.states = t.states
    BY <2>6, <2>7 DEF TableType
  <2>9. TableOK(u)
    BY <2>6, <2>8 DEF TableOK
  <2>10. r.table = u /\ r.handle = Len(t.events) + 1 /\ r.err = "NO_ERROR"
    BY <2>1, <2>2 DEF Res
  <2>11. QED
    BY <2>6, <2>8, <2>9, <2>10, Parts DEF Registered, Diagnostics
<1>3. QED
  BY <1>1, <1>2

(* The elements of a sequence with one more behind it.                     *)
LEMMA AppendSet ==
  \A S, q, x : q \in Seq(S) /\ x \in S
               => /\ Append(q, x) \in Seq(S) /\ Len(Append(q, x)) = Len(q) + 1
                  /\ ToSet(Append(q, x)) = ToSet(q) \cup {x} /\ DOMAIN q \subseteq DOMAIN Append(q, x)
<1> TAKE S, q, x
<1> HAVE q \in Seq(S) /\ x \in S
<1>1. PICK n \in Nat : n = Len(q)
  OBVIOUS
<1>2. PICK w : w = Append(q, x)
  OBVIOUS
<1>3. w \in Seq(S) /\ Len(w) = n + 1 /\ w[n + 1] = x /\ \A i \in 1..n : w[i] = q[i]
  BY <1>1, <1>2
<1>4. DOMAIN w = 1..(n + 1) /\ DOMAIN q = 1..n
  BY <1>1, <1>3
<1>5. ToSet(w) \subseteq ToSet(q) \cup {x}
  <2>1. ASSUME NEW i \in 1..(n + 1) PROVE w[i] \in ToSet(q) \cup {x}
    <3>1. CASE i = n + 1
      BY <3>1, <1>3
    <3>2. CASE i \in 1..n
      BY <3>2, <1>3, <1>4 DEF ToSet
    <3>3. QED
      BY <3>1, <3>2, <1>1
  <2>2. QED
    BY <2>1, <1>4 DEF ToSet
<1>6. ToSet(q) \cup {x} \subseteq ToSet(w)
  <2>1. x \in ToSet(w)
    BY <1>3, <1>4, <1>1 DEF ToSet
  <2>2. \A i \in 1..n : q[i] \in ToSet(w)
    BY <1>3, <1>4, <1>1 DEF ToSet
  <2>3. QED
    BY <2>1, <2>2, <1>4 DEF ToSet
<1>7. DOMAIN q \subseteq DOMAIN w
  BY <1>4, <1>1
<1>8. QED
  BY <1>1, <1>2, <1>3, <1>5, <1>6, <1>7

(* An action list.                                                         *)
LEMMA ListRegistered ==
  ASSUME NEW t \in TableType, TableOK(t), NEW n \in ListNames
  PROVE  Registered(t, sm_register_action_list(t, n))
<1> DEFINE r == sm_register_action_list(t, n)
<1>1. CASE find_action_list(t, n) # Null \/ Len(t.actlists) = MAX_ACTION_LISTS_PER_MACHINE
  BY <1>1 DEF sm_register_action_list, Res, Registered, Diagnostics, Null
<1>2. CASE ~(find_action_list(t, n) # Null \/ Len(t.actlists) = MAX_ACTION_LISTS_PER_MACHINE)
  <2>1. PICK o : o = [name |-> n, list |-> <<>>]
    OBVIOUS
  <2>2. o \in ActionListType /\ o.name = n /\ o.list = <<>>
    BY <2>1 DEF ActionListType
  <2>3. PICK s : s = Append(t.actlists, o)
    OBVIOUS
  <2>4. PICK u : u = [t EXCEPT !.actlists = s]
    OBVIOUS
  <2>5. r.table = u /\ r.handle = Len(t.actlists) + 1 /\ r.err = "NO_ERROR"
    BY <1>2, <2>1, <2>3, <2>4 DEF sm_register_action_list, Res
  <2>6. t.actlists \in Seq(ActionListType) /\ NamesOf(t.actlists) \in Seq(ListNames)
        /\ IsInjective(NamesOf(t.actlists))
    BY Parts DEF TableOK
  <2>7. s \in Seq(ActionListType) /\ ToSet(s) = ToSet(t.actlists) \cup {o} /\ DOMAIN t.actlists \subseteq DOMAIN s
    BY <2>2, <2>3, <2>6, AppendSet
  <2>8. NamesOf(s) = Append(NamesOf(t.actlists), n)
    <3>1. \A l \in ActionListType : l.name \in ListNames
      BY DEF ActionListType
    <3>2. QED
      BY <3>1, <2>2, <2>3, <2>6, NamesAppend
  <2>9. \A i \in DOMAIN NamesOf(t.actlists) : NamesOf(t.actlists)[i] # n
    BY <1>2, Found
  <2>10. IsInjective(NamesOf(s))
    BY <2>6, <2>8, <2>9, AppendOnce
  <2>11. u \in TableType /\ u.events = t.events /\ u.actlists = s /\ u.states = t.states
    BY <2>4, <2>7 DEF TableType
  <2>12. \A l \in ToSet(s) : IsInjective(l.list)
    BY <2>2, <2>7 DEF TableOK, IsInjective
  <2>13. TableOK(u)
    BY <2>7, <2>10, <2>11, <2>12 DEF TableOK
  <2>14. QED
    BY <2>5, <2>11, <2>13, Parts DEF Registered, Diagnostics
<1>3. QED
  BY <1>1, <1>2

(* An action of a list.                                                    *)
LEMMA ActionRegistered ==
  ASSUME NEW t \in TableType, TableOK(t), NEW al \in ListNames, NEW n \in ActionNames
  PROVE  Registered(t, sm_register_action(t, al, n))
<1> DEFINE r == sm_register_action(t, al, n)
<1>1. PICK alh : alh = find_action_list(t, al)
  OBVIOUS
<1>2. CASE alh = Null \/ find_action(t, al, n) # Null
  <2>1. r = Res(t, Null, "PARENT_OBJECT_NOT_FOUND") \/ r = Res(t, Null, "REGISTER_DUPLICATE")
    BY <1>1, <1>2 DEF sm_register_action
  <2>2. QED
    BY <2>1 DEF Res, Registered, Diagnostics, Null
<1>3. CASE ~(alh = Null \/ find_action(t, al, n) # Null)
  <2>1. alh \in DOMAIN t.actlists
    BY <1>1, <1>3, Found
  <2>2. PICK o : o = t.actlists[alh]
    OBVIOUS
  <2>3. t.actlists \in Seq(ActionListType) /\ Len(t.actlists) \in Nat /\ DOMAIN t.actlists = 1..Len(t.actlists)
    BY Parts
  <2>4. o \in ActionListType /\ o \in ToSet(t.actlists)
    BY <2>1, <2>2, <2>3 DEF ToSet
  <2>5. PICK l : l = Append(o.list, n)
    OBVIOUS
  <2>6. l \in Seq(ActionNames) /\ IsInjective(l)
    <3>1. \A i \in DOMAIN o.list : o.list[i] # n
      <4>1. Index(o.list, n) = Null /\ DOMAIN o.list \subseteq Nat \ {0}
        BY <1>1, <1>3, <2>2, <2>4 DEF find_action, ActionListType
      <4>2. QED
        BY <4>1, IndexIn
    <3>2. o.list \in Seq(ActionNames) /\ IsInjective(o.list)
      BY <2>4 DEF TableOK, ActionListType
    <3>3. QED
      BY <3>1, <3>2, <2>5, AppendOnce
  <2>7. PICK v : v = [o EXCEPT !.list = l]
    OBVIOUS
  <2>8. v \in ActionListType /\ v.name = o.name /\ v.list = l
    BY <2>4, <2>6, <2>7 DEF ActionListType
  <2>9. PICK s : s = [t.actlists EXCEPT ![alh] = v]
    OBVIOUS
  <2>10. s \in Seq(ActionListType) /\ DOMAIN s = DOMAIN t.actlists
         /\ \A i \in DOMAIN s : s[i] = IF i = alh THEN v ELSE t.actlists[i]
    BY <2>1, <2>3, <2>8, <2>9
  <2>11. NamesOf(s) = NamesOf(t.actlists)
    BY <2>2, <2>8, <2>10 DEF NamesOf
  <2>12. \A x \in ToSet(s) : IsInjective(x.list)
    BY <2>6, <2>8, <2>10 DEF TableOK, ToSet
  <2>13. PICK u : u = [t EXCEPT !.actlists = s]
    OBVIOUS
  <2>14. u \in TableType /\ u.events = t.events /\ u.actlists = s /\ u.states = t.states
    BY <2>13, <2>10 DEF TableType
  <2>15. TableOK(u)
    BY <2>10, <2>11, <2>12, <2>14 DEF TableOK
  <2>16. r = Res([t EXCEPT !.actlists[alh].list = Append(@, n)], alh, "NO_ERROR")
    BY <1>1, <1>3 DEF sm_register_action
  <2>17. [t EXCEPT !.actlists[alh].list = Append(@, n)] = u
    BY <2>13, <2>9, <2>7, <2>5, <2>2
  <2>18. r.table = u /\ r.handle = alh /\ r.err = "NO_ERROR"
    BY <2>16, <2>17 DEF Res
  <2>19. alh \in Nat
    BY <2>1, <2>3
  <2>20. QED
    BY <2>14, <2>15, <2>18, <2>19 DEF Registered, Diagnostics
<1>4. QED
  BY <1>2, <1>3

(* A state: with an empty slot for it, or one the array does not have.     *)
LEMMA FoundState ==
  ASSUME NEW t \in TableType, NEW n, Len(t.states) <= MAX_STATES_PER_MACHINE
  PROVE  /\ find_state(t, n) \in DOMAIN t.states \cup {Null, First}
         /\ n # Unnamed /\ find_state(t, n) # Null => find_state(t, n) \in DOMAIN t.states
         /\ find_state(t, n) = Null
              => \A i \in DOMAIN NamesOf(t.states) : NamesOf(t.states)[i] # n
<1> USE StateMachineAssumption
<1>1. PICK k \in Nat : k = Len(t.states)
  BY Parts
<1>2. DOMAIN t.states = 1..k /\ DOMAIN NamesOf(t.states) = 1..k /\ k <= MAX_STATES_PER_MACHINE
      /\ \A i \in 1..k : NamesOf(t.states)[i] = t.states[i].name
  BY <1>1, Parts DEF NamesOf
<1>3. PICK slots : slots = StateSlots(t)
  OBVIOUS
<1>4. /\ DOMAIN slots = 1..MAX_STATES_PER_MACHINE
      /\ \A i \in 1..MAX_STATES_PER_MACHINE :
           slots[i] = IF i <= k THEN t.states[i].name ELSE Unnamed
  BY <1>1, <1>3 DEF StateSlots
<1>5. PICK i : i = Index(slots, n)
  OBVIOUS
<1>6. find_state(t, n) = IF i = Null \/ i <= k THEN i ELSE First
  BY <1>1, <1>3, <1>5 DEF find_state
<1>7. DOMAIN slots \subseteq Nat \ {0} /\ MAX_STATES_PER_MACHINE \in Nat
  BY <1>4
<1>8. /\ i # Null => i \in DOMAIN slots /\ slots[i] = n
      /\ i = Null => \A j \in DOMAIN slots : slots[j] # n
  BY <1>5, <1>7, IndexIn
<1>9. CASE i = Null
  <2>1. find_state(t, n) = Null
    BY <1>6, <1>9
  <2>2. \A j \in 1..k : slots[j] = t.states[j].name /\ slots[j] # n
    BY <1>2, <1>4, <1>7, <1>8, <1>9
  <2>3. QED
    BY <1>2, <2>1, <2>2
<1>10. CASE i # Null /\ i <= k
  <2>1. i \in 1..k /\ find_state(t, n) = i
    BY <1>4, <1>6, <1>7, <1>8, <1>10
  <2>2. QED
    BY <1>2, <1>10, <2>1
<1>11. CASE i # Null /\ ~(i <= k)
  <2>1. find_state(t, n) = First /\ n = Unnamed
    BY <1>4, <1>6, <1>8, <1>11
  <2>2. QED
    BY <2>1 DEF First, Null
<1>12. QED
  BY <1>9, <1>10, <1>11

(* A state.                                                                *)
LEMMA StateRegistered ==
  ASSUME NEW t \in TableType, TableOK(t), NEW n \in StateNames
  PROVE  Registered(t, sm_register_state(t, n))
<1> DEFINE r == sm_register_state(t, n)
<1>0. Len(t.states) <= MAX_STATES_PER_MACHINE /\ n # Unnamed
  BY StateMachineAssumption DEF TableOK
<1>1. CASE find_state(t, n) # Null
  <2>1. r.table = t /\ r.handle = find_state(t, n) /\ r.err = "REGISTER_DUPLICATE"
    BY <1>1 DEF sm_register_state, Res
  <2>2. find_state(t, n) \in DOMAIN t.states
    BY <1>0, <1>1, FoundState
  <2>3. DOMAIN t.states \subseteq Nat
    BY Parts
  <2>4. QED
    BY <2>1, <2>2, <2>3 DEF Registered, Diagnostics
<1>2. CASE find_state(t, n) = Null
  <2>1. PICK o : o = [name |-> n, transitions |-> <<>>]
    OBVIOUS
  <2>2. o \in StateType /\ o.name = n /\ o.transitions = <<>>
    BY <2>1 DEF StateType
  <2>3. PICK s : s = Append(t.states, o)
    OBVIOUS
  <2>4. PICK u : u = [t EXCEPT !.states = s]
    OBVIOUS
  <2>5. r.table = u /\ r.handle = Len(t.states) + 1 /\ r.err = "KEEP"
    BY <1>2, <2>1, <2>3, <2>4 DEF sm_register_state, Res
  <2>6. t.states \in Seq(StateType) /\ NamesOf(t.states) \in Seq(StateNames)
        /\ IsInjective(NamesOf(t.states)) /\ Len(t.states) \in Nat
    BY Parts DEF TableOK
  <2>7. s \in Seq(StateType) /\ ToSet(s) = ToSet(t.states) \cup {o} /\ DOMAIN t.states \subseteq DOMAIN s
    BY <2>2, <2>3, <2>6, AppendSet
  <2>8. NamesOf(s) = Append(NamesOf(t.states), n)
    <3>1. \A l \in StateType : l.name \in StateNames
      BY DEF StateType
    <3>2. QED
      BY <3>1, <2>2, <2>3, <2>6, NamesAppend
  <2>9. \A i \in DOMAIN NamesOf(t.states) : NamesOf(t.states)[i] # n
    BY <1>0, <1>2, FoundState
  <2>10. IsInjective(NamesOf(s))
    BY <2>6, <2>8, <2>9, AppendOnce
  <2>11. u \in TableType /\ u.events = t.events /\ u.actlists = t.actlists /\ u.states = s
    BY <2>4, <2>7 DEF TableType
  <2>12. \A x \in ToSet(s) :
           /\ Len(x.transitions) <= MAX_TRANSITIONS_PER_STATE
           /\ \A y \in ToSet(x.transitions) : /\ y.eventh \in DOMAIN t.events /\ y.s2 \in DOMAIN s
                                               /\ y.alisth \in DOMAIN t.actlists
    <3>1. ToSet(o.transitions) = {} /\ Len(o.transitions) <= MAX_TRANSITIONS_PER_STATE
      BY <2>2, StateMachineAssumption DEF ToSet
    <3>2. QED
      BY <3>1, <2>7 DEF TableOK
  <2>13. Len(s) <= MAX_STATES_PER_MACHINE => TableOK(u)
    BY <2>10, <2>11, <2>12 DEF TableOK
  <2>14. QED
    BY <2>5, <2>6, <2>7, <2>11, <2>13 DEF Registered, Diagnostics
<1>3. QED
  BY <1>1, <1>2

(* A transition, of a state by its name or of the first by that of a slot. *)
LEMMA TransitionRegistered ==
  ASSUME NEW t \in TableType, TableOK(t), NEW s1 \in StateNames \cup {Unnamed}, NEW s2 \in StateNames,
         NEW ev \in EventNames, NEW al \in ListNames
  PROVE  LET r == sm_register_transition(t, s1, s2, ev, al)
         IN  Registered(t, r) /\ TableOK(r.table)
<1> DEFINE r == sm_register_transition(t, s1, s2, ev, al)
<1>1. PICK st1h, st2h, evh, alh :
        st1h = find_state(t, s1) /\ st2h = find_state(t, s2) /\ evh = find_event(t, ev)
        /\ alh = find_action_list(t, al)
  OBVIOUS
<1>2. CASE Null \in {st1h, st2h, evh, alh}
  <2>1. r = Res(t, Null, "OBJECT_NOT_FOUND")
    BY <1>1, <1>2 DEF sm_register_transition
  <2>2. QED
    BY <2>1 DEF Registered, Res, Diagnostics, Null
<1>3. CASE Null \notin {st1h, st2h, evh, alh}
  <2>0. Len(t.states) <= MAX_STATES_PER_MACHINE /\ s2 # Unnamed
    BY StateMachineAssumption DEF TableOK
  <2>1. evh \in DOMAIN t.events /\ alh \in DOMAIN t.actlists
    BY <1>1, <1>3, Found
  <2>2. st2h \in DOMAIN t.states
    BY <1>1, <1>3, <2>0, FoundState
  <2>3. /\ t.states \in Seq(StateType) /\ Len(t.states) \in Nat /\ DOMAIN t.states = 1..Len(t.states)
        /\ DOMAIN t.events \subseteq Nat /\ DOMAIN t.actlists \subseteq Nat
    BY Parts
  <2>4. st1h \in DOMAIN t.states
    <3>1. st1h \in DOMAIN t.states \cup {First}
      BY <1>1, <1>3, <2>0, FoundState
    <3>2. First \in DOMAIN t.states
      BY <2>2, <2>3 DEF First
    <3>3. QED
      BY <3>1, <3>2
  <2>5. PICK o : o = t.states[st1h]
    OBVIOUS
  <2>6. o \in StateType /\ o \in ToSet(t.states) /\ o.transitions \in Seq(TransitionType)
        /\ Len(o.transitions) \in Nat
    <3>1. o \in StateType /\ o \in ToSet(t.states)
      BY <2>3, <2>4, <2>5 DEF ToSet
    <3>2. QED
      BY <3>1 DEF StateType
  <2>7. CASE Len(o.transitions) >= MAX_TRANSITIONS_PER_STATE
    <3>1. r = Res(t, Null, "TOO_MANY_OBJECTS")
      BY <1>1, <1>3, <2>5, <2>7 DEF sm_register_transition
    <3>2. QED
      BY <3>1 DEF Registered, Res, Diagnostics, Null
  <2>8. CASE ~(Len(o.transitions) >= MAX_TRANSITIONS_PER_STATE)
    <3>1. PICK x : x = [eventh |-> evh, s2 |-> st2h, alisth |-> alh]
      OBVIOUS
    <3>2. x \in TransitionType /\ x.eventh = evh /\ x.s2 = st2h /\ x.alisth = alh
      BY <3>1, <2>1, <2>2, <2>3 DEF TransitionType
    <3>3. PICK q : q = Append(o.transitions, x)
      OBVIOUS
    <3>4. q \in Seq(TransitionType) /\ Len(q) = Len(o.transitions) + 1
          /\ ToSet(q) = ToSet(o.transitions) \cup {x}
      BY <2>6, <3>2, <3>3, AppendSet
    <3>5. PICK v : v = [o EXCEPT !.transitions = q]
      OBVIOUS
    <3>6. v \in StateType /\ v.name = o.name /\ v.transitions = q
      BY <2>6, <3>4, <3>5 DEF StateType
    <3>7. PICK s : s = [t.states EXCEPT ![st1h] = v]
      OBVIOUS
    <3>8. s \in Seq(StateType) /\ DOMAIN s = DOMAIN t.states /\ Len(s) = Len(t.states)
          /\ \A i \in DOMAIN s : s[i] = IF i = st1h THEN v ELSE t.states[i]
      BY <2>3, <2>4, <3>6, <3>7
    <3>9. NamesOf(s) = NamesOf(t.states)
      BY <2>5, <3>6, <3>8 DEF NamesOf
    <3>10. \A y \in ToSet(s) :
             /\ Len(y.transitions) <= MAX_TRANSITIONS_PER_STATE
             /\ \A z \in ToSet(y.transitions) : /\ z.eventh \in DOMAIN t.events /\ z.s2 \in DOMAIN s
                                                 /\ z.alisth \in DOMAIN t.actlists
      <4>1. Len(q) <= MAX_TRANSITIONS_PER_STATE
        BY <2>6, <2>8, <3>4, StateMachineAssumption
      <4>2. \A z \in ToSet(q) : /\ z.eventh \in DOMAIN t.events /\ z.s2 \in DOMAIN s
                                /\ z.alisth \in DOMAIN t.actlists
        BY <2>1, <2>2, <2>6, <3>2, <3>4, <3>8 DEF TableOK
      <4>3. \A y \in ToSet(s) : y = v \/ y \in ToSet(t.states)
        BY <3>8 DEF ToSet
      <4>4. QED
        BY <4>1, <4>2, <4>3, <3>6, <3>8 DEF TableOK
    <3>11. PICK u : u = [t EXCEPT !.states = s]
      OBVIOUS
    <3>12. u \in TableType /\ u.events = t.events /\ u.actlists = t.actlists /\ u.states = s
      BY <3>11, <3>8 DEF TableType
    <3>13. TableOK(u)
      BY <2>0, <3>8, <3>9, <3>10, <3>12 DEF TableOK
    <3>14. r = Res([t EXCEPT !.states[st1h].transitions = Append(@, x)], Len(o.transitions) + 1, "KEEP")
      BY <1>1, <1>3, <2>5, <2>8, <3>1 DEF sm_register_transition
    <3>15. [t EXCEPT !.states[st1h].transitions = Append(@, x)] = u
      BY <2>5, <3>3, <3>5, <3>7, <3>11
    <3>16. r.table = u /\ r.handle = Len(o.transitions) + 1 /\ r.err = "KEEP"
      BY <3>14, <3>15 DEF Res
    <3>17. QED
      BY <2>6, <3>8, <3>12, <3>13, <3>16 DEF Registered, Diagnostics
  <2>9. QED
    BY <2>7, <2>8
<1>4. QED
  BY <1>2, <1>3

(* The end of the registrations, and the stock events.                     *)
LEMMA OthersRegistered ==
  ASSUME NEW t \in TableType, TableOK(t)
  PROVE  Registered(t, sm_set_definition_complete(t)) /\ Registered(t, sm_register_stock_defs(t))
<1>1. Registered(t, sm_set_definition_complete(t))
  <2>1. PICK u : u = [t EXCEPT !.complete = TRUE]
    OBVIOUS
  <2>2. u \in TableType /\ u.events = t.events /\ u.actlists = t.actlists /\ u.states = t.states
    BY <2>1 DEF TableType
  <2>3. TableOK(u)
    BY <2>2 DEF TableOK
  <2>4. QED
    BY <2>1, <2>2, <2>3 DEF Registered, sm_set_definition_complete, Res, Null
<1>2. Registered(t, sm_register_stock_defs(t))
  <2>0. {EV_NULL, EV_INIT, EV_ABORT, EV_CLOCK} \subseteq EventNames \cup StockEvents
    BY DEF StockEvents
  <2>1. PICK r1 : r1 = sm_register_event(t, EV_NULL)
    OBVIOUS
  <2>2. Registered(t, r1) /\ r1.table.states = t.states
    BY <2>0, <2>1, EventRegistered
  <2>3. r1.table \in TableType /\ TableOK(r1.table)
    BY <2>2 DEF Registered, TableOK
  <2>4. PICK r2 : r2 = sm_register_event(r1.table, EV_INIT)
    OBVIOUS
  <2>5. Registered(r1.table, r2) /\ r2.table.states = t.states
    BY <2>0, <2>2, <2>3, <2>4, EventRegistered
  <2>6. r2.table \in TableType /\ TableOK(r2.table)
    BY <2>5 DEF Registered, TableOK
  <2>7. PICK r3 : r3 = sm_register_event(r2.table, EV_ABORT)
    OBVIOUS
  <2>8. Registered(r2.table, r3) /\ r3.table.states = t.states
    BY <2>0, <2>5, <2>6, <2>7, EventRegistered
  <2>9. r3.table \in TableType /\ TableOK(r3.table)
    BY <2>8 DEF Registered, TableOK
  <2>10. PICK r4 : r4 = sm_register_event(r3.table, EV_CLOCK)
    OBVIOUS
  <2>11. Registered(r3.table, r4) /\ r4.table.states = t.states
    BY <2>0, <2>8, <2>9, <2>10, EventRegistered
  <2>12. r4 = sm_register_stock_defs(t)
    BY <2>1, <2>4, <2>7, <2>10 DEF sm_register_stock_defs
  <2>13. Registered(t, r4)
    BY <2>2, <2>5, <2>8, <2>11 DEF Registered
  <2>14. QED
    BY <2>12, <2>13
<1>3. QED
  BY <1>1, <1>2

(* A transition of every slot: of each the table before it is consistent,  *)
(* so that of all it is.                                                   *)
LEMMA GlobalRegistered ==
  ASSUME NEW t \in TableType, TableOK(t), NEW s2 \in StateNames, NEW ev \in EventNames, NEW al \in ListNames
  PROVE  Registered(t, sm_register_global_transition(t, s2, ev, al))
<1> DEFINE ResType == [table : TableType, handle : Nat, err : Diagnostics \cup {"KEEP"}]
           X == {r \in ResType : Registered(t, r) /\ TableOK(r.table)}
           N == MAX_STATES_PER_MACHINE
           base == Res(t, First, "KEEP")
           F == [p \in (1..N) \X X |-> Slot(p[2], StateSlots(t)[p[1]], s2, ev, al)]
           Is(f) == f = [i \in 0..N |-> IF i = 0 THEN base ELSE Slot(f[i - 1], StateSlots(t)[i], s2, ev, al)]
           slot == CHOOSE f : Is(f)
<1>1. N \in Nat
  BY StateMachineAssumption
<1>2. base \in X
  BY DEF Res, Registered, First
<1>3. ASSUME NEW i \in 1..N, NEW r \in X
      PROVE  Slot(r, StateSlots(t)[i], s2, ev, al) \in X
  <2>1. CASE r.handle = Null
    BY <2>1 DEF Slot
  <2>2. CASE r.handle # Null
    <3>1. PICK s1 : s1 = StateSlots(t)[i]
      OBVIOUS
    <3>2. s1 \in StateNames \cup {Unnamed}
      <4>1. s1 = IF i <= Len(t.states) THEN t.states[i].name ELSE Unnamed
        BY <3>1 DEF StateSlots
      <4>2. CASE i <= Len(t.states)
        <5>1. i \in 1..Len(t.states) /\ t.states \in Seq(StateType)
          BY <4>2, Parts
        <5>2. t.states[i] \in StateType
          BY <5>1
        <5>3. QED
          BY <4>1, <4>2, <5>2 DEF StateType
      <4>3. QED
        BY <4>1, <4>2
    <3>3. PICK q : q = sm_register_transition(r.table, s1, s2, ev, al)
      OBVIOUS
    <3>4. r.table \in TableType /\ TableOK(r.table) /\ Registered(t, r)
      OBVIOUS
    <3>5. Registered(r.table, q) /\ TableOK(q.table)
      BY <3>2, <3>3, <3>4, TransitionRegistered
    <3>6. Registered(t, q)
      BY <3>4, <3>5 DEF Registered
    <3>7. q \in ResType
      <4>1. q.table \in TableType /\ q.handle \in Nat /\ q.err \in Diagnostics \cup {"KEEP"}
        BY <3>6 DEF Registered
      <4>2. \E a, b, c : q = [table |-> a, handle |-> b, err |-> c]
        BY <3>3 DEF sm_register_transition, Res
      <4>3. QED
        BY <4>1, <4>2
    <3>8. Slot(r, StateSlots(t)[i], s2, ev, al) = q
      BY <2>2, <3>1, <3>3 DEF Slot
    <3>9. QED
      BY <3>5, <3>6, <3>7, <3>8
  <2>3. QED
    BY <2>1, <2>2
<1>4. F \in [(1..N) \X X -> X]
  <2> HIDE DEF X, N
  <2>1. \A p \in (1..N) \X X : p[1] \in 1..N /\ p[2] \in X
    OBVIOUS
  <2>2. \A p \in (1..N) \X X : Slot(p[2], StateSlots(t)[p[1]], s2, ev, al) \in X
    BY <1>3, <2>1
  <2>3. QED
    BY <2>2
<1>5. \E f : Is(f)
  <2> HIDE DEF X, F, base, N
  <2>0. PICK f : Follows(f, F, N, X, base)
    <3>1. IsRule(F, N, X)
      BY <1>4 DEF IsRule
    <3>2. QED
      BY <1>1, <1>2, <3>1, Recursion
  <2>1. f \in [0..N -> X] /\ f[0] = base /\ \A i \in 1..N : f[i] = F[<<i, f[i - 1]>>]
    BY <2>0 DEF Follows
  <2>2. ASSUME NEW i \in 1..N PROVE f[i] = Slot(f[i - 1], StateSlots(t)[i], s2, ev, al)
    <3>1. i - 1 \in 0..N
      BY <1>1
    <3>2. <<i, f[i - 1]>> \in (1..N) \X X
      BY <2>1, <3>1
    <3>3. F[<<i, f[i - 1]>>] = Slot(f[i - 1], StateSlots(t)[i], s2, ev, al)
      BY <3>2 DEF F
    <3>4. QED
      BY <2>1, <3>3
  <2>3. \A i \in 0..N : f[i] = IF i = 0 THEN base ELSE Slot(f[i - 1], StateSlots(t)[i], s2, ev, al)
    BY <1>1, <2>1, <2>2
  <2>4. f = [i \in 0..N |-> f[i]]
    BY <2>1
  <2>5. Is(f)
    BY <2>3, <2>4
  <2>6. QED
    BY <2>5
<1>6. Is(slot)
  <2> HIDE DEF Is
  <2>1. QED
    BY <1>5
<1>7. \A i \in 0..N : slot[i] \in X
  <2> DEFINE T == {i \in 0..N : slot[i] \in X}
  <2> HIDE DEF X, base, N, slot
  <2>1. 0 \in T
    BY <1>1, <1>2, <1>6
  <2>2. ASSUME NEW i \in 0..(N - 1), i \in T PROVE i + 1 \in T
    <3>1. i + 1 \in 1..N /\ (i + 1) - 1 = i /\ i + 1 \in 0..N
      BY <1>1
    <3>2. slot[i + 1] = Slot(slot[i], StateSlots(t)[i + 1], s2, ev, al)
      <4>1. \A j \in 0..N : slot[j] = IF j = 0 THEN base
                                     ELSE Slot(slot[j - 1], StateSlots(t)[j], s2, ev, al)
        BY <1>6, Zenon
      <4>2. i + 1 # 0
        OBVIOUS
      <4>3. slot[i + 1] = Slot(slot[(i + 1) - 1], StateSlots(t)[i + 1], s2, ev, al)
        BY <3>1, <4>1, <4>2, Zenon
      <4>4. QED
        BY <3>1, <4>3, Zenon
    <3>3. QED
      BY <1>3, <2>2, <3>1, <3>2
  <2>3. \A i \in 0..N : i \in T
    <3> HIDE DEF T
    <3>1. QED
      BY <1>1, <2>1, <2>2, UpTo
  <2>4. QED
    BY <2>3
<1>8. PICK end : end = slot[N]
  OBVIOUS
<1>9. end \in X
  BY <1>1, <1>7, <1>8
<1>10. sm_register_global_transition(t, s2, ev, al)
         = [end EXCEPT !.handle = IF end.handle = Null THEN 1 ELSE 0]
  BY <1>8 DEF sm_register_global_transition
<1>11. QED
  BY <1>9, <1>10 DEF Registered

(***************************************************************************)
(* The machine.                                                            *)
(***************************************************************************)

(* The stack without its top, and with another frame there.                *)
LEMMA TopTaken ==
  \A S, q : q \in Seq(S) /\ q # <<>>
            => /\ Front(q) \in Seq(S) /\ Len(Front(q)) = Len(q) - 1 /\ Last(q) \in S
               /\ Len(q) \in Nat \ {0} /\ \A i \in 1..(Len(q) - 1) : Front(q)[i] = q[i]
<1> TAKE S, q
<1> HAVE q \in Seq(S) /\ q # <<>>
<1>1. PICK n \in Nat : n = Len(q)
  OBVIOUS
<1>2. n # 0 /\ n \in 1..n /\ q[n] \in S
  BY <1>1
<1>3. PICK p : p = Front(q)
  OBVIOUS
<1>4. p = SubSeq(q, 1, n - 1)
  BY <1>1, <1>3 DEF Front
<1>5. p \in Seq(S) /\ Len(p) = n - 1 /\ \A i \in 1..(n - 1) : p[i] = q[i]
  BY <1>1, <1>2, <1>4
<1>6. QED
  BY <1>1, <1>2, <1>3, <1>5 DEF Last

(* The stack with another frame at the top.                                *)
TopIs(w, q, f) == /\ Len(w) = Len(q) /\ Last(w) = f /\ w # <<>>
                  /\ \A i \in 1..(Len(q) - 1) : w[i] = q[i]
LEMMA TopReplaced ==
  \A q, f, w : /\ q \in Seq(FrameType) /\ q # <<>> /\ f \in FrameType /\ w = Append(Front(q), f)
               => w \in Seq(FrameType) /\ TopIs(w, q, f)
<1> TAKE q, f, w
<1> HAVE q \in Seq(FrameType) /\ q # <<>> /\ f \in FrameType /\ w = Append(Front(q), f)
<1>1. PICK n \in Nat : n = Len(q)
  OBVIOUS
<1>2. PICK p : p = Front(q)
  OBVIOUS
<1>3. p \in Seq(FrameType) /\ Len(p) = n - 1 /\ n # 0 /\ \A i \in 1..(n - 1) : p[i] = q[i]
  BY <1>1, <1>2, TopTaken
<1>4. w = Append(p, f)
  BY <1>2
<1>5. w \in Seq(FrameType) /\ Len(w) = n /\ w[n] = f /\ \A i \in 1..(n - 1) : w[i] = p[i]
  BY <1>1, <1>3, <1>4
<1>6. Last(w) = f /\ w # <<>>
  BY <1>1, <1>3, <1>5 DEF Last
<1>7. QED
  BY <1>1, <1>3, <1>5, <1>6 DEF TopIs

(* An event that is taken off the queue leaves the history of the events   *)
(* what was served before what is in the queue.                            *)
LEMMA Unqueued ==
  \A S, s, q : s \in Seq(S) /\ q \in Seq(S) /\ q # <<>>
               => Append(s, Head(q)) \o Tail(q) = s \o q
<1> TAKE S, s, q
<1> HAVE s \in Seq(S) /\ q \in Seq(S) /\ q # <<>>
<1>1. PICK h, t : h = Head(q) /\ t = Tail(q)
  OBVIOUS
<1>2. h \in S /\ t \in Seq(S) /\ <<h>> \in Seq(S)
  BY <1>1
<1>3. q = <<h>> \o t
  BY <1>1, <1>2
<1>4. Append(s, h) = s \o <<h>>
  BY <1>2, AppendIsConcat
<1>5. (s \o <<h>>) \o t = s \o (<<h>> \o t)
  BY <1>2, ConcatAssociative
<1>6. QED
  BY <1>1, <1>3, <1>4, <1>5

(* The limits are numbers.                                                 *)
LEMMA Limits ==
  /\ MACHINE_EVENT_STACK_LEN \in Nat \ {0} /\ MACHINE_ERROR_QUEUE_LEN \in Nat \ {0}
  /\ MaxDefs \in Nat /\ MaxRaised \in Nat
BY StateMachineAssumption

(* The event of a queue is one of the table, or there is none.             *)
LEMMA EventFound ==
  ASSUME NEW t \in TableType, NEW n
  PROVE  find_event(t, n) \in DOMAIN t.events \cup {Null}
BY Found

(* No transition, or one of the current state's.                           *)
LEMMA Selected ==
  ASSUME MachineInv, NEW evh
  PROVE  /\ Select(evh) \in TransitionType
         /\ Select(evh) # NoTx => /\ curr_state \in DOMAIN table.states
                                  /\ Select(evh) \in ToSet(table.states[curr_state].transitions)
<1>1. NoTx \in TransitionType
  BY DEF NoTx, TransitionType, Null
<1>2. PICK n \in Nat : n = Len(table.states)
  BY Parts DEF MachineInv, SMTypeOK
<1>3. CASE curr_state > n
  <2>1. Select(evh) = NoTx
    BY <1>2, <1>3 DEF Select
  <2>2. QED
    BY <1>1, <2>1
<1>4. CASE ~(curr_state > n)
  <2>1. curr_state \in 1..n
    BY <1>2, <1>4 DEF MachineInv, First
  <2>2. PICK txs : txs = table.states[curr_state].transitions
    OBVIOUS
  <2>3. txs \in Seq(TransitionType)
    <3>1. table.states \in Seq(StateType)
      BY Parts DEF MachineInv, SMTypeOK
    <3>2. table.states[curr_state] \in StateType
      BY <1>2, <2>1, <3>1
    <3>3. QED
      BY <2>2, <3>2 DEF StateType
  <2>4. PICK m : m = {i \in DOMAIN txs : txs[i].eventh = evh}
    OBVIOUS
  <2>5. CASE m = {}
    <3>1. Select(evh) = NoTx
      BY <2>2, <2>4, <2>5 DEF Select
    <3>2. QED
      BY <1>1, <3>1
  <2>6. CASE m # {}
    <3>1. PICK j : j = CHOOSE i \in m : \A k \in m : i <= k
      OBVIOUS
    <3>2. \E i \in m : \A k \in m : i <= k
      <4>1. m \subseteq Nat
        BY <2>3, <2>4
      <4>2. QED
        BY <2>6, <4>1, LeastNumber
    <3>3. j \in m
      BY <3>1, <3>2
    <3>4. txs[j] \in TransitionType /\ txs[j] \in ToSet(txs)
      BY <2>3, <2>4, <3>3 DEF ToSet
    <3>5. Select(evh) = txs[j]
      BY <1>2, <1>4, <2>2, <2>4, <2>6, <3>1 DEF Select
    <3>6. curr_state \in DOMAIN table.states
      BY <1>2, <2>1, Parts DEF MachineInv, SMTypeOK
    <3>7. QED
      BY <2>2, <3>4, <3>5, <3>6
  <2>7. QED
    BY <2>5, <2>6
<1>5. QED
  BY <1>3, <1>4

(* A new machine.                                                          *)
LEMMA InitMachine == SMInit => MachineInv
<1> SUFFICES ASSUME SMInit PROVE MachineInv
  OBVIOUS
<1> USE DEF SMInit, NewMachine
<1>1. table \in TableType /\ TableOK(table)
  BY TablesAssumption
<1>2. SMTypeOK
  BY <1>1, Limits DEF SMTypeOK, Diagnostics
<1>3. last_event \in DOMAIN table.events \cup {Null}
  BY <1>1, EventFound
<1>4. Len(event_queue) <= MACHINE_EVENT_STACK_LEN /\ Len(txerrors) <= MACHINE_ERROR_QUEUE_LEN
  BY Limits
<1>5. accepted = served \o event_queue
  OBVIOUS
<1>6. (\A i \in 1..(Len(frames) - 1) : frames[i].tx = NoTx) /\ ~Acting
  BY DEF Acting
<1>7. QED
  BY <1>1, <1>2, <1>3, <1>4, <1>5, <1>6 DEF MachineInv

(* The state of a machine that is between calls.                           *)
LEMMA StepRegistration ==
  ASSUME MachineInv, NEW r, Registered(table, r), Registration(r)
  PROVE  MachineInv'
<1> USE DEF Registration
<1>1. table' \in TableType /\ TableOK(table') /\ DOMAIN table.events \subseteq DOMAIN table'.events
      /\ DOMAIN table.states \subseteq DOMAIN table'.states
  BY DEF Registered
<1>2. smerrno' \in Diagnostics
  BY DEF Registered, set_diag, MachineInv, SMTypeOK
<1>3. {event_queue, accepted, served} \subseteq Seq(DOMAIN table'.events)
  <2>1. {event_queue, accepted, served} \subseteq Seq(DOMAIN table.events)
    BY DEF MachineInv, SMTypeOK
  <2>2. QED
    BY <1>1, <2>1, SeqMonotonic
<1>4. SMTypeOK'
  BY <1>1, <1>2, <1>3, Limits DEF MachineInv, SMTypeOK
<1>5. DOMAIN table.states = 1..Len(table.states) /\ DOMAIN table'.states = 1..Len(table'.states)
  BY <1>1, Parts DEF MachineInv, SMTypeOK
<1>6. {curr_state, prev_state} \subseteq 1..Len(table'.states) \cup {First}
  BY <1>1, <1>5 DEF MachineInv
<1>7. frames' = <<>> /\ ~Acting'
  BY DEF Idle, Acting
<1>8. QED
  BY <1>1, <1>4, <1>6, <1>7 DEF MachineInv

(* A registration, of any kind.                                            *)
LEMMA StepRegister ==
  ASSUME MachineInv, Register
  PROVE  MachineInv'
<1>1. table \in TableType /\ TableOK(table)
  BY DEF MachineInv, SMTypeOK
<1>2. PICK r : Registered(table, r) /\ Registration(r)
  <2>1. CASE Registration(sm_register_stock_defs(table))
    BY <1>1, <2>1, OthersRegistered
  <2>2. CASE \E n \in EventNames : Registration(sm_register_event(table, n))
    BY <1>1, <2>2, EventRegistered
  <2>3. CASE \E n \in ListNames : Registration(sm_register_action_list(table, n))
    BY <1>1, <2>3, ListRegistered
  <2>4. CASE \E al \in ListNames, n \in ActionNames : Registration(sm_register_action(table, al, n))
    BY <1>1, <2>4, ActionRegistered
  <2>5. CASE \E n \in StateNames : Registration(sm_register_state(table, n))
    BY <1>1, <2>5, StateRegistered
  <2>6. CASE \E s1, s2 \in StateNames, ev \in EventNames, al \in ListNames :
               Registration(sm_register_transition(table, s1, s2, ev, al))
    <3>1. PICK s1 \in StateNames, s2 \in StateNames, ev \in EventNames, al \in ListNames :
            Registration(sm_register_transition(table, s1, s2, ev, al))
      BY <2>6
    <3>2. Registered(table, sm_register_transition(table, s1, s2, ev, al))
      BY <1>1, TransitionRegistered
    <3>3. QED
      BY <3>1, <3>2
  <2>7. CASE \E s2 \in StateNames, ev \in EventNames, al \in ListNames :
               Registration(sm_register_global_transition(table, s2, ev, al))
    <3>1. PICK s2 \in StateNames, ev \in EventNames, al \in ListNames :
            Registration(sm_register_global_transition(table, s2, ev, al))
      BY <2>7
    <3>2. Registered(table, sm_register_global_transition(table, s2, ev, al))
      BY <1>1, GlobalRegistered
    <3>3. QED
      BY <3>1, <3>2
  <2>8. CASE Registration(sm_set_definition_complete(table))
    BY <1>1, <2>8, OthersRegistered
  <2>9. QED
    BY <2>1, <2>2, <2>3, <2>4, <2>5, <2>6, <2>7, <2>8 DEF Register
<1>3. QED
  BY <1>2, StepRegistration

(* The calls that leave the stack empty, and a call of the application.    *)
LEMMA StepIdle ==
  ASSUME MachineInv,
         \/ sm_reset_machine \/ sm_pop_tx_error
         \/ \E n \in EventNames \cup StockEvents : sm_transition(n)
  PROVE  MachineInv'
<1>0. table \in TableType
  BY DEF MachineInv, SMTypeOK
<1>1. CASE sm_reset_machine
  <2> USE <1>1 DEF sm_reset_machine
  <2>1. SMTypeOK'
    BY DEF MachineInv, SMTypeOK, Diagnostics
  <2>2. last_event' \in DOMAIN table.events \cup {Null}
    BY <1>0, EventFound
  <2>3. Len(event_queue') <= MACHINE_EVENT_STACK_LEN /\ Len(txerrors') <= MACHINE_ERROR_QUEUE_LEN
    BY Limits
  <2>4. accepted' = served' \o event_queue'
    OBVIOUS
  <2>5. frames' = <<>> /\ ~Acting'
    BY DEF Idle, Acting
  <2>6. QED
    BY <2>1, <2>2, <2>3, <2>4, <2>5 DEF MachineInv
<1>2. CASE sm_pop_tx_error
  <2> USE <1>2 DEF sm_pop_tx_error
  <2>1. txerrors' \in Seq(Diagnostics) /\ Len(txerrors') <= MACHINE_ERROR_QUEUE_LEN
    <3>1. PICK n \in Nat : n = Len(txerrors)
      BY DEF MachineInv, SMTypeOK
    <3>2. n <= MACHINE_ERROR_QUEUE_LEN /\ MACHINE_ERROR_QUEUE_LEN \in Nat /\ txerrors \in Seq(Diagnostics)
      BY <3>1, Limits DEF MachineInv, SMTypeOK
    <3>3. txerrors' \in Seq(Diagnostics) /\ Len(txerrors') = n - 1
      BY <3>1, <3>2
    <3>4. QED
      BY <3>2, <3>3
  <2>2. SMTypeOK'
    BY <2>1 DEF MachineInv, SMTypeOK
  <2>3. ~Acting'
    BY DEF Idle, Acting
  <2>4. QED
    BY <2>1, <2>2, <2>3 DEF MachineInv, Idle
<1>3. ASSUME NEW n \in EventNames \cup StockEvents, sm_transition(n) PROVE MachineInv'
  <2> DEFINE evh == find_event(table, n)
             e   == Enter(evh, n)
  <2>1. UNCHANGED <<table, curr_state, prev_state, last_event, event_queue, txerrors, defs,
                    raised, accepted, served>>
    BY <1>3 DEF sm_transition
  <2>2. e \in Diagnostics \cup {"run"}
    BY DEF Enter, Diagnostics
  <2>3. PICK f : f = Frame(evh)
    OBVIOUS
  <2>4. f \in FrameType /\ (f.tx # NoTx => curr_state \in DOMAIN table.states
                                 /\ f.tx \in ToSet(table.states[curr_state].transitions))
    BY <2>3, Selected DEF Frame, FrameType, Diagnostics
  <2>5. frames' = <<f>> \/ frames' = <<>>
    BY <1>3, <2>3 DEF sm_transition
  <2>6. smerrno' \in Diagnostics /\ status' \in Diagnostics
    <3>1. smerrno \in Diagnostics
      BY DEF MachineInv, SMTypeOK
    <3>2. QED
      BY <1>3, <2>2, <3>1 DEF sm_transition, set_diag, Diagnostics
  <2>7. frames' \in Seq(FrameType) /\ Len(frames') \in 0..1
    <3>1. CASE frames' = <<f>>
      BY <2>4, <3>1
    <3>2. CASE frames' = <<>>
      BY <3>2
    <3>3. QED
      BY <2>5, <3>1, <3>2
  <2>8. SMTypeOK'
    BY <2>1, <2>6, <2>7 DEF MachineInv, SMTypeOK
  <2>9. Acting' => /\ curr_state' \in DOMAIN table'.states
                   /\ Last(frames').tx \in ToSet(table'.states[curr_state'].transitions)
    <3>1. CASE frames' = <<f>>
      <4>1. Last(frames') = f
        BY <3>1 DEF Last
      <4>2. QED
        BY <2>1, <2>4, <4>1 DEF Acting, Top
    <3>2. CASE frames' = <<>>
      BY <3>2 DEF Acting
    <3>3. QED
      BY <2>5, <3>1, <3>2
  <2>10. \A i \in 1..(Len(frames') - 1) : frames'[i].tx = NoTx
    BY <2>7
  <2>11. QED
    BY <2>1, <2>8, <2>9, <2>10 DEF MachineInv, Top
<1>4. QED
  BY <1>1, <1>2, <1>3

(* A step of a handler: the event goes to the end of the queue and of the  *)
(* history.                                                                *)
LEMMA StepHandler ==
  ASSUME MachineInv, Handler
  PROVE  MachineInv'
<1> USE DEF Handler
<1>1. frames \in Seq(FrameType) /\ frames # <<>> /\ Top \in FrameType
  <2>1. frames \in Seq(FrameType) /\ frames # <<>>
    BY DEF Acting, MachineInv, SMTypeOK
  <2>2. QED
    BY <2>1, TopTaken DEF Top, Last
<1>2. PICK f : f = [Top EXCEPT !.next = @ + 1]
  OBVIOUS
<1>3. f \in FrameType /\ f.tx = Top.tx
  BY <1>1, <1>2 DEF FrameType
<1>4. frames' = Append(Front(frames), f)
  BY <1>2 DEF Update, Pop
<1>5. /\ frames' \in Seq(FrameType) /\ Len(frames') = Len(frames) /\ Last(frames') = f
      /\ \A i \in 1..(Len(frames) - 1) : frames'[i] = frames[i]
  <2>1. frames' \in Seq(FrameType) /\ TopIs(frames', frames, f)
    BY <1>1, <1>3, <1>4, TopReplaced, Zenon
  <2>2. QED
    BY <2>1 DEF TopIs
<1>6. UNCHANGED <<table, curr_state, prev_state, last_event, txerrors, smerrno, status, defs, served>>
  OBVIOUS
<1>7. /\ {event_queue', accepted', served'} \subseteq Seq(DOMAIN table'.events) /\ raised' \in 0..MaxRaised
      /\ Len(event_queue') <= MACHINE_EVENT_STACK_LEN /\ accepted' = served' \o event_queue'
  <2>1. PICK e \in DOMAIN table.events :
          /\ raised' = raised + (IF table.events[e] = EV_NULL THEN 0 ELSE 1) /\ raised' <= MaxRaised
          /\ IF Len(event_queue) < MACHINE_EVENT_STACK_LEN
             THEN event_queue' = Append(event_queue, e) /\ accepted' = Append(accepted, e)
             ELSE UNCHANGED <<event_queue, accepted>>
    BY Zenon
  <2>2. PICK D : D = DOMAIN table.events
    OBVIOUS
  <2>3. e \in D /\ event_queue \in Seq(D) /\ accepted \in Seq(D) /\ served \in Seq(D)
        /\ accepted = served \o event_queue /\ Len(event_queue) <= MACHINE_EVENT_STACK_LEN
        /\ raised \in 0..MaxRaised /\ MaxRaised \in Nat
    BY <2>2, Limits DEF MachineInv, SMTypeOK
  <2>4. raised' \in 0..MaxRaised
    BY <2>1, <2>3
  <2>5. CASE Len(event_queue) < MACHINE_EVENT_STACK_LEN
    <3>1. event_queue' = Append(event_queue, e) /\ accepted' = Append(accepted, e)
      BY <2>1, <2>5
    <3>2. event_queue' \in Seq(D) /\ accepted' \in Seq(D) /\ Len(event_queue') = Len(event_queue) + 1
      BY <2>3, <3>1
    <3>3. accepted' = served \o event_queue'
      <4>1. served \in Seq(D) /\ event_queue \in Seq(D) /\ e \in D /\ accepted = served \o event_queue
        BY <2>3
      <4>2. QED
        <5>1. PICK s, q, x : s = served /\ q = event_queue /\ x = e
          OBVIOUS
        <5>2. s \in Seq(D) /\ q \in Seq(D) /\ x \in D
          BY <4>1, <5>1
        <5>3. Append(s \o q, x) = s \o Append(q, x)
          BY ONLY <5>2
        <5>4. QED
          BY <3>1, <4>1, <5>1, <5>3
    <3>4. Len(event_queue') <= MACHINE_EVENT_STACK_LEN
      <4>1. PICK n \in Nat : n = Len(event_queue)
        <5>1. event_queue \in Seq(D)
          BY <2>3
        <5>2. Len(event_queue) \in Nat
          BY ONLY <5>1
        <5>3. QED
          BY <5>2
      <4>2. QED
        BY <2>5, <3>2, <4>1, Limits
    <3>5. QED
      BY <1>6, <2>2, <2>3, <2>4, <3>1, <3>2, <3>3, <3>4
  <2>6. CASE ~(Len(event_queue) < MACHINE_EVENT_STACK_LEN)
    BY <1>6, <2>1, <2>2, <2>3, <2>4, <2>6
  <2>7. QED
    BY <2>5, <2>6
<1>8. SMTypeOK'
  BY <1>5, <1>6, <1>7 DEF MachineInv, SMTypeOK
<1>9. \A i \in 1..(Len(frames') - 1) : frames'[i].tx = NoTx
  BY <1>5 DEF MachineInv
<1>10. curr_state' \in DOMAIN table'.states /\ Top'.tx \in ToSet(table'.states[curr_state'].transitions)
  <2>1. Top' = f
    BY <1>5 DEF Top
  <2>2. curr_state \in DOMAIN table.states /\ Top.tx \in ToSet(table.states[curr_state].transitions)
    BY DEF MachineInv
  <2>3. QED
    BY <1>3, <1>6, <2>1, <2>2
<1>11. QED
  BY <1>6, <1>7, <1>8, <1>9, <1>10 DEF MachineInv

(* The machine enters the state of a transition of the table.              *)
LEMMA StepLand ==
  ASSUME MachineInv, Land
  PROVE  MachineInv'
<1> USE DEF Land
<1>1. frames \in Seq(FrameType) /\ frames # <<>> /\ Top \in FrameType
  <2>1. frames \in Seq(FrameType) /\ frames # <<>>
    BY DEF Acting, MachineInv, SMTypeOK
  <2>2. QED
    BY <2>1, TopTaken DEF Top, Last
<1>2. PICK f : f = [Top EXCEPT !.tx = NoTx]
  OBVIOUS
<1>3. f \in FrameType /\ f.tx = NoTx
  BY <1>1, <1>2 DEF FrameType, NoTx, TransitionType, Null
<1>4. frames' = Append(Front(frames), f)
  BY <1>2 DEF Update, Pop
<1>5. /\ frames' \in Seq(FrameType) /\ Len(frames') = Len(frames) /\ Last(frames') = f
      /\ \A i \in 1..(Len(frames) - 1) : frames'[i] = frames[i]
  <2>1. frames' \in Seq(FrameType) /\ TopIs(frames', frames, f)
    BY <1>1, <1>3, <1>4, TopReplaced, Zenon
  <2>2. QED
    BY <2>1 DEF TopIs
<1>6. UNCHANGED <<table, event_queue, txerrors, smerrno, status, defs, raised, accepted, served>>
  OBVIOUS
<1>7. curr_state \in 1..Len(table.states) /\ Top.tx \in ToSet(table.states[curr_state].transitions)
  <2>1. curr_state \in DOMAIN table.states /\ Top.tx \in ToSet(table.states[curr_state].transitions)
    BY DEF MachineInv
  <2>2. QED
    BY <2>1, Parts DEF MachineInv, SMTypeOK
<1>8. /\ Top.tx.s2 \in DOMAIN table.states /\ Top.tx.eventh \in DOMAIN table.events
  <2>1. table.states[curr_state] \in ToSet(table.states)
    <3>1. DOMAIN table.states = 1..Len(table.states)
      BY Parts DEF MachineInv, SMTypeOK
    <3>2. QED
      BY <1>7, <3>1 DEF ToSet
  <2>2. QED
    BY <1>7, <2>1 DEF MachineInv, TableOK
<1>9. {curr_state', prev_state'} \subseteq 1..Len(table.states) \cup {First}
      /\ last_event' \in DOMAIN table.events
  <2>1. DOMAIN table.states = 1..Len(table.states)
    BY Parts DEF MachineInv, SMTypeOK
  <2>2. curr_state' = Top.tx.s2 /\ prev_state' = curr_state /\ last_event' = Top.tx.eventh
    OBVIOUS
  <2>3. QED
    BY <1>7, <1>8, <2>1, <2>2
<1>10. SMTypeOK'
  BY <1>5, <1>6 DEF MachineInv, SMTypeOK
<1>11. \A i \in 1..(Len(frames') - 1) : frames'[i].tx = NoTx
  BY <1>5 DEF MachineInv
<1>12. ~Acting'
  BY <1>3, <1>5 DEF Acting, Top
<1>13. QED
  BY <1>6, <1>9, <1>10, <1>11, <1>12 DEF MachineInv

(* An event is taken off the queue, for a call or for the result it has.   *)
LEMMA StepDispatch ==
  ASSUME MachineInv, Dispatch
  PROVE  MachineInv'
<1>0. PICK evh, e : /\ evh = Head(event_queue) /\ e = Enter(evh, table.events[evh])
                    /\ Draining /\ event_queue' = Tail(event_queue) /\ served' = Append(served, evh)
                    /\ frames' = IF e = "run" THEN Append(frames, Frame(evh))
                                 ELSE Update([Top EXCEPT !.status = e])
                    /\ UNCHANGED <<table, curr_state, prev_state, last_event, txerrors, smerrno,
                                   status, defs, raised, accepted>>
  BY Zenon DEF Dispatch
<1>1. frames \in Seq(FrameType) /\ frames # <<>> /\ Top \in FrameType /\ Top.tx = NoTx
      /\ Len(frames) \in Nat \ {0} /\ Top = frames[Len(frames)]
  <2>1. frames \in Seq(FrameType) /\ frames # <<>> /\ Top.tx = NoTx
    BY <1>0 DEF Draining, MachineInv, SMTypeOK
  <2>2. QED
    BY <2>1, TopTaken DEF Top, Last
<1>2. UNCHANGED <<table, curr_state, prev_state, last_event, txerrors, smerrno, status, defs,
                  raised, accepted>>
  BY <1>0
<1>3. /\ {event_queue', accepted', served'} \subseteq Seq(DOMAIN table'.events)
      /\ Len(event_queue') <= MACHINE_EVENT_STACK_LEN /\ accepted' = served' \o event_queue'
  <2>1. PICK D : D = DOMAIN table.events
    OBVIOUS
  <2>2. event_queue \in Seq(D) /\ accepted \in Seq(D) /\ served \in Seq(D)
        /\ accepted = served \o event_queue /\ Len(event_queue) <= MACHINE_EVENT_STACK_LEN
        /\ event_queue # <<>>
    BY <1>0, <2>1 DEF MachineInv, SMTypeOK, Draining
  <2>3. PICK n \in Nat : n = Len(event_queue)
    BY <2>2
  <2>4. event_queue' \in Seq(D) /\ Len(event_queue') = n - 1 /\ evh \in D
    BY <1>0, <2>2, <2>3
  <2>5. served' \in Seq(D)
    BY <1>0, <2>2, <2>4
  <2>6. Append(served, evh) \o Tail(event_queue) = served \o event_queue
    <3>1. Append(served, Head(event_queue)) \o Tail(event_queue) = served \o event_queue
      BY <2>2, Unqueued
    <3>2. evh = Head(event_queue)
      BY <1>0
    <3>3. QED
      BY <3>1, <3>2
  <2>7. Len(event_queue') <= MACHINE_EVENT_STACK_LEN
    BY <2>2, <2>3, <2>4, Limits
  <2>8. QED
    BY <1>0, <1>2, <2>1, <2>2, <2>4, <2>5, <2>6, <2>7
<1>4. /\ frames' \in Seq(FrameType) /\ \A i \in 1..(Len(frames') - 1) : frames'[i].tx = NoTx
      /\ Acting' => /\ curr_state \in DOMAIN table.states
                    /\ Top'.tx \in ToSet(table.states[curr_state].transitions)
  <2>1. CASE e = "run"
    <3>1. PICK f : f = Frame(evh)
      OBVIOUS
    <3>2. f \in FrameType /\ (f.tx # NoTx => curr_state \in DOMAIN table.states
                                 /\ f.tx \in ToSet(table.states[curr_state].transitions))
      BY <3>1, Selected DEF Frame, FrameType, Diagnostics
    <3>3. frames' = Append(frames, f)
      BY <1>0, <2>1, <3>1
    <3>4. PICK n \in Nat : n = Len(frames) /\ n # 0
      BY <1>1
    <3>5. frames' \in Seq(FrameType) /\ Len(frames') = n + 1 /\ frames'[n + 1] = f
          /\ \A i \in 1..n : frames'[i] = frames[i]
      BY <1>1, <3>2, <3>3, <3>4
    <3>6. \A i \in 1..n : frames[i].tx = NoTx
      <4>1. \A i \in 1..(n - 1) : frames[i].tx = NoTx
        BY <3>4 DEF MachineInv
      <4>2. QED
        BY <1>1, <3>4, <4>1
    <3>7. \A i \in 1..(Len(frames') - 1) : frames'[i].tx = NoTx
      BY <3>4, <3>5, <3>6
    <3>8. Top' = f
      BY <3>5 DEF Top, Last
    <3>9. QED
      BY <3>2, <3>5, <3>7, <3>8 DEF Acting
  <2>2. CASE e # "run"
    <3>1. PICK f : f = [Top EXCEPT !.status = e]
      OBVIOUS
    <3>2. e \in Diagnostics
      BY <1>0, <2>2 DEF Enter, Diagnostics
    <3>3. f \in FrameType /\ f.tx = NoTx
      BY <1>1, <3>1, <3>2 DEF FrameType
    <3>4. frames' = Append(Front(frames), f)
      BY <1>0, <2>2, <3>1 DEF Update, Pop
    <3>5. /\ frames' \in Seq(FrameType) /\ Len(frames') = Len(frames) /\ Last(frames') = f
          /\ \A i \in 1..(Len(frames) - 1) : frames'[i] = frames[i]
      <4>1. frames' \in Seq(FrameType) /\ TopIs(frames', frames, f)
        BY <1>1, <3>3, <3>4, TopReplaced, Zenon
      <4>2. QED
        BY <4>1 DEF TopIs
    <3>6. ~Acting'
      BY <3>3, <3>5 DEF Acting, Top
    <3>7. QED
      BY <3>5, <3>6 DEF MachineInv
  <2>3. QED
    BY <2>1, <2>2
<1>5. SMTypeOK'
  BY <1>2, <1>3, <1>4 DEF MachineInv, SMTypeOK
<1>6. QED
  BY <1>2, <1>3, <1>4, <1>5 DEF MachineInv

(* What a call that returns leaves behind.                                 *)
LEMMA Unwound ==
  ASSUME MachineInv, Return
  PROVE  /\ frames \in Seq(FrameType) /\ Len(frames) \in Nat \ {0} /\ Top \in FrameType /\ Top.tx = NoTx
         /\ frames' \in Seq(FrameType) /\ Len(frames') = Len(frames) - 1
         /\ \A i \in 1..Len(frames') : frames'[i].tx = NoTx
         /\ IF Len(frames) = 1 THEN frames' = <<>> /\ status' = Top.status
            ELSE Last(frames').tx = NoTx /\ Last(frames').status = Top.status
<1> USE DEF Return
<1>1. frames \in Seq(FrameType) /\ frames # <<>> /\ Top.tx = NoTx
  BY DEF MachineInv, SMTypeOK
<1>2. Top \in FrameType /\ Len(frames) \in Nat \ {0}
  BY <1>1, TopTaken DEF Top, Last
<1>3. PICK n \in Nat : n = Len(frames) /\ n # 0
  BY <1>2
<1>4. \A i \in 1..(n - 1) : frames[i].tx = NoTx
  BY <1>3 DEF MachineInv
<1>5. CASE n = 1
  BY <1>1, <1>2, <1>3, <1>5
<1>6. CASE n # 1
  <2>1. PICK p : p = Pop
    OBVIOUS
  <2>2. p \in Seq(FrameType) /\ Len(p) = n - 1 /\ \A i \in 1..(n - 1) : p[i] = frames[i]
    BY <1>1, <1>2, <1>3, <2>1, TopTaken DEF Pop
  <2>3. p # <<>>
    BY <1>3, <1>6, <2>2
  <2>4. Last(p) \in FrameType /\ Last(p) = p[n - 1]
    BY <1>3, <1>6, <2>2, <2>3 DEF Last
  <2>5. Last(p).tx = NoTx
    BY <1>3, <1>4, <1>6, <2>2, <2>4
  <2>6. PICK f : f = [Last(p) EXCEPT !.status = Top.status]
    OBVIOUS
  <2>7. f \in FrameType /\ f.tx = NoTx /\ f.status = Top.status
    BY <1>2, <2>4, <2>5, <2>6 DEF FrameType
  <2>8. frames' = Append(Front(p), f)
    BY <1>3, <1>6, <2>1, <2>6 DEF Received
  <2>9. /\ frames' \in Seq(FrameType) /\ Len(frames') = n - 1 /\ Last(frames') = f
        /\ \A i \in 1..(n - 2) : frames'[i] = p[i]
    <3>1. (n - 1) - 1 = n - 2
      BY <1>3
    <3>2. frames' \in Seq(FrameType) /\ TopIs(frames', p, f)
      BY <2>2, <2>3, <2>7, <2>8, TopReplaced, Zenon
    <3>3. QED
      BY <2>2, <3>1, <3>2 DEF TopIs
  <2>10. \A i \in 1..(n - 1) : frames'[i].tx = NoTx
    <3>1. frames'[n - 1] = f
      BY <2>9 DEF Last
    <3>2. \A i \in 1..(n - 2) : frames'[i].tx = NoTx
      BY <1>3, <1>4, <2>2, <2>9
    <3>3. QED
      BY <1>3, <2>7, <3>1, <3>2
  <2>11. QED
    BY <1>1, <1>2, <1>3, <1>6, <2>7, <2>9, <2>10
<1>7. QED
  BY <1>5, <1>6

(* A call returns.                                                         *)
LEMMA StepReturn ==
  ASSUME MachineInv, Return
  PROVE  MachineInv'
<1>1. /\ frames' \in Seq(FrameType) /\ Len(frames') = Len(frames) - 1
      /\ \A i \in 1..Len(frames') : frames'[i].tx = NoTx
      /\ Top \in FrameType /\ Len(frames) \in Nat \ {0}
  BY Unwound
<1>2. UNCHANGED <<table, curr_state, prev_state, last_event, event_queue, defs>>
  BY DEF Return
<1>3. \A i \in 1..(Len(frames') - 1) : frames'[i].tx = NoTx
  BY <1>1
<1>4. ~Acting'
  <2>1. CASE frames' = <<>>
    BY <2>1 DEF Acting
  <2>2. CASE frames' # <<>>
    <3>1. Len(frames') \in 1..Len(frames') /\ Top' = frames'[Len(frames')]
      BY <1>1, <2>2 DEF Top, Last
    <3>2. QED
      BY <1>1, <3>1 DEF Acting
  <2>3. QED
    BY <2>1, <2>2
<1>5. Top.status \in Diagnostics
  BY <1>1 DEF FrameType
<1>6. txerrors' \in Seq(Diagnostics) /\ smerrno' \in Diagnostics /\ Len(txerrors') <= MACHINE_ERROR_QUEUE_LEN
  <2>1. txerrors \in Seq(Diagnostics) /\ smerrno \in Diagnostics /\ Len(txerrors) <= MACHINE_ERROR_QUEUE_LEN
        /\ Len(txerrors) \in Nat /\ MACHINE_ERROR_QUEUE_LEN \in Nat
    BY Limits DEF MachineInv, SMTypeOK
  <2>2. CASE Top.status = "NO_ERROR"
    BY <2>1, <2>2 DEF Return
  <2>3. CASE Top.status # "NO_ERROR"
    <3>1. set_diag(Top.status) /\ push_txdiag(Top)
      BY <2>3 DEF Return
    <3>2. smerrno' \in Diagnostics
      BY <1>5, <2>1, <3>1 DEF set_diag
    <3>3. \/ txerrors' = Append(txerrors, Top.status) /\ Len(txerrors) < MACHINE_ERROR_QUEUE_LEN
          \/ txerrors' = txerrors
      BY <3>1 DEF push_txdiag
    <3>4. CASE txerrors' = Append(txerrors, Top.status) /\ Len(txerrors) < MACHINE_ERROR_QUEUE_LEN
      <4>1. txerrors' \in Seq(Diagnostics) /\ Len(txerrors') = Len(txerrors) + 1
        BY <1>5, <2>1, <3>4
      <4>2. QED
        BY <2>1, <3>2, <3>4, <4>1
    <3>5. QED
      BY <2>1, <3>2, <3>3, <3>4
  <2>4. QED
    BY <2>2, <2>3
<1>7. /\ {accepted', served'} \subseteq Seq(DOMAIN table.events) /\ accepted' = served' \o event_queue
      /\ status' \in Diagnostics /\ raised' \in 0..MaxRaised
  <2>1. /\ {event_queue, accepted, served} \subseteq Seq(DOMAIN table.events) /\ status \in Diagnostics
        /\ raised \in 0..MaxRaised /\ 0 \in 0..MaxRaised /\ accepted = served \o event_queue
    BY Limits DEF MachineInv, SMTypeOK
  <2>2. CASE Len(frames) = 1
    <3>1. status' = Top.status /\ raised' = 0 /\ accepted' = event_queue /\ served' = <<>>
      BY <2>2 DEF Return
    <3>2. event_queue = <<>> \o event_queue
      BY <2>1
    <3>3. QED
      BY <1>5, <2>1, <3>1, <3>2
  <2>3. CASE Len(frames) # 1
    <3>1. UNCHANGED <<status, raised, accepted, served>>
      BY <2>3 DEF Return
    <3>2. QED
      BY <2>1, <3>1
  <2>4. QED
    BY <2>2, <2>3
<1>8. SMTypeOK'
  BY <1>1, <1>2, <1>6, <1>7 DEF MachineInv, SMTypeOK
<1>9. QED
  BY <1>2, <1>3, <1>4, <1>6, <1>7, <1>8 DEF MachineInv

(* Every step of the machine.                                              *)
LEMMA NextMachine == MachineInv /\ [SMNext]_smvars => MachineInv'
<1> SUFFICES ASSUME MachineInv, [SMNext]_smvars PROVE MachineInv'
  OBVIOUS
<1>1. CASE UNCHANGED smvars
  BY <1>1 DEF smvars, machine, MachineInv, SMTypeOK, Acting, Top
<1>2. CASE Register
  BY <1>2, StepRegister
<1>3. CASE \/ sm_reset_machine \/ sm_pop_tx_error
           \/ \E n \in EventNames \cup StockEvents : sm_transition(n)
  BY <1>3, StepIdle
<1>4. CASE Handler
  BY <1>4, StepHandler
<1>5. CASE Land
  BY <1>5, StepLand
<1>6. CASE Dispatch
  BY <1>6, StepDispatch
<1>7. CASE Return
  BY <1>7, StepReturn
<1>8. QED
  BY <1>1, <1>2, <1>3, <1>4, <1>5, <1>6, <1>7 DEF SMNext, Run

(* Run to completion: of every machine on every table that registrations   *)
(* make, the registrations keep the table consistent, only the innermost   *)
(* call of sm_transition runs handlers, of a transition that leaves the    *)
(* current state, and events are served in the order they were raised in.  *)
THEOREM RunToCompletion == SMSpec => []MachineInv
<1>1. SMInit => MachineInv
  BY InitMachine
<1>2. MachineInv /\ [SMNext]_smvars => MachineInv'
  BY NextMachine
<1>3. QED
  BY <1>1, <1>2, PTL DEF SMSpec

(* A step that makes the stack shorter is a return.                        *)
LEMMA StepUnwinds ==
  ASSUME MachineInv, [SMNext]_smvars, Len(frames') < Len(frames)
  PROVE  IF Top.status = "NO_ERROR"
         THEN event_queue = <<>> /\ txerrors' = txerrors
         ELSE /\ UNCHANGED <<curr_state, event_queue>>
              /\ Len(txerrors') = IF Len(txerrors) = MACHINE_ERROR_QUEUE_LEN
                                  THEN Len(txerrors) ELSE Len(txerrors) + 1
              /\ IF Idle' THEN status' = Top.status ELSE Last(frames').status = Top.status
<1>0. frames \in Seq(FrameType) /\ Len(frames) \in Nat
  BY DEF MachineInv, SMTypeOK
<1>1. Return
  <2>1. frames # frames'
    BY <1>0
  <2>2. ~(Register \/ sm_reset_machine \/ sm_pop_tx_error \/ UNCHANGED smvars)
    BY <2>1 DEF Register, Registration, sm_reset_machine, sm_pop_tx_error, smvars
  <2>3. ~ \E n \in EventNames \cup StockEvents : sm_transition(n)
    <3>1. ASSUME NEW n, sm_transition(n) PROVE FALSE
      <4>1. frames = <<>> /\ Len(frames) = 0 /\ (frames' = <<>> \/ \E f : frames' = <<f>>)
        BY <3>1 DEF sm_transition, Idle
      <4>2. Len(frames') \in Nat
        BY <4>1
      <4>3. QED
        BY <4>1, <4>2
    <3>2. QED
      BY <3>1
  <2>4. ~Handler /\ ~Land
    <3>1. ASSUME NEW f \in FrameType, frames # <<>>, frames' = Update(f) PROVE FALSE
      BY <1>0, <3>1, TopReplaced DEF Update, Pop, TopIs
    <3>2. ASSUME frames # <<>> PROVE Top \in FrameType
      BY <1>0, <3>2, TopTaken DEF Top, Last
    <3>3. ~Handler
      <4>1. SUFFICES ASSUME Handler PROVE FALSE
        OBVIOUS
      <4>2. frames # <<>> /\ Top \in FrameType
        BY <3>2, <4>1 DEF Handler, Acting
      <4>3. PICK f : f = [Top EXCEPT !.next = @ + 1]
        OBVIOUS
      <4>4. f \in FrameType
        BY <4>2, <4>3 DEF FrameType
      <4>5. frames' = Update(f)
        BY <4>1, <4>3 DEF Handler
      <4>6. QED
        BY <3>1, <4>2, <4>4, <4>5
    <3>4. ~Land
      <4>1. SUFFICES ASSUME Land PROVE FALSE
        OBVIOUS
      <4>2. frames # <<>> /\ Top \in FrameType
        BY <3>2, <4>1 DEF Land, Acting
      <4>3. PICK f : f = [Top EXCEPT !.tx = NoTx]
        OBVIOUS
      <4>4. f \in FrameType
        BY <4>2, <4>3 DEF FrameType, NoTx, TransitionType, Null
      <4>5. frames' = Update(f)
        BY <4>1, <4>3 DEF Land
      <4>6. QED
        BY <3>1, <4>2, <4>4, <4>5
    <3>5. QED
      BY <3>3, <3>4
  <2>5. ~Dispatch
    <3>1. SUFFICES ASSUME Dispatch PROVE FALSE
      OBVIOUS
    <3>2. frames # <<>> /\ Top \in FrameType
      BY <1>0, <3>1, TopTaken DEF Dispatch, Draining, Top, Last
    <3>3. PICK evh, e : /\ evh = Head(event_queue) /\ e = Enter(evh, table.events[evh])
                        /\ frames' = IF e = "run" THEN Append(frames, Frame(evh))
                                     ELSE Update([Top EXCEPT !.status = e])
      BY <3>1, Zenon DEF Dispatch
    <3>4. CASE e = "run"
      <4>1. Frame(evh) \in FrameType
        BY Selected DEF Frame, FrameType, Diagnostics
      <4>2. frames' = Append(frames, Frame(evh))
        BY <3>3, <3>4
      <4>3. Len(frames') = Len(frames) + 1
        BY <1>0, <4>1, <4>2
      <4>4. QED
        BY <1>0, <4>3
    <3>5. CASE e # "run"
      <4>1. PICK f : f = [Top EXCEPT !.status = e]
        OBVIOUS
      <4>2. f \in FrameType
        BY <3>2, <3>3, <3>5, <4>1 DEF FrameType, Enter, Diagnostics
      <4>3. frames' = Append(Front(frames), f)
        BY <3>3, <3>5, <4>1 DEF Update, Pop
      <4>4. TopIs(frames', frames, f)
        BY <1>0, <3>2, <4>2, <4>3, TopReplaced, Zenon
      <4>5. QED
        BY <1>0, <4>4 DEF TopIs
    <3>6. QED
      BY <3>4, <3>5
  <2>6. QED
    BY <2>2, <2>3, <2>4, <2>5 DEF SMNext, Run
<1>2. /\ frames # <<>> /\ Top.tx = NoTx /\ ~Draining /\ UNCHANGED <<curr_state, event_queue>>
      /\ IF Top.status = "NO_ERROR" THEN UNCHANGED <<smerrno, txerrors>> ELSE push_txdiag(Top)
  BY <1>1 DEF Return
<1>3. CASE Top.status = "NO_ERROR"
  BY <1>2, <1>3 DEF Draining
<1>4. CASE Top.status # "NO_ERROR"
  <2>1. Len(txerrors') = IF Len(txerrors) = MACHINE_ERROR_QUEUE_LEN
                         THEN Len(txerrors) ELSE Len(txerrors) + 1
    <3>1. txerrors \in Seq(Diagnostics) /\ Len(txerrors) <= MACHINE_ERROR_QUEUE_LEN
          /\ Len(txerrors) \in Nat /\ MACHINE_ERROR_QUEUE_LEN \in Nat
      BY Limits DEF MachineInv, SMTypeOK
    <3>2. Top.status \in Diagnostics
      BY <1>1, Unwound DEF FrameType
    <3>3. push_txdiag(Top)
      BY <1>2, <1>4
    <3>4. CASE Len(txerrors) < MACHINE_ERROR_QUEUE_LEN
      <4>1. txerrors' = Append(txerrors, Top.status)
        BY <3>3, <3>4 DEF push_txdiag
      <4>2. Len(txerrors') = Len(txerrors) + 1
        BY <3>1, <3>2, <4>1
      <4>3. QED
        BY <3>1, <3>4, <4>2
    <3>5. CASE ~(Len(txerrors) < MACHINE_ERROR_QUEUE_LEN)
      BY <3>1, <3>3, <3>5 DEF push_txdiag
    <3>6. QED
      BY <3>4, <3>5
  <2>2. IF Idle' THEN status' = Top.status ELSE Last(frames').status = Top.status
    <3>1. /\ frames' \in Seq(FrameType) /\ Len(frames') = Len(frames) - 1 /\ Len(frames) \in Nat
          /\ IF Len(frames) = 1 THEN frames' = <<>> /\ status' = Top.status
             ELSE Last(frames').status = Top.status
      BY <1>1, Unwound
    <3>2. CASE Len(frames) = 1
      BY <3>1, <3>2 DEF Idle
    <3>3. CASE Len(frames) # 1
      <4>1. frames' # <<>>
        BY <3>1, <3>3
      <4>2. QED
        BY <3>1, <3>3, <4>1 DEF Idle
    <3>4. QED
      BY <3>2, <3>3
  <2>3. QED
    BY <1>2, <1>4, <2>1, <2>2
<1>5. QED
  BY <1>3, <1>4

(* Every call of sm_transition that ends has served every event, or        *)
(* unwinds with its error, which every call below it then posts and        *)
(* returns, without a transition on the way.                               *)
THEOREM Unwinding == SMSpec => AbortUnwinds
<1>1. MachineInv /\ [SMNext]_smvars
        => [Len(frames') < Len(frames) =>
              IF Top.status = "NO_ERROR"
              THEN event_queue = <<>> /\ txerrors' = txerrors
              ELSE /\ UNCHANGED <<curr_state, event_queue>>
                   /\ Len(txerrors') = IF Len(txerrors) = MACHINE_ERROR_QUEUE_LEN
                                       THEN Len(txerrors) ELSE Len(txerrors) + 1
                   /\ IF Idle' THEN status' = Top.status ELSE Last(frames').status = Top.status]_smvars
  BY StepUnwinds
<1>2. QED
  BY <1>1, RunToCompletion, PTL DEF SMSpec, AbortUnwinds

(***************************************************************************)
(* The linked list (llacc.c).                                              *)
(***************************************************************************)

(* The nodes that are linked from the front, and how many of them lie up   *)
(* to the back pointer.                                                    *)
Chain(l, c, k) ==
  /\ c \in Seq(Nodes) /\ IsInjective(c) /\ k \in 0..Len(c)
  /\ (Len(c) = 0) = (k = 0)
  /\ l.fptr = IF k = 0 THEN NULL ELSE c[1]
  /\ l.bptr = IF k = 0 THEN NULL ELSE c[k]
  /\ \A i \in 1..Len(c) : l.link[c[i]] = IF i = Len(c) THEN NULL ELSE c[i + 1]

(* Of the constants.                                                       *)
LEMMA ListLimits ==
  NULL \notin Nodes /\ CountMod \in Nat \ {0} /\ IsFiniteSet(Nodes) /\ Cardinality(Nodes) \in Nat
BY LinkedListAssumption, FS_CardinalityType

(* A sequence without repetition is no longer than its elements are many.  *)
LEMMA NotLonger ==
  ASSUME NEW c \in Seq(Nodes), IsInjective(c)
  PROVE  Len(c) <= Cardinality(Nodes)
<1>1. PICK n \in Nat : n = Len(c)
  OBVIOUS
<1>2. c \in [1..n -> Nodes] /\ \A i, j \in 1..n : c[i] = c[j] => i = j
  BY <1>1 DEF IsInjective
<1>3. c \in Injection(1..n, Nodes)
  BY <1>2 DEF Injection, IsInjective
<1>4. IsFiniteSet(1..n) /\ Cardinality(1..n) = n
  <2>1. IsFiniteSet(1..n) /\ Cardinality(1..n) = IF 1 > n THEN 0 ELSE n - 1 + 1
    BY FS_Interval
  <2>2. QED
    BY <2>1
<1>5. Cardinality(1..n) <= Cardinality(Nodes)
  BY <1>3, <1>4, ListLimits, FS_Injection
<1>6. QED
  BY <1>1, <1>4, <1>5

(* The walk along the links visits the chain.                              *)
LEMMA Walk ==
  ASSUME NEW l \in ListType, NEW c, NEW k, Chain(l, c, k)
  PROVE  Linked(l) = c
<1> DEFINE M == Cardinality(Nodes)
           Is(f) == f = [i \in 1..M |-> IF i = 1 THEN l.fptr ELSE ll_iterate(l, f[i - 1])]
           at == CHOOSE f : Is(f)
<1>1. PICK n \in Nat : n = Len(c)
  BY DEF Chain
<1>2. PICK m \in Nat : m = M
  BY ListLimits
<1>3. n <= m
  BY <1>1, <1>2, NotLonger DEF Chain
<1>4. PICK w : w = [i \in 1..m |-> IF i <= n THEN c[i] ELSE NULL]
  OBVIOUS
<1>5. /\ c \in Seq(Nodes) /\ DOMAIN c = 1..n /\ \A i \in 1..n : c[i] \in Nodes /\ c[i] # NULL
      /\ \A i \in 1..n : l.link[c[i]] = IF i = n THEN NULL ELSE c[i + 1]
      /\ l.fptr = IF n = 0 THEN NULL ELSE c[1]
  BY <1>1, ListLimits DEF Chain
<1>6. ASSUME NEW i \in 1..m PROVE w[i] = IF i = 1 THEN l.fptr ELSE ll_iterate(l, w[i - 1])
  <2>1. CASE i = 1
    BY <1>4, <1>5, <2>1
  <2>2. CASE i \in 2..m /\ i - 1 \in 1..n
    <3>1. w[i - 1] = c[i - 1] /\ c[i - 1] # NULL /\ i - 1 \in 1..m
      BY <1>4, <1>5, <2>2
    <3>2. w[i] = IF i <= n THEN c[i] ELSE NULL
      BY <1>4
    <3>3. l.link[c[i - 1]] = IF i - 1 = n THEN NULL ELSE c[i]
      BY <1>5, <2>2
    <3>4. QED
      BY <2>2, <3>1, <3>2, <3>3 DEF ll_iterate
  <2>3. CASE i \in 2..m /\ i - 1 > n
    <3>1. w[i - 1] = NULL /\ w[i] = NULL
      BY <1>4, <2>3
    <3>2. QED
      BY <2>3, <3>1 DEF ll_iterate
  <2>4. QED
    BY <1>1, <2>1, <2>2, <2>3
<1>7. Is(w)
  BY <1>2, <1>4, <1>6
<1>8. Is(at)
  <2> HIDE DEF Is
  <2>1. QED
    BY <1>7
<1>9. \A i \in 1..m : at[i] = w[i]
  <2> DEFINE T == {i \in 0..m : i = 0 \/ at[i] = w[i]}
  <2>1. 0 \in T
    OBVIOUS
  <2>2. ASSUME NEW i \in 0..(m - 1), i \in T PROVE i + 1 \in T
    <3> HIDE DEF at
    <3>1. i + 1 \in 1..m /\ (i + 1) - 1 = i
      OBVIOUS
    <3>2. at[i + 1] = IF i + 1 = 1 THEN l.fptr ELSE ll_iterate(l, at[(i + 1) - 1])
      BY <1>2, <1>8, <3>1, Zenon
    <3>3. w[i + 1] = IF i + 1 = 1 THEN l.fptr ELSE ll_iterate(l, w[(i + 1) - 1])
      BY <1>6, <3>1, Zenon
    <3>4. QED
      BY <2>2, <3>1, <3>2, <3>3
  <2>3. \A i \in 0..m : i \in T
    <3> HIDE DEF T
    <3>1. QED
      BY <2>1, <2>2, UpTo
  <2>4. QED
    BY <2>3
<1>10. at = w
  <2> HIDE DEF at
  <2>1. DOMAIN at = 1..m
    BY <1>2, <1>8
  <2>2. at = [i \in 1..m |-> at[i]]
    BY <1>2, <1>8
  <2>3. QED
    BY <1>4, <1>9, <2>2
<1>11. {i \in DOMAIN w : w[i] # NULL} = 1..n
  BY <1>3, <1>4, <1>5
<1>12. Cardinality(1..n) = n
  <2>1. Cardinality(1..n) = IF 1 > n THEN 0 ELSE n - 1 + 1
    BY FS_Interval
  <2>2. QED
    BY <2>1
<1>13. SubSeq(w, 1, n) = c
  <2>1. w \in Seq(Nodes \cup {NULL}) /\ Len(w) = m
    BY <1>4, <1>5
  <2>2. SubSeq(w, 1, n) = [i \in 1..n |-> w[i]]
    BY <1>3, <2>1
  <2>3. c = [i \in 1..n |-> c[i]]
    BY <1>5
  <2>4. QED
    BY <1>3, <1>4, <2>2, <2>3
<1>14. Linked(l) = SubSeq(at, 1, Cardinality({i \in DOMAIN at : at[i] # NULL}))
  BY DEF Linked
<1>15. QED
  BY <1>10, <1>11, <1>12, <1>13, <1>14

(* The list proper is the chain up to the back pointer.                    *)
LEMMA ListedIs ==
  ASSUME NEW l \in ListType, NEW c, NEW k, Chain(l, c, k)
  PROVE  Listed(l) = [i \in 1..k |-> c[i]] /\ Listed(l) \in Seq(Nodes) /\ Len(Listed(l)) = k
<1>1. Linked(l) = c
  BY Walk
<1>2. PICK n \in Nat : n = Len(c)
  BY DEF Chain
<1>3. /\ c \in Seq(Nodes) /\ DOMAIN c = 1..n /\ k \in 0..n /\ (n = 0) = (k = 0)
      /\ \A i, j \in 1..n : c[i] = c[j] => i = j
  BY <1>2 DEF Chain, IsInjective
<1>4. CASE k = 0
  <2>1. c = <<>>
    BY <1>2, <1>3, <1>4
  <2>2. Listed(l) = <<>>
    BY <1>1, <2>1 DEF Listed
  <2>3. QED
    BY <1>4, <2>2
<1>5. CASE k # 0
  <2>1. k \in 1..n /\ c # <<>> /\ l.bptr = c[k]
    BY <1>3, <1>5 DEF Chain
  <2>2. (CHOOSE i \in DOMAIN c : c[i] = l.bptr) = k
    BY <1>3, <2>1
  <2>3. Listed(l) = SubSeq(c, 1, k)
    BY <1>1, <2>1, <2>2 DEF Listed
  <2>4. SubSeq(c, 1, k) = [i \in 1..k |-> c[i]] /\ SubSeq(c, 1, k) \in Seq(Nodes)
    BY <1>2, <1>3, <2>1
  <2>5. PICK q \in Seq(Nodes) : q = SubSeq(c, 1, k)
    BY <2>4
  <2>6. Len(q) = k
    BY <2>4, <2>5, <2>1
  <2>7. QED
    BY <2>3, <2>4, <2>5, <2>6
<1>6. QED
  BY <1>4, <1>5

(* The node before another one.                                            *)
LEMMA PredecessorIs ==
  ASSUME NEW l \in ListType, NEW c, NEW k, Chain(l, c, k), NEW n \in Nodes
  PROVE  /\ \A i \in 2..Len(c) : n = c[i] => Predecessor(l, n) = c[i - 1]
         /\ (\A i \in 2..Len(c) : n # c[i]) => Predecessor(l, n) = NULL
<1>1. Linked(l) = c
  BY Walk
<1>2. PICK N \in Nat : N = Len(c)
  BY DEF Chain
<1>3. /\ c \in Seq(Nodes) /\ DOMAIN c = 1..N /\ \A i \in 1..N : c[i] \in Nodes
      /\ \A i, j \in 1..N : c[i] = c[j] => i = j
      /\ \A i \in 1..N : l.link[c[i]] = IF i = N THEN NULL ELSE c[i + 1]
  <2>1. c \in Seq(Nodes) /\ IsInjective(c)
        /\ \A i \in 1..Len(c) : l.link[c[i]] = IF i = Len(c) THEN NULL ELSE c[i + 1]
    BY Zenon DEF Chain
  <2>2. DOMAIN c = 1..N /\ \A i \in 1..N : c[i] \in Nodes
    BY <1>2, <2>1
  <2>3. QED
    BY <1>2, <2>1, <2>2 DEF IsInjective
<1>4. PICK hits : hits = {i \in 1..N : l.link[c[i]] = n}
  OBVIOUS
<1>5. Predecessor(l, n) = IF hits = {} THEN NULL ELSE c[CHOOSE i \in hits : \A j \in hits : i <= j]
  <2>1. {i \in DOMAIN c : c[i] \in ll_match_link(l, n)} = hits
    BY <1>3, <1>4 DEF ll_match_link
  <2>2. ll_search(l, ll_match_link(l, n))
          = LET h == {i \in DOMAIN c : c[i] \in ll_match_link(l, n)}
            IN  IF h = {} THEN NULL ELSE c[CHOOSE i \in h : \A j \in h : i <= j]
    BY <1>1, SMT DEF ll_search
  <2>3. QED
    BY <2>1, <2>2, Zenon DEF Predecessor
<1>6. ASSUME NEW i \in 2..N, n = c[i] PROVE Predecessor(l, n) = c[i - 1]
  <2>1. i - 1 \in 1..N /\ i - 1 # N /\ (i - 1) + 1 = i /\ i \in 1..N
    OBVIOUS
  <2>2. i - 1 \in hits
    BY <1>3, <1>4, <1>6, <2>1
  <2>3. ASSUME NEW j \in hits PROVE j = i - 1
    <3>1. j \in 1..N /\ l.link[c[j]] = n
      BY <1>4
    <3>2. j # N
      BY <1>3, <3>1, ListLimits
    <3>3. c[j + 1] = c[i] /\ j + 1 \in 1..N
      BY <1>3, <1>6, <3>1, <3>2
    <3>4. j + 1 = i
      BY <1>3, <2>1, <3>3
    <3>5. QED
      BY <3>1, <3>4
  <2>4. (CHOOSE h \in hits : \A j \in hits : h <= j) = i - 1
    <3>1. hits = {i - 1}
      BY <2>2, <2>3
    <3>2. QED
      BY <3>1, <2>1
  <2>5. QED
    BY <1>5, <2>2, <2>4
<1>7. ASSUME \A i \in 2..N : n # c[i] PROVE Predecessor(l, n) = NULL
  <2>1. hits = {}
    BY <1>3, <1>4, <1>7, ListLimits
  <2>2. QED
    BY <1>5, <2>1
<1>8. QED
  BY <1>2, <1>6, <1>7

(* Counting is modulo CountMod.                                            *)
LEMMA Divided ==
  ASSUME NEW a \in Int, NEW M \in Nat \ {0}
  PROVE  a = (M * (a \div M)) + (a % M) /\ a % M \in 0..(M - 1) /\ a \div M \in Int
OBVIOUS

LEMMA Remainder ==
  ASSUME NEW M \in Nat \ {0}, NEW q \in Int, NEW p \in Int, NEW r \in 0..(M - 1), NEW s \in 0..(M - 1),
         (M * q) + r = (M * p) + s
  PROVE  r = s
<1>1. PICK z \in Int : z = q - p
  OBVIOUS
<1>2. M * z = s - r
  BY <1>1
<1>3. ~(z >= 1)
  <2>1. z >= 1 => M * z >= M
    OBVIOUS
  <2>2. QED
    BY <1>2, <2>1
<1>4. ~(z <= -1)
  <2>1. z <= -1 => M * z <= -M
    OBVIOUS
  <2>2. QED
    BY <1>2, <2>1
<1>5. z = 0
  BY <1>3, <1>4
<1>6. QED
  BY <1>2, <1>5

LEMMA Bumped ==
  /\ \A a, b \in Int : Bump(a, b) \in 0..(CountMod - 1)
  /\ \A a, b, d \in Int : Bump(Bump(a, b), d) = Bump(a + d, b) /\ Bump(d, Bump(a, b)) = Bump(a + d, b)
<1>1. PICK M \in Nat \ {0} : M = CountMod
  BY ListLimits
<1>2. \A a, b \in Int : Bump(a, b) = (a + b) % M /\ (a + b) % M \in 0..(M - 1)
  BY <1>1 DEF Bump
<1>3. ASSUME NEW a \in Int, NEW b \in Int, NEW d \in Int
      PROVE  (((a + b) % M) + d) % M = ((a + d) + b) % M
  <2>1. PICK x \in Int, y \in Int : x = a + b /\ y = (a + d) + b
    OBVIOUS
  <2>2. PICK r \in 0..(M - 1), q \in Int : r = x % M /\ x = (M * q) + r
    BY Divided
  <2>3. PICK z \in Int : z = r + d
    OBVIOUS
  <2>4. PICK s \in 0..(M - 1), p \in Int : s = z % M /\ z = (M * p) + s
    BY Divided
  <2>5. PICK u \in 0..(M - 1), w \in Int : u = y % M /\ y = (M * w) + u
    <3>1. y = (M * (y \div M)) + (y % M) /\ y % M \in 0..(M - 1) /\ y \div M \in Int
      BY Divided
    <3>2. QED
      BY <3>1
  <2>6. PICK v \in Int : v = q + p
    OBVIOUS
  <2>7. PICK f \in Int, g \in Int, h \in Int : f = M * q /\ g = M * p /\ h = M * v
    OBVIOUS
  <2>8. y = (M * v) + s
    <3>1. h = f + g
      BY <2>6, <2>7
    <3>2. x = f + r /\ z = g + s
      BY <2>2, <2>4, <2>7
    <3>3. y = h + s
      BY <2>1, <2>3, <3>1, <3>2
    <3>4. QED
      BY <2>7, <3>3
  <2>9. u = s
    BY <2>5, <2>8, Remainder
  <2>10. QED
    BY <2>1, <2>2, <2>3, <2>4, <2>5, <2>9
<1>4. ASSUME NEW a \in Int, NEW b \in Int, NEW d \in Int
      PROVE  Bump(Bump(a, b), d) = Bump(a + d, b) /\ Bump(d, Bump(a, b)) = Bump(a + d, b)
  <2>1. PICK r \in 0..(M - 1) : r = (a + b) % M
    BY <1>2
  <2>2. Bump(Bump(a, b), d) = (r + d) % M /\ Bump(d, Bump(a, b)) = (d + r) % M
    BY <1>1, <2>1 DEF Bump
  <2>3. Bump(a + d, b) = ((a + d) + b) % M
    BY <1>1 DEF Bump
  <2>4. (r + d) % M = ((a + d) + b) % M
    BY <1>3, <2>1
  <2>5. d + r = r + d
    OBVIOUS
  <2>6. QED
    BY <2>2, <2>3, <2>4, <2>5
<1>5. QED
  BY <1>1, <1>2, <1>4

LEMMA Counted ==
  ASSUME NEW l \in ListType
  PROVE  /\ l.cnt \in 0..(CountMod - 1)
         /\ Bump(l.cnt, 1) \in 0..(CountMod - 1) /\ Bump(l.cnt, -1) \in 0..(CountMod - 1)
<1>1. l.cnt \in 0..(CountMod - 1)
  BY DEF ListType
<1>2. l.cnt \in Int /\ 1 \in Int /\ -1 \in Int
  BY <1>1, ListLimits
<1>3. QED
  BY <1>1, <1>2, Bumped

(* A sequence without its j-th element, with one more at j, and as far as  *)
(* its k-th.                                                               *)
Without(c, j) == [i \in 1..(Len(c) - 1) |-> IF i < j THEN c[i] ELSE c[i + 1]]
With(c, j, n) == [i \in 1..(Len(c) + 1) |-> IF i < j THEN c[i] ELSE IF i = j THEN n ELSE c[i - 1]]
AsFar(c, k)   == [i \in 1..k |-> c[i]]

LEMMA SeqWithout ==
  ASSUME NEW S, NEW s \in Seq(S), NEW j \in 1..Len(s)
  PROVE  Without(s, j) \in Seq(S) /\ Len(Without(s, j)) = Len(s) - 1 /\ RemoveAt(s, j) = Without(s, j)
<1>1. PICK n \in Nat \ {0} : n = Len(s) /\ j \in 1..n
  OBVIOUS
<1>2. DOMAIN s = 1..n /\ \A i \in 1..n : s[i] \in S
  BY <1>1
<1>3. PICK w : w = Without(s, j)
  OBVIOUS
<1>4. w = [i \in 1..(n - 1) |-> IF i < j THEN s[i] ELSE s[i + 1]]
  BY <1>1, <1>3 DEF Without
<1>5. w \in Seq(S) /\ Len(w) = n - 1
  BY <1>1, <1>2, <1>4
<1>6. PICK a, b : a = SubSeq(s, 1, j - 1) /\ b = SubSeq(s, j + 1, n)
  OBVIOUS
<1>7. a \in Seq(S) /\ Len(a) = j - 1 /\ \A i \in 1..(j - 1) : a[i] = s[i]
  BY <1>1, <1>6
<1>8. b \in Seq(S) /\ Len(b) = n - j /\ \A i \in 1..(n - j) : b[i] = s[j + i]
  BY <1>1, <1>6
<1>9. PICK v : v = a \o b
  OBVIOUS
<1>10. v \in Seq(S) /\ Len(v) = n - 1
  BY <1>1, <1>7, <1>8, <1>9
<1>11. ASSUME NEW i \in 1..(n - 1) PROVE v[i] = w[i]
  <2>1. CASE i < j
    BY <1>1, <1>4, <1>7, <1>8, <1>9, <2>1
  <2>2. CASE i >= j
    <3>1. v[i] = b[i - (j - 1)]
      BY <1>1, <1>7, <1>8, <1>9, <2>2
    <3>2. i - (j - 1) \in 1..(n - j) /\ j + (i - (j - 1)) = i + 1
      BY <1>1, <2>2
    <3>3. QED
      BY <1>4, <1>8, <2>2, <3>1, <3>2
  <2>3. QED
    BY <1>1, <2>1, <2>2
<1>12. v = w
  BY <1>5, <1>10, <1>11
<1>13. RemoveAt(s, j) = v
  BY <1>1, <1>6, <1>9 DEF RemoveAt
<1>14. QED
  BY <1>1, <1>3, <1>5, <1>12, <1>13

LEMMA SeqWith ==
  ASSUME NEW S, NEW s \in Seq(S), NEW j \in 1..(Len(s) + 1), NEW e \in S
  PROVE  With(s, j, e) \in Seq(S) /\ Len(With(s, j, e)) = Len(s) + 1 /\ InsertAt(s, j, e) = With(s, j, e)
<1>1. PICK n \in Nat : n = Len(s) /\ j \in 1..(n + 1)
  OBVIOUS
<1>2. DOMAIN s = 1..n /\ \A i \in 1..n : s[i] \in S
  BY <1>1
<1>3. PICK w : w = With(s, j, e)
  OBVIOUS
<1>4. w = [i \in 1..(n + 1) |-> IF i < j THEN s[i] ELSE IF i = j THEN e ELSE s[i - 1]]
  BY <1>1, <1>3 DEF With
<1>5. w \in Seq(S) /\ Len(w) = n + 1
  BY <1>1, <1>2, <1>4
<1>6. PICK a, b : a = SubSeq(s, 1, j - 1) /\ b = SubSeq(s, j, n)
  OBVIOUS
<1>7. a \in Seq(S) /\ Len(a) = j - 1 /\ \A i \in 1..(j - 1) : a[i] = s[i]
  BY <1>1, <1>6
<1>8. b \in Seq(S) /\ Len(b) = (n + 1) - j /\ \A i \in 1..((n + 1) - j) : b[i] = s[(j - 1) + i]
  BY <1>1, <1>6
<1>9. PICK t : t = a \o <<e>>
  OBVIOUS
<1>10. t \in Seq(S) /\ Len(t) = j /\ t[j] = e /\ \A i \in 1..(j - 1) : t[i] = s[i]
  BY <1>1, <1>7, <1>9
<1>11. PICK v : v = t \o b
  OBVIOUS
<1>12. v \in Seq(S) /\ Len(v) = n + 1
  <2>1. t \in Seq(S) /\ b \in Seq(S)
    BY <1>8, <1>10
  <2>2. v \in Seq(S) /\ Len(v) = Len(t) + Len(b)
    BY ONLY <1>11, <2>1
  <2>3. QED
    BY <1>1, <1>8, <1>10, <2>2
<1>13. ASSUME NEW i \in 1..(n + 1) PROVE v[i] = w[i]
  <2>1. CASE i < j
    BY <1>1, <1>4, <1>8, <1>10, <1>11, <2>1
  <2>2. CASE i = j
    BY <1>1, <1>4, <1>8, <1>10, <1>11, <2>2
  <2>3. CASE i > j
    <3>1. v[i] = b[i - j]
      BY <1>1, <1>8, <1>10, <1>11, <2>3
    <3>2. i - j \in 1..((n + 1) - j) /\ (j - 1) + (i - j) = i - 1
      BY <1>1, <2>3
    <3>3. QED
      BY <1>4, <1>8, <2>3, <3>1, <3>2
  <2>4. QED
    BY <1>1, <2>1, <2>2, <2>3
<1>14. v = w
  BY <1>5, <1>12, <1>13
<1>15. InsertAt(s, j, e) = v
  BY <1>1, <1>6, <1>9, <1>11 DEF InsertAt
<1>16. QED
  BY <1>1, <1>3, <1>5, <1>14, <1>15

(* The parts of a chain.                                                   *)
LEMMA ChainParts ==
  ASSUME NEW l, NEW c, NEW k, Chain(l, c, k)
  PROVE  /\ Len(c) \in Nat /\ DOMAIN c = 1..Len(c) /\ \A i \in 1..Len(c) : c[i] \in Nodes
         /\ \A i, j \in 1..Len(c) : c[i] = c[j] => i = j
         /\ c \in Seq(Nodes) /\ k \in 0..Len(c) /\ (Len(c) = 0) = (k = 0)
<1>1. c \in Seq(Nodes) /\ IsInjective(c) /\ k \in 0..Len(c) /\ (Len(c) = 0) = (k = 0)
  BY Zenon DEF Chain
<1>2. Len(c) \in Nat /\ DOMAIN c = 1..Len(c) /\ \A i \in 1..Len(c) : c[i] \in Nodes
  BY <1>1
<1>3. QED
  BY <1>1, <1>2 DEF IsInjective

(* A node is taken from the chain.                                         *)
LEMMA Taken ==
  ASSUME NEW l, NEW c, NEW k, Chain(l, c, k), NEW j \in 1..Len(c), NEW l2, NEW k2 \in Nat \ {0},
         k2 = IF j <= k THEN k - 1 ELSE k,
         l2.fptr = IF j = 1 THEN c[2] ELSE l.fptr,
         l2.bptr = IF j = k THEN c[k - 1] ELSE l.bptr,
         \A i \in 1..Len(c) : i # j => l2.link[c[i]] = IF i = j - 1 THEN l.link[c[j]] ELSE l.link[c[i]]
  PROVE  Chain(l2, Without(c, j), k2)
<1>1. PICK n \in Nat : n = Len(c)
  BY ChainParts
<1>2. /\ c \in Seq(Nodes) /\ DOMAIN c = 1..n /\ k \in 1..n /\ j \in 1..n
      /\ \A i \in 1..n : c[i] \in Nodes
      /\ \A i, h \in 1..n : c[i] = c[h] => i = h
  BY <1>1, ChainParts
<1>3. /\ l.fptr = c[1] /\ l.bptr = c[k]
      /\ \A i \in 1..n : l.link[c[i]] = IF i = n THEN NULL ELSE c[i + 1]
  BY <1>1, <1>2 DEF Chain
<1>4. PICK w : w = Without(c, j)
  OBVIOUS
<1>5. w = [i \in 1..(n - 1) |-> IF i < j THEN c[i] ELSE c[i + 1]]
  BY <1>1, <1>4 DEF Without
<1>6. w \in Seq(Nodes) /\ Len(w) = n - 1 /\ k2 \in 1..(n - 1)
  <2>1. w \in Seq(Nodes) /\ Len(w) = n - 1
    BY <1>1, <1>2, <1>4, SeqWithout
  <2>2. k2 \in 1..(n - 1)
    BY <1>2
  <2>3. QED
    BY <2>1, <2>2
<1>7. IsInjective(w)
  <2>1. ASSUME NEW i \in 1..(n - 1), NEW h \in 1..(n - 1), w[i] = w[h] PROVE i = h
    <3>1. PICK x \in 1..n, y \in 1..n : /\ x = IF i < j THEN i ELSE i + 1
                                        /\ y = IF h < j THEN h ELSE h + 1
      OBVIOUS
    <3>2. w[i] = c[x] /\ w[h] = c[y]
      BY <1>5, <3>1
    <3>3. c[x] = c[y]
      BY <2>1, <3>2
    <3>4. x = y
      BY ONLY <1>2, <3>3, x \in 1..n, y \in 1..n
    <3>5. QED
      BY <3>1, <3>4
  <2>2. DOMAIN w = 1..(n - 1)
    BY <1>5
  <2>3. QED
    BY <2>1, <2>2 DEF IsInjective
<1>8. l2.fptr = w[1]
  BY <1>2, <1>3, <1>5, <1>6
<1>9. l2.bptr = w[k2]
  BY <1>2, <1>3, <1>5, <1>6
<1>10. ASSUME NEW i \in 1..(n - 1)
       PROVE  l2.link[w[i]] = IF i = n - 1 THEN NULL ELSE w[i + 1]
  <2>1. CASE i + 1 < j
    <3>1. w[i] = c[i] /\ w[i + 1] = c[i + 1] /\ i \in 1..n /\ i # j /\ i # j - 1 /\ i # n /\ i # n - 1
      BY <1>2, <1>5, <2>1
    <3>2. QED
      BY <1>1, <1>3, <3>1
  <2>2. CASE i + 1 = j
    <3>1. w[i] = c[i] /\ i \in 1..n /\ i # j /\ i = j - 1 /\ (i # n - 1 => w[i + 1] = c[j + 1])
      BY <1>2, <1>5, <2>2
    <3>2. l2.link[c[i]] = l.link[c[j]]
      BY <1>1, <3>1
    <3>3. l.link[c[j]] = IF i = n - 1 THEN NULL ELSE c[j + 1]
      BY <1>2, <1>3, <2>2
    <3>4. QED
      BY <3>1, <3>2, <3>3
  <2>3. CASE i >= j
    <3>1. w[i] = c[i + 1] /\ i + 1 \in 1..n /\ i + 1 # j /\ i + 1 # j - 1
          /\ (i # n - 1 => w[i + 1] = c[(i + 1) + 1])
      BY <1>2, <1>5, <2>3
    <3>2. l2.link[c[i + 1]] = l.link[c[i + 1]]
      BY <1>1, <3>1
    <3>3. l.link[c[i + 1]] = IF i + 1 = n THEN NULL ELSE c[(i + 1) + 1]
      BY <1>3, <3>1
    <3>4. QED
      BY <3>1, <3>2, <3>3
  <2>4. QED
    BY <1>2, <2>1, <2>2, <2>3
<1>11. QED
  BY <1>4, <1>6, <1>7, <1>8, <1>9, <1>10 DEF Chain

(* A node is put into the chain.                                           *)
LEMMA Put ==
  ASSUME NEW c \in Seq(Nodes), IsInjective(c), NEW j \in 1..(Len(c) + 1), NEW n \in Nodes,
         \A i \in 1..Len(c) : c[i] # n,
         NEW l2, NEW k2 \in 1..(Len(c) + 1),
         l2.fptr = With(c, j, n)[1], l2.bptr = With(c, j, n)[k2],
         l2.link[n] = IF j = Len(c) + 1 THEN NULL ELSE c[j],
         \A i \in 1..Len(c) : l2.link[c[i]] = IF i = j - 1 THEN n ELSE IF i = Len(c) THEN NULL ELSE c[i + 1]
  PROVE  Chain(l2, With(c, j, n), k2)
<1>1. PICK m \in Nat : m = Len(c)
  OBVIOUS
<1>2. /\ DOMAIN c = 1..m /\ j \in 1..(m + 1) /\ k2 \in 1..(m + 1)
      /\ \A i \in 1..m : c[i] \in Nodes /\ c[i] # n
      /\ \A i, h \in 1..m : c[i] = c[h] => i = h
  <2>1. DOMAIN c = 1..m
    BY <1>1
  <2>2. \A i, h \in 1..m : c[i] = c[h] => i = h
    BY <2>1 DEF IsInjective
  <2>3. \A i \in 1..m : c[i] \in Nodes /\ c[i] # n
    BY <1>1, <2>1
  <2>4. QED
    BY <1>1, <2>1, <2>2, <2>3
<1>3. PICK w : w = With(c, j, n)
  OBVIOUS
<1>4. w = [i \in 1..(m + 1) |-> IF i < j THEN c[i] ELSE IF i = j THEN n ELSE c[i - 1]]
  BY <1>1, <1>3 DEF With
<1>5. w \in Seq(Nodes) /\ Len(w) = m + 1
  BY <1>1, <1>2, <1>3, SeqWith
<1>6. IsInjective(w)
  <2>1. ASSUME NEW i \in 1..(m + 1), NEW h \in 1..(m + 1), w[i] = w[h] PROVE i = h
    <3>1. CASE i = j \/ h = j
      BY <1>2, <1>4, <2>1, <3>1
    <3>2. CASE i # j /\ h # j
      <4>1. PICK x \in 1..m, y \in 1..m : /\ x = IF i < j THEN i ELSE i - 1
                                          /\ y = IF h < j THEN h ELSE h - 1
        BY <1>2, <3>2
      <4>2. w[i] = c[x] /\ w[h] = c[y]
        BY <1>4, <3>2, <4>1
      <4>3. c[x] = c[y]
        BY <2>1, <4>2
      <4>4. x = y
        BY ONLY <1>2, <4>3, x \in 1..m, y \in 1..m
      <4>5. QED
        BY <1>2, <3>2, <4>1, <4>4
    <3>3. QED
      BY <3>1, <3>2
  <2>2. DOMAIN w = 1..(m + 1)
    BY <1>4
  <2>3. QED
    BY <2>1, <2>2 DEF IsInjective
<1>7. ASSUME NEW i \in 1..(m + 1)
      PROVE  l2.link[w[i]] = IF i = m + 1 THEN NULL ELSE w[i + 1]
  <2>1. CASE i + 1 < j
    <3>1. w[i] = c[i] /\ w[i + 1] = c[i + 1] /\ i \in 1..m /\ i # j - 1 /\ i # m /\ i # m + 1
      BY <1>2, <1>4, <2>1
    <3>2. QED
      BY <1>1, <3>1
  <2>2. CASE i + 1 = j
    <3>1. w[i] = c[i] /\ w[i + 1] = n /\ i \in 1..m /\ i = j - 1 /\ i # m + 1
      BY <1>2, <1>4, <2>2
    <3>2. QED
      BY <1>1, <3>1
  <2>3. CASE i = j
    <3>1. w[i] = n /\ (i # m + 1 => w[i + 1] = c[i])
      BY <1>2, <1>4, <2>3
    <3>2. QED
      BY <1>1, <2>3, <3>1
  <2>4. CASE i > j
    <3>1. w[i] = c[i - 1] /\ (i # m + 1 => w[i + 1] = c[i]) /\ i - 1 \in 1..m /\ i - 1 # j - 1 /\ (i - 1) + 1 = i
      BY <1>2, <1>4, <2>4
    <3>2. QED
      BY <1>1, <3>1
  <2>5. QED
    BY <1>2, <2>1, <2>2, <2>3, <2>4
<1>8. QED
  BY <1>1, <1>2, <1>3, <1>5, <1>6, <1>7 DEF Chain

(* How far the list goes when the chain has one less or one more.          *)
LEMMA FarWithout ==
  ASSUME NEW c \in Seq(Nodes), NEW k \in 1..Len(c), NEW j \in 1..Len(c)
  PROVE  /\ j <= k => AsFar(Without(c, j), k - 1) = Without(AsFar(c, k), j)
         /\ j > k => AsFar(Without(c, j), k) = AsFar(c, k)
<1>1. PICK n \in Nat : n = Len(c)
  OBVIOUS
<1>2. Len(AsFar(c, k)) = k /\ k \in 1..n /\ j \in 1..n
  BY <1>1 DEF AsFar
<1>3. PICK w : w = Without(c, j)
  OBVIOUS
<1>4. w = [i \in 1..(n - 1) |-> IF i < j THEN c[i] ELSE c[i + 1]]
  BY <1>1, <1>3 DEF Without
<1>5. CASE j <= k
  <2>1. Without(AsFar(c, k), j) = [i \in 1..(k - 1) |-> IF i < j THEN c[i] ELSE c[i + 1]]
    BY <1>2, <1>5 DEF Without, AsFar
  <2>2. \A i \in 1..(k - 1) : w[i] = IF i < j THEN c[i] ELSE c[i + 1]
    BY <1>2, <1>4
  <2>3. AsFar(w, k - 1) = [i \in 1..(k - 1) |-> IF i < j THEN c[i] ELSE c[i + 1]]
    BY <2>2 DEF AsFar
  <2>4. QED
    BY <1>2, <1>3, <1>5, <2>1, <2>3
<1>6. CASE j > k
  <2>1. \A i \in 1..k : w[i] = c[i]
    BY <1>2, <1>4, <1>6
  <2>2. QED
    BY <1>2, <1>3, <1>6, <2>1 DEF AsFar
<1>7. QED
  BY <1>2, <1>5, <1>6

LEMMA FarWith ==
  ASSUME NEW c \in Seq(Nodes), NEW k \in 0..Len(c), NEW j \in 1..(Len(c) + 1), NEW e \in Nodes
  PROVE  /\ j <= k + 1 => AsFar(With(c, j, e), k + 1) = With(AsFar(c, k), j, e)
         /\ j > k => AsFar(With(c, j, e), k) = AsFar(c, k)
<1>1. PICK n \in Nat : n = Len(c)
  OBVIOUS
<1>2. Len(AsFar(c, k)) = k /\ k \in 0..n /\ j \in 1..(n + 1)
  BY <1>1 DEF AsFar
<1>3. PICK w : w = With(c, j, e)
  OBVIOUS
<1>4. w = [i \in 1..(n + 1) |-> IF i < j THEN c[i] ELSE IF i = j THEN e ELSE c[i - 1]]
  BY <1>1, <1>3 DEF With
<1>5. ASSUME j <= k + 1 PROVE AsFar(w, k + 1) = With(AsFar(c, k), j, e)
  <2>1. With(AsFar(c, k), j, e) = [i \in 1..(k + 1) |-> IF i < j THEN c[i] ELSE IF i = j THEN e ELSE c[i - 1]]
    BY <1>2, <1>5 DEF With, AsFar
  <2>2. \A i \in 1..(k + 1) : w[i] = IF i < j THEN c[i] ELSE IF i = j THEN e ELSE c[i - 1]
    BY <1>2, <1>4
  <2>3. AsFar(w, k + 1) = [i \in 1..(k + 1) |-> IF i < j THEN c[i] ELSE IF i = j THEN e ELSE c[i - 1]]
    BY <2>2 DEF AsFar
  <2>4. AsFar(w, k + 1) = With(AsFar(c, k), j, e)
    BY <2>1, <2>3
  <2>5. QED
    BY <2>4
<1>6. ASSUME j > k PROVE AsFar(w, k) = AsFar(c, k)
  <2>1. \A i \in 1..k : w[i] = c[i]
    BY <1>2, <1>4, <1>6
  <2>2. AsFar(w, k) = AsFar(c, k)
    BY <2>1 DEF AsFar
  <2>3. QED
    BY <2>2
<1>7. QED
  BY <1>3, <1>5, <1>6

(* The list without nodes.                                                 *)
LEMMA Emptied ==
  ASSUME NEW l \in ListType
  PROVE  ll_init(l) \in ListType /\ Chain(ll_init(l), <<>>, 0) /\ ll_init(l).cnt = 0
<1>1. PICK e : e = ll_init(l)
  OBVIOUS
<1>2. e \in ListType /\ e.fptr = NULL /\ e.bptr = NULL /\ e.cnt = 0
  <2>1. 0 \in 0..(CountMod - 1)
    BY ListLimits
  <2>2. QED
    BY <1>1, <2>1 DEF ll_init, ListType
<1>3. Chain(e, <<>>, 0)
  <2>1. PICK c : c = <<>> /\ c \in Seq(Nodes) /\ Len(c) = 0
    <3>1. <<>> \in Seq(Nodes) /\ Len(<<>>) = 0
      OBVIOUS
    <3>2. QED
      BY <3>1
  <2>2. DOMAIN c = {}
    BY <2>1
  <2>3. QED
    BY <1>2, <2>1, <2>2 DEF Chain, IsInjective
<1>4. QED
  BY <1>1, <1>2, <1>3

(* The front and the back of a chain, and the links along it.              *)
LEMMA ChainEnds ==
  ASSUME NEW l, NEW c, NEW k, Chain(l, c, k)
  PROVE  /\ k = 0 => l.fptr = NULL /\ l.bptr = NULL
         /\ k # 0 => /\ k \in 1..Len(c) /\ l.fptr = c[1] /\ l.bptr = c[k]
                     /\ l.fptr \in Nodes /\ l.bptr \in Nodes /\ l.fptr # NULL /\ l.bptr # NULL
                     /\ (l.fptr = l.bptr) = (k = 1)
         /\ \A i \in 1..Len(c) : l.link[c[i]] = IF i = Len(c) THEN NULL ELSE c[i + 1]
<1>1. /\ l.fptr = IF k = 0 THEN NULL ELSE c[1]
      /\ l.bptr = IF k = 0 THEN NULL ELSE c[k]
      /\ \A i \in 1..Len(c) : l.link[c[i]] = IF i = Len(c) THEN NULL ELSE c[i + 1]
  BY Zenon DEF Chain
<1>2. CASE k # 0
  <2>1. k \in 1..Len(c) /\ 1 \in 1..Len(c)
    BY <1>2, ChainParts
  <2>2. c[1] \in Nodes /\ c[k] \in Nodes /\ (c[1] = c[k] => k = 1)
    BY <2>1, ChainParts
  <2>3. QED
    BY <1>1, <1>2, <2>1, <2>2, ListLimits
<1>3. QED
  BY <1>1, <1>2

(* ll_getfront takes the first node; with the last one of the list it      *)
(* drops those behind the back pointer.                                    *)
LEMMA GetFrontIs ==
  ASSUME NEW l \in ListType, NEW c, NEW k, Chain(l, c, k)
  PROVE  /\ ll_getfront(l) \in ListType
         /\ k = 0 => ll_getfront(l) = l
         /\ k = 1 => Chain(ll_getfront(l), <<>>, 0) /\ ll_getfront(l).cnt = 0
         /\ k > 1 => Chain(ll_getfront(l), Without(c, 1), k - 1) /\ ll_getfront(l).cnt = Bump(l.cnt, -1)
<1>0. k \in 0..Len(c) /\ Len(c) \in Nat
  BY ChainParts
<1>1. CASE k = 0
  <2>1. ll_getfront(l) = l
    BY <1>1, ChainEnds DEF ll_getfront
  <2>2. QED
    BY <1>1, <2>1
<1>2. CASE k = 1
  <2>1. l.fptr # NULL /\ l.fptr = l.bptr
    BY <1>2, ChainEnds
  <2>2. ll_getfront(l) = ll_init(l)
    BY <2>1 DEF ll_getfront
  <2>3. QED
    BY <1>2, <2>2, Emptied
<1>3. CASE k > 1
  <2>1. l.fptr # NULL /\ l.fptr # l.bptr /\ k \in 2..Len(c)
    BY <1>0, <1>3, ChainEnds
  <2>2. PICK e : e = ll_getfront(l)
    OBVIOUS
  <2>3. e = [l EXCEPT !.fptr = l.link[l.fptr], !.cnt = Bump(l.cnt, -1)]
    BY <2>1, <2>2 DEF ll_getfront
  <2>4. l.fptr = c[1] /\ c[1] \in Nodes /\ l.link[c[1]] = c[2] /\ c[2] \in Nodes
    <3>1. 1 \in 1..Len(c) /\ 2 \in 1..Len(c) /\ 1 # Len(c) /\ 1 + 1 = 2
      <4>1. PICK n \in Nat : n = Len(c)
        BY <1>0
      <4>2. QED
        BY <2>1, <4>1
    <3>2. l.link[c[1]] = IF 1 = Len(c) THEN NULL ELSE c[1 + 1]
      BY <3>1, ChainEnds
    <3>3. QED
      BY <1>0, <2>1, <3>1, <3>2, ChainEnds, ChainParts
  <2>5. e \in ListType /\ e.fptr = c[2] /\ e.bptr = l.bptr /\ e.link = l.link /\ e.cnt = Bump(l.cnt, -1)
    <3>1. Bump(l.cnt, -1) \in 0..(CountMod - 1)
      BY Counted
    <3>2. QED
      BY <2>3, <2>4, <3>1 DEF ListType
  <2>6. Chain(e, Without(c, 1), k - 1)
    <3>1. k - 1 \in Nat \ {0} /\ 1 \in 1..Len(c) /\ 1 # k /\ 1 <= k /\ \A i \in 1..Len(c) : i # 1 - 1
      BY <1>0, <2>1
    <3>2. QED
      BY <2>5, <3>1, Taken
  <2>7. QED
    BY <1>3, <2>2, <2>5, <2>6
<1>4. QED
  BY <1>0, <1>1, <1>2, <1>3

(* ll_plu0 takes the node behind the one it is given.                      *)
BehindTaken(l, c, j, e) ==
  /\ e \in ListType /\ e.fptr = l.fptr /\ e.bptr = l.bptr /\ e.cnt = l.cnt
  /\ \A i \in 1..Len(c) : i # j => e.link[c[i]] = IF i = j - 1 THEN l.link[c[j]] ELSE l.link[c[i]]
LEMMA PluckKeeps ==
  ASSUME NEW l \in ListType, NEW c, NEW k, Chain(l, c, k)
  PROVE  \A j \in 2..Len(c) : BehindTaken(l, c, j, ll_plu0(l, c[j - 1]))
<1>0. SUFFICES ASSUME NEW j \in 2..Len(c) PROVE BehindTaken(l, c, j, ll_plu0(l, c[j - 1]))
  OBVIOUS
<1>1. PICK n \in Nat : n = Len(c)
  BY ChainParts
<1>2. /\ j \in 2..n /\ j \in 1..n /\ j - 1 \in 1..n /\ j - 1 # n /\ (j - 1) + 1 = j
  BY <1>1
<1>3. PICK p \in Nodes, x \in Nodes : p = c[j - 1] /\ x = c[j] /\ p # x
  BY <1>1, <1>2, ChainParts
<1>4. l.link[p] = x /\ x # NULL
  BY <1>1, <1>2, <1>3, ChainEnds, ListLimits
<1>5. PICK e : e = ll_plu0(l, p)
  OBVIOUS
<1>6. e = [l EXCEPT !.link[p] = l.link[x]]
  BY <1>4, <1>5 DEF ll_plu0
<1>7. /\ e \in ListType /\ e.fptr = l.fptr /\ e.bptr = l.bptr /\ e.cnt = l.cnt
      /\ e.link = [l.link EXCEPT ![p] = l.link[x]]
  BY <1>6 DEF ListType
<1>8. ASSUME NEW i \in 1..n, i # j
       PROVE  e.link[c[i]] = IF i = j - 1 THEN l.link[c[j]] ELSE l.link[c[i]]
  <2>1. c[i] \in Nodes /\ (c[i] = p => i = j - 1)
    BY <1>1, <1>2, <1>3, ChainParts
  <2>2. DOMAIN l.link = Nodes
    BY DEF ListType
  <2>3. QED
    BY <1>3, <1>7, <2>1, <2>2
<1>9. QED
  BY <1>1, <1>3, <1>5, <1>7, <1>8 DEF BehindTaken

(* ll_getback takes the last node of the list; a single one goes with the  *)
(* nodes behind it.                                                        *)
LEMMA GetBackIs ==
  ASSUME NEW l \in ListType, NEW c, NEW k, Chain(l, c, k)
  PROVE  /\ ll_getback(l) \in ListType
         /\ k = 0 => ll_getback(l) = l
         /\ k = 1 => Chain(ll_getback(l), <<>>, 0) /\ ll_getback(l).cnt = 0
         /\ k > 1 => Chain(ll_getback(l), Without(c, k), k - 1) /\ ll_getback(l).cnt = Bump(l.cnt, -1)
<1>0. k \in 0..Len(c) /\ Len(c) \in Nat
  BY ChainParts
<1>1. CASE k = 0
  <2>1. ll_getback(l) = l
    BY <1>1, ChainEnds DEF ll_getback
  <2>2. QED
    BY <1>1, <2>1
<1>2. CASE k = 1
  <2>1. l.fptr # NULL /\ l.fptr = l.bptr
    BY <1>2, ChainEnds
  <2>2. ll_getback(l) = ll_init(l)
    BY <2>1 DEF ll_getback
  <2>3. QED
    BY <1>2, <2>2, Emptied
<1>3. CASE k > 1
  <2>1. l.fptr # NULL /\ l.fptr # l.bptr /\ k \in 2..Len(c) /\ l.bptr = c[k] /\ l.bptr \in Nodes
    BY <1>0, <1>3, ChainEnds
  <2>2. Predecessor(l, l.bptr) = c[k - 1] /\ c[k - 1] \in Nodes
    BY <1>0, <2>1, PredecessorIs, ChainParts
  <2>3. PICK d : d = ll_plu0(l, c[k - 1])
    OBVIOUS
  <2>4. PICK e : e = ll_getback(l)
    OBVIOUS
  <2>5. e = [d EXCEPT !.bptr = c[k - 1], !.cnt = Bump(l.cnt, -1)]
    <3>1. ll_getback(l) = [ll_plu0(l, c[k - 1]) EXCEPT !.bptr = c[k - 1], !.cnt = Bump(ll_plu0(l, c[k - 1]).cnt, -1)]
      BY <2>1, <2>2 DEF ll_getback
    <3>2. d.cnt = l.cnt
      <4>1. BehindTaken(l, c, k, d)
        BY <2>1, <2>3, PluckKeeps
      <4>2. QED
        BY <4>1 DEF BehindTaken
    <3>3. QED
      BY <2>3, <2>4, <3>1, <3>2
  <2>7. /\ d \in ListType /\ d.fptr = l.fptr
        /\ \A i \in 1..Len(c) : i # k => d.link[c[i]] = IF i = k - 1 THEN l.link[c[k]] ELSE l.link[c[i]]
    <3>1. BehindTaken(l, c, k, d)
      BY <2>1, <2>3, PluckKeeps
    <3>2. QED
      BY <3>1 DEF BehindTaken
  <2>8. e \in ListType /\ e.fptr = l.fptr /\ e.bptr = c[k - 1] /\ e.link = d.link /\ e.cnt = Bump(l.cnt, -1)
    <3>1. Bump(l.cnt, -1) \in 0..(CountMod - 1)
      BY Counted
    <3>2. QED
      BY <2>2, <2>5, <2>7, <3>1 DEF ListType
  <2>9. Chain(e, Without(c, k), k - 1)
    <3>1. k - 1 \in Nat \ {0} /\ k \in 1..Len(c) /\ k # 1 /\ k <= k
      BY <1>0, <2>1
    <3>2. QED
      BY <2>7, <2>8, <3>1, Taken
  <2>10. QED
    BY <1>3, <2>4, <2>8, <2>9
<1>4. QED
  BY <1>0, <1>1, <1>2, <1>3

(***************************************************************************)
(* The state: a chain apart from the nodes in the hands of the             *)
(* application, and a count that is off by what drifted.                   *)
(***************************************************************************)
Held(l, fr, d, c, k) ==
  /\ l \in ListType /\ fr \subseteq Nodes /\ d \in 0..(CountMod - 1)
  /\ Chain(l, c, k) /\ \A i \in 1..Len(c) : c[i] \notin fr
  /\ l.cnt = Bump(k, d) /\ (k = 0 => d = 0)
LLInd == \E c, k : Held(list, free, drift, c, k)

(* The state after an operation, and the sequence b that is listed in it.  *)
Keeps(l2, fr2, d2, b) == \E e, m : Held(l2, fr2, d2, e, m) /\ AsFar(e, m) = b

LEMMA HeldParts ==
  ASSUME NEW l, NEW fr, NEW d, NEW c, NEW k, Held(l, fr, d, c, k)
  PROVE  /\ l \in ListType /\ fr \subseteq Nodes /\ d \in 0..(CountMod - 1) /\ d \in Int
         /\ Chain(l, c, k) /\ l.cnt = Bump(k, d) /\ (k = 0 => d = 0)
         /\ \A i \in 1..Len(c) : c[i] \notin fr
         /\ Len(c) \in Nat /\ k \in 0..Len(c) /\ k \in Int /\ c \in Seq(Nodes)
<1>1. l \in ListType /\ fr \subseteq Nodes /\ d \in 0..(CountMod - 1)
      /\ Chain(l, c, k) /\ l.cnt = Bump(k, d) /\ (k = 0 => d = 0)
      /\ \A i \in 1..Len(c) : c[i] \notin fr
  BY Zenon DEF Held
<1>2. d \in Int
  BY <1>1, ListLimits
<1>3. Len(c) \in Nat /\ k \in 0..Len(c) /\ c \in Seq(Nodes)
  BY <1>1, ChainParts
<1>4. QED
  BY <1>1, <1>2, <1>3

(* What the list shows of the chain.                                       *)
LEMMA FarIs ==
  ASSUME NEW l, NEW c, NEW k, Chain(l, c, k)
  PROVE  /\ AsFar(c, k) \in Seq(Nodes) /\ Len(AsFar(c, k)) = k /\ IsInjective(AsFar(c, k))
         /\ DOMAIN AsFar(c, k) = 1..k /\ \A i \in 1..k : AsFar(c, k)[i] = c[i] /\ i \in 1..Len(c)
<1>1. PICK n \in Nat : n = Len(c)
  BY ChainParts
<1>2. k \in 0..n /\ (\A i \in 1..n : c[i] \in Nodes) /\ \A i, j \in 1..n : c[i] = c[j] => i = j
  BY <1>1, ChainParts
<1>3. PICK a : a = AsFar(c, k)
  OBVIOUS
<1>4. a = [i \in 1..k |-> c[i]] /\ \A i \in 1..k : i \in 1..n
  BY <1>2, <1>3 DEF AsFar
<1>5. a \in Seq(Nodes) /\ Len(a) = k /\ DOMAIN a = 1..k /\ \A i \in 1..k : a[i] = c[i]
  BY <1>2, <1>4
<1>6. IsInjective(a)
  BY <1>2, <1>4, <1>5 DEF IsInjective
<1>7. QED
  BY <1>1, <1>3, <1>4, <1>5, <1>6

(* The elements of a sequence after a change.                              *)
LEMMA LeftIn ==
  ASSUME NEW c \in Seq(Nodes), NEW j \in 1..Len(c)
  PROVE  \A i \in 1..(Len(c) - 1) : \E h \in 1..Len(c) : h # j /\ Without(c, j)[i] = c[h]
<1>1. PICK m \in Nat : m = Len(c)
  OBVIOUS
<1>2. ASSUME NEW i \in 1..(m - 1)
      PROVE  \E h \in 1..m : h # j /\ Without(c, j)[i] = c[h]
  <2>1. PICK h \in 1..m : h = IF i < j THEN i ELSE i + 1
    OBVIOUS
  <2>2. h # j /\ Without(c, j)[i] = c[h]
    BY <1>1, <2>1 DEF Without
  <2>3. QED
    BY <2>2
<1>3. QED
  BY <1>1, <1>2

LEMMA NowIn ==
  ASSUME NEW c \in Seq(Nodes), NEW j \in 1..(Len(c) + 1), NEW n
  PROVE  \A i \in 1..(Len(c) + 1) : With(c, j, n)[i] = n \/ \E h \in 1..Len(c) : With(c, j, n)[i] = c[h]
<1>1. PICK m \in Nat : m = Len(c)
  OBVIOUS
<1>2. ASSUME NEW i \in 1..(m + 1), i # j
      PROVE  \E h \in 1..m : With(c, j, n)[i] = c[h]
  <2>1. PICK h \in 1..m : h = IF i < j THEN i ELSE i - 1
    BY <1>1, <1>2
  <2>2. With(c, j, n)[i] = c[h]
    BY <1>1, <1>2, <2>1 DEF With
  <2>3. QED
    BY <2>2
<1>3. With(c, j, n)[j] = n
  BY <1>1 DEF With
<1>4. QED
  BY <1>1, <1>2, <1>3

(* A list that is empty.                                                   *)
LEMMA HeldEmpty ==
  ASSUME NEW l \in ListType, Chain(l, <<>>, 0), l.cnt = 0, NEW fr, fr \subseteq Nodes
  PROVE  Held(l, fr, 0, <<>>, 0)
<1>1. 0 \in 0..(CountMod - 1) /\ Bump(0, 0) = 0
  BY ListLimits DEF Bump
<1>2. PICK c : c = <<>> /\ 1..Len(c) = {}
  OBVIOUS
<1>3. Held(l, fr, 0, c, 0)
  BY <1>1, <1>2 DEF Held
<1>4. QED
  BY <1>2, <1>3

(* A list that a node was taken from.                                      *)
LEMMA HeldWithout ==
  ASSUME NEW l, NEW fr, NEW d, NEW c, NEW k, Held(l, fr, d, c, k), NEW j \in 1..Len(c),
         NEW l2 \in ListType, NEW k2 \in Nat \ {0}, NEW d2 \in 0..(CountMod - 1),
         k2 = IF j <= k THEN k - 1 ELSE k,
         Chain(l2, Without(c, j), k2), l2.cnt = Bump(k2, d2),
         NEW b, b = IF j <= k THEN RemoveAt(AsFar(c, k), j) ELSE AsFar(c, k)
  PROVE  Keeps(l2, fr \cup {c[j]}, d2, b)
<1>1. PICK n \in Nat : n = Len(c)
  BY HeldParts
<1>2. /\ c \in Seq(Nodes) /\ fr \subseteq Nodes /\ (\A i \in 1..n : c[i] \notin fr) /\ k \in 0..n
      /\ Chain(l, c, k)
  BY <1>1, HeldParts
<1>3. (\A i \in 1..n : c[i] \in Nodes) /\ \A i, h \in 1..n : c[i] = c[h] => i = h
  BY <1>1, <1>2, ChainParts
<1>4. PICK w : w = Without(c, j)
  OBVIOUS
<1>5. Len(w) = n - 1 /\ k \in 1..n
  <2>1. Len(Without(c, j)) = Len(c) - 1
    BY <1>2, SeqWithout
  <2>2. (Len(c) = 0) = (k = 0)
    BY <1>2, ChainParts
  <2>3. QED
    BY <1>1, <1>2, <1>4, <2>1, <2>2
<1>6. ASSUME NEW i \in 1..(n - 1) PROVE w[i] \notin fr \cup {c[j]}
  <2>0. \A x \in 1..(Len(c) - 1) : \E h \in 1..Len(c) : h # j /\ Without(c, j)[x] = c[h]
    BY <1>2, LeftIn
  <2>1. PICK h \in 1..n : h # j /\ w[i] = c[h]
    BY <1>1, <1>4, <2>0
  <2>2. c[h] # c[j]
    BY <1>1, <1>3, <2>1
  <2>3. QED
    BY <1>2, <2>1, <2>2
<1>7. Held(l2, fr \cup {c[j]}, d2, w, k2)
  BY <1>1, <1>2, <1>3, <1>4, <1>5, <1>6 DEF Held
<1>8. AsFar(w, k2) = b
  <2>1. AsFar(c, k) \in Seq(Nodes) /\ Len(AsFar(c, k)) = k
    BY <1>2, FarIs
  <2>2. CASE j <= k
    <3>1. AsFar(w, k2) = Without(AsFar(c, k), j)
      BY <1>1, <1>2, <1>4, <1>5, <2>2, FarWithout
    <3>2. j \in 1..Len(AsFar(c, k))
      BY <1>1, <1>5, <2>1, <2>2
    <3>3. RemoveAt(AsFar(c, k), j) = Without(AsFar(c, k), j)
      BY <2>1, <3>2, SeqWithout
    <3>4. QED
      BY <2>2, <3>1, <3>3
  <2>3. CASE j > k
    <3>1. AsFar(w, k2) = AsFar(c, k)
      BY <1>1, <1>2, <1>4, <1>5, <2>3, FarWithout
    <3>2. ~(j <= k)
      BY <1>1, <1>5, <2>3
    <3>3. QED
      BY <3>1, <3>2
  <2>4. QED
    BY <1>1, <1>5, <2>2, <2>3
<1>9. QED
  BY <1>7, <1>8 DEF Keeps

(* A list that a node was put into.                                        *)
LEMMA HeldWith ==
  ASSUME NEW l, NEW fr, NEW d, NEW c, NEW k, Held(l, fr, d, c, k), NEW n \in fr,
         NEW c2 \in Seq(Nodes), NEW j \in 1..(Len(c2) + 1), c2 = c \/ c2 = AsFar(c, k),
         NEW l2 \in ListType, NEW k2 \in Nat \ {0}, NEW d2 \in 0..(CountMod - 1),
         Chain(l2, With(c2, j, n), k2), l2.cnt = Bump(k2, d2),
         NEW b, AsFar(With(c2, j, n), k2) = b
  PROVE  Keeps(l2, fr \ {n}, d2, b)
<1>1. /\ c \in Seq(Nodes) /\ fr \subseteq Nodes /\ (\A i \in 1..Len(c) : c[i] \notin fr)
      /\ Chain(l, c, k)
  BY HeldParts
<1>2. \A i \in 1..Len(c2) : c2[i] \notin fr
  BY <1>1, FarIs
<1>3. PICK w : w = With(c2, j, n)
  OBVIOUS
<1>4. Len(w) = Len(c2) + 1
  BY <1>1, <1>3, SeqWith
<1>5. ASSUME NEW i \in 1..(Len(c2) + 1) PROVE w[i] \notin fr \ {n}
  <2>1. w[i] = n \/ \E h \in 1..Len(c2) : w[i] = c2[h]
    BY <1>3, NowIn
  <2>2. QED
    BY <1>2, <2>1
<1>6. Held(l2, fr \ {n}, d2, w, k2)
  BY <1>1, <1>3, <1>4, <1>5 DEF Held
<1>7. QED
  BY <1>3, <1>6 DEF Keeps

(* ll_addfront and ll_addback put a node of the application's on the list. *)
LEMMA AddFrontKeeps ==
  ASSUME NEW l, NEW fr, NEW d, NEW c, NEW k, Held(l, fr, d, c, k), NEW n \in fr
  PROVE  Keeps(ll_addfront(l, n), fr \ {n}, d, <<n>> \o AsFar(c, k))
<1>1. /\ l \in ListType /\ fr \subseteq Nodes /\ d \in 0..(CountMod - 1) /\ d \in Int
      /\ Chain(l, c, k) /\ l.cnt = Bump(k, d) /\ (\A i \in 1..Len(c) : c[i] \notin fr)
      /\ Len(c) \in Nat /\ k \in 0..Len(c) /\ k \in Int /\ c \in Seq(Nodes)
  BY HeldParts
<1>2. n \in Nodes /\ n # NULL /\ \A i \in 1..Len(c) : c[i] # n /\ c[i] \in Nodes
  BY <1>1, ListLimits, ChainParts
<1>3. PICK m \in Nat : m = Len(c) /\ k \in 0..m
  BY <1>1
<1>4. PICK e : e = ll_addfront(l, n)
  OBVIOUS
<1>5. /\ e \in ListType /\ e.fptr = n /\ e.cnt = Bump(l.cnt, 1)
      /\ e.link = [l.link EXCEPT ![n] = l.fptr]
      /\ e.bptr = IF l.fptr = NULL THEN n ELSE l.bptr
  <2>1. Bump(l.cnt, 1) \in 0..(CountMod - 1)
    BY <1>1, Counted
  <2>2. e = [l EXCEPT !.fptr = n, !.link = [l.link EXCEPT ![n] = l.fptr], !.cnt = Bump(l.cnt, 1),
                      !.bptr = IF l.fptr = NULL THEN n ELSE l.bptr]
    BY <1>4 DEF ll_addfront
  <2>3. QED
    BY <1>1, <1>2, <2>1, <2>2 DEF ListType
<1>6. PICK w : w = With(c, 1, n)
  OBVIOUS
<1>7. w[1] = n /\ \A i \in 1..m : w[i + 1] = c[i]
  BY <1>3, <1>6 DEF With
<1>8. (k = 0 => m = 0 /\ l.fptr = NULL) /\ (k # 0 => k \in 1..m /\ l.fptr # NULL /\ l.fptr = c[1] /\ l.bptr = c[k])
  BY <1>1, <1>3, ChainEnds, ChainParts
<1>9. e.bptr = w[k + 1]
  BY <1>5, <1>7, <1>8
<1>10. e.link[n] = IF 1 = m + 1 THEN NULL ELSE c[1]
  <2>1. DOMAIN l.link = Nodes
    BY <1>1 DEF ListType
  <2>2. k = 0 => m = 0
    BY <1>8
  <2>3. k # 0 => m # 0
    BY <1>3
  <2>4. QED
    BY <1>2, <1>3, <1>5, <1>8, <2>1, <2>2, <2>3
<1>11. ASSUME NEW i \in 1..m
       PROVE  e.link[c[i]] = IF i = 1 - 1 THEN n ELSE IF i = m THEN NULL ELSE c[i + 1]
  <2>1. e.link[c[i]] = l.link[c[i]]
    BY <1>2, <1>3, <1>5
  <2>2. l.link[c[i]] = IF i = m THEN NULL ELSE c[i + 1]
    BY <1>1, <1>3, ChainEnds
  <2>3. QED
    BY <2>1, <2>2
<1>12. Chain(e, w, k + 1)
  <2>1. IsInjective(c) /\ 1 \in 1..(Len(c) + 1) /\ k + 1 \in 1..(Len(c) + 1) /\ \A i \in 1..Len(c) : c[i] # n
    <3>1. IsInjective(c)
      BY <1>1, Zenon DEF Chain
    <3>2. QED
      BY <1>2, <1>3, <3>1
  <2>2. \A i \in 1..Len(c) : e.link[c[i]] = IF i = 1 - 1 THEN n ELSE IF i = Len(c) THEN NULL ELSE c[i + 1]
    BY <1>3, <1>11
  <2>3. e.link[n] = IF 1 = Len(c) + 1 THEN NULL ELSE c[1]
    BY <1>3, <1>10
  <2>4. e.fptr = With(c, 1, n)[1] /\ e.bptr = With(c, 1, n)[k + 1]
    BY <1>5, <1>6, <1>7, <1>9
  <2>5. Chain(e, With(c, 1, n), k + 1)
    BY <1>1, <1>2, <2>1, <2>2, <2>3, <2>4, Put
  <2>6. QED
    BY <1>6, <2>5
<1>13. e.cnt = Bump(k + 1, d)
  BY <1>1, <1>5, Bumped
<1>14. AsFar(w, k + 1) = <<n>> \o AsFar(c, k)
  <2>1. PICK a \in Seq(Nodes) : a = AsFar(c, k) /\ Len(a) = k /\ \A i \in 1..k : a[i] \in Nodes /\ a[i] # n
    <3>1. AsFar(c, k) \in Seq(Nodes) /\ Len(AsFar(c, k)) = k /\ \A i \in 1..k : AsFar(c, k)[i] = c[i] /\ i \in 1..Len(c)
      BY <1>1, FarIs
    <3>2. QED
      BY <1>2, <3>1
  <2>2. AsFar(w, k + 1) = With(a, 1, n)
    BY <1>1, <1>2, <1>3, <1>6, <2>1, FarWith
  <2>3. With(a, 1, n) = <<n>> \o a
    <3>1. With(a, 1, n) = [i \in 1..(k + 1) |-> IF i < 1 THEN a[i] ELSE IF i = 1 THEN n ELSE a[i - 1]]
      BY <2>1 DEF With
    <3>2. PICK v : v = <<n>> \o a
      OBVIOUS
    <3>3. v \in Seq(Nodes) /\ Len(v) = k + 1 /\ v[1] = n /\ \A i \in 2..(k + 1) : v[i] = a[i - 1]
      BY <1>2, <1>3, <2>1, <3>2
    <3>4. DOMAIN v = 1..(k + 1) /\ v = [i \in DOMAIN v |-> v[i]]
      BY <1>3, <3>3
    <3>5. \A i \in 1..(k + 1) : v[i] = IF i < 1 THEN a[i] ELSE IF i = 1 THEN n ELSE a[i - 1]
      BY <1>3, <3>3
    <3>6. QED
      BY <3>1, <3>2, <3>4, <3>5
  <2>4. QED
    BY <2>1, <2>2, <2>3
<1>15. k + 1 \in Nat \ {0} /\ 1 \in 1..(Len(c) + 1)
  BY <1>3
<1>16. PICK b : b = <<n>> \o AsFar(c, k)
  OBVIOUS
<1>17. AsFar(With(c, 1, n), k + 1) = b
  BY <1>6, <1>14, <1>16, Zenon
<1>18. Keeps(e, fr \ {n}, d, b)
  BY <1>1, <1>5, <1>6, <1>12, <1>13, <1>15, <1>17, HeldWith
<1>19. QED
  BY <1>4, <1>16, <1>18, Zenon

LEMMA AddBackKeeps ==
  ASSUME NEW l, NEW fr, NEW d, NEW c, NEW k, Held(l, fr, d, c, k), NEW n \in fr
  PROVE  Keeps(ll_addback(l, n), fr \ {n}, d, Append(AsFar(c, k), n))
<1>1. /\ l \in ListType /\ fr \subseteq Nodes /\ d \in 0..(CountMod - 1) /\ d \in Int
      /\ Chain(l, c, k) /\ l.cnt = Bump(k, d) /\ (\A i \in 1..Len(c) : c[i] \notin fr)
      /\ Len(c) \in Nat /\ k \in 0..Len(c) /\ k \in Int /\ c \in Seq(Nodes)
  BY HeldParts
<1>2. CASE l.fptr = NULL
  <2>1. ll_addback(l, n) = ll_addfront(l, n)
    BY <1>2 DEF ll_addback
  <2>2. AsFar(c, k) = <<>>
    <3>1. k = 0
      BY <1>1, <1>2, ChainEnds
    <3>2. AsFar(c, k) \in Seq(Nodes) /\ Len(AsFar(c, k)) = k
      BY <1>1, FarIs
    <3>3. QED
      BY <3>1, <3>2
  <2>3. <<n>> \o <<>> = Append(<<>>, n)
    BY <1>1
  <2>4. Keeps(ll_addfront(l, n), fr \ {n}, d, <<n>> \o AsFar(c, k))
    BY AddFrontKeeps, Zenon
  <2>5. <<n>> \o AsFar(c, k) = Append(AsFar(c, k), n)
    BY <2>2, <2>3, Zenon
  <2>6. QED
    BY <2>1, <2>4, <2>5, Zenon
<1>3. CASE l.fptr # NULL
  <2>1. n \in Nodes /\ n # NULL /\ \A i \in 1..Len(c) : c[i] # n /\ c[i] \in Nodes
    BY <1>1, ListLimits, ChainParts
  <2>2. k \in 1..Len(c) /\ l.fptr = c[1] /\ l.bptr = c[k] /\ l.bptr \in Nodes /\ l.bptr # n
    BY <1>1, <1>3, <2>1, ChainEnds
  <2>3. PICK m \in Nat : m = Len(c) /\ k \in 1..m
    BY <1>1, <2>2
  <2>4. PICK e : e = ll_addback(l, n)
    OBVIOUS
  <2>5. /\ e \in ListType /\ e.fptr = l.fptr /\ e.bptr = n /\ e.cnt = Bump(l.cnt, 1)
        /\ e.link = [[l.link EXCEPT ![n] = NULL] EXCEPT ![l.bptr] = n]
    <3>1. Bump(l.cnt, 1) \in 0..(CountMod - 1)
      BY <1>1, Counted
    <3>2. e = [l EXCEPT !.bptr = n, !.cnt = Bump(l.cnt, 1),
                        !.link = [[l.link EXCEPT ![n] = NULL] EXCEPT ![l.bptr] = n]]
      BY <1>3, <2>4 DEF ll_addback
    <3>3. [[l.link EXCEPT ![n] = NULL] EXCEPT ![l.bptr] = n] \in [Nodes -> Nodes \cup {NULL}]
      BY <1>1, <2>1 DEF ListType
    <3>4. QED
      BY <1>1, <2>1, <3>1, <3>2, <3>3 DEF ListType
  <2>6. PICK a : a = AsFar(c, k)
    OBVIOUS
  <2>7. /\ a \in Seq(Nodes) /\ Len(a) = k /\ IsInjective(a) /\ DOMAIN a = 1..k
        /\ \A i \in 1..k : a[i] = c[i] /\ i \in 1..Len(c)
    BY <1>1, <2>6, FarIs
  <2>8. \A i \in 1..k : a[i] # n /\ a[i] \in Nodes
    BY <2>1, <2>7
  <2>9. PICK w : w = With(a, k + 1, n)
    OBVIOUS
  <2>10. w = [i \in 1..(k + 1) |-> IF i < k + 1 THEN a[i] ELSE IF i = k + 1 THEN n ELSE a[i - 1]]
    BY <2>7, <2>9 DEF With
  <2>11. w[1] = c[1] /\ w[k + 1] = n
    BY <2>3, <2>7, <2>10
  <2>12. e.link[n] = NULL
    BY <1>1, <2>1, <2>2, <2>5 DEF ListType
  <2>13. ASSUME NEW i \in 1..k
         PROVE  e.link[a[i]] = IF i = (k + 1) - 1 THEN n ELSE IF i = k THEN NULL ELSE a[i + 1]
    <3>1. DOMAIN l.link = Nodes
      BY <1>1 DEF ListType
    <3>2. CASE i = k
      <4>1. a[i] = l.bptr
        BY <2>2, <2>7, <3>2
      <4>2. e.link[a[i]] = n
        BY <2>2, <2>5, <3>1, <4>1
      <4>3. QED
        BY <3>2, <4>2, <2>3
    <3>3. CASE i # k
      <4>1. a[i] # l.bptr /\ a[i] # n
        <5>1. a[k] = l.bptr /\ k \in 1..k
          BY <2>2, <2>3, <2>7
        <5>2. QED
          BY <2>7, <2>8, <3>3, <5>1 DEF IsInjective
      <4>2. e.link[a[i]] = l.link[a[i]]
        BY <2>2, <2>5, <2>8, <3>1, <4>1
      <4>3. l.link[c[i]] = IF i = m THEN NULL ELSE c[i + 1]
        BY <1>1, <2>3, <2>7, ChainEnds
      <4>4. i + 1 \in 1..k /\ i # m
        BY <2>3, <3>3
      <4>5. QED
        BY <2>3, <2>7, <3>3, <4>2, <4>3, <4>4
    <3>4. QED
      BY <3>2, <3>3
  <2>14. Chain(e, w, k + 1)
    <3>1. k + 1 \in 1..(Len(a) + 1) /\ k + 1 = Len(a) + 1
      BY <2>3, <2>7
    <3>2. \A i \in 1..Len(a) : a[i] # n
      BY <2>7, <2>8
    <3>3. \A i \in 1..Len(a) : e.link[a[i]] = IF i = (k + 1) - 1 THEN n ELSE IF i = Len(a) THEN NULL ELSE a[i + 1]
      BY <2>7, <2>13
    <3>4. e.link[n] = IF k + 1 = Len(a) + 1 THEN NULL ELSE a[k + 1]
      BY <2>12, <3>1
    <3>5. e.fptr = With(a, k + 1, n)[1] /\ e.bptr = With(a, k + 1, n)[k + 1]
      BY <2>2, <2>5, <2>9, <2>11
    <3>6. Chain(e, With(a, k + 1, n), k + 1)
      BY <2>1, <2>7, <3>1, <3>2, <3>3, <3>4, <3>5, Put
    <3>7. QED
      BY <2>9, <3>6
  <2>15. e.cnt = Bump(k + 1, d)
    BY <1>1, <2>5, Bumped
  <2>16. AsFar(w, k + 1) = Append(a, n)
    <3>1. w = Append(a, n)
      <4>1. PICK v : v = Append(a, n)
        OBVIOUS
      <4>2. v \in Seq(Nodes) /\ Len(v) = k + 1 /\ v[k + 1] = n /\ \A i \in 1..k : v[i] = a[i]
        BY <2>1, <2>3, <2>7, <4>1
      <4>3. DOMAIN v = 1..(k + 1) /\ v = [i \in DOMAIN v |-> v[i]]
        BY <2>3, <4>2
      <4>4. \A i \in 1..(k + 1) : v[i] = IF i < k + 1 THEN a[i] ELSE IF i = k + 1 THEN n ELSE a[i - 1]
        BY <2>3, <4>2
      <4>5. QED
        BY <2>10, <4>1, <4>3, <4>4
    <3>2. AsFar(w, k + 1) = w
      BY <2>10 DEF AsFar
    <3>3. QED
      BY <3>1, <3>2
  <2>17. k + 1 \in Nat \ {0} /\ k + 1 \in 1..(Len(a) + 1)
    BY <2>3, <2>7
  <2>20. PICK b : b = Append(a, n)
    OBVIOUS
  <2>21. AsFar(With(a, k + 1, n), k + 1) = b
    BY <2>9, <2>16, <2>20, Zenon
  <2>22. Keeps(e, fr \ {n}, d, b)
    BY <1>1, <2>5, <2>6, <2>7, <2>9, <2>14, <2>15, <2>17, <2>21, HeldWith
  <2>18. Keeps(e, fr \ {n}, d, Append(a, n))
    BY <2>20, <2>22, Zenon
  <2>19. QED
    BY <2>4, <2>6, <2>18
<1>4. QED
  BY <1>2, <1>3

(* What a count is when nothing drifts, and when one more or one less does.*)
LEMMA Drifting ==
  ASSUME NEW d \in 0..(CountMod - 1), NEW k \in Int
  PROVE  /\ Bump(d, 0) = d /\ Bump(Bump(k, d), -1) = Bump(k - 1, d)
         /\ Bump(k - 1, Bump(d, 1)) = Bump(k, d) /\ Bump(k + 1, Bump(d, -1)) = Bump(k, d)
         /\ Bump(d, 1) \in 0..(CountMod - 1) /\ Bump(d, -1) \in 0..(CountMod - 1)
<1>1. d \in Int /\ 1 \in Int /\ -1 \in Int /\ k - 1 \in Int /\ k + 1 \in Int
  BY ListLimits
<1>2. Bump(d, 0) = d
  BY ListLimits DEF Bump
<1>3. Bump(Bump(k, d), -1) = Bump(k - 1, d)
  <2>1. PICK m \in Int : m = -1
    BY <1>1
  <2>2. Bump(Bump(k, d), m) = Bump(k + m, d)
    BY <1>1, <2>1, Bumped
  <2>3. k + m = k - 1
    BY <2>1
  <2>4. QED
    BY <2>1, <2>2, <2>3
<1>4. Bump(k - 1, Bump(d, 1)) = Bump(d + (k - 1), 1) /\ Bump(k + 1, Bump(d, -1)) = Bump(d + (k + 1), -1)
  BY <1>1, Bumped
<1>5. Bump(d + (k - 1), 1) = Bump(k, d) /\ Bump(d + (k + 1), -1) = Bump(k, d)
  <2>1. (d + (k - 1)) + 1 = k + d /\ (d + (k + 1)) + (-1) = k + d
    BY <1>1
  <2>2. QED
    BY <2>1 DEF Bump
<1>6. QED
  BY <1>1, <1>2, <1>3, <1>4, <1>5, Bumped

(* The drift of a list that is not empty.                                  *)
NewDrift(l2, d, x) == IF l2.fptr = NULL THEN 0 ELSE Bump(d, x)

(* A sequence of one without it is empty.                                  *)
LEMMA OneRemoved ==
  ASSUME NEW l, NEW c, NEW k, Chain(l, c, k)
  PROVE  k = 1 => AsFar(<<>>, 0) = RemoveAt(AsFar(c, k), 1) /\ AsFar(<<>>, 0) = RemoveAt(AsFar(c, k), k)
<1>0. AsFar(c, k) \in Seq(Nodes) /\ Len(AsFar(c, k)) = k
  BY FarIs
<1>7. HAVE k = 1
<1>1. PICK a \in Seq(Nodes) : a = AsFar(c, k) /\ Len(a) = 1
  BY <1>0, <1>7
<1>2. 1 \in 1..Len(a)
  BY <1>1
<1>3. RemoveAt(a, 1) \in Seq(Nodes) /\ Len(RemoveAt(a, 1)) = 0
  <2>1. RemoveAt(a, 1) = Without(a, 1) /\ Without(a, 1) \in Seq(Nodes) /\ Len(Without(a, 1)) = Len(a) - 1
    BY <1>1, <1>2, SeqWithout
  <2>2. QED
    BY <1>1, <2>1
<1>4. RemoveAt(a, 1) = <<>>
  BY <1>3
<1>5. AsFar(<<>>, 0) = <<>>
  BY DEF AsFar
<1>6. QED
  BY <1>1, <1>4, <1>5, <1>7

(* ll_getfront and ll_getback.                                             *)
LEMMA GetFrontKeeps ==
  ASSUME NEW l, NEW fr, NEW d, NEW c, NEW k, Held(l, fr, d, c, k)
  PROVE  Keeps(ll_getfront(l), fr \cup ({l.fptr} \ {NULL}), NewDrift(ll_getfront(l), d, 0),
               IF k = 0 THEN AsFar(c, k) ELSE RemoveAt(AsFar(c, k), 1))
<1>1. /\ l \in ListType /\ fr \subseteq Nodes /\ d \in 0..(CountMod - 1)
      /\ Chain(l, c, k) /\ l.cnt = Bump(k, d) /\ (k = 0 => d = 0)
      /\ Len(c) \in Nat /\ k \in 0..Len(c) /\ k \in Int /\ c \in Seq(Nodes)
  BY HeldParts
<1>2. PICK e : e = ll_getfront(l)
  OBVIOUS
<1>3. CASE k = 0
  <2>1. e = l /\ l.fptr = NULL
    BY <1>1, <1>2, <1>3, GetFrontIs, ChainEnds
  <2>2. fr \cup ({l.fptr} \ {NULL}) = fr /\ NewDrift(e, d, 0) = d
    BY <1>1, <1>3, <2>1 DEF NewDrift
  <2>3. Keeps(e, fr, d, AsFar(c, k))
    BY <2>1 DEF Keeps
  <2>4. QED
    BY <1>2, <1>3, <2>2, <2>3
<1>4. CASE k = 1
  <2>1. e \in ListType /\ Chain(e, <<>>, 0) /\ e.cnt = 0 /\ e.fptr = NULL
    BY <1>1, <1>2, <1>4, GetFrontIs, ChainEnds
  <2>2. PICK f : f = fr \cup ({l.fptr} \ {NULL})
    OBVIOUS
  <2>3. f \subseteq Nodes
    BY <1>1, <2>2 DEF ListType
  <2>4. Held(e, f, 0, <<>>, 0)
    BY <2>1, <2>3, HeldEmpty
  <2>5. AsFar(<<>>, 0) = RemoveAt(AsFar(c, k), 1)
    BY <1>1, <1>4, OneRemoved
  <2>6. NewDrift(e, d, 0) = 0
    BY <2>1 DEF NewDrift
  <2>7. QED
    BY <1>2, <1>4, <2>2, <2>4, <2>5, <2>6 DEF Keeps
<1>5. CASE k > 1
  <2>1. e \in ListType /\ Chain(e, Without(c, 1), k - 1) /\ e.cnt = Bump(l.cnt, -1)
    BY <1>1, <1>2, <1>5, GetFrontIs
  <2>2. k - 1 \in Nat \ {0} /\ 1 \in 1..Len(c) /\ 1 <= k
    BY <1>1, <1>5
  <2>3. l.fptr = c[1] /\ l.fptr # NULL /\ e.fptr # NULL
    <3>1. k - 1 # 0 /\ k # 0
      BY <2>2
    <3>2. QED
      BY <1>1, <2>1, <3>1, ChainEnds
  <2>4. fr \cup ({l.fptr} \ {NULL}) = fr \cup {c[1]}
    BY <2>3
  <2>5. NewDrift(e, d, 0) = d /\ e.cnt = Bump(k - 1, d)
    BY <1>1, <2>1, <2>3, Drifting DEF NewDrift
  <2>6. Keeps(e, fr \cup {c[1]}, d, RemoveAt(AsFar(c, k), 1))
    BY <1>1, <2>1, <2>2, <2>5, HeldWithout
  <2>7. QED
    BY <1>2, <1>5, <2>4, <2>5, <2>6
<1>6. QED
  BY <1>1, <1>3, <1>4, <1>5

LEMMA GetBackKeeps ==
  ASSUME NEW l, NEW fr, NEW d, NEW c, NEW k, Held(l, fr, d, c, k)
  PROVE  Keeps(ll_getback(l), fr \cup ({l.bptr} \ {NULL}), NewDrift(ll_getback(l), d, 0),
               IF k = 0 THEN AsFar(c, k) ELSE RemoveAt(AsFar(c, k), k))
<1>1. /\ l \in ListType /\ fr \subseteq Nodes /\ d \in 0..(CountMod - 1)
      /\ Chain(l, c, k) /\ l.cnt = Bump(k, d) /\ (k = 0 => d = 0)
      /\ Len(c) \in Nat /\ k \in 0..Len(c) /\ k \in Int /\ c \in Seq(Nodes)
  BY HeldParts
<1>2. PICK e : e = ll_getback(l)
  OBVIOUS
<1>3. CASE k = 0
  <2>1. e = l /\ l.fptr = NULL /\ l.bptr = NULL
    BY <1>1, <1>2, <1>3, GetBackIs, ChainEnds
  <2>2. fr \cup ({l.bptr} \ {NULL}) = fr /\ NewDrift(e, d, 0) = d
    BY <1>1, <1>3, <2>1 DEF NewDrift
  <2>3. Keeps(e, fr, d, AsFar(c, k))
    BY <2>1 DEF Keeps
  <2>4. QED
    BY <1>2, <1>3, <2>2, <2>3
<1>4. CASE k = 1
  <2>1. e \in ListType /\ Chain(e, <<>>, 0) /\ e.cnt = 0 /\ e.fptr = NULL
    BY <1>1, <1>2, <1>4, GetBackIs, ChainEnds
  <2>2. PICK f : f = fr \cup ({l.bptr} \ {NULL})
    OBVIOUS
  <2>3. f \subseteq Nodes
    BY <1>1, <2>2 DEF ListType
  <2>4. Held(e, f, 0, <<>>, 0)
    BY <2>1, <2>3, HeldEmpty
  <2>5. AsFar(<<>>, 0) = RemoveAt(AsFar(c, k), k)
    BY <1>1, <1>4, OneRemoved
  <2>6. NewDrift(e, d, 0) = 0
    BY <2>1 DEF NewDrift
  <2>7. QED
    BY <1>2, <1>4, <2>2, <2>4, <2>5, <2>6 DEF Keeps
<1>5. CASE k > 1
  <2>1. e \in ListType /\ Chain(e, Without(c, k), k - 1) /\ e.cnt = Bump(l.cnt, -1)
    BY <1>1, <1>2, <1>5, GetBackIs
  <2>2. k - 1 \in Nat \ {0} /\ k \in 1..Len(c) /\ k <= k
    BY <1>1, <1>5
  <2>3. l.bptr = c[k] /\ l.bptr # NULL /\ e.fptr # NULL
    <3>1. k - 1 # 0 /\ k # 0
      BY <2>2
    <3>2. QED
      BY <1>1, <2>1, <3>1, ChainEnds
  <2>4. fr \cup ({l.bptr} \ {NULL}) = fr \cup {c[k]}
    BY <2>3
  <2>5. NewDrift(e, d, 0) = d /\ e.cnt = Bump(k - 1, d)
    BY <1>1, <2>1, <2>3, Drifting DEF NewDrift
  <2>6. Keeps(e, fr \cup {c[k]}, d, RemoveAt(AsFar(c, k), k))
    BY <1>1, <2>1, <2>2, <2>5, HeldWithout
  <2>7. QED
    BY <1>2, <1>5, <2>4, <2>5, <2>6
<1>6. QED
  BY <1>1, <1>3, <1>4, <1>5

(* Between the front and the back of the list.                             *)
LEMMA MiddleIs ==
  ASSUME NEW l \in ListType, NEW c, NEW k, Chain(l, c, k), NEW j \in 2..Len(c)
  PROVE  (c[j] \in ToSet(Listed(l)) \ {l.fptr, l.bptr}) = (j < k)
<1>1. PICK a : a = Listed(l)
  OBVIOUS
<1>2. a = [i \in 1..k |-> c[i]]
  BY <1>1, ListedIs
<1>3. /\ Len(c) \in Nat /\ k \in 0..Len(c) /\ j \in 1..Len(c)
      /\ \A i, h \in 1..Len(c) : c[i] = c[h] => i = h
  BY ChainParts
<1>4. (Len(c) = 0) = (k = 0)
  BY ChainParts
<1>5. k \in 1..Len(c) /\ l.fptr = c[1] /\ l.bptr = c[k] /\ 1 \in 1..Len(c)
  BY <1>3, <1>4, ChainEnds
<1>6. ToSet(a) = {c[i] : i \in 1..k}
  BY <1>2 DEF ToSet
<1>7. c[j] \in ToSet(a) <=> j <= k
  <2>1. ASSUME c[j] \in ToSet(a) PROVE j <= k
    <3>1. PICK i \in 1..k : c[j] = c[i]
      BY <1>6, <2>1
    <3>2. i \in 1..Len(c)
      BY <1>3
    <3>3. i = j
      BY <1>3, <3>1, <3>2
    <3>4. QED
      BY <1>5, <3>3
  <2>2. ASSUME j <= k PROVE c[j] \in ToSet(a)
    BY <1>3, <1>6, <2>2
  <2>3. QED
    BY <2>1, <2>2
<1>8. c[j] # c[1] /\ (c[j] = c[k] <=> j = k)
  BY <1>3, <1>5
<1>9. (c[j] \in ToSet(a) \ {c[1], c[k]}) <=> j < k
  BY <1>3, <1>5, <1>7, <1>8
<1>10. QED
  BY <1>1, <1>5, <1>9

(* A call that finds no place for its node leaves everything as it is.     *)
LEMMA SameKeeps ==
  ASSUME NEW l, NEW fr, NEW d, NEW c, NEW k, Held(l, fr, d, c, k)
  PROVE  Keeps(l, fr, NewDrift(l, d, 0), AsFar(c, k))
<1>1. l.fptr = NULL => d = 0
  <2>1. Chain(l, c, k) /\ (k = 0 => d = 0)
    BY HeldParts
  <2>2. QED
    BY <2>1, ChainEnds
<1>2. NewDrift(l, d, 0) = d
  BY <1>1, HeldParts, Drifting DEF NewDrift
<1>3. QED
  BY <1>2 DEF Keeps

(* Where a node that has one before it is, or that it is not behind one.   *)
LEMMA Place ==
  ASSUME NEW l \in ListType, NEW c, NEW k, Chain(l, c, k), NEW n \in Nodes
  PROVE  /\ Predecessor(l, n) # NULL => \E j \in 2..Len(c) : n = c[j] /\ Predecessor(l, n) = c[j - 1]
         /\ Predecessor(l, n) = NULL => /\ n \notin ToSet(Listed(l)) \ {l.fptr, l.bptr}
                                        /\ \A j \in 2..Len(c) : n # c[j]
<1>1. CASE \E j \in 2..Len(c) : n = c[j]
  <2>1. PICK j \in 2..Len(c) : n = c[j]
    BY <1>1
  <2>2. Predecessor(l, n) = c[j - 1]
    BY <2>1, PredecessorIs
  <2>3. j - 1 \in 1..Len(c)
    BY ChainParts
  <2>4. c[j - 1] # NULL
    BY <2>3, ChainParts, ListLimits
  <2>5. QED
    BY <2>1, <2>2, <2>4
<1>2. CASE \A j \in 2..Len(c) : n # c[j]
  <2>1. Predecessor(l, n) = NULL
    BY <1>2, PredecessorIs
  <2>2. ASSUME n \in ToSet(Listed(l)) \ {l.fptr, l.bptr} PROVE FALSE
    <3>1. PICK a : a = Listed(l) /\ a = [i \in 1..k |-> c[i]]
      BY ListedIs
    <3>2. PICK i \in 1..k : n = c[i]
      BY <2>2, <3>1 DEF ToSet
    <3>3. k \in 0..Len(c) /\ Len(c) \in Nat
      BY ChainParts
    <3>4. i \in 1..Len(c) /\ k # 0
      BY <3>3
    <3>5. i = 1
      BY <1>2, <3>2, <3>3, <3>4
    <3>6. l.fptr = c[1]
      BY <3>4, ChainEnds
    <3>7. QED
      BY <2>2, <3>2, <3>5, <3>6
  <2>3. QED
    BY <1>2, <2>1, <2>2
<1>3. QED
  BY <1>1, <1>2

(* ll_pluck takes any node of the chain, and the listed sequence a becomes *)
(* b: without the node, or as it was when the node is linked behind it or  *)
(* is not in it.                                                           *)
PluckSays(flag, n, c, k, a, b) ==
  \/ flag = FALSE /\ \E i \in 1..k : c[i] = n /\ b = RemoveAt(a, i)
  \/ flag = FALSE /\ (\E i \in 1..Len(c) : i > k /\ c[i] = n) /\ b = a
  \/ flag = TRUE /\ (\A i \in 1..k : c[i] # n) /\ b = a
PluckedFree(r, fr, n) == IF r.flag THEN fr ELSE fr \cup {n}
Mid(l, n)             == n \in ToSet(Listed(l)) \ {l.fptr, l.bptr}

LEMMA PluckIs ==
  ASSUME NEW l, NEW fr, NEW d, NEW c, NEW k, Held(l, fr, d, c, k), NEW n \in Nodes
  PROVE  \E b : /\ Keeps(ll_pluck(l, n).l, PluckedFree(ll_pluck(l, n), fr, n),
                        NewDrift(ll_pluck(l, n).l, d, IF Mid(l, n) THEN 1 ELSE 0), b)
                /\ PluckSays(ll_pluck(l, n).flag, n, c, k, AsFar(c, k), b)
<1>1. /\ l \in ListType /\ fr \subseteq Nodes /\ d \in 0..(CountMod - 1)
      /\ Chain(l, c, k) /\ l.cnt = Bump(k, d) /\ (k = 0 => d = 0)
      /\ Len(c) \in Nat /\ k \in 0..Len(c) /\ k \in Int /\ c \in Seq(Nodes)
  BY HeldParts
<1>2. PICK r : r = ll_pluck(l, n)
  OBVIOUS
<1>3. n # NULL
  BY ListLimits
<1>9. PICK a : a = AsFar(c, k)
  OBVIOUS
<1>4. CASE l.fptr = n
  <2>1. r.l = ll_getfront(l) /\ r.flag = FALSE
    BY <1>2, <1>4 DEF ll_pluck
  <2>2. ~Mid(l, n) /\ PluckedFree(r, fr, n) = fr \cup ({l.fptr} \ {NULL})
    BY <1>3, <1>4, <2>1 DEF Mid, PluckedFree
  <2>3. k # 0 /\ 1 \in 1..k /\ c[1] = n
    BY <1>1, <1>3, <1>4, ChainEnds
  <2>7. (IF k = 0 THEN AsFar(c, k) ELSE RemoveAt(AsFar(c, k), 1)) = RemoveAt(a, 1)
    BY <1>9, <2>3
  <2>4. Keeps(r.l, PluckedFree(r, fr, n), NewDrift(r.l, d, 0), RemoveAt(a, 1))
    <3>1. Keeps(ll_getfront(l), fr \cup ({l.fptr} \ {NULL}), NewDrift(ll_getfront(l), d, 0),
                IF k = 0 THEN AsFar(c, k) ELSE RemoveAt(AsFar(c, k), 1))
      BY GetFrontKeeps
    <3>2. QED
      BY <2>1, <2>2, <2>7, <3>1
  <2>5. PluckSays(r.flag, n, c, k, a, RemoveAt(a, 1))
    BY <2>1, <2>3 DEF PluckSays
  <2>6. QED
    BY <1>2, <1>9, <2>2, <2>4, <2>5
<1>5. CASE l.fptr # n /\ l.bptr = n
  <2>1. r.l = ll_getback(l) /\ r.flag = FALSE
    BY <1>2, <1>5 DEF ll_pluck
  <2>2. ~Mid(l, n) /\ PluckedFree(r, fr, n) = fr \cup ({l.bptr} \ {NULL})
    BY <1>3, <1>5, <2>1 DEF Mid, PluckedFree
  <2>3. k # 0 /\ k \in 1..k /\ c[k] = n
    BY <1>1, <1>3, <1>5, ChainEnds
  <2>7. (IF k = 0 THEN AsFar(c, k) ELSE RemoveAt(AsFar(c, k), k)) = RemoveAt(a, k)
    BY <1>9, <2>3
  <2>4. Keeps(r.l, PluckedFree(r, fr, n), NewDrift(r.l, d, 0), RemoveAt(a, k))
    <3>1. Keeps(ll_getback(l), fr \cup ({l.bptr} \ {NULL}), NewDrift(ll_getback(l), d, 0),
                IF k = 0 THEN AsFar(c, k) ELSE RemoveAt(AsFar(c, k), k))
      BY GetBackKeeps
    <3>2. QED
      BY <2>1, <2>2, <2>7, <3>1
  <2>5. PluckSays(r.flag, n, c, k, a, RemoveAt(a, k))
    BY <2>1, <2>3 DEF PluckSays
  <2>6. QED
    BY <1>2, <1>9, <2>2, <2>4, <2>5
<1>6. CASE l.fptr # n /\ l.bptr # n /\ Predecessor(l, n) = NULL
  <2>1. r.l = l /\ r.flag = TRUE
    BY <1>2, <1>6 DEF ll_pluck
  <2>2. ~Mid(l, n) /\ PluckedFree(r, fr, n) = fr
    BY <1>1, <1>6, <2>1, Place DEF Mid, PluckedFree
  <2>3. Keeps(r.l, PluckedFree(r, fr, n), NewDrift(r.l, d, 0), a)
    BY <1>9, <2>1, <2>2, SameKeeps
  <2>4. \A i \in 1..k : c[i] # n
    <3>1. \A i \in 2..Len(c) : n # c[i]
      BY <1>1, <1>6, Place
    <3>2. k # 0 => c[1] # n
      BY <1>1, <1>6, ChainEnds
    <3>3. QED
      BY <1>1, <3>1, <3>2
  <2>5. PluckSays(r.flag, n, c, k, a, a)
    BY <2>1, <2>4, Zenon DEF PluckSays
  <2>6. QED
    BY <1>2, <1>9, <2>2, <2>3, <2>5
<1>7. CASE l.fptr # n /\ l.bptr # n /\ Predecessor(l, n) # NULL
  <2>1. PICK j \in 2..Len(c) : n = c[j] /\ Predecessor(l, n) = c[j - 1]
    BY <1>1, <1>7, Place
  <2>2. PICK e : e = ll_plu0(l, c[j - 1])
    OBVIOUS
  <2>3. r.l = e /\ r.flag = FALSE
    BY <1>2, <1>7, <2>1, <2>2 DEF ll_pluck
  <2>4. BehindTaken(l, c, j, e)
    BY <1>1, <2>2, PluckKeeps
  <2>5. /\ e \in ListType /\ e.fptr = l.fptr /\ e.bptr = l.bptr /\ e.cnt = l.cnt
        /\ \A i \in 1..Len(c) : i # j => e.link[c[i]] = IF i = j - 1 THEN l.link[c[j]] ELSE l.link[c[i]]
    BY <2>4 DEF BehindTaken
  <2>6. (Len(c) = 0) = (k = 0)
    BY <1>1, ChainParts
  <2>7. k \in 1..Len(c) /\ l.bptr = c[k] /\ l.fptr # NULL /\ j # k /\ j # 1 /\ j \in 1..Len(c)
    <3>1. k # 0
      BY <1>1, <2>6
    <3>2. QED
      BY <1>1, <1>7, <2>1, <3>1, ChainEnds
  <2>8. PICK k2 \in Nat \ {0} : k2 = IF j <= k THEN k - 1 ELSE k
    BY <1>1, <2>7
  <2>9. Chain(e, Without(c, j), k2)
    BY <1>1, <2>5, <2>7, <2>8, Taken
  <2>10. PICK d2 : d2 = NewDrift(e, d, IF Mid(l, n) THEN 1 ELSE 0)
    OBVIOUS
  <2>11. Mid(l, n) = (j < k)
    BY <1>1, <2>1, MiddleIs DEF Mid
  <2>12. d2 = IF j < k THEN Bump(d, 1) ELSE d
    BY <1>1, <2>5, <2>7, <2>10, <2>11, Drifting DEF NewDrift
  <2>13. d2 \in 0..(CountMod - 1) /\ e.cnt = Bump(k2, d2)
    <3>1. CASE j < k
      <4>1. k2 = k - 1 /\ d2 = Bump(d, 1)
        BY <1>1, <2>7, <2>8, <2>12, <3>1
      <4>2. Bump(k - 1, Bump(d, 1)) = Bump(k, d) /\ Bump(d, 1) \in 0..(CountMod - 1)
        BY <1>1, Drifting
      <4>3. QED
        BY <1>1, <2>5, <4>1, <4>2
    <3>2. CASE ~(j < k)
      <4>1. k2 = k /\ d2 = d
        BY <1>1, <2>7, <2>8, <2>12, <3>2
      <4>2. QED
        BY <1>1, <2>5, <4>1
    <3>3. QED
      BY <3>1, <3>2
  <2>17. PICK b : b = IF j <= k THEN RemoveAt(a, j) ELSE a
    OBVIOUS
  <2>14. Keeps(e, fr \cup {c[j]}, d2, b)
    BY <1>9, <2>5, <2>7, <2>8, <2>9, <2>13, <2>17, HeldWithout
  <2>15. PluckedFree(r, fr, n) = fr \cup {c[j]}
    BY <2>1, <2>3 DEF PluckedFree
  <2>18. PluckSays(r.flag, n, c, k, a, b)
    <3>1. CASE j <= k
      <4>1. j \in 1..k /\ c[j] = n /\ b = RemoveAt(a, j)
        BY <1>1, <2>1, <2>7, <2>17, <3>1
      <4>2. QED
        BY <2>3, <4>1 DEF PluckSays
    <3>2. CASE ~(j <= k)
      <4>1. j > k /\ j \in 1..Len(c) /\ c[j] = n /\ b = a
        BY <1>1, <2>1, <2>7, <2>17, <3>2
      <4>2. QED
        BY <2>3, <4>1 DEF PluckSays
    <3>3. QED
      BY <3>1, <3>2
  <2>16. QED
    BY <1>2, <1>9, <2>3, <2>10, <2>14, <2>15, <2>18
<1>8. QED
  BY <1>4, <1>5, <1>6, <1>7

(* ll_insert puts a node behind any but the first; behind the last, or     *)
(* behind a node that is linked after it, the listed sequence stays.       *)
InsertSays(flag, n, p, l, c, k, a, b) ==
  \/ flag = FALSE /\ \E i \in 1..k : c[i] = p /\ b = InsertAt(a, i + 1, n)
  \/ flag = FALSE /\ (p = l.bptr /\ p # l.fptr) /\ b = a
  \/ flag = FALSE /\ (\E i \in 1..Len(c) : i > k /\ c[i] = p) /\ b = a
  \/ flag = TRUE /\ (p = l.fptr \/ \A i \in 1..k : c[i] # p) /\ b = a
InsertedFree(r, fr, n) == IF r.flag THEN fr ELSE fr \ {n}

LEMMA InsertIs ==
  ASSUME NEW l, NEW fr, NEW d, NEW c, NEW k, Held(l, fr, d, c, k), NEW n \in fr, NEW p \in Nodes
  PROVE  \E b : /\ Keeps(ll_insert(l, p, n).l, InsertedFree(ll_insert(l, p, n), fr, n),
                        NewDrift(ll_insert(l, p, n).l, d, IF Mid(l, p) THEN -1 ELSE 0), b)
                /\ InsertSays(ll_insert(l, p, n).flag, n, p, l, c, k, AsFar(c, k), b)
<1>1. /\ l \in ListType /\ fr \subseteq Nodes /\ d \in 0..(CountMod - 1)
      /\ Chain(l, c, k) /\ l.cnt = Bump(k, d) /\ (\A i \in 1..Len(c) : c[i] \notin fr)
      /\ Len(c) \in Nat /\ k \in 0..Len(c) /\ k \in Int /\ c \in Seq(Nodes)
  BY HeldParts
<1>2. PICK r : r = ll_insert(l, p, n)
  OBVIOUS
<1>3. CASE Predecessor(l, p) = NULL
  <2>1. r.l = l /\ r.flag = TRUE
    BY <1>2, <1>3 DEF ll_insert
  <2>2. ~Mid(l, p) /\ InsertedFree(r, fr, n) = fr
    BY <1>1, <1>3, <2>1, Place DEF Mid, InsertedFree
  <2>3. PICK a : a = AsFar(c, k)
    OBVIOUS
  <2>4. Keeps(r.l, InsertedFree(r, fr, n), NewDrift(r.l, d, 0), a)
    BY <2>1, <2>2, <2>3, SameKeeps
  <2>5. p = l.fptr \/ \A i \in 1..k : c[i] # p
    <3>1. \A i \in 2..Len(c) : p # c[i]
      BY <1>1, <1>3, Place
    <3>2. k # 0 => c[1] = l.fptr
      BY <1>1, ChainEnds
    <3>3. QED
      BY <1>1, <3>1, <3>2
  <2>6. InsertSays(r.flag, n, p, l, c, k, a, a)
    BY <2>1, <2>5, Zenon DEF InsertSays
  <2>7. QED
    BY <1>2, <2>2, <2>3, <2>4, <2>6
<1>4. CASE Predecessor(l, p) # NULL
  <2>1. PICK j \in 2..Len(c) : p = c[j]
    BY <1>1, <1>4, Place
  <2>2. PICK m \in Nat : m = Len(c) /\ j \in 2..m /\ k \in 1..m
    <3>1. (Len(c) = 0) = (k = 0)
      BY <1>1, ChainParts
    <3>2. QED
      BY <1>1, <3>1
  <2>3. l.fptr = c[1] /\ l.bptr = c[k] /\ l.fptr # NULL
    BY <1>1, <2>2, ChainEnds
  <2>4. n \in Nodes /\ \A i \in 1..m : c[i] # n /\ c[i] \in Nodes
    BY <1>1, <2>2, ChainParts
  <2>5. PICK e : e = ll_ins0(l, p, n)
    OBVIOUS
  <2>6. r.l = e /\ r.flag = FALSE
    BY <1>2, <1>4, <2>5 DEF ll_insert
  <2>7. /\ e \in ListType /\ e.fptr = l.fptr /\ e.bptr = l.bptr /\ e.cnt = l.cnt
        /\ e.link = [[l.link EXCEPT ![n] = l.link[p]] EXCEPT ![p] = n]
    <3>1. e = [l EXCEPT !.link = [[l.link EXCEPT ![n] = l.link[p]] EXCEPT ![p] = n]]
      BY <2>5 DEF ll_ins0
    <3>2. [[l.link EXCEPT ![n] = l.link[p]] EXCEPT ![p] = n] \in [Nodes -> Nodes \cup {NULL}]
      BY <1>1, <2>4 DEF ListType
    <3>3. QED
      BY <1>1, <3>1, <3>2 DEF ListType
  <2>8. /\ e.link[n] = l.link[p] /\ e.link[p] = n
        /\ \A i \in 1..m : i # j => e.link[c[i]] = l.link[c[i]]
    <3>1. DOMAIN l.link = Nodes /\ p \in Nodes /\ n # p
      BY <1>1, <2>1, <2>2, <2>4 DEF ListType
    <3>2. \A i \in 1..m : i # j => c[i] # p
      BY <1>1, <2>1, <2>2, ChainParts
    <3>3. QED
      BY <2>4, <2>7, <3>1, <3>2
  <2>9. \A i \in 1..m : l.link[c[i]] = IF i = m THEN NULL ELSE c[i + 1]
    BY <1>1, <2>2, ChainEnds
  <2>10. PICK k2 \in Nat \ {0} : k2 = IF j < k THEN k + 1 ELSE k
    BY <2>2
  <2>11. PICK w : w = With(c, j + 1, n)
    OBVIOUS
  <2>12. w[1] = c[1] /\ w[k2] = c[k]
    <3>1. w = [i \in 1..(m + 1) |-> IF i < j + 1 THEN c[i] ELSE IF i = j + 1 THEN n ELSE c[i - 1]]
      BY <2>2, <2>11 DEF With
    <3>2. w[1] = c[1]
      BY <2>2, <3>1
    <3>3. CASE j < k
      BY <2>2, <2>10, <3>1, <3>2, <3>3
    <3>4. CASE ~(j < k)
      BY <2>2, <2>10, <3>1, <3>2, <3>4
    <3>5. QED
      BY <3>3, <3>4
  <2>13. Chain(e, w, k2)
    <3>1. IsInjective(c)
      BY <1>1, Zenon DEF Chain
    <3>2. j + 1 \in 1..(Len(c) + 1) /\ k2 \in 1..(Len(c) + 1)
      BY <2>2, <2>10
    <3>3. \A i \in 1..Len(c) : c[i] # n
      BY <2>2, <2>4
    <3>4. e.link[n] = IF j + 1 = Len(c) + 1 THEN NULL ELSE c[j + 1]
      BY <2>1, <2>2, <2>8, <2>9
    <3>5. \A i \in 1..Len(c) : e.link[c[i]] = IF i = (j + 1) - 1 THEN n ELSE IF i = Len(c) THEN NULL ELSE c[i + 1]
      BY <2>1, <2>2, <2>8, <2>9
    <3>6. e.fptr = With(c, j + 1, n)[1] /\ e.bptr = With(c, j + 1, n)[k2]
      BY <2>3, <2>7, <2>11, <2>12
    <3>7. Chain(e, With(c, j + 1, n), k2)
      BY <1>1, <2>4, <3>1, <3>2, <3>3, <3>4, <3>5, <3>6, Put
    <3>8. QED
      BY <2>11, <3>7
  <2>14. PICK d2 : d2 = NewDrift(e, d, IF Mid(l, p) THEN -1 ELSE 0)
    OBVIOUS
  <2>15. Mid(l, p) = (j < k)
    BY <1>1, <2>1, MiddleIs DEF Mid
  <2>16. d2 = IF j < k THEN Bump(d, -1) ELSE d
    BY <1>1, <2>3, <2>7, <2>14, <2>15, Drifting DEF NewDrift
  <2>17. d2 \in 0..(CountMod - 1) /\ e.cnt = Bump(k2, d2)
    BY <1>1, <2>7, <2>10, <2>16, Drifting
  <2>18. PICK a \in Seq(Nodes) : a = AsFar(c, k) /\ Len(a) = k
    BY <1>1, FarIs
  <2>23. PICK b : b = IF j < k THEN InsertAt(a, j + 1, n) ELSE a
    OBVIOUS
  <2>24. AsFar(w, k2) = b
    <3>1. j + 1 \in 1..(Len(c) + 1) /\ k \in 0..Len(c)
      BY <2>2
    <3>2. CASE j < k
      <4>1. AsFar(w, k2) = With(a, j + 1, n)
        BY <1>1, <2>2, <2>4, <2>10, <2>11, <2>18, <3>1, <3>2, FarWith
      <4>2. j + 1 \in 1..(Len(a) + 1)
        BY <2>2, <2>18, <3>2
      <4>3. InsertAt(a, j + 1, n) = With(a, j + 1, n)
        BY <2>4, <4>2, SeqWith
      <4>4. QED
        BY <2>23, <3>2, <4>1, <4>3
    <3>3. CASE ~(j < k)
      <4>1. AsFar(w, k2) = a
        BY <1>1, <2>2, <2>4, <2>10, <2>11, <2>18, <3>1, <3>3, FarWith
      <4>2. QED
        BY <2>23, <3>3, <4>1
    <3>4. QED
      BY <3>2, <3>3
  <2>25. InsertSays(r.flag, n, p, l, c, k, a, b)
    <3>1. CASE j < k
      <4>1. j \in 1..k /\ c[j] = p /\ b = InsertAt(a, j + 1, n)
        BY <2>1, <2>2, <2>23, <3>1
      <4>2. QED
        BY <2>6, <4>1 DEF InsertSays
    <3>2. CASE j = k
      <4>1. p = l.bptr /\ b = a /\ ~(j < k)
        BY <2>1, <2>2, <2>3, <2>23, <3>2
      <4>2. c[j] # c[1]
        BY <1>1, <2>2, ChainParts
      <4>3. p # l.fptr
        BY <2>1, <2>3, <4>2
      <4>4. QED
        BY <2>6, <4>1, <4>3 DEF InsertSays
    <3>3. CASE j > k
      <4>1. j \in 1..Len(c) /\ c[j] = p /\ b = a
        BY <2>1, <2>2, <2>23, <3>3
      <4>2. QED
        BY <2>6, <3>3, <4>1 DEF InsertSays
    <3>4. QED
      BY <2>2, <3>1, <3>2, <3>3
  <2>19. j + 1 \in 1..(Len(c) + 1)
    BY <2>2
  <2>20. Keeps(e, fr \ {n}, d2, b)
    BY <1>1, <2>7, <2>10, <2>11, <2>13, <2>17, <2>19, <2>24, HeldWith
  <2>21. InsertedFree(r, fr, n) = fr \ {n}
    BY <2>6 DEF InsertedFree
  <2>22. QED
    BY <1>2, <2>6, <2>14, <2>18, <2>20, <2>21, <2>25
<1>5. QED
  BY <1>3, <1>4

(* ll_drain calls ll_getfront for each node of the list.                   *)
LEMMA GetFrontType == ASSUME NEW l \in ListType PROVE ll_getfront(l) \in ListType
<1>1. CASE l.fptr = NULL
  BY <1>1 DEF ll_getfront
<1>2. CASE l.fptr # NULL /\ l.fptr = l.bptr
  <2>1. ll_getfront(l) = ll_init(l)
    BY <1>2 DEF ll_getfront
  <2>2. QED
    BY <2>1, Emptied
<1>3. CASE l.fptr # NULL /\ l.fptr # l.bptr
  <2>1. ll_getfront(l) = [l EXCEPT !.fptr = l.link[l.fptr], !.cnt = Bump(l.cnt, -1)]
    BY <1>3 DEF ll_getfront
  <2>2. l.link[l.fptr] \in Nodes \cup {NULL}
    BY <1>3 DEF ListType
  <2>3. Bump(l.cnt, -1) \in 0..(CountMod - 1)
    BY Counted
  <2>4. QED
    BY <2>1, <2>2, <2>3 DEF ListType
<1>4. QED
  BY <1>1, <1>2, <1>3

LEMMA DrainIs ==
  ASSUME NEW l \in ListType, NEW c, NEW k, Chain(l, c, k)
  PROVE  /\ ll_drain(l) \in ListType /\ Chain(ll_drain(l), <<>>, 0)
         /\ ll_drain(l).cnt = IF k = 0 THEN l.cnt ELSE 0
<1> DEFINE N == Len(Listed(l))
           F == [x \in (1..N) \X ListType |-> ll_getfront(x[2])]
           Is(f) == f = [i \in 0..N |-> IF i = 0 THEN l ELSE ll_getfront(f[i - 1])]
           at == CHOOSE f : Is(f)
           Left(e, m) == /\ e \in ListType /\ \E q : Chain(e, q, m)
                         /\ e.cnt = 0 \/ m # 0 \/ k = 0
<1>1. N = k /\ k \in Nat /\ N \in Nat
  <2>1. k \in 0..Len(c) /\ Len(c) \in Nat
    BY ChainParts
  <2>2. k \in Nat
    BY <2>1
  <2>3. QED
    BY <2>2, ListedIs
<1>2. \E f : Is(f)
  <2> HIDE DEF F, N
  <2>1. F \in [(1..N) \X ListType -> ListType]
    <3>1. \A x \in (1..N) \X ListType : x[2] \in ListType
      OBVIOUS
    <3>2. \A x \in (1..N) \X ListType : ll_getfront(x[2]) \in ListType
      BY <3>1, GetFrontType
    <3>3. QED
      BY <3>2 DEF F
  <2>2. PICK f : Follows(f, F, N, ListType, l)
    <3>1. IsRule(F, N, ListType)
      BY <2>1 DEF IsRule
    <3>2. QED
      BY <1>1, <3>1, Recursion
  <2>3. f \in [0..N -> ListType] /\ f[0] = l /\ \A i \in 1..N : f[i] = F[<<i, f[i - 1]>>]
    BY <2>2 DEF Follows
  <2>4. ASSUME NEW i \in 1..N PROVE f[i] = ll_getfront(f[i - 1])
    <3>1. i - 1 \in 0..N
      BY <1>1
    <3>2. <<i, f[i - 1]>> \in (1..N) \X ListType
      BY <2>3, <3>1
    <3>3. F[<<i, f[i - 1]>>] = ll_getfront(f[i - 1])
      BY <3>2 DEF F
    <3>4. QED
      BY <2>3, <3>3
  <2>5. \A i \in 0..N : f[i] = IF i = 0 THEN l ELSE ll_getfront(f[i - 1])
    BY <1>1, <2>3, <2>4
  <2>6. f = [i \in 0..N |-> f[i]]
    BY <2>3
  <2>7. Is(f)
    BY <2>5, <2>6
  <2>8. QED
    BY <2>7
<1>3. Is(at)
  <2> HIDE DEF Is
  <2>1. QED
    BY <1>2
<1>4. \A i \in 0..N : Left(at[i], k - i)
  <2> DEFINE T == {i \in 0..N : Left(at[i], k - i)}
  <2>1. 0 \in T
    <3>1. at[0] = l /\ 0 \in 0..N /\ k - 0 = k
      <4> HIDE DEF at, N
      <4>1. QED
        BY <1>1, <1>3
    <3>2. Left(l, k)
      OBVIOUS
    <3>3. QED
      BY <3>1, <3>2
  <2>2. ASSUME NEW i \in 0..(N - 1), i \in T PROVE i + 1 \in T
    <3> HIDE DEF at, N
    <3>1. i + 1 \in 1..N /\ (i + 1) - 1 = i /\ i + 1 \in 0..N /\ k - i \in Nat \ {0} /\ k - (i + 1) = (k - i) - 1
      BY <1>1
    <3>2. at[i + 1] = ll_getfront(at[i])
      <4>1. \A j \in 0..N : at[j] = IF j = 0 THEN l ELSE ll_getfront(at[j - 1])
        BY <1>3, Zenon
      <4>2. i + 1 # 0
        OBVIOUS
      <4>3. at[i + 1] = ll_getfront(at[(i + 1) - 1])
        BY <3>1, <4>1, <4>2, Zenon
      <4>4. QED
        BY <3>1, <4>3, Zenon
    <3>3. PICK e, q : e = at[i] /\ e \in ListType /\ Chain(e, q, k - i)
      BY <2>2
    <3>4. PICK m \in Nat \ {0} : m = k - i
      BY <3>1
    <3>5. Left(ll_getfront(e), m - 1)
      <4>1. ll_getfront(e) \in ListType
        BY <3>3, GetFrontType
      <4>2. CASE m = 1
        <5>1. Chain(ll_getfront(e), <<>>, 0) /\ ll_getfront(e).cnt = 0 /\ m - 1 = 0
          BY <3>3, <3>4, <4>2, GetFrontIs
        <5>2. QED
          BY <4>1, <5>1
      <4>3. CASE m > 1
        <5>1. Chain(ll_getfront(e), Without(q, 1), m - 1) /\ m - 1 # 0
          BY <3>3, <3>4, <4>3, GetFrontIs
        <5>2. QED
          BY <4>1, <5>1
      <4>4. QED
        BY <4>2, <4>3
    <3>6. Left(at[i + 1], k - (i + 1))
      BY <3>1, <3>2, <3>3, <3>4, <3>5
    <3>7. QED
      BY <3>1, <3>6
  <2>3. \A i \in 0..N : i \in T
    <3> HIDE DEF T, N
    <3>1. QED
      BY <1>1, <2>1, <2>2, UpTo
  <2>4. QED
    BY <2>3
<1>5. PICK e : e = at[N]
  OBVIOUS
<1>6. Left(e, 0)
  <2>1. N \in 0..N /\ k - N = 0
    <3> HIDE DEF N
    <3>1. QED
      BY <1>1
  <2>2. Left(at[N], k - N)
    BY <1>4, <2>1
  <2>3. QED
    BY <1>5, <2>1, <2>2
<1>7. PICK q : Chain(e, q, 0)
  BY <1>6
<1>8. q = <<>>
  <2>1. q \in Seq(Nodes) /\ Len(q) = 0
    BY <1>7, ChainParts
  <2>2. QED
    BY <2>1
<1>9. ll_drain(l) = e
  BY <1>5 DEF ll_drain
<1>10. k = 0 => e = l
  <2> HIDE DEF at, N
  <2>1. QED
    BY <1>1, <1>3, <1>5
<1>11. QED
  BY <1>6, <1>7, <1>8, <1>9, <1>10

LEMMA DrainKeeps ==
  ASSUME NEW l, NEW fr, NEW d, NEW c, NEW k, Held(l, fr, d, c, k)
  PROVE  Keeps(ll_drain(l), fr \cup ToSet(Listed(l)), 0, <<>>)
<1>1. /\ l \in ListType /\ fr \subseteq Nodes /\ Chain(l, c, k) /\ l.cnt = Bump(k, d) /\ (k = 0 => d = 0)
  BY HeldParts
<1>2. PICK e : e = ll_drain(l)
  OBVIOUS
<1>3. k = 0 => l.cnt = 0
  BY <1>1, ListLimits DEF Bump
<1>4. e \in ListType /\ Chain(e, <<>>, 0) /\ e.cnt = 0
  BY <1>1, <1>2, <1>3, DrainIs
<1>5. ToSet(Listed(l)) \subseteq Nodes
  <2>1. Listed(l) \in Seq(Nodes)
    BY <1>1, ListedIs
  <2>2. QED
    BY <2>1 DEF ToSet
<1>6. PICK f : f = fr \cup ToSet(Listed(l)) /\ f \subseteq Nodes
  BY <1>1, <1>5
<1>7. Held(e, f, 0, <<>>, 0)
  BY <1>4, <1>6, HeldEmpty
<1>8. AsFar(<<>>, 0) = <<>>
  BY DEF AsFar
<1>9. QED
  BY <1>2, <1>6, <1>7, <1>8 DEF Keeps

(***************************************************************************)
(* The specification.                                                      *)
(***************************************************************************)
LEMMA InitList == LLInit => LLInd /\ Listed(list) = <<>>
<1>1. SUFFICES ASSUME LLInit PROVE LLInd /\ Listed(list) = <<>>
  OBVIOUS
<1>2. PICK e : e = [fptr |-> NULL, bptr |-> NULL, cnt |-> 0, link |-> [n \in Nodes |-> NULL]]
  OBVIOUS
<1>3. e \in ListType
  <2>1. 0 \in 0..(CountMod - 1)
    BY ListLimits
  <2>2. QED
    BY <1>2, <2>1 DEF ListType
<1>4. list = ll_init(e) /\ free = Nodes /\ drift = 0
  BY <1>1, <1>2 DEF LLInit
<1>5. list \in ListType /\ Chain(list, <<>>, 0) /\ list.cnt = 0
  BY <1>3, <1>4, Emptied
<1>6. Held(list, free, drift, <<>>, 0)
  BY <1>4, <1>5, HeldEmpty
<1>7. Listed(list) = <<>>
  <2>1. Listed(list) \in Seq(Nodes) /\ Len(Listed(list)) = 0
    BY <1>5, ListedIs
  <2>2. QED
    BY <2>1
<1>8. QED
  BY <1>6, <1>7 DEF LLInd

(* A sequence without its first element, and without its last.            *)
LEMMA FirstRemoved ==
  ASSUME NEW s \in Seq(Nodes), Len(s) # 0
  PROVE  RemoveAt(s, 1) = Tail(s)
<1>1. PICK n \in Nat \ {0} : n = Len(s) /\ 1 \in 1..n
  OBVIOUS
<1>2. RemoveAt(s, 1) = Without(s, 1)
  BY <1>1, SeqWithout
<1>3. Without(s, 1) = [i \in 1..(n - 1) |-> s[i + 1]]
  BY <1>1 DEF Without
<1>4. Tail(s) = [i \in 1..(n - 1) |-> s[i + 1]]
  <2>1. PICK t : t = Tail(s)
    OBVIOUS
  <2>2. t \in Seq(Nodes) /\ Len(t) = n - 1 /\ \A i \in 1..(n - 1) : t[i] = s[i + 1]
    BY <1>1, <2>1
  <2>3. DOMAIN t = 1..(n - 1) /\ t = [i \in DOMAIN t |-> t[i]]
    BY <1>1, <2>2
  <2>4. QED
    BY <2>1, <2>2, <2>3
<1>5. QED
  BY <1>2, <1>3, <1>4

LEMMA LastRemoved ==
  ASSUME NEW s \in Seq(Nodes), NEW n, n = Len(s), n # 0
  PROVE  RemoveAt(s, n) = Front(s)
<1>1. n \in Nat \ {0} /\ n \in 1..n
  OBVIOUS
<1>2. RemoveAt(s, n) = Without(s, n)
  BY <1>1, SeqWithout
<1>3. Without(s, n) = [i \in 1..(n - 1) |-> s[i]]
  BY <1>1 DEF Without
<1>4. Front(s) = [i \in 1..(n - 1) |-> s[i]]
  <2>1. PICK t : t = SubSeq(s, 1, n - 1)
    OBVIOUS
  <2>2. t \in Seq(Nodes) /\ Len(t) = n - 1 /\ \A i \in 1..(n - 1) : t[i] = s[i]
    BY <1>1, <2>1
  <2>3. DOMAIN t = 1..(n - 1) /\ t = [i \in DOMAIN t |-> t[i]]
    BY <1>1, <2>2
  <2>4. Front(s) = t
    BY <2>1 DEF Front
  <2>5. QED
    BY <2>2, <2>3, <2>4
<1>5. QED
  BY <1>2, <1>3, <1>4

(* A kept state, and what is listed before and after.                      *)
LEMMA KeptStep ==
  ASSUME NEW c, NEW k, Held(list, free, drift, c, k), NEW b, Keeps(list', free', drift', b)
  PROVE  LLInd' /\ Listed(list) = AsFar(c, k) /\ Listed(list') = b
<1>1. PICK e, m : Held(list', free', drift', e, m) /\ AsFar(e, m) = b
  BY DEF Keeps
<1>2. list \in ListType /\ Chain(list, c, k) /\ list' \in ListType /\ Chain(list', e, m)
  BY <1>1, HeldParts
<1>3. Listed(list) = AsFar(c, k) /\ Listed(list') = AsFar(e, m)
  BY <1>2, ListedIs DEF AsFar
<1>4. LLInd'
  BY <1>1 DEF LLInd, Held, Chain
<1>5. QED
  BY <1>1, <1>3, <1>4

(* The abstract list of the state: its helpers, its sequence and who is on *)
(* it, and the nodes that are linked behind it.                            *)
LEMMA ListHelpers ==
  \A s, i, e : /\ NL!RemoveAt(s, i) = RemoveAt(s, i) /\ NL!InsertAt(s, i, e) = InsertAt(s, i, e)
              /\ NL!ToSet(s) = ToSet(s) /\ NL!Front(s) = Front(s) /\ NL!Last(s) = Last(s)
BY DEF NL!RemoveAt, RemoveAt, NL!InsertAt, InsertAt, NL!ToSet, ToSet, NL!Front, Front, NL!Last, Last

LEMMA OnIs ==
  ASSUME NEW c, NEW k, Held(list, free, drift, c, k)
  PROVE  /\ \A n : NL!On(n) <=> \E i \in 1..k : c[i] = n
         /\ \A n \in free : \A i \in 1..k : c[i] # n
         /\ \A n : (\E i \in 1..Len(c) : i > k /\ c[i] = n) => Stray(n)
<1>1. /\ list \in ListType /\ Chain(list, c, k) /\ (\A i \in 1..Len(c) : c[i] \notin free)
      /\ Len(c) \in Nat /\ k \in 0..Len(c) /\ c \in Seq(Nodes)
  BY HeldParts
<1>2. PICK a : a = Listed(list)
  OBVIOUS
<1>3. a = [i \in 1..k |-> c[i]]
  BY <1>1, <1>2, ListedIs
<1>4. ToSet(a) = {c[i] : i \in 1..k}
  BY <1>3 DEF ToSet
<1>5. \A n : NL!On(n) <=> \E i \in 1..k : c[i] = n
  BY <1>2, <1>4, ListHelpers DEF NL!On
<1>6. \A i \in 1..k : i \in 1..Len(c)
  BY <1>1
<1>7. ASSUME NEW n, NEW i \in 1..Len(c), i > k, c[i] = n PROVE Stray(n)
  <2>1. ToSet(Linked(list)) = {c[h] : h \in 1..Len(c)}
    BY <1>1, Walk DEF ToSet
  <2>2. \A h \in 1..k : c[h] # c[i]
    <3>1. \A h \in 1..Len(c) : c[h] = c[i] => h = i
      BY <1>1, <1>7, ChainParts
    <3>2. QED
      BY <1>1, <1>7, <3>1
  <2>3. QED
    BY <1>2, <1>4, <1>7, <2>1, <2>2 DEF Stray
<1>8. QED
  BY <1>1, <1>5, <1>6, <1>7

(* A call is a step of the abstract list with the same value, or deviates. *)
Says == [NL!Next \/ Deviates]_<<Listed(list), last>>

LEMMA NextList == LLInd /\ [LLNext]_llvars => LLInd' /\ Says
<1>1. SUFFICES ASSUME LLInd, [LLNext]_llvars PROVE LLInd' /\ Says
  OBVIOUS
<1>2. PICK c, k : Held(list, free, drift, c, k)
  BY <1>1 DEF LLInd
<1>3. /\ list \in ListType /\ Chain(list, c, k) /\ k \in 0..Len(c) /\ Len(c) \in Nat /\ free \subseteq Nodes
      /\ (\A i \in 1..Len(c) : c[i] \notin free)
  BY <1>2, HeldParts
<1>4. PICK a : a = AsFar(c, k) /\ a = Listed(list)
  BY <1>3, ListedIs DEF AsFar
<1>5. a \in Seq(Nodes) /\ Len(a) = k /\ DOMAIN a = 1..k /\ \A i \in 1..k : a[i] = c[i]
  <2>1. /\ AsFar(c, k) \in Seq(Nodes) /\ Len(AsFar(c, k)) = k /\ DOMAIN AsFar(c, k) = 1..k
        /\ \A i \in 1..k : AsFar(c, k)[i] = c[i]
    BY <1>3, FarIs
  <2>2. a = AsFar(c, k)
    BY <1>4
  <2>3. QED
    BY <2>1, <2>2
<1>6. (Listed(list))' = Listed(list')
  OBVIOUS
<1>7. CASE GetFront
  <2>1. PICK b : b = IF k = 0 THEN a ELSE RemoveAt(a, 1)
    OBVIOUS
  <2>2. drift' = NewDrift(ll_getfront(list), drift, 0)
    BY <1>7 DEF GetFront, Drifted, NewDrift
  <2>3. Keeps(list', free', drift', b)
    BY <1>2, <1>4, <1>7, <2>1, <2>2, GetFrontKeeps DEF GetFront
  <2>4. LLInd' /\ Listed(list') = b
    BY <1>2, <2>3, KeptStep
  <2>5. NL!GetFront
    <3>1. CASE k = 0
      <4>1. a = <<>> /\ b = a /\ list.fptr = NULL
        BY <1>3, <1>5, <2>1, <3>1, ChainEnds
      <4>2. QED
        BY <1>4, <1>6, <1>7, <2>4, <4>1 DEF NL!GetFront, NL!Called, GetFront, Called
    <3>2. CASE k # 0
      <4>1. a # <<>> /\ list.fptr = Head(a)
        BY <1>3, <1>5, <3>2, ChainEnds
      <4>2. RemoveAt(a, 1) = Tail(a)
        BY <1>5, <3>2, <1>3, FirstRemoved
      <4>3. QED
        BY <1>4, <1>6, <1>7, <2>1, <2>4, <3>2, <4>1, <4>2 DEF NL!GetFront, NL!Called, GetFront, Called
    <3>3. QED
      BY <3>1, <3>2
  <2>6. QED
    BY <2>4, <2>5 DEF Says, NL!Next
<1>8. CASE GetBack
  <2>1. PICK b : b = IF k = 0 THEN a ELSE RemoveAt(a, k)
    OBVIOUS
  <2>2. PICK node : node = IF list.fptr = NULL THEN NULL ELSE list.bptr
    OBVIOUS
  <2>3. node = list.bptr /\ (k = 0 => node = NULL) /\ (k # 0 => node = c[k] /\ k \in 1..k)
    BY <1>3, <2>2, ChainEnds
  <2>4. /\ list' = ll_getback(list) /\ free' = free \cup ({node} \ {NULL}) /\ Called("ll_getback", <<>>, node)
        /\ drift' = NewDrift(ll_getback(list), drift, 0)
    BY <1>8, <2>2 DEF GetBack, Drifted, NewDrift
  <2>5. Keeps(list', free', drift', b)
    BY <1>2, <1>4, <2>1, <2>3, <2>4, GetBackKeeps
  <2>6. LLInd' /\ Listed(list') = b
    BY <1>2, <2>5, KeptStep
  <2>7. NL!GetBack
    <3>1. CASE k = 0
      <4>1. a = <<>> /\ b = a /\ node = NULL
        BY <1>5, <2>1, <2>3, <3>1
      <4>2. QED
        BY <1>4, <1>6, <2>4, <2>6, <4>1 DEF NL!GetBack, NL!Called, Called
    <3>2. CASE k # 0
      <4>1. a # <<>> /\ node = Last(a)
        BY <1>5, <2>3, <3>2 DEF Last
      <4>2. RemoveAt(a, k) = Front(a)
        BY <1>5, <3>2, <1>3, LastRemoved
      <4>3. QED
        BY <1>4, <1>6, <2>1, <2>4, <2>6, <3>2, <4>1, <4>2, ListHelpers DEF NL!GetBack, NL!Called, Called
    <3>3. QED
      BY <3>1, <3>2
  <2>8. QED
    BY <2>6, <2>7 DEF Says, NL!Next
<1>9. CASE Drain
  <2>1. Keeps(list', free', drift', <<>>)
    BY <1>2, <1>9, DrainKeeps DEF Drain
  <2>2. LLInd' /\ Listed(list') = <<>>
    BY <1>2, <2>1, KeptStep
  <2>3. NL!Drain
    BY <1>6, <1>9, <2>2 DEF NL!Drain, NL!Called, Drain, Called
  <2>4. QED
    BY <2>2, <2>3 DEF Says, NL!Next
<1>10. ASSUME NEW n \in Nodes, Add(n) PROVE LLInd' /\ Says
  <2>1. n \in free /\ free' = free \ {n} /\ drift' = drift
    BY <1>10 DEF Add
  <2>2. ~NL!On(n)
    BY <1>2, <2>1, OnIs
  <2>3. CASE list' = ll_addfront(list, n) /\ Called("ll_addfront", <<n>>, NULL)
    <3>1. Keeps(list', free', drift', <<n>> \o a)
      BY <1>2, <1>4, <2>1, <2>3, AddFrontKeeps
    <3>2. LLInd' /\ Listed(list') = <<n>> \o a
      BY <1>2, <3>1, KeptStep
    <3>3. NL!AddFront(n)
      BY <1>4, <1>6, <2>2, <2>3, <3>2 DEF NL!AddFront, NL!Called, Called
    <3>4. QED
      BY <3>2, <3>3 DEF Says, NL!Next
  <2>4. CASE list' = ll_addback(list, n) /\ Called("ll_addback", <<n>>, NULL)
    <3>1. Keeps(list', free', drift', Append(a, n))
      BY <1>2, <1>4, <2>1, <2>4, AddBackKeeps
    <3>2. LLInd' /\ Listed(list') = Append(a, n)
      BY <1>2, <3>1, KeptStep
    <3>3. NL!AddBack(n)
      BY <1>4, <1>6, <2>2, <2>4, <3>2 DEF NL!AddBack, NL!Called, Called
    <3>4. QED
      BY <3>2, <3>3 DEF Says, NL!Next
  <2>5. QED
    BY <1>10, <2>3, <2>4 DEF Add
<1>11. ASSUME NEW n \in Nodes, Pluck(n) PROVE LLInd' /\ Says
  <2>1. PICK r : r = ll_pluck(list, n)
    OBVIOUS
  <2>2. /\ list' = r.l /\ free' = PluckedFree(r, free, n) /\ drift' = NewDrift(r.l, drift, IF Mid(list, n) THEN 1 ELSE 0)
        /\ Called("ll_pluck", <<n>>, r.flag)
    BY <1>11, <2>1 DEF Pluck, Drifted, NewDrift, Middle, Mid, PluckedFree
  <2>3. PICK b : Keeps(list', free', drift', b) /\ PluckSays(r.flag, n, c, k, a, b)
    <3>1. \E b : /\ Keeps(ll_pluck(list, n).l, PluckedFree(ll_pluck(list, n), free, n),
                         NewDrift(ll_pluck(list, n).l, drift, IF Mid(list, n) THEN 1 ELSE 0), b)
                 /\ PluckSays(ll_pluck(list, n).flag, n, c, k, AsFar(c, k), b)
      BY <1>2, <2>2, PluckIs
    <3>2. a = AsFar(c, k)
      BY <1>4
    <3>3. QED
      BY <2>1, <2>2, <3>1, <3>2, Zenon
  <2>4. LLInd' /\ Listed(list') = b
    BY <1>2, <2>3, KeptStep
  <2>5. CASE r.flag = FALSE /\ \E i \in 1..k : c[i] = n /\ b = RemoveAt(a, i)
    <3>1. NL!Pluck(n)
      BY <1>4, <1>5, <1>6, <2>2, <2>4, <2>5, ListHelpers DEF NL!Pluck, NL!Called, Called
    <3>2. QED
      BY <2>4, <3>1 DEF Says, NL!Next
  <2>6. CASE r.flag = FALSE /\ (\E i \in 1..Len(c) : i > k /\ c[i] = n) /\ b = a
    <3>1. Stray(n)
      BY <1>2, <2>6, OnIs
    <3>2. Deviates
      BY <1>4, <1>6, <2>2, <2>4, <2>6, <3>1 DEF Deviates
    <3>3. QED
      BY <2>4, <3>2 DEF Says
  <2>7. CASE r.flag = TRUE /\ (\A i \in 1..k : c[i] # n) /\ b = a
    <3>1. ~NL!On(n)
      BY <1>2, <2>7, OnIs
    <3>2. NL!Pluck(n)
      BY <1>4, <1>6, <2>2, <2>4, <2>7, <3>1 DEF NL!Pluck, NL!Called, Called
    <3>3. QED
      BY <2>4, <3>2 DEF Says, NL!Next
  <2>8. QED
    BY <2>3, <2>5, <2>6, <2>7, Zenon DEF PluckSays
<1>12. ASSUME NEW n \in Nodes, NEW p \in Nodes, Insert(p, n) PROVE LLInd' /\ Says
  <2>1. PICK r : r = ll_insert(list, p, n)
    OBVIOUS
  <2>2. /\ n \in free /\ list' = r.l /\ free' = InsertedFree(r, free, n)
        /\ drift' = NewDrift(r.l, drift, IF Mid(list, p) THEN -1 ELSE 0)
        /\ Called("ll_insert", <<p, n>>, r.flag)
    BY <1>12, <2>1 DEF Insert, Drifted, NewDrift, Middle, Mid, InsertedFree
  <2>3. PICK b : Keeps(list', free', drift', b) /\ InsertSays(r.flag, n, p, list, c, k, a, b)
    <3>1. \E b : /\ Keeps(ll_insert(list, p, n).l, InsertedFree(ll_insert(list, p, n), free, n),
                         NewDrift(ll_insert(list, p, n).l, drift, IF Mid(list, p) THEN -1 ELSE 0), b)
                 /\ InsertSays(ll_insert(list, p, n).flag, n, p, list, c, k, AsFar(c, k), b)
      BY <1>2, <2>2, InsertIs
    <3>2. a = AsFar(c, k)
      BY <1>4
    <3>3. QED
      BY <2>1, <2>2, <3>1, <3>2, Zenon
  <2>4. LLInd' /\ Listed(list') = b
    BY <1>2, <2>3, KeptStep
  <2>5. ~NL!On(n)
    BY <1>2, <2>2, OnIs
  <2>6. CASE r.flag = FALSE /\ \E i \in 1..k : c[i] = p /\ b = InsertAt(a, i + 1, n)
    <3>1. NL!Insert(p, n)
      BY <1>4, <1>5, <1>6, <2>2, <2>4, <2>5, <2>6, ListHelpers DEF NL!Insert, NL!Called, Called
    <3>2. QED
      BY <2>4, <3>1 DEF Says, NL!Next
  <2>7. CASE r.flag = FALSE /\ (p = list.bptr /\ p # list.fptr) /\ b = a
    <3>1. Deviates
      BY <1>4, <1>6, <2>2, <2>4, <2>7 DEF Deviates
    <3>2. QED
      BY <2>4, <3>1 DEF Says
  <2>8. CASE r.flag = FALSE /\ (\E i \in 1..Len(c) : i > k /\ c[i] = p) /\ b = a
    <3>1. Stray(p)
      BY <1>2, <2>8, OnIs
    <3>2. Deviates
      BY <1>4, <1>6, <2>2, <2>4, <2>8, <3>1 DEF Deviates
    <3>3. QED
      BY <2>4, <3>2 DEF Says
  <2>9. CASE r.flag = TRUE /\ p = list.fptr /\ b = a
    <3>1. Deviates
      BY <1>4, <1>6, <2>2, <2>4, <2>9 DEF Deviates
    <3>2. QED
      BY <2>4, <3>1 DEF Says
  <2>10. CASE r.flag = TRUE /\ (\A i \in 1..k : c[i] # p) /\ b = a
    <3>1. ~NL!On(p)
      BY <1>2, <2>10, OnIs
    <3>2. NL!Insert(p, n)
      BY <1>4, <1>6, <2>2, <2>4, <2>5, <2>10, <3>1 DEF NL!Insert, NL!Called, Called
    <3>3. QED
      BY <2>4, <3>2 DEF Says, NL!Next
  <2>11. QED
    BY <2>3, <2>6, <2>7, <2>8, <2>9, <2>10, Zenon DEF InsertSays
<1>13. CASE UNCHANGED llvars
  <2>1. list' = list /\ free' = free /\ drift' = drift /\ last' = last
    BY <1>13 DEF llvars
  <2>2. Keeps(list', free', drift', a)
    BY <1>2, <1>4, <2>1 DEF Keeps
  <2>3. LLInd' /\ Listed(list') = a
    BY <1>2, <2>2, KeptStep
  <2>4. QED
    BY <2>1, <2>3 DEF Says
<1>14. QED
  BY <1>1, <1>7, <1>8, <1>9, <1>10, <1>11, <1>12, <1>13 DEF LLNext

(* The inductive invariant gives the one that is checked.                  *)
LEMMA ListIs == LLInd => LLInv
<1>1. SUFFICES ASSUME NEW c, NEW k, Held(list, free, drift, c, k) PROVE LLInv
  BY DEF LLInd
<1>2. /\ list \in ListType /\ free \subseteq Nodes /\ drift \in 0..(CountMod - 1)
      /\ Chain(list, c, k) /\ list.cnt = Bump(k, drift) /\ (k = 0 => drift = 0)
      /\ (\A i \in 1..Len(c) : c[i] \notin free)
  BY <1>1, HeldParts
<1>3. PICK m \in Nat : m = Len(c) /\ k \in 0..m /\ (m = 0) = (k = 0) /\ c \in Seq(Nodes) /\ DOMAIN c = 1..m
  BY <1>2, ChainParts
<1>4. Linked(list) = c /\ Len(Listed(list)) = k
  BY <1>2, Walk, ListedIs
<1>5. (list.fptr = NULL) = (list.bptr = NULL) /\ (list.fptr = NULL) = (k = 0)
  BY <1>2, ChainEnds
<1>6. IsInjective(c)
  BY <1>2, Zenon DEF Chain
<1>7. ASSUME list.fptr # NULL PROVE list.bptr \in ToSet(c) /\ list.link[Last(c)] = NULL
  <2>1. k \in 1..m /\ m \in 1..m /\ list.bptr = c[k]
    BY <1>2, <1>3, <1>5, <1>7, ChainEnds
  <2>2. Last(c) = c[m]
    BY <1>3 DEF Last
  <2>3. list.link[c[m]] = NULL
    BY <1>2, <1>3, <2>1, ChainEnds
  <2>4. list.bptr \in ToSet(c)
    BY <1>3, <2>1 DEF ToSet
  <2>5. QED
    BY <2>2, <2>3, <2>4
<1>8. ToSet(c) \cap free = {}
  BY <1>2, <1>3 DEF ToSet
<1>9. QED
  BY <1>2, <1>4, <1>5, <1>6, <1>7, <1>8 DEF LLInv, LLTypeOK

(* The links form one chain, apart from the application's nodes, and the   *)
(* count is off by what was plucked from and inserted into the middle      *)
(* (llacc.c:125-395).                                                      *)
THEOREM OneChain == LLSpec => []LLInv
<1>1. LLInit => LLInd
  BY InitList
<1>2. LLInd /\ [LLNext]_llvars => LLInd'
  BY NextList
<1>3. QED
  BY <1>1, <1>2, ListIs, PTL DEF LLSpec

(* Up to the back pointer the list is the sequence of nodes that the       *)
(* comments of llacc.c promise, and every call returns what they say, but  *)
(* for three: an insertion behind the first node, which is refused, one    *)
(* behind the last, which is not seen, and the removal of a node so placed.*)
THEOREM ListRefines == LLSpec => ImplementsList
<1>1. LLInit => LLInd /\ NL!Init
  BY InitList DEF NL!Init, LLInit
<1>2. LLInd /\ [LLNext]_llvars => LLInd' /\ [NL!Next \/ Deviates]_<<Listed(list), last>>
  BY NextList DEF Says
<1>3. QED
  BY <1>1, <1>2, PTL DEF LLSpec, ImplementsList

(***************************************************************************)
(* The settings (appenv.c, sysconfig.c).                                   *)
(***************************************************************************)

(* A record of the two copies of the settings: both hold variables, and    *)
(* they agree on those the registry has, as far as a value fits, unless    *)
(* the environment has none.                                               *)
Agree(s) ==
  /\ s = [env |-> s.env, vartree |-> s.vartree, alive |-> s.alive]
  /\ s.env = [v \in Variables |-> s.env[v]]
  /\ s.vartree = [v \in DOMAIN s.vartree |-> s.vartree[v]] /\ DOMAIN s.vartree \subseteq Variables
  /\ s.alive \in BOOLEAN
  /\ \A v \in DOMAIN s.vartree : s.env[v] # Unset => s.vartree[v] = Fits(s.env[v])

(* What a call may do to them: nothing is taken out of the registry.       *)
Grows(s, r) == DOMAIN s.vartree \subseteq DOMAIN r.vartree
SameFor(s, r, v) == /\ v \in Variables => r.env[v] = s.env[v]
                    /\ v \in DOMAIN s.vartree => r.vartree[v] = s.vartree[v]

(* What fits stays as it is.                                               *)
LEMMA FitsTwice == ASSUME NEW x PROVE Fits(Fits(x)) = Fits(x)
BY SysConfigAssumption DEF Fits

LEMMA SetAgrees ==
  ASSUME NEW s, NEW v \in Variables, NEW x, Agree(s)
  PROVE  LET r == appenv_set_env_var(s, v, x) IN
         /\ Agree(r) /\ Grows(s, r) /\ r.alive = s.alive
         /\ DOMAIN r.vartree = DOMAIN s.vartree \cup {v}
         /\ r.vartree[v] = Fits(x) /\ \A u : u # v => SameFor(s, r, u)
<1>1. PICK e, t, a : e = s.env /\ t = s.vartree /\ a = s.alive
  OBVIOUS
<1>2. s = [env |-> e, vartree |-> t, alive |-> a]
  BY <1>1 DEF Agree
<1>3. PICK p, g : p = PutAll(t, Node(v, Fits(x))) /\ g = [e EXCEPT ![v] = Fits(x)]
  OBVIOUS
<1>4. PICK r : r = appenv_set_env_var(s, v, x)
  OBVIOUS
<1>5. r = [env |-> g, vartree |-> p, alive |-> a]
  <2>1. PICK y : y = [s EXCEPT !.vartree = p]
    OBVIOUS
  <2>2. y = [env |-> e, vartree |-> p, alive |-> a]
    BY <1>2, <2>1
  <2>3. [y EXCEPT !.env = g] = [env |-> g, vartree |-> p, alive |-> a]
    BY <2>2
  <2>4. r = [y EXCEPT !.env[v] = Fits(x)]
    BY <1>1, <1>3, <1>4, <2>1 DEF appenv_set_env_var
  <2>5. [y EXCEPT !.env[v] = Fits(x)] = [y EXCEPT !.env = g]
    BY <1>3, <2>2
  <2>6. QED
    BY <2>3, <2>4, <2>5
<1>6. r.env = g /\ r.vartree = p /\ r.alive = a
  BY <1>5
<1>7. /\ DOMAIN p = DOMAIN t \cup {v} /\ p = [u \in DOMAIN p |-> p[u]]
      /\ p[v] = Fits(x) /\ \A u \in DOMAIN t : u # v => p[u] = t[u]
  <2>1. t = [u \in DOMAIN t |-> t[u]]
    BY <1>1 DEF Agree
  <2>2. QED
    BY <1>3, <2>1 DEF PutAll, Node
<1>8. g = [u \in Variables |-> g[u]] /\ g[v] = Fits(x) /\ \A u \in Variables : u # v => g[u] = e[u]
  BY <1>1, <1>3 DEF Agree
<1>9. Agree(r)
  <2>1. r = [env |-> r.env, vartree |-> r.vartree, alive |-> r.alive]
    BY <1>5, <1>6
  <2>2. DOMAIN p \subseteq Variables /\ a \in BOOLEAN
    BY <1>1, <1>7 DEF Agree
  <2>3. ASSUME NEW u \in DOMAIN p, g[u] # Unset PROVE p[u] = Fits(g[u])
    <3>1. CASE u = v
      BY <1>7, <1>8, <3>1, FitsTwice
    <3>2. CASE u # v
      <4>1. u \in DOMAIN t /\ u \in Variables
        BY <1>7, <2>2, <3>2
      <4>2. p[u] = t[u] /\ g[u] = e[u]
        BY <1>7, <1>8, <3>2, <4>1
      <4>3. QED
        BY <1>1, <2>3, <4>1, <4>2 DEF Agree
    <3>3. QED
      BY <3>1, <3>2
  <2>4. QED
    BY <1>6, <1>7, <1>8, <2>1, <2>2, <2>3 DEF Agree
<1>10. Grows(s, r) /\ \A u : u # v => SameFor(s, r, u)
  BY <1>1, <1>6, <1>7, <1>8 DEF Grows, SameFor
<1>11. QED
  BY <1>1, <1>4, <1>6, <1>7, <1>9, <1>10

LEMMA RegisterAgrees ==
  ASSUME NEW s, NEW v \in Variables, NEW d, Agree(s)
  PROVE  LET r == appenv_register_env_var(s, v, d) IN
         /\ Agree(r) /\ Grows(s, r) /\ r.alive = s.alive
         /\ r.env = s.env /\ \A u : u # v => SameFor(s, r, u)
<1>1. PICK e, t, a : e = s.env /\ t = s.vartree /\ a = s.alive
  OBVIOUS
<1>2. s = [env |-> e, vartree |-> t, alive |-> a]
  BY <1>1 DEF Agree
<1>3. PICK x : x = FromEnvironment(s, v, d)
  OBVIOUS
<1>4. e[v] # Unset => x = e[v]
  BY <1>1, <1>3 DEF FromEnvironment
<1>5. PICK p : p = PutAll(t, Node(v, Fits(x)))
  OBVIOUS
<1>6. PICK r : r = appenv_register_env_var(s, v, d)
  OBVIOUS
<1>7. r = [env |-> e, vartree |-> p, alive |-> a]
  BY <1>2, <1>3, <1>5, <1>6 DEF appenv_register_env_var
<1>8. r.env = e /\ r.vartree = p /\ r.alive = a
  BY <1>7
<1>9. /\ DOMAIN p = DOMAIN t \cup {v} /\ p = [u \in DOMAIN p |-> p[u]]
      /\ p[v] = Fits(x) /\ \A u \in DOMAIN t : u # v => p[u] = t[u]
  <2>1. t = [u \in DOMAIN t |-> t[u]]
    BY <1>1 DEF Agree
  <2>2. QED
    BY <1>5, <2>1 DEF PutAll, Node
<1>10. Agree(r)
  <2>1. r = [env |-> r.env, vartree |-> r.vartree, alive |-> r.alive]
    BY <1>7, <1>8
  <2>2. DOMAIN p \subseteq Variables /\ a \in BOOLEAN /\ e = [u \in Variables |-> e[u]]
    BY <1>1, <1>9 DEF Agree
  <2>3. ASSUME NEW u \in DOMAIN p, e[u] # Unset PROVE p[u] = Fits(e[u])
    BY <1>1, <1>4, <1>9, <2>3 DEF Agree
  <2>4. QED
    BY <1>8, <1>9, <2>1, <2>2, <2>3 DEF Agree
<1>11. Grows(s, r) /\ \A u : u # v => SameFor(s, r, u)
  BY <1>1, <1>8, <1>9 DEF Grows, SameFor
<1>12. QED
  BY <1>1, <1>6, <1>8, <1>10, <1>11

(* The seven variables of the start-up.                                    *)
LEMMA StartAgrees ==
  ASSUME NEW s, Agree(s)
  PROVE  LET r == sysconfig_register_env(s) IN
         /\ Agree(r) /\ Grows(s, r) /\ r.alive = s.alive /\ r.env = s.env
         /\ StartVariables \subseteq DOMAIN r.vartree
         /\ \A v \in StartVariables : r.vartree[v] = Fits(FromEnvironment(s, v, Default[v]))
<1>1. PICK e, t, a : e = s.env /\ t = s.vartree /\ a = s.alive
  OBVIOUS
<1>2. s = [env |-> e, vartree |-> t, alive |-> a]
  BY <1>1 DEF Agree
<1>3. PICK g : g = [v \in StartVariables |-> Fits(FromEnvironment(s, v, Default[v]))]
  OBVIOUS
<1>4. PICK p : p = PutAll(t, g)
  OBVIOUS
<1>5. PICK r : r = sysconfig_register_env(s)
  OBVIOUS
<1>6. r = [env |-> e, vartree |-> p, alive |-> a]
  BY <1>2, <1>3, <1>4, <1>5 DEF sysconfig_register_env
<1>7. r.env = e /\ r.vartree = p /\ r.alive = a
  BY <1>6
<1>8. DOMAIN g = StartVariables /\ \A v \in StartVariables : g[v] = Fits(FromEnvironment(s, v, Default[v]))
  BY <1>3
<1>9. /\ DOMAIN p = DOMAIN t \cup StartVariables /\ p = [v \in DOMAIN p |-> p[v]]
      /\ (\A v \in StartVariables : p[v] = g[v]) /\ \A v \in DOMAIN t \ StartVariables : p[v] = t[v]
  <2> HIDE DEF StartVariables
  <2>1. QED
    BY <1>4, <1>8 DEF PutAll
<1>10. Agree(r)
  <2> HIDE DEF StartVariables
  <2>1. r = [env |-> r.env, vartree |-> r.vartree, alive |-> r.alive]
    BY <1>6, <1>7
  <2>2. DOMAIN p \subseteq Variables /\ a \in BOOLEAN /\ e = [u \in Variables |-> e[u]]
    BY <1>1, <1>9 DEF Agree, Variables
  <2>3. ASSUME NEW u \in DOMAIN p, e[u] # Unset PROVE p[u] = Fits(e[u])
    <3>1. CASE u \in StartVariables
      BY <1>1, <1>8, <1>9, <2>3, <3>1 DEF FromEnvironment
    <3>2. CASE u \notin StartVariables
      BY <1>1, <1>9, <2>3, <3>2 DEF Agree
    <3>3. QED
      BY <3>1, <3>2
  <2>4. QED
    BY <1>7, <1>9, <2>1, <2>2, <2>3 DEF Agree
<1>11. QED
  BY <1>1, <1>5, <1>7, <1>8, <1>9, <1>10 DEF Grows

(* What storing one element of the file in a variable may do.              *)
Stored(s, r, d, o) ==
  /\ Agree(r) /\ Grows(s, r)
  /\ r.alive => s.alive
  /\ r.alive /\ o[1] \in DOMAIN d => r.vartree[o[2]] = Fits(d[o[1]][2])
  /\ o[1] \notin DOMAIN d => r = s
  /\ \A u : u # o[2] => SameFor(s, r, u)
  /\ s.alive /\ ~r.alive => o[1] \in DOMAIN d /\ d[o[1]][1] # "STRING"

LEMMA OverrideAgrees ==
  ASSUME NEW s, NEW d, NEW o, o[2] \in Variables, Agree(s)
  PROVE  Stored(s, Override(s, d, o), d, o)
<1>1. PICK r : r = Override(s, d, o)
  OBVIOUS
<1>2. CASE o[1] \notin DOMAIN d \/ ~s.alive
  <2>1. r = s
    BY <1>1, <1>2 DEF Override
  <2>2. QED
    BY <1>1, <1>2, <2>1 DEF Stored, Grows, SameFor
<1>3. CASE o[1] \in DOMAIN d /\ s.alive /\ d[o[1]][1] # "STRING"
  <2>1. r = [s EXCEPT !.alive = FALSE]
    BY <1>1, <1>3 DEF Override
  <2>2. PICK e, t, a : e = s.env /\ t = s.vartree /\ a = s.alive
    OBVIOUS
  <2>3. s = [env |-> e, vartree |-> t, alive |-> a]
    BY <2>2 DEF Agree
  <2>4. r = [env |-> e, vartree |-> t, alive |-> FALSE]
    BY <2>1, <2>3
  <2>5. r.env = s.env /\ r.vartree = s.vartree /\ r.alive = FALSE
    BY <2>2, <2>4
  <2>6. r = [env |-> r.env, vartree |-> r.vartree, alive |-> r.alive]
    BY <2>2, <2>4, <2>5
  <2>7. Agree(r)
    BY <2>5, <2>6 DEF Agree
  <2>8. QED
    BY <1>1, <1>3, <2>5, <2>7 DEF Stored, Grows, SameFor
<1>4. CASE o[1] \in DOMAIN d /\ s.alive /\ d[o[1]][1] = "STRING"
  <2>1. PICK v, x : v = o[2] /\ x = d[o[1]][2] /\ v \in Variables
    OBVIOUS
  <2>2. r = appenv_set_env_var(s, v, x)
    BY <1>1, <1>4, <2>1 DEF Override
  <2>3. /\ Agree(r) /\ Grows(s, r) /\ r.alive = s.alive
        /\ r.vartree[v] = Fits(x) /\ \A u : u # v => SameFor(s, r, u)
    BY <2>1, <2>2, SetAgrees
  <2>4. QED
    BY <1>1, <1>4, <2>1, <2>3 DEF Stored
<1>5. QED
  BY <1>2, <1>3, <1>4

(* All the elements, one after the other.                                  *)
LEMMA StoreElementsIs ==
  ASSUME NEW s, NEW d
  PROVE  LET a == Override(s, d, <<"data_dir", "MMDQ_DIR_PATH">>)
             b == Override(a, d, <<"log_dir", "SYSCONFIG_LOG_DIR">>)
             c == Override(b, d, <<"core_dir", "SYSCONFIG_CORE_DIR">>)
             e == Override(c, d, <<"mmdq_dir", "MMDQ_DIR_PATH">>)
             g == Override(e, d, <<"mmpool_env_data_dir", "MMPOOL_ENV_DATA_DIR">>)
         IN  StoreElements(s, d) = Override(g, d, <<"ld_library_path", "LD_LIBRARY_PATH">>)
<1>1. PICK a : a = Override(s, d, Overrides[1])
  OBVIOUS
<1>2. PICK b : b = Override(a, d, Overrides[2])
  OBVIOUS
<1>3. PICK c : c = Override(b, d, Overrides[3])
  OBVIOUS
<1>4. PICK e : e = Override(c, d, Overrides[4])
  OBVIOUS
<1>5. PICK g : g = Override(e, d, Overrides[5])
  OBVIOUS
<1>6. PICK h : h = Override(g, d, Overrides[6])
  OBVIOUS
<1>7. Len(Overrides) = 6
  BY DEF Overrides
<1> DEFINE Is(f) == f = [i \in 0..Len(Overrides) |-> IF i = 0 THEN s ELSE Override(f[i - 1], d, Overrides[i])]
           after == CHOOSE f : Is(f)
<1>8. \E f : Is(f)
  <2>1. PICK f : f = [i \in 0..6 |-> CASE i = 0 -> s [] i = 1 -> a [] i = 2 -> b [] i = 3 -> c
                                       [] i = 4 -> e [] i = 5 -> g [] OTHER -> h]
    OBVIOUS
  <2>2. f[0] = s /\ f[1] = a /\ f[2] = b /\ f[3] = c /\ f[4] = e /\ f[5] = g /\ f[6] = h
    BY <2>1
  <2>3. ASSUME NEW i \in 0..6
        PROVE  f[i] = IF i = 0 THEN s ELSE Override(f[i - 1], d, Overrides[i])
    <3>1. i \in {0, 1, 2, 3, 4, 5, 6}
      OBVIOUS
    <3>2. CASE i = 0
      BY <2>2, <3>2
    <3>3. ASSUME i = 1 PROVE f[i] = Override(f[i - 1], d, Overrides[i]) /\ i # 0
      BY <1>1, <2>2, <3>3
    <3>4. ASSUME i = 2 PROVE f[i] = Override(f[i - 1], d, Overrides[i]) /\ i # 0
      BY <1>2, <2>2, <3>4
    <3>5. ASSUME i = 3 PROVE f[i] = Override(f[i - 1], d, Overrides[i]) /\ i # 0
      BY <1>3, <2>2, <3>5
    <3>6. ASSUME i = 4 PROVE f[i] = Override(f[i - 1], d, Overrides[i]) /\ i # 0
      BY <1>4, <2>2, <3>6
    <3>7. ASSUME i = 5 PROVE f[i] = Override(f[i - 1], d, Overrides[i]) /\ i # 0
      BY <1>5, <2>2, <3>7
    <3>8. ASSUME i = 6 PROVE f[i] = Override(f[i - 1], d, Overrides[i]) /\ i # 0
      BY <1>6, <2>2, <3>8
    <3>9. QED
      BY <3>1, <3>2, <3>3, <3>4, <3>5, <3>6, <3>7, <3>8
  <2>4. f = [i \in 0..6 |-> f[i]]
    BY <2>1
  <2>5. f = [i \in 0..6 |-> IF i = 0 THEN s ELSE Override(f[i - 1], d, Overrides[i])]
    BY <2>3, <2>4
  <2>6. Is(f)
    BY <1>7, <2>5
  <2>7. QED
    BY <2>6
<1>9. Is(after)
  <2> HIDE DEF Is
  <2>1. QED
    BY <1>8
<1>10. StoreElements(s, d) = after[6]
  BY <1>7 DEF StoreElements
<1>11. \A i \in 0..6 : after[i] = IF i = 0 THEN s ELSE Override(after[i - 1], d, Overrides[i])
  <2> HIDE DEF after
  <2>1. QED
    BY <1>7, <1>9, Zenon
<1>12. after[0] = s
  <2> HIDE DEF after
  <2>1. QED
    BY <1>11
<1>13. ASSUME NEW i \in 1..6 PROVE after[i] = Override(after[i - 1], d, Overrides[i])
  <2> HIDE DEF after
  <2>1. i \in 0..6 /\ i # 0
    OBVIOUS
  <2>2. QED
    BY <1>11, <2>1, Zenon
<1> HIDE DEF after
<1>14. after[1] = a
  <2>1. 1 \in 1..6 /\ 1 - 1 = 0
    OBVIOUS
  <2>2. QED
    BY <1>1, <1>12, <1>13, <2>1
<1>15. after[2] = b
  <2>1. 2 \in 1..6 /\ 2 - 1 = 1
    OBVIOUS
  <2>2. QED
    BY <1>2, <1>13, <1>14, <2>1
<1>16. after[3] = c
  <2>1. 3 \in 1..6 /\ 3 - 1 = 2
    OBVIOUS
  <2>2. QED
    BY <1>3, <1>13, <1>15, <2>1
<1>17. after[4] = e
  <2>1. 4 \in 1..6 /\ 4 - 1 = 3
    OBVIOUS
  <2>2. QED
    BY <1>4, <1>13, <1>16, <2>1
<1>18. after[5] = g
  <2>1. 5 \in 1..6 /\ 5 - 1 = 4
    OBVIOUS
  <2>2. QED
    BY <1>5, <1>13, <1>17, <2>1
<1>19. after[6] = h
  <2>1. 6 \in 1..6 /\ 6 - 1 = 5
    OBVIOUS
  <2>2. QED
    BY <1>6, <1>13, <1>18, <2>1
<1>20. /\ Overrides[1] = <<"data_dir", "MMDQ_DIR_PATH">>
       /\ Overrides[2] = <<"log_dir", "SYSCONFIG_LOG_DIR">>
       /\ Overrides[3] = <<"core_dir", "SYSCONFIG_CORE_DIR">>
       /\ Overrides[4] = <<"mmdq_dir", "MMDQ_DIR_PATH">>
       /\ Overrides[5] = <<"mmpool_env_data_dir", "MMPOOL_ENV_DATA_DIR">>
       /\ Overrides[6] = <<"ld_library_path", "LD_LIBRARY_PATH">>
  BY DEF Overrides
<1>21. QED
  BY <1>1, <1>2, <1>3, <1>4, <1>5, <1>6, <1>10, <1>19, <1>20

(* What the elements come to: the variable of each that the file has holds *)
(* its value, and the other variables what they held.                      *)
LEMMA ElementsStored ==
  ASSUME NEW s, NEW d, Agree(s), StartVariables \subseteq DOMAIN s.vartree, s.alive
  PROVE  LET r == StoreElements(s, d) IN
         /\ Agree(r) /\ StartVariables \subseteq DOMAIN r.vartree
         /\ ~r.alive => \E e \in DOMAIN d : d[e][1] # "STRING"
         /\ r.alive =>
              /\ "core_dir" \in DOMAIN d => r.vartree["SYSCONFIG_CORE_DIR"] = Fits(d["core_dir"][2])
              /\ "core_dir" \notin DOMAIN d =>
                   r.vartree["SYSCONFIG_CORE_DIR"] = s.vartree["SYSCONFIG_CORE_DIR"]
              /\ "mmdq_dir" \in DOMAIN d => r.vartree["MMDQ_DIR_PATH"] = Fits(d["mmdq_dir"][2])
              /\ "mmdq_dir" \notin DOMAIN d /\ "data_dir" \in DOMAIN d =>
                   r.vartree["MMDQ_DIR_PATH"] = Fits(d["data_dir"][2])
              /\ "mmdq_dir" \notin DOMAIN d /\ "data_dir" \notin DOMAIN d =>
                   r.vartree["MMDQ_DIR_PATH"] = s.vartree["MMDQ_DIR_PATH"]
              /\ "mmpool_env_data_dir" \in DOMAIN d =>
                   r.vartree["MMPOOL_ENV_DATA_DIR"] = Fits(d["mmpool_env_data_dir"][2])
              /\ "mmpool_env_data_dir" \notin DOMAIN d =>
                   r.vartree["MMPOOL_ENV_DATA_DIR"] = s.vartree["MMPOOL_ENV_DATA_DIR"]
              /\ \A v \in {"SYSCONFIG_ETC", "SYSCONFIG_INI_FILE_NAME"} : r.vartree[v] = s.vartree[v]
<1>1. PICK a : a = Override(s, d, <<"data_dir", "MMDQ_DIR_PATH">>)
  OBVIOUS
<1>2. PICK b : b = Override(a, d, <<"log_dir", "SYSCONFIG_LOG_DIR">>)
  OBVIOUS
<1>3. PICK c : c = Override(b, d, <<"core_dir", "SYSCONFIG_CORE_DIR">>)
  OBVIOUS
<1>4. PICK e : e = Override(c, d, <<"mmdq_dir", "MMDQ_DIR_PATH">>)
  OBVIOUS
<1>5. PICK g : g = Override(e, d, <<"mmpool_env_data_dir", "MMPOOL_ENV_DATA_DIR">>)
  OBVIOUS
<1>6. PICK r : r = Override(g, d, <<"ld_library_path", "LD_LIBRARY_PATH">>)
  OBVIOUS
<1>7. r = StoreElements(s, d)
  BY <1>1, <1>2, <1>3, <1>4, <1>5, <1>6, StoreElementsIs
<1>8. /\ {"MMDQ_DIR_PATH", "SYSCONFIG_CORE_DIR", "MMPOOL_ENV_DATA_DIR", "SYSCONFIG_ETC",
          "SYSCONFIG_INI_FILE_NAME"} \subseteq StartVariables
      /\ StartVariables \subseteq Variables /\ {"SYSCONFIG_LOG_DIR", "LD_LIBRARY_PATH"} \subseteq Variables
  BY DEF StartVariables, Default, Variables
<1>11. Stored(s, a, d, <<"data_dir", "MMDQ_DIR_PATH">>)
  BY <1>1, <1>8, OverrideAgrees
<1>12. Stored(a, b, d, <<"log_dir", "SYSCONFIG_LOG_DIR">>)
  BY <1>2, <1>8, <1>11, OverrideAgrees DEF Stored
<1>13. Stored(b, c, d, <<"core_dir", "SYSCONFIG_CORE_DIR">>)
  BY <1>3, <1>8, <1>12, OverrideAgrees DEF Stored
<1>14. Stored(c, e, d, <<"mmdq_dir", "MMDQ_DIR_PATH">>)
  BY <1>4, <1>8, <1>13, OverrideAgrees DEF Stored
<1>15. Stored(e, g, d, <<"mmpool_env_data_dir", "MMPOOL_ENV_DATA_DIR">>)
  BY <1>5, <1>8, <1>14, OverrideAgrees DEF Stored
<1>16. Stored(g, r, d, <<"ld_library_path", "LD_LIBRARY_PATH">>)
  BY <1>6, <1>8, <1>15, OverrideAgrees DEF Stored
<1>17. Agree(r)
  BY <1>16 DEF Stored
<1>18. /\ StartVariables \subseteq DOMAIN a.vartree /\ StartVariables \subseteq DOMAIN b.vartree
       /\ StartVariables \subseteq DOMAIN c.vartree /\ StartVariables \subseteq DOMAIN e.vartree
       /\ StartVariables \subseteq DOMAIN g.vartree /\ StartVariables \subseteq DOMAIN r.vartree
  <2>1. Grows(s, a) /\ Grows(a, b) /\ Grows(b, c) /\ Grows(c, e) /\ Grows(e, g) /\ Grows(g, r)
    BY <1>11, <1>12, <1>13, <1>14, <1>15, <1>16 DEF Stored
  <2>2. QED
    BY <2>1 DEF Grows
<1>19. ASSUME ~r.alive PROVE \E n \in DOMAIN d : d[n][1] # "STRING"
  BY <1>11, <1>12, <1>13, <1>14, <1>15, <1>16, <1>19 DEF Stored
<1>20. ASSUME r.alive PROVE a.alive /\ b.alive /\ c.alive /\ e.alive /\ g.alive
  BY <1>12, <1>13, <1>14, <1>15, <1>16, <1>20 DEF Stored
<1>21. ASSUME NEW v \in StartVariables, v # "MMDQ_DIR_PATH" PROVE a.vartree[v] = s.vartree[v]
  BY <1>11, <1>21 DEF Stored, SameFor
<1>22. ASSUME NEW v \in StartVariables PROVE b.vartree[v] = a.vartree[v]
  <2>1. v # "SYSCONFIG_LOG_DIR"
    BY DEF StartVariables, Default
  <2>2. QED
    BY <1>12, <1>18, <2>1 DEF Stored, SameFor
<1>23. ASSUME NEW v \in StartVariables, v # "SYSCONFIG_CORE_DIR" PROVE c.vartree[v] = b.vartree[v]
  BY <1>13, <1>18, <1>23 DEF Stored, SameFor
<1>24. ASSUME NEW v \in StartVariables, v # "MMDQ_DIR_PATH" PROVE e.vartree[v] = c.vartree[v]
  BY <1>14, <1>18, <1>24 DEF Stored, SameFor
<1>25. ASSUME NEW v \in StartVariables, v # "MMPOOL_ENV_DATA_DIR" PROVE g.vartree[v] = e.vartree[v]
  BY <1>15, <1>18, <1>25 DEF Stored, SameFor
<1>26. ASSUME NEW v \in StartVariables PROVE r.vartree[v] = g.vartree[v]
  <2>1. v # "LD_LIBRARY_PATH"
    BY DEF StartVariables, Default
  <2>2. QED
    BY <1>16, <1>18, <2>1 DEF Stored, SameFor
<1>27. ASSUME r.alive
       PROVE  /\ "core_dir" \in DOMAIN d => r.vartree["SYSCONFIG_CORE_DIR"] = Fits(d["core_dir"][2])
              /\ "core_dir" \notin DOMAIN d =>
                   r.vartree["SYSCONFIG_CORE_DIR"] = s.vartree["SYSCONFIG_CORE_DIR"]
  <2>1. r.vartree["SYSCONFIG_CORE_DIR"] = c.vartree["SYSCONFIG_CORE_DIR"]
    BY <1>8, <1>24, <1>25, <1>26
  <2>2. b.vartree["SYSCONFIG_CORE_DIR"] = s.vartree["SYSCONFIG_CORE_DIR"]
    BY <1>8, <1>21, <1>22
  <2>3. QED
    BY <1>13, <1>20, <1>27, <2>1, <2>2 DEF Stored
<1>28. ASSUME r.alive
       PROVE  /\ "mmdq_dir" \in DOMAIN d => r.vartree["MMDQ_DIR_PATH"] = Fits(d["mmdq_dir"][2])
              /\ "mmdq_dir" \notin DOMAIN d /\ "data_dir" \in DOMAIN d =>
                   r.vartree["MMDQ_DIR_PATH"] = Fits(d["data_dir"][2])
              /\ "mmdq_dir" \notin DOMAIN d /\ "data_dir" \notin DOMAIN d =>
                   r.vartree["MMDQ_DIR_PATH"] = s.vartree["MMDQ_DIR_PATH"]
  <2>1. r.vartree["MMDQ_DIR_PATH"] = e.vartree["MMDQ_DIR_PATH"]
    BY <1>8, <1>25, <1>26
  <2>2. c.vartree["MMDQ_DIR_PATH"] = a.vartree["MMDQ_DIR_PATH"]
    BY <1>8, <1>22, <1>23
  <2>3. QED
    BY <1>11, <1>14, <1>20, <1>28, <2>1, <2>2 DEF Stored
<1>29. ASSUME r.alive
       PROVE  /\ "mmpool_env_data_dir" \in DOMAIN d =>
                   r.vartree["MMPOOL_ENV_DATA_DIR"] = Fits(d["mmpool_env_data_dir"][2])
              /\ "mmpool_env_data_dir" \notin DOMAIN d =>
                   r.vartree["MMPOOL_ENV_DATA_DIR"] = s.vartree["MMPOOL_ENV_DATA_DIR"]
  <2>1. r.vartree["MMPOOL_ENV_DATA_DIR"] = g.vartree["MMPOOL_ENV_DATA_DIR"]
    BY <1>8, <1>26
  <2>2. e.vartree["MMPOOL_ENV_DATA_DIR"] = s.vartree["MMPOOL_ENV_DATA_DIR"]
    BY <1>8, <1>21, <1>22, <1>23, <1>24
  <2>3. QED
    BY <1>15, <1>20, <1>29, <2>1, <2>2 DEF Stored
<1>30. ASSUME NEW v \in {"SYSCONFIG_ETC", "SYSCONFIG_INI_FILE_NAME"}
       PROVE  r.vartree[v] = s.vartree[v]
  <2>1. /\ v \in StartVariables /\ v # "MMDQ_DIR_PATH" /\ v # "SYSCONFIG_CORE_DIR"
        /\ v # "MMPOOL_ENV_DATA_DIR"
    BY <1>8
  <2>2. QED
    BY <1>21, <1>22, <1>23, <1>24, <1>25, <1>26, <2>1
<1>31. QED
  BY <1>7, <1>17, <1>18, <1>19, <1>27, <1>28, <1>29, <1>30

(* Of the paths that are tried the first that exists is taken.             *)
LEMMA InifileFound ==
  ASSUME NEW app, NEW etcdir, NEW ininame, find_inifile(app, etcdir, ininame) # <<>>
  PROVE  find_inifile(app, etcdir, ininame) \in DOMAIN disk
<1> DEFINE searchdirs == <<".", etcdir, "/usr/local/etc", "/etc">>
           paths == [i \in 1..8 |-> IF i <= 4 THEN <<searchdirs[i], app \o ".ini">>
                                    ELSE <<searchdirs[i - 4], ininame>>]
           hits == {i \in 1..8 : paths[i] \in DOMAIN disk}
           first == CHOOSE i \in hits : \A j \in hits : i <= j
<1>1. find_inifile(app, etcdir, ininame) = IF hits = {} THEN <<>> ELSE paths[first]
  BY DEF find_inifile
<1>2. hits \subseteq Nat
  OBVIOUS
<1>3. \A i \in hits : paths[i] \in DOMAIN disk
  OBVIOUS
<1> HIDE DEF hits, paths
<1>4. hits # {}
  BY <1>1
<1>5. \E i \in hits : \A j \in hits : i <= j
  BY <1>2, <1>4, LeastNumber
<1>6. first \in hits
  BY <1>5
<1> HIDE DEF first
<1>7. QED
  BY <1>1, <1>3, <1>4, <1>6

(* The settings: what the initial states establish and every call keeps.   *)
IsReal(d)     == \A e \in DOMAIN d : d[e][2] \notin {"garbage", "fault"}
Untouched     == ~env_registered => ~garbage /\ \A v \in Variables \ told : env[v] = shell[v]
StartUpDone   == Started => StartVariables \subseteq DOMAIN vartree
Identities    == [uid : {"root", "user"}, gid : {"root", "user"}]

ConfigIInv ==
  /\ Agree(Environment)
  /\ disk \in Disks /\ IsReal(ini)
  /\ env_registered \in BOOLEAN /\ garbage \in BOOLEAN
  /\ Untouched /\ StartUpDone /\ creds \in Identities
  /\ ConfigInv

(* The parts of ConfigInv.                                                 *)
Precedence == Started => \A v \in StartVariables \ (told \cup {"SYSCONFIG_DATA_DIR", "SYSCONFIG_APPNAME"}) :
                 ~PoolDirLeft(v) => vartree[v] = Fits(Expected(v))
Deaths     == sphase = "crashed" => \E e \in DOMAIN ini : ini[e][1] # "STRING"
Misread    == garbage => \E e \in DOMAIN ini : ini[e][1] # "NUMBER"

LEMMA ConfigParts ==
  ConfigInv <=> /\ \A v \in DOMAIN vartree : env[v] # Unset => vartree[v] = Fits(env[v])
                /\ Precedence /\ Deaths /\ Misread
                /\ creds.uid = "user" => creds.gid = "user"
  BY DEF ConfigInv, Precedence, Deaths, Misread

LEMMA EnvironmentParts ==
  /\ Environment.env = env /\ Environment.vartree = vartree /\ Environment.alive = TRUE
  BY DEF Environment

LEMMA ConfigInit == SysInit => ConfigIInv
<1> SUFFICES ASSUME SysInit PROVE ConfigIInv
  OBVIOUS
<1>1. /\ env = shell /\ vartree = [v \in {} |-> ""] /\ env_registered = FALSE
      /\ ini = [e \in {} |-> <<>>] /\ garbage = FALSE /\ sphase = "running" /\ told = {}
      /\ creds = [uid |-> "root", gid |-> "root"] /\ shell \in Shells /\ disk \in Disks
  BY DEF SysInit
<1>2. env = [v \in Variables |-> env[v]]
  BY <1>1, SysConfigAssumption
<1>3. DOMAIN vartree = {} /\ vartree = [v \in DOMAIN vartree |-> vartree[v]] /\ DOMAIN ini = {}
  BY <1>1
<1>4. Agree(Environment)
  BY <1>2, <1>3, EnvironmentParts DEF Agree, Environment
<1>5. creds \in Identities /\ creds.uid = "root"
  BY <1>1 DEF Identities
<1>6. ConfigInv
  BY <1>1, <1>3, <1>5, ConfigParts DEF Precedence, Deaths, Misread, Started
<1>7. QED
  BY <1>1, <1>3, <1>4, <1>5, <1>6 DEF ConfigIInv, IsReal, Untouched, StartUpDone, Started

(* The first call of the start-up.                                         *)
LEMMA StartKeeps ==
  ASSUME NEW arg, ConfigIInv, sphase = "running", ~env_registered, sysconfig_parse_inifile(arg)
  PROVE  ConfigIInv'
<1>1. /\ env_registered' = TRUE /\ disk' = disk /\ shell' = shell /\ garbage' = garbage
      /\ creds' = creds /\ told' = told
  BY DEF sysconfig_parse_inifile
<1>2. Agree(Environment) /\ disk \in Disks /\ IsReal(ini) /\ garbage = FALSE /\ creds \in Identities
      /\ (\A v \in Variables \ told : env[v] = shell[v])
      /\ (creds.uid = "user" => creds.gid = "user")
  BY ConfigParts DEF ConfigIInv, Untouched
<1>3. PICK given : given = IF arg # NullPtr THEN arg ELSE env["SYSCONFIG_APPNAME"]
  OBVIOUS
<1>4. PICK app : app = IF given \in {Unset, ""} THEN Default["SYSCONFIG_APPNAME"] ELSE given
  OBVIOUS
<1>5. PICK q : q = sysconfig_register_env(Environment)
  OBVIOUS
<1>6. PICK s : s = appenv_set_env_var(q, "SYSCONFIG_APPNAME", app)
  OBVIOUS
<1>7. PICK found : found = find_inifile(app, appenv_read_env_var(s, "SYSCONFIG_ETC"),
                                        appenv_read_env_var(s, "SYSCONFIG_INI_FILE_NAME"))
  OBVIOUS
<1>8. \/ env' = s.env /\ vartree' = s.vartree /\ sphase' = "quit" /\ ini' = ini
      \/ found # <<>> /\ ini' = disk[found] /\ Store(StoreElements(s, disk[found]))
  BY <1>3, <1>4, <1>5, <1>6, <1>7 DEF sysconfig_parse_inifile
<1>9. /\ Agree(q) /\ q.alive = TRUE /\ q.env = env /\ StartVariables \subseteq DOMAIN q.vartree
      /\ \A v \in StartVariables : q.vartree[v] = Fits(FromEnvironment(Environment, v, Default[v]))
  BY <1>2, <1>5, StartAgrees, EnvironmentParts
<1>10. StartVariables \subseteq Variables /\ "SYSCONFIG_APPNAME" \in Variables
  BY DEF StartVariables, Default, Variables
<1>11. /\ Agree(s) /\ s.alive = TRUE /\ StartVariables \subseteq DOMAIN s.vartree
       /\ \A u : u # "SYSCONFIG_APPNAME" => SameFor(q, s, u)
  BY <1>6, <1>9, <1>10, SetAgrees DEF Grows
<1>12. ASSUME NEW v \in StartVariables, v # "SYSCONFIG_APPNAME", v \notin told
       PROVE  s.vartree[v] = Fits(IF shell[v] # Unset THEN shell[v] ELSE Default[v])
  <2>1. s.vartree[v] = q.vartree[v]
    BY <1>9, <1>11, <1>12 DEF SameFor
  <2>2. q.vartree[v] = Fits(IF env[v] = Unset THEN Default[v] ELSE env[v])
    BY <1>9, EnvironmentParts DEF FromEnvironment
  <2>3. env[v] = shell[v]
    BY <1>2, <1>10, <1>12
  <2>4. QED
    BY <2>1, <2>2, <2>3
<1>13. CASE env' = s.env /\ vartree' = s.vartree /\ sphase' = "quit" /\ ini' = ini
  <2>1. env' = s.env /\ vartree' = s.vartree /\ sphase' = "quit" /\ ini' = ini
    BY <1>13
  <2>2. Environment' = s
    BY <1>11, <2>1 DEF Environment, Agree
  <2>3. Agree(Environment)'
    BY <1>11, <2>2, EnvironmentParts DEF Agree, Environment
  <2>4. (\A v \in DOMAIN vartree : env[v] # Unset => vartree[v] = Fits(env[v]))'
    BY <1>11, <2>1 DEF Agree
  <2>5. IsReal(ini)' /\ Untouched' /\ StartUpDone'
    BY <1>1, <1>2, <2>1 DEF IsReal, Untouched, StartUpDone, Started
  <2>6. Precedence' /\ Deaths' /\ Misread'
    BY <1>1, <1>2, <2>1 DEF Precedence, Deaths, Misread, Started
  <2>7. ConfigInv'
    BY <1>1, <1>2, <2>4, <2>6 DEF ConfigInv, Precedence, Deaths, Misread
  <2>8. QED
    BY <1>1, <1>2, <2>3, <2>5, <2>7 DEF ConfigIInv, Identities
<1>14. CASE found # <<>> /\ ini' = disk[found] /\ Store(StoreElements(s, disk[found]))
  <2>1. found \in DOMAIN disk
    BY <1>7, <1>14, InifileFound
  <2>2. PICK d : d = disk[found]
    OBVIOUS
  <2>3. PICK r : r = StoreElements(s, d)
    OBVIOUS
  <2>4. /\ env' = r.env /\ vartree' = r.vartree /\ ini' = d
        /\ sphase' = IF r.alive THEN "running" ELSE "crashed"
    BY <1>14, <2>2, <2>3 DEF Store
  <2>5. /\ Agree(r) /\ StartVariables \subseteq DOMAIN r.vartree
        /\ ~r.alive => \E e \in DOMAIN d : d[e][1] # "STRING"
    BY <1>11, <2>3, ElementsStored
  <2>6. Agree(Environment)'
    BY <2>4, <2>5 DEF Agree, Environment
  <2>7. IsReal(d)
    BY <1>2, <2>1, <2>2, SysConfigAssumption DEF IsReal
  <2>8. (\A v \in DOMAIN vartree : env[v] # Unset => vartree[v] = Fits(env[v]))'
    BY <2>4, <2>5 DEF Agree
  <2>9. IsReal(ini)' /\ Untouched' /\ StartUpDone' /\ Deaths' /\ Misread'
    BY <1>1, <1>2, <2>4, <2>5, <2>7 DEF IsReal, Untouched, StartUpDone, Started, Deaths, Misread
  <2>10. ASSUME r.alive, NEW v \in StartVariables \ (told \cup {"SYSCONFIG_DATA_DIR", "SYSCONFIG_APPNAME"}),
                ~(v = "MMPOOL_ENV_DATA_DIR" /\ "data_dir" \in DOMAIN d /\ ElementOf(v) \notin DOMAIN d)
         PROVE  r.vartree[v] = Fits(IF ElementOf(v) \in DOMAIN d \ {""} THEN d[ElementOf(v)][2]
                                    ELSE IF v \in FollowDataDir /\ "data_dir" \in DOMAIN d THEN d["data_dir"][2]
                                    ELSE IF shell[v] # Unset THEN shell[v] ELSE Default[v])
    <3>0. PICK x : x = IF shell[v] # Unset THEN shell[v] ELSE Default[v]
      OBVIOUS
    <3>1. s.vartree[v] = Fits(x)
      BY <1>12, <2>10, <3>0
    <3>2. v \in {"SYSCONFIG_CORE_DIR", "MMDQ_DIR_PATH", "MMPOOL_ENV_DATA_DIR",
                 "SYSCONFIG_ETC", "SYSCONFIG_INI_FILE_NAME"}
      BY <2>10 DEF StartVariables, Default
    <3>3. CASE v = "SYSCONFIG_CORE_DIR"
      <4>1. ElementOf(v) = "core_dir" /\ v \notin FollowDataDir
        BY <3>3 DEF ElementOf, FollowDataDir
      <4>2. r.vartree["SYSCONFIG_CORE_DIR"] =
              IF "core_dir" \in DOMAIN d THEN Fits(d["core_dir"][2]) ELSE s.vartree["SYSCONFIG_CORE_DIR"]
        BY <1>11, <2>3, <2>10, <3>3, ElementsStored
      <4>3. QED
        BY <3>0, <3>1, <3>3, <4>1, <4>2
    <3>4. CASE v = "MMDQ_DIR_PATH"
      <4>1. ElementOf(v) = "mmdq_dir" /\ v \in FollowDataDir
        BY <3>4 DEF ElementOf, FollowDataDir
      <4>2. r.vartree["MMDQ_DIR_PATH"] =
              IF "mmdq_dir" \in DOMAIN d THEN Fits(d["mmdq_dir"][2])
              ELSE IF "data_dir" \in DOMAIN d THEN Fits(d["data_dir"][2]) ELSE s.vartree["MMDQ_DIR_PATH"]
        BY <1>11, <2>3, <2>10, <3>4, ElementsStored
      <4>3. QED
        BY <3>0, <3>1, <3>4, <4>1, <4>2
    <3>5. CASE v = "MMPOOL_ENV_DATA_DIR"
      <4>1. ElementOf(v) = "mmpool_env_data_dir"
        BY <3>5 DEF ElementOf
      <4>2. r.vartree["MMPOOL_ENV_DATA_DIR"] =
              IF "mmpool_env_data_dir" \in DOMAIN d THEN Fits(d["mmpool_env_data_dir"][2])
              ELSE s.vartree["MMPOOL_ENV_DATA_DIR"]
        BY <1>11, <2>3, <2>10, <3>5, ElementsStored
      <4>3. "mmpool_env_data_dir" \in DOMAIN d \/ "data_dir" \notin DOMAIN d
        BY <2>10, <3>5, <4>1
      <4>4. QED
        BY <3>0, <3>1, <3>5, <4>1, <4>2, <4>3
    <3>6. CASE v \in {"SYSCONFIG_ETC", "SYSCONFIG_INI_FILE_NAME"}
      <4>1. ElementOf(v) = "" /\ v \notin FollowDataDir
        BY <3>6 DEF ElementOf, FollowDataDir
      <4>2. r.vartree[v] = s.vartree[v]
        BY <1>11, <2>3, <2>10, <3>6, ElementsStored
      <4>3. QED
        BY <3>0, <3>1, <4>1, <4>2
    <3>7. QED
      BY <3>2, <3>3, <3>4, <3>5, <3>6
  <2>11. Precedence'
    <3>1. SUFFICES ASSUME Started', NEW v \in StartVariables \ (told \cup {"SYSCONFIG_DATA_DIR", "SYSCONFIG_APPNAME"}),
                          ~PoolDirLeft(v)'
                   PROVE  r.vartree[v] = Fits(Expected(v)')
      BY <1>1, <2>4 DEF Precedence, Fits
    <3>2. r.alive
      BY <2>4, <3>1 DEF Started
    <3>3. ~(v = "MMPOOL_ENV_DATA_DIR" /\ "data_dir" \in DOMAIN d /\ ElementOf(v) \notin DOMAIN d)
      BY <2>4, <3>1 DEF PoolDirLeft, ElementOf
    <3>4. Expected(v)' = IF ElementOf(v) \in DOMAIN d \ {""} THEN d[ElementOf(v)][2]
                         ELSE IF v \in FollowDataDir /\ "data_dir" \in DOMAIN d THEN d["data_dir"][2]
                         ELSE IF shell[v] # Unset THEN shell[v] ELSE Default[v]
      BY <1>1, <2>4 DEF Expected, ElementOf, FollowDataDir
    <3>5. QED
      BY <2>10, <3>1, <3>2, <3>3, <3>4
  <2>12. ConfigInv'
    BY <1>1, <1>2, <2>8, <2>9, <2>11 DEF ConfigInv, Precedence, Deaths, Misread
  <2>13. QED
    BY <1>1, <1>2, <2>6, <2>9, <2>12 DEF ConfigIInv, Identities
<1>15. QED
  BY <1>8, <1>13, <1>14

(* The program sets or registers a variable.                               *)
LEMMA ProgramKeeps ==
  ASSUME NEW v \in Variables, NEW s, ConfigIInv, sphase = "running", Program(v, s),
         Agree(s), s.alive, Grows(Environment, s), \A u : u # v => SameFor(Environment, s, u)
  PROVE  ConfigIInv'
<1>1. /\ env_registered' = env_registered /\ disk' = disk /\ shell' = shell /\ garbage' = garbage
      /\ creds' = creds /\ told' = told \cup {v} /\ ini' = ini
      /\ env' = s.env /\ vartree' = s.vartree /\ sphase' = "running"
  BY DEF Program, Store
<1>2. /\ disk \in Disks /\ IsReal(ini) /\ env_registered \in BOOLEAN /\ garbage \in BOOLEAN
      /\ Untouched /\ StartUpDone /\ creds \in Identities /\ Precedence /\ Misread
      /\ (creds.uid = "user" => creds.gid = "user")
  BY ConfigParts DEF ConfigIInv
<1>3. Agree(Environment)'
  BY <1>1 DEF Agree, Environment
<1>4. (\A u \in DOMAIN vartree : env[u] # Unset => vartree[u] = Fits(env[u]))'
  BY <1>1 DEF Agree
<1>5. Untouched'
  BY <1>1, <1>2, EnvironmentParts DEF Untouched, SameFor
<1>6. DOMAIN vartree \subseteq DOMAIN s.vartree
  BY EnvironmentParts DEF Grows
<1>7. StartUpDone'
  BY <1>1, <1>2, <1>6 DEF StartUpDone, Started
<1>8. Precedence'
  <2>1. SUFFICES ASSUME env_registered,
                        NEW u \in StartVariables \ ((told \cup {v}) \cup {"SYSCONFIG_DATA_DIR", "SYSCONFIG_APPNAME"}),
                        ~PoolDirLeft(u)
                 PROVE  s.vartree[u] = Fits(Expected(u)')
    BY <1>1 DEF Precedence, Started, PoolDirLeft, ElementOf, Fits
  <2>2. Expected(u)' = Expected(u)
    BY <1>1 DEF Expected, ElementOf, FollowDataDir
  <2>3. Started
    BY <2>1 DEF Started
  <2>4. u \in StartVariables \ (told \cup {"SYSCONFIG_DATA_DIR", "SYSCONFIG_APPNAME"}) /\ u # v
    BY <2>1
  <2>5. vartree[u] = Fits(Expected(u))
    BY <1>2, <2>1, <2>3, <2>4 DEF Precedence
  <2>6. u \in DOMAIN vartree
    BY <1>2, <2>3, <2>4 DEF StartUpDone
  <2>7. s.vartree[u] = vartree[u]
    BY <2>4, <2>6, EnvironmentParts DEF SameFor
  <2>8. QED
    BY <2>2, <2>5, <2>7
<1>9. Deaths' /\ Misread' /\ IsReal(ini)'
  BY <1>1, <1>2 DEF Deaths, Misread, IsReal
<1>10. ConfigInv'
  BY <1>1, <1>2, <1>4, <1>8, <1>9 DEF ConfigInv, Precedence, Deaths, Misread
<1>11. QED
  BY <1>1, <1>2, <1>3, <1>5, <1>7, <1>9, <1>10 DEF ConfigIInv, Identities

(* What the variables should be stays while the shell and the file do.     *)
LEMMA PrecedenceStill ==
  ASSUME Precedence, Started' => Started, UNCHANGED <<shell, vartree, ini, told>>
  PROVE  Precedence'
<1>1. \A v : Expected(v)' = Expected(v)
  BY DEF Expected, ElementOf, FollowDataDir
<1>2. \A v : PoolDirLeft(v)' = PoolDirLeft(v)
  BY DEF PoolDirLeft, ElementOf
<1>3. SUFFICES ASSUME Started',
                      NEW v \in StartVariables \ (told \cup {"SYSCONFIG_DATA_DIR", "SYSCONFIG_APPNAME"}),
                      ~PoolDirLeft(v)'
               PROVE  vartree[v] = Fits(Expected(v)')
  BY DEF Precedence, Fits
<1>4. vartree[v] = Fits(Expected(v))
  BY <1>2, <1>3 DEF Precedence
<1>5. QED
  BY <1>1, <1>4

(* The steps that leave the two copies and the file alone.                 *)
LEMMA OthersKeep ==
  ASSUME ConfigIInv, sphase = "running",
         UNCHANGED <<shell, disk, env, vartree, env_registered, ini, told>>,
         sphase' \in {"running", "crashed"}, garbage' \in BOOLEAN, creds' \in Identities,
         garbage' => garbage \/ (env_registered /\ \E e \in DOMAIN ini : ini[e][1] # "NUMBER"),
         Deaths', (creds.uid = "user" => creds.gid = "user")'
  PROVE  ConfigIInv'
<1>1. Agree(Environment) /\ (\A v \in DOMAIN vartree : env[v] # Unset => vartree[v] = Fits(env[v]))
      /\ IsReal(ini) /\ Untouched /\ StartUpDone /\ Precedence /\ Misread
      /\ disk \in Disks /\ env_registered \in BOOLEAN
  BY ConfigParts DEF ConfigIInv
<1>2. Agree(Environment)'
  BY <1>1 DEF Agree, Environment
<1>3. IsReal(ini)' /\ Untouched' /\ StartUpDone' /\ Misread'
  BY <1>1 DEF IsReal, Untouched, StartUpDone, Misread, Started
<1>4. Precedence'
  <2>1. Started' => Started
    BY DEF Started
  <2>2. QED
    BY <1>1, <2>1, PrecedenceStill
<1>5. ConfigInv'
  BY <1>1, <1>3, <1>4 DEF ConfigInv, Precedence, Deaths, Misread
<1>6. QED
  BY <1>1, <1>2, <1>3, <1>5 DEF ConfigIInv, Identities

LEMMA ReadKeeps ==
  ASSUME NEW name, ConfigIInv, sphase = "running", ReadElement(name), creds' = creds
  PROVE  ConfigIInv'
<1>1. /\ garbage \in BOOLEAN /\ creds \in Identities /\ (creds.uid = "user" => creds.gid = "user")
      /\ IsReal(ini)
  BY ConfigParts DEF ConfigIInv
<1>2. UNCHANGED <<shell, disk, env, vartree, env_registered, ini, told>> /\ env_registered
  BY DEF ReadElement
<1>3. CASE /\ garbage' = (garbage \/ sysconfig_read_inifile_int(ini, name, "0") = "garbage")
           /\ sphase' = sphase
  <2>1. ASSUME sysconfig_read_inifile_int(ini, name, "0") = "garbage"
        PROVE  \E e \in DOMAIN ini : ini[e][1] # "NUMBER"
    BY <1>1, <2>1 DEF sysconfig_read_inifile_int, if_get_intval, IsReal
  <2>2. Deaths'
    BY <1>3 DEF Deaths
  <2>3. QED
    BY <1>1, <1>2, <1>3, <2>1, <2>2, OthersKeep
<1>4. CASE /\ sysconfig_read_inifile_string(ini, name, "") = "fault"
           /\ sphase' = "crashed" /\ garbage' = garbage
  <2>1. \E e \in DOMAIN ini : ini[e][1] # "STRING"
    BY <1>1, <1>4 DEF sysconfig_read_inifile_string, if_get_strval, IsReal
  <2>2. Deaths'
    BY <1>2, <2>1 DEF Deaths
  <2>3. QED
    BY <1>1, <1>2, <1>4, <2>2, OthersKeep
<1>5. QED
  BY <1>3, <1>4 DEF ReadElement

LEMMA UserKeeps ==
  ASSUME ConfigIInv, sphase = "running", sysconfig_set_user
  PROVE  ConfigIInv'
<1>1. /\ garbage \in BOOLEAN /\ creds \in Identities /\ (creds.uid = "user" => creds.gid = "user")
  BY ConfigParts DEF ConfigIInv
<1>2. /\ UNCHANGED <<shell, disk, env, vartree, env_registered, ini, told>>
      /\ garbage' = garbage /\ sphase' = "running" /\ Deaths'
  BY DEF sysconfig_set_user, Deaths
<1>3. creds' \in Identities /\ (creds.uid = "user" => creds.gid = "user")'
  <2>1. creds' = creds \/ creds' = [creds EXCEPT !.gid = "user"] \/ creds' = [uid |-> "user", gid |-> "user"]
    BY DEF sysconfig_set_user
  <2>2. QED
    BY <1>1, <2>1 DEF Identities
<1>4. QED
  BY <1>1, <1>2, <1>3, OthersKeep

LEMMA IdleKeeps ==
  ASSUME ConfigIInv,
         UNCHANGED <<shell, disk, env, vartree, env_registered, ini, garbage, creds, sphase, told>>
  PROVE  ConfigIInv'
<1>1. Agree(Environment) /\ IsReal(ini) /\ Untouched /\ StartUpDone /\ creds \in Identities
      /\ disk \in Disks /\ env_registered \in BOOLEAN /\ garbage \in BOOLEAN
  BY DEF ConfigIInv
<1>2. (\A v \in DOMAIN vartree : env[v] # Unset => vartree[v] = Fits(env[v]))
      /\ Precedence /\ Deaths /\ Misread /\ (creds.uid = "user" => creds.gid = "user")
  BY ConfigParts DEF ConfigIInv
<1>3. Agree(Environment)'
  BY <1>1 DEF Agree, Environment
<1>4. (IsReal(ini) /\ Untouched /\ StartUpDone)'
  BY <1>1 DEF IsReal, Untouched, StartUpDone, Started
<1>5. (Precedence /\ Deaths /\ Misread)'
  <2>1. Started' => Started
    BY DEF Started
  <2>2. Precedence'
    BY <1>2, <2>1, PrecedenceStill
  <2>3. (Deaths /\ Misread)'
    BY <1>2 DEF Deaths, Misread
  <2>4. QED
    BY <2>2, <2>3
<1>6. ConfigInv'
  BY <1>2, <1>5 DEF ConfigInv, Precedence, Deaths, Misread
<1>7. QED
  BY <1>1, <1>3, <1>4, <1>6 DEF ConfigIInv, Identities

LEMMA ConfigStep == ConfigIInv /\ [SysNext]_svars => ConfigIInv'
<1> SUFFICES ASSUME ConfigIInv, [SysNext]_svars PROVE ConfigIInv'
  OBVIOUS
<1>1. CASE UNCHANGED svars
  <2>1. UNCHANGED <<shell, disk, env, vartree, env_registered, ini, garbage, creds, sphase, told>>
    BY <1>1 DEF svars
  <2>2. QED
    BY <2>1, IdleKeeps
<1>2. CASE SysNext
  <2>1. sphase = "running"
    BY <1>2 DEF SysNext
  <2>2. Agree(Environment)
    BY DEF ConfigIInv
  <2>3. ASSUME NEW a, sysconfig_parse_inifile(a) PROVE ConfigIInv'
    <3>1. CASE ~env_registered
      BY <2>1, <2>3, <3>1, StartKeeps
    <3>2. CASE env_registered
      <4>1. UNCHANGED <<shell, disk, env, vartree, env_registered, ini, garbage, creds, sphase, told>>
        BY <2>3, <3>2 DEF sysconfig_parse_inifile
      <4>2. QED
        BY <4>1, IdleKeeps
    <3>3. QED
      BY <3>1, <3>2
  <2>4. ASSUME NEW v \in Variables, NEW x, Program(v, appenv_set_env_var(Environment, v, x))
        PROVE  ConfigIInv'
    BY <2>1, <2>2, <2>4, SetAgrees, ProgramKeeps, EnvironmentParts
  <2>5. ASSUME NEW v \in Variables, NEW x, Program(v, appenv_register_env_var(Environment, v, x))
        PROVE  ConfigIInv'
    BY <2>1, <2>2, <2>5, RegisterAgrees, ProgramKeeps, EnvironmentParts
  <2>6. ASSUME NEW e, ReadElement(e) PROVE ConfigIInv'
    <3>1. creds' = creds
      BY <2>6 DEF ReadElement
    <3>2. QED
      BY <2>1, <2>6, <3>1, ReadKeeps
  <2>7. QED
    BY <1>2, <2>1, <2>3, <2>4, <2>5, <2>6, UserKeeps DEF SysNext
<1>3. QED
  BY <1>1, <1>2

(* Settings agree (ConfigInv): the registry holds what fits of the         *)
(* environment that the children inherit; after the start-up the value of  *)
(* the .ini file comes before that of the shell and that before the        *)
(* default, but for the two directories that data_dir does not reach; a    *)
(* process dies of its settings only by reading a number as a string; and  *)
(* it never runs under the new user with the old group.  For every shell,  *)
(* every set of .ini files, every length that fits and every order of the  *)
(* calls.                                                                  *)
THEOREM SettingsAgree == SysSpec => []ConfigInv
<1>1. ConfigIInv => ConfigInv
  BY DEF ConfigIInv
<1>2. QED
  BY <1>1, ConfigInit, ConfigStep, PTL DEF SysSpec

(***************************************************************************)
(* The reader of .ini files (inifile.c, inifileparser.c, ifile.c).         *)
(***************************************************************************)

(* The lexemes of a file whose lines have three each, one after the other. *)
Triples(c) == c \in Seq(Seq(Lexemes)) /\ c # <<>> /\ \A i \in 1..Len(c) : Len(c[i]) = 3
Flat(f, c) == /\ f \in Seq(Lexemes) /\ Len(f) = 3 * Len(c)
              /\ \A i \in 1..Len(c) : \A j \in 1..3 : f[3 * i - 3 + j] = c[i][j]

LEMMA FlattenIs == \A c : Triples(c) => Flat(FlattenSeq(c), c)
<1> TAKE c
<1> HAVE Triples(c)
<1>1. PICK N : N = Len(c) /\ N \in Nat /\ N > 0 /\ DOMAIN c = 1..N
  BY DEF Triples
<1>2. \A i \in 1..N : c[i] \in Seq(Lexemes) /\ Len(c[i]) = 3 /\ DOMAIN c[i] = 1..3
                      /\ c[i][1] \in Lexemes /\ c[i][2] \in Lexemes /\ c[i][3] \in Lexemes
  <2>1. TAKE i \in 1..N
  <2>2. c[i] \in Seq(Lexemes) /\ Len(c[i]) = 3
    BY <1>1 DEF Triples
  <2>3. QED
    BY <2>2
<1> DEFINE At(p) == c[((p - 1) \div 3) + 1][((p - 1) % 3) + 1]
           G(i) == [p \in 1..(3 * i) |-> At(p)]
           Is(f) == f = [i \in 1..Len(c) |-> IF i = 1 THEN c[i] ELSE f[i-1] \o c[i]]
           flatten == CHOOSE f : Is(f)
<1>3. \A i \in 1..N : \A j \in 1..3 : At(3 * i - 3 + j) = c[i][j]
  <2>1. ASSUME NEW i \in 1..N, NEW j \in 1..3 PROVE At(3 * i - 3 + j) = c[i][j]
    <3>1. PICK p : p = (3 * i - 3 + j) - 1 /\ p \in Nat /\ p = 3 * (i - 1) + (j - 1)
      BY <1>1
    <3>2. p \div 3 = i - 1 /\ p % 3 = j - 1
      BY <1>1, <3>1
    <3>3. (p \div 3) + 1 = i /\ (p % 3) + 1 = j
      BY <1>1, <3>2
    <3>4. QED
      BY <3>1, <3>3
  <2>2. QED
    BY <2>1
<1>4. \A p \in 1..(3 * N) : \E i \in 1..N : \E j \in 1..3 : p = 3 * i - 3 + j
  <2>1. ASSUME NEW p \in 1..(3 * N) PROVE \E i \in 1..N : \E j \in 1..3 : p = 3 * i - 3 + j
    <3>1. PICK i, j : i = ((p - 1) \div 3) + 1 /\ j = ((p - 1) % 3) + 1
      OBVIOUS
    <3>2. i \in Int /\ j \in 1..3 /\ p = 3 * i - 3 + j
      BY <1>1, <3>1
    <3>3. i \in 1..N
      BY <1>1, <3>2
    <3>4. QED
      BY <3>2, <3>3
  <2>2. QED
    BY <2>1
<1> HIDE DEF At
<1>5. \A p \in 1..(3 * N) : At(p) \in Lexemes
  <2>1. ASSUME NEW p \in 1..(3 * N) PROVE At(p) \in Lexemes
    <3>1. PICK i \in 1..N : \E j \in 1..3 : p = 3 * i - 3 + j
      BY <1>4
    <3>2. PICK j \in 1..3 : p = 3 * i - 3 + j
      BY <3>1
    <3>3. At(p) = c[i][j]
      BY <1>3, <3>2
    <3>4. QED
      BY <1>2, <3>3
  <2>2. QED
    BY <2>1
<1>6. \A i \in 1..N : G(i) \in Seq(Lexemes) /\ Len(G(i)) = 3 * i
  <2>1. ASSUME NEW i \in 1..N PROVE G(i) \in Seq(Lexemes) /\ Len(G(i)) = 3 * i
    <3>1. PICK n : n = 3 * i /\ n \in Nat /\ n <= 3 * N
      BY <1>1
    <3>2. \A p \in 1..n : At(p) \in Lexemes
      BY <1>1, <1>5, <3>1
    <3>3. [p \in 1..n |-> At(p)] \in Seq(Lexemes) /\ Len([p \in 1..n |-> At(p)]) = n
      BY <3>1, <3>2
    <3>4. QED
      BY <3>1, <3>3
  <2>2. QED
    BY <2>1
<1>7. G(1) = c[1]
  <2>1. PICK s : s = c[1] /\ s \in Seq(Lexemes) /\ Len(s) = 3
    BY <1>1, <1>2
  <2>2. 1 \in 1..N /\ 3 * 1 - 3 + 1 = 1 /\ 3 * 1 - 3 + 2 = 2 /\ 3 * 1 - 3 + 3 = 3
    BY <1>1
  <2>3. At(1) = c[1][1] /\ At(2) = c[1][2] /\ At(3) = c[1][3]
    <3>1. \A j \in 1..3 : At(3 * 1 - 3 + j) = c[1][j]
      BY <1>3, <2>2
    <3>2. QED
      BY <3>1
  <2>4. \A p \in 1..3 : G(1)[p] = s[p]
    BY <2>1, <2>3
  <2>5. G(1) = [p \in 1..3 |-> s[p]]
    BY <2>1, <2>3
  <2>6. s = [p \in 1..3 |-> s[p]]
    BY <2>1
  <2>7. QED
    BY <2>1, <2>5, <2>6
<1>8. \A i \in 2..N : G(i) = G(i - 1) \o c[i]
  <2>1. ASSUME NEW i \in 2..N PROVE G(i) = G(i - 1) \o c[i]
    <3>1. i \in 1..N /\ i - 1 \in 1..N
      BY <1>1
    <3>2. PICK s, t, u : s = G(i - 1) /\ t = c[i] /\ u = G(i)
      OBVIOUS
    <3>3. /\ s \in Seq(Lexemes) /\ Len(s) = 3 * i - 3 /\ t \in Seq(Lexemes) /\ Len(t) = 3
          /\ u \in Seq(Lexemes) /\ Len(u) = 3 * i
      BY <1>1, <1>2, <1>6, <3>1, <3>2
    <3>4. /\ s \o t \in Seq(Lexemes) /\ Len(s \o t) = 3 * i
          /\ \A p \in 1..(3 * i) : (s \o t)[p] = IF p <= 3 * i - 3 THEN s[p] ELSE t[p - (3 * i - 3)]
      <4>1. PICK w : w = s \o t
        OBVIOUS
      <4>2. /\ w \in Seq(Lexemes) /\ Len(w) = Len(s) + Len(t)
            /\ \A p \in 1..(Len(s) + Len(t)) : w[p] = IF p <= Len(s) THEN s[p] ELSE t[p - Len(s)]
        BY <3>3, <4>1, ConcatProperties
      <4>3. Len(s) + Len(t) = 3 * i
        BY <3>3
      <4>4. QED
        BY <3>3, <4>1, <4>2, <4>3
    <3>5. \A p \in 1..(3 * i) : u[p] = (s \o t)[p]
      <4>1. ASSUME NEW p \in 1..(3 * i) PROVE u[p] = (s \o t)[p]
        <5>1. u[p] = At(p)
          BY <3>2
        <5>2. CASE p <= 3 * i - 3
          <6>1. p \in 1..(3 * (i - 1))
            BY <5>2
          <6>2. s[p] = At(p)
            BY <3>2, <6>1
          <6>3. QED
            BY <3>4, <5>1, <5>2, <6>2
        <5>3. CASE p > 3 * i - 3
          <6>1. PICK j \in 1..3 : p = 3 * i - 3 + j
            BY <5>3
          <6>2. At(p) = c[i][j]
            BY <1>3, <3>1, <6>1
          <6>3. p - (3 * i - 3) = j
            BY <6>1
          <6>4. QED
            BY <3>2, <3>4, <5>1, <5>3, <6>2, <6>3
        <5>4. p <= 3 * i - 3 \/ p > 3 * i - 3
          BY <1>1
        <5>5. QED
          BY <5>2, <5>3, <5>4
      <4>2. QED
        BY <4>1
    <3>6. PICK w : w = s \o t
      OBVIOUS
    <3>7. w \in Seq(Lexemes) /\ Len(w) = Len(u) /\ \A p \in 1..Len(u) : u[p] = w[p]
      BY <3>3, <3>4, <3>5, <3>6
    <3>8. u = w
      BY <3>3, <3>7, SeqEqual
    <3>9. QED
      BY <3>2, <3>6, <3>8
  <2>2. QED
    BY <2>1
<1> HIDE DEF G
<1>9. \E f : Is(f)
  <2>1. PICK f : f = [i \in 1..N |-> G(i)]
    OBVIOUS
  <2>2. \A i \in 1..N : f[i] = IF i = 1 THEN c[i] ELSE f[i-1] \o c[i]
    <3>1. ASSUME NEW i \in 1..N PROVE f[i] = IF i = 1 THEN c[i] ELSE f[i-1] \o c[i]
      <4>1. CASE i = 1
        BY <1>7, <2>1, <4>1
      <4>2. CASE i # 1
        <5>1. i \in 2..N /\ i - 1 \in 1..N
          BY <1>1, <4>2
        <5>2. QED
          BY <1>8, <2>1, <4>2, <5>1
      <4>3. QED
        BY <4>1, <4>2
    <3>2. QED
      BY <3>1
  <2>3. f = [i \in 1..N |-> f[i]]
    BY <2>1
  <2>4. f = [i \in 1..N |-> IF i = 1 THEN c[i] ELSE f[i-1] \o c[i]]
    BY <2>2, <2>3
  <2>5. Is(f)
    BY <1>1, <2>4
  <2>6. QED
    BY <2>5
<1>10. Is(flatten)
  <2> HIDE DEF Is
  <2>1. QED
    BY <1>9
<1>11. FlattenSeq(c) = flatten[N]
  BY <1>1 DEF FlattenSeq
<1>12. \A i \in 1..N : flatten[i] = IF i = 1 THEN c[i] ELSE flatten[i-1] \o c[i]
  <2> HIDE DEF flatten
  <2>1. QED
    BY <1>1, <1>10, Zenon
<1> HIDE DEF flatten
<1> DEFINE T == {n \in 0..(N - 1) : flatten[n + 1] = G(n + 1)}
<1>13. 0 \in T
  <2>1. 0 + 1 = 1 /\ 1 \in 1..N /\ 0 \in 0..(N - 1)
    BY <1>1
  <2>2. flatten[1] = c[1]
    BY <1>12, <2>1
  <2>3. flatten[0 + 1] = G(0 + 1)
    BY <1>7, <2>1, <2>2
  <2>4. QED
    BY <2>1, <2>3
<1>14. \A n \in 0..((N - 1) - 1) : n \in T => n + 1 \in T
  <2>1. ASSUME NEW n \in 0..((N - 1) - 1), flatten[n + 1] = G(n + 1)
        PROVE  flatten[(n + 1) + 1] = G((n + 1) + 1)
    <3>1. PICK i : i = (n + 1) + 1 /\ i \in 2..N /\ i - 1 = n + 1 /\ i # 1 /\ i \in 1..N
      BY <1>1
    <3>2. flatten[i] = flatten[i - 1] \o c[i]
      BY <1>12, <3>1
    <3>3. G(i) = G(i - 1) \o c[i]
      BY <1>8, <3>1
    <3>4. QED
      BY <2>1, <3>1, <3>2, <3>3
  <2>2. ASSUME NEW n \in 0..((N - 1) - 1) PROVE n + 1 \in 0..(N - 1)
    BY <1>1
  <2>3. QED
    BY <2>1, <2>2
<1>15. N - 1 \in T
  <2>1. N - 1 \in Nat /\ N - 1 \in 0..(N - 1)
    BY <1>1
  <2> HIDE DEF T
  <2>2. \A n \in 0..(N - 1) : n \in T
    BY <1>13, <1>14, <2>1, UpTo
  <2>3. QED
    BY <2>1, <2>2
<1>16. flatten[N] = G(N)
  <2>1. (N - 1) + 1 = N
    BY <1>1
  <2>2. flatten[(N - 1) + 1] = G((N - 1) + 1)
    BY <1>15
  <2>3. QED
    BY <2>1, <2>2
<1>17. \A i \in 1..N : \A j \in 1..3 : G(N)[3 * i - 3 + j] = c[i][j]
  <2>1. ASSUME NEW i \in 1..N, NEW j \in 1..3 PROVE G(N)[3 * i - 3 + j] = c[i][j]
    <3>1. 3 * i - 3 + j \in 1..(3 * N)
      BY <1>1
    <3>2. G(N)[3 * i - 3 + j] = At(3 * i - 3 + j)
      BY <3>1 DEF G
    <3>3. QED
      BY <1>3, <3>2
  <2>2. QED
    BY <2>1
<1>18. QED
  BY <1>1, <1>6, <1>11, <1>16, <1>17 DEF Flat

(* Lines that follow the grammar, and the section each stands in.          *)
Grammar(c) == c \in Seq(Seq(Lexemes)) /\ Grammatical(c)
InSection(c, i, h) == h \in 1..i /\ Header(c[h]) /\ \A g \in (h + 1)..i : ~Header(c[g])

LEMMA LineTypes ==
  \A c : Grammar(c) =>
    /\ Triples(c) /\ Header(c[1]) /\ Len(c) \in Nat \ {0} /\ DOMAIN c = 1..Len(c)
    /\ \A i \in 1..Len(c) : /\ c[i][1] \in Lexemes /\ c[i][2] \in Lexemes /\ c[i][3] \in Lexemes
                            /\ (Header(c[i]) \/ Assignment(c[i]))
                            /\ ~(Header(c[i]) /\ Assignment(c[i]))
<1> TAKE c
<1> HAVE Grammar(c)
<1>1. /\ c \in Seq(Seq(Lexemes)) /\ c # <<>> /\ Header(c[1])
      /\ \A i \in DOMAIN c : Header(c[i]) \/ Assignment(c[i])
  BY DEF Grammar, Grammatical
<1>2. DOMAIN c = 1..Len(c) /\ Len(c) \in Nat \ {0}
  BY <1>1
<1>3. ASSUME NEW i \in 1..Len(c)
      PROVE  /\ c[i][1] \in Lexemes /\ c[i][2] \in Lexemes /\ c[i][3] \in Lexemes /\ Len(c[i]) = 3
             /\ (Header(c[i]) \/ Assignment(c[i]))
             /\ ~(Header(c[i]) /\ Assignment(c[i]))
  <2>1. PICK l : l = c[i] /\ l \in Seq(Lexemes)
    BY <1>1, <1>2
  <2>2. Header(l) \/ Assignment(l)
    BY <1>1, <1>2, <2>1
  <2>3. Len(l) = 3 /\ ~(Header(l) /\ Assignment(l))
    BY <2>2 DEF Header, Assignment
  <2>4. l[1] \in Lexemes /\ l[2] \in Lexemes /\ l[3] \in Lexemes
    BY <2>1, <2>3
  <2>5. QED
    BY <2>1, <2>2, <2>3, <2>4
<1>4. QED
  BY <1>1, <1>2, <1>3 DEF Triples

LEMMA SectionIs ==
  \A c, i, h : Grammar(c) /\ i \in 1..Len(c) /\ InSection(c, i, h) => SectionAt(c, i) = c[h][2].t
<1> TAKE c, i, h
<1> HAVE Grammar(c) /\ i \in 1..Len(c) /\ InSection(c, i, h)
<1> DEFINE P(g) == g \in 1..i /\ Header(c[g]) /\ \A k \in g+1..i : ~Header(c[k])
<1>1. SectionAt(c, i) = c[CHOOSE g \in 1..i : Header(c[g]) /\ \A k \in g+1..i : ~Header(c[k])][2].t
  BY DEF SectionAt
<1>2. i \in Nat /\ P(h)
  BY LineTypes DEF InSection
<1>3. \A g : P(g) => g = h
  <2>1. ASSUME NEW g, P(g) PROVE g = h
    <3>1. g \in Nat /\ h \in Nat /\ g <= i /\ h <= i
      BY <1>2, <2>1
    <3>2. CASE g < h
      BY <1>2, <2>1, <3>1, <3>2
    <3>3. CASE h < g
      BY <1>2, <2>1, <3>1, <3>3
    <3>4. QED
      BY <3>1, <3>2, <3>3
  <2>2. QED
    BY <2>1
<1>4. PICK k : k = CHOOSE g \in 1..i : Header(c[g]) /\ \A m \in g+1..i : ~Header(c[m])
  OBVIOUS
<1>5. P(k)
  BY <1>2, <1>4
<1>6. k = h
  BY <1>3, <1>5
<1>7. QED
  BY <1>1, <1>4, <1>6

LEMMA SectionExists ==
  \A c, i : Grammar(c) /\ i \in 1..Len(c) => \E h : InSection(c, i, h)
<1> TAKE c, i
<1> HAVE Grammar(c) /\ i \in 1..Len(c)
<1>1. i \in Nat /\ i >= 1 /\ Header(c[1])
  BY LineTypes
<1> DEFINE T == {n \in 0..(i - 1) : Header(c[i - n])}
<1>2. i - 1 \in T /\ T \subseteq Nat
  BY <1>1
<1>3. PICK n \in T : \A m \in T : n <= m
  <2> HIDE DEF T
  <2>1. QED
    BY <1>2, LeastNumber
<1>4. n \in Nat /\ n <= i - 1 /\ Header(c[i - n])
  BY <1>1, <1>3
<1>5. ASSUME NEW g \in ((i - n) + 1)..i, Header(c[g]) PROVE FALSE
  <2>1. g \in Int /\ i - g \in 0..(i - 1) /\ i - (i - g) = g /\ i - g < n
    BY <1>1, <1>4
  <2>2. i - g \in T
    BY <1>5, <2>1
  <2>3. n <= i - g
    BY <1>3, <2>2
  <2>4. QED
    BY <1>1, <1>4, <2>1, <2>3
<1>6. InSection(c, i, i - n)
  BY <1>1, <1>4, <1>5 DEF InSection
<1>7. QED
  BY <1>6

(* A header opens its section; an assignment stands in that of the line    *)
(* above; and a section is named by a header.                              *)
LEMMA SectionSteps ==
  \A c, i : Grammar(c) /\ i \in 1..Len(c) =>
    /\ Header(c[i]) => SectionAt(c, i) = c[i][2].t
    /\ Assignment(c[i]) => i > 1 /\ SectionAt(c, i) = SectionAt(c, i - 1)
    /\ \E h \in 1..i : Header(c[h]) /\ SectionAt(c, i) = c[h][2].t
<1> TAKE c, i
<1> HAVE Grammar(c) /\ i \in 1..Len(c)
<1>1. i \in Nat /\ i >= 1 /\ Header(c[1]) /\ ~(Header(c[i]) /\ Assignment(c[i])) /\ Len(c) \in Nat
  BY LineTypes
<1>2. ASSUME Header(c[i]) PROVE SectionAt(c, i) = c[i][2].t
  <2>1. InSection(c, i, i)
    BY <1>1, <1>2 DEF InSection
  <2>2. QED
    BY <2>1, SectionIs
<1>3. ASSUME Assignment(c[i]) PROVE i > 1 /\ SectionAt(c, i) = SectionAt(c, i - 1)
  <2>1. i > 1 /\ i - 1 \in 1..Len(c)
    BY <1>1, <1>3
  <2>2. PICK h : InSection(c, i - 1, h)
    BY <2>1, SectionExists
  <2>3. InSection(c, i, h)
    <3>1. h \in 1..i /\ h \in Nat
      BY <1>1, <2>1, <2>2 DEF InSection
    <3>2. ASSUME NEW g \in (h + 1)..i PROVE ~Header(c[g])
      <4>1. g = i \/ g \in (h + 1)..(i - 1)
        BY <1>1, <3>1
      <4>2. QED
        BY <1>1, <1>3, <2>2, <4>1 DEF InSection
    <3>3. QED
      BY <2>2, <3>1, <3>2 DEF InSection
  <2>4. SectionAt(c, i) = c[h][2].t
    BY <2>3, SectionIs
  <2>5. SectionAt(c, i - 1) = c[h][2].t
    BY <2>1, <2>2, SectionIs
  <2>6. QED
    BY <2>1, <2>4, <2>5
<1>4. \E h \in 1..i : Header(c[h]) /\ SectionAt(c, i) = c[h][2].t
  <2>1. PICK h : InSection(c, i, h)
    BY SectionExists
  <2>2. SectionAt(c, i) = c[h][2].t
    BY <2>1, SectionIs
  <2>3. QED
    BY <2>1, <2>2 DEF InSection
<1>5. QED
  BY <1>2, <1>3, <1>4

(* The sections that the first i lines of a text fill.                     *)
Names(c, i)         == {c[m][2].t : m \in {m \in 1..i : Header(c[m])}}
AssignsIn(c, i, s)  == {m \in 1..i : Assignment(c[m]) /\ SectionAt(c, m) = s}
Elements(c, i, s)   == {c[m][1].t : m \in AssignsIn(c, i, s)}
IsFirst(c, s, m)    == /\ m \in AssignsIn(c, m, s)
                       /\ \A k \in 1..(m - 1) : k \in AssignsIn(c, k, s) => c[k][1].t # c[m][1].t
ValueOf(x)          == <<IF x.k = "num" THEN "NUMBER" ELSE "STRING", x.t>>
UpToLine(c, i, secs) ==
  /\ secs = [s \in Names(c, i) |-> secs[s]]
  /\ \A s \in Names(c, i) :
       /\ secs[s] = [e \in Elements(c, i, s) |-> secs[s][e]]
       /\ \A m \in 1..i : IsFirst(c, s, m) => secs[s][c[m][1].t] = ValueOf(c[m][3])

LEMMA NothingRead ==
  \A c : Grammar(c) => UpToLine(c, 0, [s \in {} |-> {}])
<1> TAKE c
<1> HAVE Grammar(c)
<1>1. Names(c, 0) = {}
  BY DEF Names
<1>2. QED
  BY <1>1 DEF UpToLine

LEMMA HeaderRead ==
  \A c, i, secs : Grammar(c) /\ i \in 1..Len(c) /\ Header(c[i]) /\ UpToLine(c, i - 1, secs) =>
    UpToLine(c, i, AddNode(secs, c[i][2].t, [e \in {} |-> ""]))
<1> TAKE c, i, secs
<1> HAVE Grammar(c) /\ i \in 1..Len(c) /\ Header(c[i]) /\ UpToLine(c, i - 1, secs)
<1>1. i \in Nat /\ i >= 1 /\ ~Assignment(c[i])
  BY LineTypes
<1>2. PICK n : n = c[i][2].t
  OBVIOUS
<1>3. PICK r : r = AddNode(secs, n, [e \in {} |-> ""])
  OBVIOUS
<1>4. Names(c, i) = Names(c, i - 1) \cup {n}
  BY <1>1, <1>2 DEF Names
<1>5. \A s : AssignsIn(c, i, s) = AssignsIn(c, i - 1, s)
  BY <1>1 DEF AssignsIn
<1>6. \A s : Elements(c, i, s) = Elements(c, i - 1, s)
  BY <1>5 DEF Elements
<1>7. DOMAIN secs = Names(c, i - 1) /\ secs = [s \in Names(c, i - 1) |-> secs[s]]
  BY DEF UpToLine
<1>8. \A s : IsFirst(c, s, i) => FALSE
  BY <1>1 DEF IsFirst, AssignsIn
<1>9. CASE n \in Names(c, i - 1)
  <2>1. r = secs /\ Names(c, i) = Names(c, i - 1)
    BY <1>3, <1>4, <1>7, <1>9 DEF AddNode
  <2>2. \A s, m : m \in 1..i /\ IsFirst(c, s, m) => m \in 1..(i - 1)
    BY <1>1, <1>8
  <2>3. UpToLine(c, i, secs)
    BY <1>6, <2>1, <2>2 DEF UpToLine
  <2>4. QED
    BY <1>2, <1>3, <2>1, <2>3
<1>10. CASE n \notin Names(c, i - 1)
  <2>1. r = [s \in Names(c, i) |-> IF s = n THEN [e \in {} |-> ""] ELSE secs[s]]
    BY <1>3, <1>4, <1>7, <1>10 DEF AddNode
  <2>2. AssignsIn(c, i - 1, n) = {}
    <3>1. ASSUME NEW m \in AssignsIn(c, i - 1, n) PROVE FALSE
      <4>1. m \in 1..(i - 1) /\ m \in 1..Len(c) /\ SectionAt(c, m) = n /\ m \in Nat
        BY <1>1, LineTypes DEF AssignsIn
      <4>2. PICK h \in 1..m : Header(c[h]) /\ SectionAt(c, m) = c[h][2].t
        BY <4>1, SectionSteps
      <4>3. h \in 1..(i - 1)
        BY <1>1, <4>1
      <4>4. n \in Names(c, i - 1)
        BY <4>1, <4>2, <4>3 DEF Names
      <4>5. QED
        BY <1>10, <4>4
    <3>2. QED
      BY <3>1
  <2>3. Elements(c, i, n) = {}
    BY <1>6, <2>2 DEF Elements
  <2>4. ASSUME NEW s \in Names(c, i)
        PROVE  /\ r[s] = [e \in Elements(c, i, s) |-> r[s][e]]
               /\ \A m \in 1..i : IsFirst(c, s, m) => r[s][c[m][1].t] = ValueOf(c[m][3])
    <3>1. CASE s = n
      <4>1. r[s] = [e \in {} |-> ""]
        BY <2>1, <2>4, <3>1
      <4>2. ASSUME NEW m \in 1..i, IsFirst(c, s, m) PROVE FALSE
        <5>1. m \in AssignsIn(c, m, n) /\ m # i
          BY <1>8, <3>1, <4>2 DEF IsFirst
        <5>2. m \in AssignsIn(c, i - 1, n)
          BY <1>1, <5>1 DEF AssignsIn
        <5>3. QED
          BY <2>2, <5>2
      <4>3. QED
        BY <2>3, <3>1, <4>1, <4>2
    <3>2. CASE s # n
      <4>1. s \in Names(c, i - 1) /\ r[s] = secs[s]
        BY <1>4, <2>1, <2>4, <3>2
      <4>2. \A m \in 1..i : IsFirst(c, s, m) => m \in 1..(i - 1)
        BY <1>1, <1>8
      <4>3. QED
        BY <1>6, <4>1, <4>2 DEF UpToLine
    <3>3. QED
      BY <3>1, <3>2
  <2>5. r = [s \in Names(c, i) |-> r[s]]
    BY <2>1
  <2>6. UpToLine(c, i, r)
    BY <2>4, <2>5 DEF UpToLine
  <2>7. QED
    BY <1>2, <1>3, <2>6
<1>11. QED
  BY <1>9, <1>10

LEMMA AssignmentRead ==
  \A c, i, secs : Grammar(c) /\ i \in 1..Len(c) /\ Assignment(c[i]) /\ UpToLine(c, i - 1, secs) =>
    /\ SectionAt(c, i - 1) \in DOMAIN secs
    /\ UpToLine(c, i, [secs EXCEPT ![SectionAt(c, i - 1)] = AddNode(@, c[i][1].t, ValueOf(c[i][3]))])
<1> TAKE c, i, secs
<1> HAVE Grammar(c) /\ i \in 1..Len(c) /\ Assignment(c[i]) /\ UpToLine(c, i - 1, secs)
<1>1. i \in Nat /\ i > 1 /\ ~Header(c[i]) /\ SectionAt(c, i) = SectionAt(c, i - 1) /\ i - 1 \in 1..Len(c)
  BY LineTypes, SectionSteps
<1>2. PICK n, e, v : n = SectionAt(c, i - 1) /\ e = c[i][1].t /\ v = ValueOf(c[i][3])
  OBVIOUS
<1>3. PICK t : t = AddNode(secs[n], e, v)
  OBVIOUS
<1>4. PICK r : r = [secs EXCEPT ![n] = t]
  OBVIOUS
<1>5. Names(c, i) = Names(c, i - 1)
  BY <1>1 DEF Names
<1>6. \A s : s # n => AssignsIn(c, i, s) = AssignsIn(c, i - 1, s)
  BY <1>1, <1>2 DEF AssignsIn
<1>7. AssignsIn(c, i, n) = AssignsIn(c, i - 1, n) \cup {i}
  BY <1>1, <1>2 DEF AssignsIn
<1>8. \A s : s # n => Elements(c, i, s) = Elements(c, i - 1, s)
  BY <1>6 DEF Elements
<1>9. Elements(c, i, n) = Elements(c, i - 1, n) \cup {e}
  BY <1>2, <1>7 DEF Elements
<1>10. n \in Names(c, i - 1)
  <2>1. PICK h \in 1..(i - 1) : Header(c[h]) /\ SectionAt(c, i - 1) = c[h][2].t
    BY <1>1, SectionSteps
  <2>2. QED
    BY <1>2, <2>1 DEF Names
<1>11. DOMAIN secs = Names(c, i - 1) /\ secs = [s \in Names(c, i - 1) |-> secs[s]]
  BY DEF UpToLine
<1>12. r = [s \in Names(c, i) |-> IF s = n THEN t ELSE secs[s]]
  BY <1>4, <1>5, <1>11
<1>13. /\ DOMAIN secs[n] = Elements(c, i - 1, n)
       /\ secs[n] = [x \in Elements(c, i - 1, n) |-> secs[n][x]]
  BY <1>10 DEF UpToLine
<1>14. t = [x \in Elements(c, i, n) |-> t[x]]
  BY <1>3, <1>9, <1>13 DEF AddNode
<1>15. \A x \in Elements(c, i - 1, n) : t[x] = secs[n][x]
  BY <1>3, <1>13 DEF AddNode
<1>16. e \notin Elements(c, i - 1, n) => t[e] = v
  BY <1>3, <1>13 DEF AddNode
<1>17. ASSUME NEW m \in 1..i, IsFirst(c, n, m) PROVE t[c[m][1].t] = ValueOf(c[m][3])
  <2>1. CASE m = i
    <3>1. \A k \in 1..(i - 1) : k \in AssignsIn(c, k, n) => c[k][1].t # e
      BY <1>2, <1>17, <2>1 DEF IsFirst
    <3>2. e \notin Elements(c, i - 1, n)
      <4>1. ASSUME NEW k \in AssignsIn(c, i - 1, n) PROVE c[k][1].t # e
        <5>1. k \in 1..(i - 1) /\ k \in AssignsIn(c, k, n)
          BY <1>1 DEF AssignsIn
        <5>2. QED
          BY <3>1, <5>1
      <4>2. QED
        BY <4>1 DEF Elements
    <3>3. QED
      BY <1>2, <1>16, <2>1, <3>2
  <2>2. CASE m # i
    <3>1. m \in 1..(i - 1) /\ m \in Nat
      BY <1>1, <2>2
    <3>2. secs[n][c[m][1].t] = ValueOf(c[m][3])
      BY <1>10, <1>17, <3>1 DEF UpToLine
    <3>3. m \in AssignsIn(c, i - 1, n)
      BY <1>1, <1>17, <3>1 DEF IsFirst, AssignsIn
    <3>4. c[m][1].t \in Elements(c, i - 1, n)
      BY <3>3 DEF Elements
    <3>5. QED
      BY <1>15, <3>2, <3>4
  <2>3. QED
    BY <2>1, <2>2
<1>18. ASSUME NEW s \in Names(c, i)
       PROVE  /\ r[s] = [x \in Elements(c, i, s) |-> r[s][x]]
              /\ \A m \in 1..i : IsFirst(c, s, m) => r[s][c[m][1].t] = ValueOf(c[m][3])
  <2>1. CASE s = n
    BY <1>12, <1>14, <1>17, <1>18, <2>1
  <2>2. CASE s # n
    <3>1. r[s] = secs[s] /\ s \in Names(c, i - 1)
      BY <1>5, <1>12, <1>18, <2>2
    <3>2. \A m \in 1..i : IsFirst(c, s, m) => m \in 1..(i - 1)
      <4>1. i \notin AssignsIn(c, i, s)
        BY <1>1, <1>2, <2>2 DEF AssignsIn
      <4>2. ~IsFirst(c, s, i)
        BY <4>1 DEF IsFirst
      <4>3. QED
        BY <1>1, <4>2
    <3>3. QED
      BY <1>8, <2>2, <3>1, <3>2 DEF UpToLine
  <2>3. QED
    BY <2>1, <2>2
<1>19. r = [s \in Names(c, i) |-> r[s]]
  BY <1>12
<1>20. UpToLine(c, i, r)
  BY <1>18, <1>19 DEF UpToLine
<1>21. QED
  BY <1>2, <1>3, <1>4, <1>10, <1>11, <1>20

(* When all lines are read the sections are what the text means.           *)
LEMMA AllRead ==
  \A c, secs : Grammar(c) /\ UpToLine(c, Len(c), secs) => secs = Meaning(c)
<1> TAKE c, secs
<1> HAVE Grammar(c) /\ UpToLine(c, Len(c), secs)
<1>1. PICK N : N = Len(c) /\ N \in Nat /\ DOMAIN c = 1..N
  BY LineTypes
<1> DEFINE names == {c[i][2].t : i \in {j \in DOMAIN c : Header(c[j])}}
           elements(s) == {c[i][1].t : i \in {j \in DOMAIN c : Assignment(c[j]) /\ SectionAt(c, j) = s}}
           first(A) == CHOOSE i \in A : \A j \in A : i <= j
<1>2. Meaning(c) = [s \in names |-> [e \in elements(s) |-> ValueOf(c[first(Assigns(c, s, e))][3])]]
  BY DEF Meaning, ValueOf
<1>3. names = Names(c, N)
  BY <1>1 DEF Names
<1>4. \A s : elements(s) = Elements(c, N, s)
  BY <1>1 DEF Elements, AssignsIn
<1>5. ASSUME NEW s \in Names(c, N), NEW e \in Elements(c, N, s)
      PROVE  secs[s][e] = ValueOf(c[first(Assigns(c, s, e))][3])
  <2>1. PICK A : A = Assigns(c, s, e)
    OBVIOUS
  <2>2. A = {k \in 1..N : Assignment(c[k]) /\ SectionAt(c, k) = s /\ c[k][1].t = e}
    BY <1>1, <2>1 DEF Assigns
  <2>3. PICK k \in AssignsIn(c, N, s) : c[k][1].t = e
    BY DEF Elements
  <2>4. k \in A /\ A \subseteq Nat
    BY <1>1, <2>2, <2>3 DEF AssignsIn
  <2>5. \E i \in A : \A j \in A : i <= j
    BY <2>4, LeastNumber
  <2>6. PICK m : m = first(A)
    OBVIOUS
  <2>7. m \in A /\ \A j \in A : m <= j
    BY <2>5, <2>6
  <2>8. m \in 1..N /\ m \in Nat /\ Assignment(c[m]) /\ SectionAt(c, m) = s /\ c[m][1].t = e
    BY <2>2, <2>7
  <2>9. m \in AssignsIn(c, m, s)
    BY <2>8 DEF AssignsIn
  <2>10. ASSUME NEW g \in 1..(m - 1), g \in AssignsIn(c, g, s), c[g][1].t = e PROVE FALSE
    <3>1. g \in 1..N /\ g \in Nat /\ g < m
      BY <1>1, <2>8
    <3>2. g \in A
      BY <2>2, <2>10, <3>1 DEF AssignsIn
    <3>3. QED
      BY <2>7, <2>8, <3>1, <3>2
  <2>11. IsFirst(c, s, m)
    BY <2>8, <2>9, <2>10 DEF IsFirst
  <2>12. secs[s][c[m][1].t] = ValueOf(c[m][3])
    BY <1>1, <2>8, <2>11 DEF UpToLine
  <2>13. QED
    BY <2>1, <2>6, <2>8, <2>12
<1> HIDE DEF names, elements, first
<1>6. \A s \in Names(c, N) : secs[s] = [e \in elements(s) |-> ValueOf(c[first(Assigns(c, s, e))][3])]
  <2>1. ASSUME NEW s \in Names(c, N)
        PROVE  secs[s] = [e \in elements(s) |-> ValueOf(c[first(Assigns(c, s, e))][3])]
    <3>1. secs[s] = [e \in Elements(c, N, s) |-> secs[s][e]]
      BY <1>1 DEF UpToLine
    <3>2. elements(s) = Elements(c, N, s)
      BY <1>4
    <3>3. QED
      BY <1>5, <3>1, <3>2
  <2>2. QED
    BY <2>1
<1>7. secs = [s \in Names(c, N) |-> secs[s]]
  BY <1>1 DEF UpToLine
<1>8. QED
  BY <1>2, <1>3, <1>6, <1>7

(* What the scanner has before it: the lexemes of a file behind the first  *)
(* n, in its buffer and in the stream.                                     *)
Unread(f, n, a, s) ==
  /\ f \in Seq(Lexemes) /\ n \in Nat /\ a \in Seq(Lexemes) /\ s \in Seq(Lexemes)
  /\ Len(f) = n + Len(a) + Len(s)
  /\ \A k \in 1..Len(a) : a[k] = f[n + k]
  /\ \A k \in 1..Len(s) : s[k] = f[n + Len(a) + k]

LEMMA Matched ==
  ASSUME NEW f, NEW n, Unread(f, n, ahead, stream), ahead # <<>>
  PROVE  /\ n < Len(f) /\ Head(ahead) = f[n + 1] /\ Head(ahead) \in Lexemes
         /\ Unread(f, n + 1, Tail(ahead), stream)
<1>1. PICK p, q, t : p = Len(ahead) /\ q = Len(stream) /\ t = Tail(ahead)
  OBVIOUS
<1>2. /\ f \in Seq(Lexemes) /\ n \in Nat /\ ahead \in Seq(Lexemes) /\ stream \in Seq(Lexemes)
      /\ Len(f) = n + p + q /\ p \in Nat /\ q \in Nat
      /\ \A k \in 1..p : ahead[k] = f[n + k]
      /\ \A k \in 1..q : stream[k] = f[n + p + k]
  <2>1. f \in Seq(Lexemes) /\ n \in Nat /\ ahead \in Seq(Lexemes) /\ stream \in Seq(Lexemes)
    BY DEF Unread
  <2>2. p \in Nat /\ q \in Nat
    BY <1>1, <2>1
  <2>3. /\ Len(f) = n + p + q
        /\ \A k \in 1..p : ahead[k] = f[n + k]
        /\ \A k \in 1..q : stream[k] = f[n + p + k]
    BY <1>1, Zenon DEF Unread
  <2>4. QED
    BY <2>1, <2>2, <2>3
<1>3. p > 0 /\ t \in Seq(Lexemes) /\ Len(t) = p - 1 /\ Head(ahead) = ahead[1] /\ Head(ahead) \in Lexemes
  BY <1>1, <1>2
<1>4. \A k \in 1..(p - 1) : t[k] = ahead[k + 1]
  BY <1>1, <1>2, <1>3, HeadTailProperties
<1>5. \A k \in 1..(p - 1) : t[k] = f[(n + 1) + k]
  <2>1. ASSUME NEW k \in 1..(p - 1) PROVE t[k] = f[(n + 1) + k]
    <3>1. k + 1 \in 1..p /\ n + (k + 1) = (n + 1) + k
      BY <1>2
    <3>2. ahead[k + 1] = f[n + (k + 1)]
      BY <1>2, <3>1
    <3>3. QED
      BY <1>4, <3>1, <3>2
  <2>2. QED
    BY <2>1
<1>6. \A k \in 1..q : stream[k] = f[(n + 1) + (p - 1) + k]
  <2>1. \A k \in 1..q : n + p + k = (n + 1) + (p - 1) + k
    BY <1>2
  <2>2. QED
    BY <1>2, <2>1
<1>7. Len(f) = (n + 1) + (p - 1) + q /\ n + 1 \in Nat /\ n < Len(f)
  BY <1>2, <1>3
<1>8. Head(ahead) = f[n + 1]
  <2>1. 1 \in 1..p
    BY <1>2, <1>3
  <2>2. QED
    BY <1>2, <1>3, <2>1
<1>9. QED
  BY <1>1, <1>2, <1>3, <1>5, <1>6, <1>7, <1>8 DEF Unread

LEMMA ReadOn ==
  ASSUME NEW f, NEW n, Unread(f, n, ahead, stream), ahead = <<>>, yy_get_next_buffer
  PROVE  Unread(f, n, ahead', stream')
<1>1. CHUNK \in Nat \ {0}
  BY IniAssumption
<1>2. PICK q : q = Len(stream)
  OBVIOUS
<1>3. /\ f \in Seq(Lexemes) /\ n \in Nat /\ stream \in Seq(Lexemes) /\ q \in Nat /\ Len(f) = n + q
      /\ \A k \in 1..q : stream[k] = f[n + k]
  <2>1. Len(ahead) = 0
    OBVIOUS
  <2>2. /\ f \in Seq(Lexemes) /\ n \in Nat /\ stream \in Seq(Lexemes)
        /\ Len(f) = n + 0 + q /\ \A k \in 1..q : stream[k] = f[n + 0 + k]
    BY <1>2, <2>1 DEF Unread
  <2>3. q \in Nat
    BY <1>2, <2>2
  <2>4. n + 0 = n
    BY <2>2
  <2>5. QED
    BY <2>2, <2>3, <2>4
<1>4. PICK m : m = IF q < CHUNK THEN q ELSE CHUNK
  OBVIOUS
<1>5. m \in Nat /\ m <= q
  BY <1>1, <1>3, <1>4
<1>6. ahead' = SubSeq(stream, 1, m) /\ stream' = SubSeq(stream, m + 1, q)
  BY <1>2, <1>4 DEF yy_get_next_buffer
<1>7. /\ ahead' \in Seq(Lexemes) /\ Len(ahead') = m /\ \A k \in 1..m : ahead'[k] = stream[k]
  BY <1>2, <1>3, <1>5, <1>6
<1>8. /\ stream' \in Seq(Lexemes) /\ Len(stream') = q - m
      /\ \A k \in 1..(q - m) : stream'[k] = stream[m + k]
  BY <1>2, <1>3, <1>5, <1>6
<1>9. \A k \in 1..m : ahead'[k] = f[n + k]
  <2>1. ASSUME NEW k \in 1..m PROVE ahead'[k] = f[n + k]
    <3>1. k \in 1..q
      BY <1>3, <1>5
    <3>2. ahead'[k] = stream[k]
      BY <1>7
    <3>3. stream[k] = f[n + k]
      BY <1>3, <3>1
    <3>4. QED
      BY <3>2, <3>3
  <2>2. QED
    BY <2>1
<1>10. \A k \in 1..(q - m) : stream'[k] = f[n + m + k]
  <2>1. ASSUME NEW k \in 1..(q - m) PROVE stream'[k] = f[n + m + k]
    <3>1. m + k \in 1..q /\ n + (m + k) = n + m + k
      BY <1>3, <1>5
    <3>2. QED
      BY <1>3, <1>8, <3>1
  <2>2. QED
    BY <2>1
<1>11. Len(f) = n + m + (q - m)
  BY <1>3, <1>5
<1>12. QED
  BY <1>3, <1>7, <1>8, <1>9, <1>10, <1>11 DEF Unread

(* Where the reader may stand in a text that follows the grammar: between  *)
(* lines, behind the bracket or the name of a header, behind the name or   *)
(* the "=" of an assignment.                                               *)
Between(c, secs, i) ==
  /\ UpToLine(c, i, secs)
  /\ pstate = (IF i = 0 THEN "start" ELSE "section")
  /\ i > 0 => start = "SLASSIGNMENT" /\ section = SectionAt(c, i)
Bracket(c, secs, i) ==
  /\ i < Len(c) /\ Header(c[i + 1]) /\ UpToLine(c, i, secs)
  /\ pstate \in {"start", "section"} /\ start = "SLSECTION"
Titled(c, secs, i) ==
  /\ i < Len(c) /\ Header(c[i + 1]) /\ UpToLine(c, i + 1, secs)
  /\ pstate = "section" /\ start = "SLSECTION" /\ section = SectionAt(c, i + 1)
LeftSide(c, secs, i) ==
  /\ i < Len(c) /\ Assignment(c[i + 1]) /\ UpToLine(c, i, secs) /\ i > 0
  /\ start = "INITIAL" /\ section = SectionAt(c, i) /\ nodep.name = c[i + 1][1].t
Stands(c, secs, i) ==
  \/ Unread(FlattenSeq(c), 3 * i, ahead, stream) /\ Between(c, secs, i)
  \/ Unread(FlattenSeq(c), 3 * i + 1, ahead, stream) /\ Bracket(c, secs, i)
  \/ Unread(FlattenSeq(c), 3 * i + 2, ahead, stream) /\ Titled(c, secs, i)
  \/ Unread(FlattenSeq(c), 3 * i + 1, ahead, stream) /\ LeftSide(c, secs, i) /\ pstate = "identifier"
  \/ Unread(FlattenSeq(c), 3 * i + 2, ahead, stream) /\ LeftSide(c, secs, i) /\ pstate = "equals"

(* What the initial states establish and every step keeps.                 *)
Cur == Len(wrote)
Done(k) == files[k].sections = Meaning(wrote[k])
FirstOfPath == {i \in DOMAIN files : \A j \in 1..i-1 : files[j].path # files[i].path}
ReaderShape ==
  /\ fphase \in {"idle", "loop", "parse"} /\ feof \in BOOLEAN
  /\ wrote \in Seq(IniTexts) /\ (fphase # "idle" => Cur > 0)
  /\ files = [k \in 1..Cur |-> [path |-> files[k].path, sections |-> files[k].sections]]
  /\ linked = FirstOfPath
  /\ nodep = [name |-> nodep.name, value |-> nodep.value]
AllGrammatical == \A i \in DOMAIN wrote : Grammatical(wrote[i])
Progress ==
  /\ ~erred
  /\ \A k \in 1..Cur : k < Cur \/ fphase = "idle" => Done(k)
  /\ fphase = "idle" => ahead = <<>>
  /\ fphase = "loop" /\ feof => ahead = <<>> /\ Done(Cur)
  /\ fphase = "loop" /\ ~feof =>
       ahead = <<>> /\ stream = FlattenSeq(wrote[Cur]) /\ files[Cur].sections = [s \in {} |-> {}]
  /\ fphase = "parse" => \E i \in 0..Len(wrote[Cur]) : Stands(wrote[Cur], files[Cur].sections, i)
ReaderIInv == ReaderShape /\ (AllGrammatical => Progress)

LEMMA ReaderInit == IniInit => ReaderIInv
<1> SUFFICES ASSUME IniInit PROVE ReaderIInv
  OBVIOUS
<1>1. wrote = <<>> /\ files = <<>> /\ linked = {}
  BY DEF IniInit
<1>2. fphase = "idle" /\ feof = FALSE /\ ~erred /\ ahead = <<>> /\ nodep = [name |-> "", value |-> ""]
  BY DEF IniInit, NoElement, EmptyBuffer
<1>3. Cur = 0
  <2>1. Len(<<>>) = 0
    OBVIOUS
  <2>2. QED
    BY <1>1, <2>1 DEF Cur
<1>4. wrote \in Seq(IniTexts) /\ 1..Cur = {}
  BY <1>1, <1>3
<1>5. files = [k \in 1..Cur |-> [path |-> files[k].path, sections |-> files[k].sections]]
  BY <1>1, <1>4
<1>6. linked = FirstOfPath
  <2>1. DOMAIN files = {}
    BY <1>1
  <2>2. QED
    BY <1>1, <2>1 DEF FirstOfPath
<1>7. nodep = [name |-> nodep.name, value |-> nodep.value]
  BY <1>2
<1>8. QED
  BY <1>2, <1>3, <1>4, <1>5, <1>6, <1>7 DEF ReaderIInv, ReaderShape, Progress

(* A text that was read follows the grammar, if all of them do.            *)
LEMMA TextRead ==
  ASSUME ReaderShape, AllGrammatical, NEW k \in 1..Cur
  PROVE  Grammar(wrote[k])
<1>1. wrote \in Seq(IniTexts) /\ DOMAIN wrote = 1..Cur
  BY DEF ReaderShape, Cur
<1>2. wrote[k] \in IniTexts
  BY <1>1 DEF Cur
<1>3. QED
  BY <1>1, <1>2, IniAssumption DEF Grammar, AllGrammatical

(* The node a file gets, and what is put into it.                          *)
LEMMA SectionNode ==
  ASSUME NEW node, NEW p, NEW q, node = [path |-> p, sections |-> q], NEW name
  PROVE  if_add_section_node(node, name) = [path |-> p, sections |-> AddNode(q, name, [e \in {} |-> ""])]
<1>1. PICK r : r = AddNode(q, name, [e \in {} |-> ""])
  OBVIOUS
<1>2. node.sections = q
  OBVIOUS
<1>3. if_add_section_node(node, name) = [node EXCEPT !.sections = r]
  BY <1>1, <1>2 DEF if_add_section_node
<1>4. QED
  BY <1>1, <1>3

LEMMA ElementNode ==
  ASSUME NEW node, NEW p, NEW q, node = [path |-> p, sections |-> q], NEW sname, NEW e
  PROVE  if_add_element(node, sname, e) =
           [path |-> p, sections |-> IF sname \in DOMAIN q
                                     THEN [q EXCEPT ![sname] = AddNode(@, e.name, e.value)] ELSE q]
<1>1. PICK r : r = AddNode(q[sname], e.name, e.value)
  OBVIOUS
<1>2. node.sections = q
  OBVIOUS
<1>3. CASE sname \in DOMAIN q
  <2>1. if_add_element(node, sname, e) = [node EXCEPT !.sections[sname] = r]
    BY <1>1, <1>2, <1>3 DEF if_add_element
  <2>2. PICK w : w = [q EXCEPT ![sname] = r]
    OBVIOUS
  <2>3. [node EXCEPT !.sections[sname] = r] = [node EXCEPT !.sections = w]
    BY <1>2, <2>2
  <2>4. QED
    BY <1>1, <1>3, <2>1, <2>2, <2>3
<1>4. CASE sname \notin DOMAIN q
  BY <1>2, <1>4 DEF if_add_element
<1>5. QED
  BY <1>3, <1>4

LEMMA ShapeParts ==
  ASSUME ReaderShape
  PROVE  /\ Cur \in Nat /\ DOMAIN wrote = 1..Cur /\ Len(files) = Cur /\ DOMAIN files = 1..Cur
         /\ \A k \in 1..Cur : wrote[k] \in IniTexts
                              /\ files[k] = [path |-> files[k].path, sections |-> files[k].sections]
<1>1. /\ wrote \in Seq(IniTexts)
      /\ files = [k \in 1..Cur |-> [path |-> files[k].path, sections |-> files[k].sections]]
  BY DEF ReaderShape
<1>2. Cur \in Nat /\ DOMAIN wrote = 1..Cur /\ \A k \in 1..Cur : wrote[k] \in IniTexts
  BY <1>1 DEF Cur
<1>3. DOMAIN files = 1..Cur /\ \A k \in 1..Cur : files[k] = [path |-> files[k].path, sections |-> files[k].sections]
  BY <1>1
<1>4. Len(files) = Cur
  BY <1>2, <1>3
<1>5. QED
  BY <1>2, <1>3, <1>4

LEMMA NodeChanged ==
  ASSUME ReaderShape, Cur > 0, NEW x, UNCHANGED <<wrote, linked>>,
         files' = [files EXCEPT ![Cur] = [path |-> files[Cur].path, sections |-> x]]
  PROVE  /\ files' = [k \in 1..Cur' |-> [path |-> files'[k].path, sections |-> files'[k].sections]]
         /\ linked' = FirstOfPath' /\ files'[Cur].sections = x
         /\ \A k \in 1..Cur : k < Cur => files'[k] = files[k]
<1>1. /\ Cur \in 1..Cur /\ Cur' = Cur /\ DOMAIN files = 1..Cur
      /\ \A k \in 1..Cur : files[k] = [path |-> files[k].path, sections |-> files[k].sections]
  BY ShapeParts DEF Cur
<1>2. PICK p, n, g : p = files[Cur].path /\ n = Cur /\ g = files'
  OBVIOUS
<1>3. /\ DOMAIN g = 1..n /\ g[n] = [path |-> p, sections |-> x]
      /\ \A k \in 1..n : k # n => g[k] = files[k]
  BY <1>1, <1>2
<1>4. \A k \in 1..n : g[k] = [path |-> g[k].path, sections |-> g[k].sections]
  BY <1>1, <1>2, <1>3
<1>5. g = [k \in 1..n |-> g[k]]
  BY <1>1, <1>2
<1>6. \A k \in 1..n : g[k].path = files[k].path
  BY <1>1, <1>2, <1>3
<1>7. FirstOfPath' = FirstOfPath
  <2>1. \A k \in 1..n : \A j \in 1..(k - 1) : j \in 1..n
    BY <1>1, <1>2, ShapeParts
  <2>2. QED
    BY <1>1, <1>2, <1>3, <1>6, <2>1 DEF FirstOfPath
<1>8. linked' = FirstOfPath'
  BY <1>7 DEF ReaderShape
<1>9. g = [k \in 1..n |-> [path |-> g[k].path, sections |-> g[k].sections]]
  BY <1>4, <1>5
<1>10. g[n].sections = x
  BY <1>3
<1>11. \A k \in 1..n : k < n => g[k] = files[k]
  BY <1>1, <1>2, <1>3, ShapeParts
<1>12. QED
  BY <1>1, <1>2, <1>8, <1>9, <1>10, <1>11

(* Opening a file.                                                         *)
LEMMA OpenKeepsShape ==
  ASSUME ReaderShape, NEW path, NEW content \in IniTexts, OpenIni(path, content)
  PROVE  /\ ReaderShape' /\ Cur' = Cur + 1 /\ wrote'[Cur + 1] = content
         /\ files'[Cur + 1].sections = [s \in {} |-> {}]
         /\ \A k \in 1..Cur : files'[k] = files[k] /\ wrote'[k] = wrote[k]
<1>1. PICK n, g, w, node : n = Cur /\ g = files' /\ w = wrote' /\ node = if_new_inifile(path)
  OBVIOUS
<1>2. /\ n \in Nat /\ Len(files) = n /\ DOMAIN files = 1..n
      /\ \A k \in 1..n : files[k] = [path |-> files[k].path, sections |-> files[k].sections]
  BY <1>1, ShapeParts
<1>3. /\ g = Append(files, node) /\ w = Append(wrote, content) /\ fphase' = "loop" /\ feof' = FALSE
      /\ nodep' = nodep
      /\ linked' = IF \E j \in linked : files[j].path = path THEN linked ELSE linked \cup {n + 1}
  BY <1>1, <1>2 DEF OpenIni, if_add_inifile
<1>4. w \in Seq(IniTexts) /\ Len(w) = n + 1 /\ w[n + 1] = content /\ \A k \in 1..n : w[k] = wrote[k]
  <2>1. wrote \in Seq(IniTexts) /\ Len(wrote) = n
    BY <1>1 DEF ReaderShape, Cur
  <2>2. QED
    BY <1>2, <1>3, <2>1
<1>5. node = [path |-> path, sections |-> [s \in {} |-> {}]]
  BY <1>1 DEF if_new_inifile
<1>6. Len(g) = n + 1 /\ DOMAIN g = 1..(n + 1) /\ g[n + 1] = node /\ \A k \in 1..n : g[k] = files[k]
  <2>1. PICK S : S = {files[k] : k \in 1..n} \cup {node}
    OBVIOUS
  <2>2. files = [k \in 1..n |-> files[k]]
    BY <1>1 DEF ReaderShape
  <2>3. \A k \in 1..n : files[k] \in S
    BY <2>1
  <2>4. files \in Seq(S) /\ node \in S
    BY <1>2, <2>1, <2>2, <2>3
  <2>5. QED
    BY <1>2, <1>3, <2>4
<1>7. g = [k \in 1..(n + 1) |-> g[k]]
  <2>1. PICK S : S = {files[k] : k \in 1..n} \cup {node}
    OBVIOUS
  <2>2. files = [k \in 1..n |-> files[k]]
    BY <1>1 DEF ReaderShape
  <2>3. \A k \in 1..n : files[k] \in S
    BY <2>1
  <2>4. files \in Seq(S) /\ node \in S
    BY <1>2, <2>1, <2>2, <2>3
  <2>5. g \in Seq(S)
    BY <1>3, <2>4
  <2>6. QED
    BY <1>6, <2>5
<1>8. \A k \in 1..(n + 1) : g[k] = [path |-> g[k].path, sections |-> g[k].sections]
  <2>1. ASSUME NEW k \in 1..(n + 1) PROVE g[k] = [path |-> g[k].path, sections |-> g[k].sections]
    <3>1. CASE k = n + 1
      BY <1>5, <1>6, <3>1
    <3>2. CASE k # n + 1
      <4>1. k \in 1..n
        BY <1>2, <3>2
      <4>2. QED
        BY <1>2, <1>6, <4>1
    <3>3. QED
      BY <3>1, <3>2
  <2>2. QED
    BY <2>1
<1>9. linked' = FirstOfPath'
  <2>1. linked = {k \in 1..n : \A j \in 1..k-1 : files[j].path # files[k].path}
    BY <1>2 DEF ReaderShape, FirstOfPath
  <2>2. FirstOfPath' = {k \in 1..(n + 1) : \A j \in 1..k-1 : g[j].path # g[k].path}
    BY <1>1, <1>6 DEF FirstOfPath
  <2>3. \A k \in 1..n : k \in FirstOfPath' <=> k \in linked
    <3>1. ASSUME NEW k \in 1..n PROVE k \in FirstOfPath' <=> k \in linked
      <4>1. k \in 1..(n + 1) /\ \A j \in 1..k-1 : j \in 1..n
        BY <1>2
      <4>2. \A j \in 1..k-1 : g[j].path = files[j].path /\ g[k].path = files[k].path
        BY <1>6, <4>1
      <4>3. QED
        BY <2>1, <2>2, <4>1, <4>2
    <3>2. QED
      BY <3>1
  <2>4. n + 1 \in FirstOfPath' <=> \A j \in 1..n : files[j].path # path
    <3>1. n + 1 \in 1..(n + 1) /\ (n + 1) - 1 = n
      BY <1>2
    <3>2. g[n + 1].path = path /\ \A j \in 1..n : g[j].path = files[j].path
      BY <1>5, <1>6
    <3>3. QED
      BY <2>2, <3>1, <3>2
  <2>5. (\E j \in linked : files[j].path = path) <=> \E j \in 1..n : files[j].path = path
    <3>1. ASSUME NEW j \in 1..n, files[j].path = path PROVE \E k \in linked : files[k].path = path
      <4>1. PICK T : T = {k \in 1..n : files[k].path = path}
        OBVIOUS
      <4>2. T \subseteq Nat /\ j \in T
        BY <1>2, <3>1, <4>1
      <4>3. PICK k \in T : \A m \in T : k <= m
        BY <4>2, LeastNumber
      <4>4. k \in 1..n /\ files[k].path = path
        BY <4>1
      <4>5. ASSUME NEW m \in 1..k-1, files[m].path = files[k].path PROVE FALSE
        <5>1. m \in 1..n /\ m < k /\ k \in Nat /\ m \in Nat
          BY <1>2, <4>4
        <5>2. m \in T
          BY <4>1, <4>4, <4>5, <5>1
        <5>3. k <= m
          BY <4>3, <5>2
        <5>4. QED
          BY <5>1, <5>3
      <4>6. k \in linked
        BY <2>1, <4>4, <4>5
      <4>7. QED
        BY <4>4, <4>6
    <3>2. QED
      BY <2>1, <3>1
  <2>6. linked \subseteq 1..n /\ FirstOfPath' \subseteq 1..(n + 1) /\ n + 1 \notin 1..n
        /\ 1..(n + 1) = (1..n) \cup {n + 1}
    BY <1>2, <2>1, <2>2
  <2>7. CASE \E j \in linked : files[j].path = path
    <3>1. linked' = linked /\ n + 1 \notin FirstOfPath'
      BY <1>3, <2>4, <2>5, <2>7
    <3>2. QED
      BY <2>3, <2>6, <3>1
  <2>8. CASE ~\E j \in linked : files[j].path = path
    <3>1. linked' = linked \cup {n + 1} /\ n + 1 \in FirstOfPath'
      BY <1>3, <2>4, <2>5, <2>8
    <3>2. QED
      BY <2>3, <2>6, <3>1
  <2>9. QED
    BY <2>7, <2>8
<1>10. Cur' = n + 1 /\ n + 1 > 0
  BY <1>1, <1>2, <1>4 DEF Cur
<1>11. g = [k \in 1..(n + 1) |-> [path |-> g[k].path, sections |-> g[k].sections]]
  BY <1>7, <1>8
<1>12. nodep' = [name |-> nodep'.name, value |-> nodep'.value]
  BY <1>3 DEF ReaderShape
<1>13. ReaderShape'
  BY <1>1, <1>3, <1>4, <1>9, <1>10, <1>11, <1>12 DEF ReaderShape
<1>14. g[n + 1].sections = [s \in {} |-> {}]
  BY <1>5, <1>6
<1>15. QED
  BY <1>1, <1>4, <1>6, <1>10, <1>13, <1>14

LEMMA OpenKeeps ==
  ASSUME ReaderIInv, NEW path, NEW content \in IniTexts, OpenIni(path, content)
  PROVE  ReaderIInv'
<1>1. ReaderShape /\ (AllGrammatical => Progress)
  BY DEF ReaderIInv
<1>2. /\ ReaderShape' /\ Cur' = Cur + 1 /\ wrote'[Cur + 1] = content
      /\ files'[Cur + 1].sections = [s \in {} |-> {}]
      /\ \A k \in 1..Cur : files'[k] = files[k] /\ wrote'[k] = wrote[k]
  BY <1>1, OpenKeepsShape
<1>3. /\ fphase = "idle" /\ fphase' = "loop" /\ ahead' = ahead /\ stream' = FlattenSeq(content)
      /\ feof' = FALSE /\ erred' = erred
  BY DEF OpenIni
<1>4. Cur \in Nat /\ DOMAIN wrote = 1..Cur /\ DOMAIN wrote' = 1..(Cur + 1)
  <2>1. DOMAIN wrote' = 1..Cur'
    BY <1>2 DEF ReaderShape, Cur
  <2>2. QED
    BY <1>1, <1>2, <2>1, ShapeParts
<1>5. ASSUME AllGrammatical' PROVE Progress'
  <2>1. AllGrammatical
    BY <1>2, <1>4, <1>5 DEF AllGrammatical
  <2>2. ~erred /\ ahead = <<>> /\ \A k \in 1..Cur : Done(k)
    BY <1>1, <1>3, <2>1 DEF Progress
  <2>3. \A k \in 1..Cur : Done(k)'
    BY <1>2, <2>2 DEF Done
  <2>4. \A k \in 1..Cur' : k < Cur' => k \in 1..Cur
    BY <1>2, <1>4
  <2>5. \A k \in 1..Cur' : k < Cur' \/ fphase' = "idle" => Done(k)'
    BY <1>3, <2>3, <2>4
  <2>6. /\ ~erred' /\ ahead' = <<>> /\ stream' = FlattenSeq(wrote'[Cur'])
        /\ files'[Cur'].sections = [s \in {} |-> {}]
    BY <1>2, <1>3, <2>2
  <2>7. QED
    BY <1>3, <2>5, <2>6 DEF Progress
<1>6. QED
  BY <1>2, <1>5 DEF ReaderIInv

(* What the scanner makes of a lexeme.                                     *)
LEMMA Scans ==
  ASSUME NEW x \in Lexemes, NEW s
  PROVE  /\ x.k = "[" => TokenOf(s, x) = "" /\ StartAfter(s, x) = "SLSECTION"
         /\ x.k \in Words /\ s = "SLSECTION" =>
              TokenOf(s, x) = "SECTION_DECL" /\ StartAfter(s, x) = "SLSECTION"
         /\ x.k = "]" /\ s = "SLSECTION" => TokenOf(s, x) = "" /\ StartAfter(s, x) = "SLASSIGNMENT"
         /\ x.k = "word" /\ s = "SLASSIGNMENT" =>
              TokenOf(s, x) = "IDENTIFIER" /\ StartAfter(s, x) = "INITIAL"
         /\ x.k = "=" /\ s = "INITIAL" => TokenOf(s, x) = "=" /\ StartAfter(s, x) = "INITIAL"
         /\ x.k \in Words /\ s = "INITIAL" =>
              /\ TokenOf(s, x) = IF x.k = "num" THEN "NUMBER" ELSE "STRING"
              /\ StartAfter(s, x) = "SLASSIGNMENT"
<1>1. CASE x.k = "["
  <2>1. RuleOf(s, x) = 3
    BY <1>1 DEF RuleOf, Words
  <2>2. QED
    BY <1>1, <2>1 DEF TokenOf, StartAfter, Words
<1>2. CASE x.k \in Words /\ s = "SLSECTION"
  <2>1. RuleOf(s, x) = 2
    BY <1>2 DEF RuleOf, Words
  <2>2. QED
    BY <1>2, <2>1 DEF TokenOf, StartAfter, Words
<1>3. CASE x.k = "]" /\ s = "SLSECTION"
  <2>1. RuleOf(s, x) = 6
    BY <1>3 DEF RuleOf, Words
  <2>2. QED
    BY <1>3, <2>1 DEF TokenOf, StartAfter, Words
<1>4. CASE x.k = "word" /\ s = "SLASSIGNMENT"
  <2>1. RuleOf(s, x) = 9
    BY <1>4 DEF RuleOf, Words
  <2>2. QED
    BY <1>4, <2>1 DEF TokenOf, StartAfter, Words
<1>5. CASE x.k = "=" /\ s = "INITIAL"
  <2>1. RuleOf(s, x) = 12
    BY <1>5 DEF RuleOf, Words
  <2>2. QED
    BY <1>5, <2>1 DEF TokenOf, StartAfter, Words
<1>6. CASE x.k \in Words /\ s = "INITIAL"
  <2>1. /\ x.k = "num" => RuleOf(s, x) = 7
        /\ x.k # "num" => RuleOf(s, x) = 11
    BY <1>6 DEF RuleOf, Words
  <2>2. CASE x.k = "num"
    BY <1>6, <2>1, <2>2 DEF TokenOf, StartAfter, Words
  <2>3. CASE x.k # "num"
    BY <1>6, <2>1, <2>3 DEF TokenOf, StartAfter, Words
  <2>4. QED
    BY <2>2, <2>3
<1>7. QED
  BY <1>1, <1>2, <1>3, <1>4, <1>5, <1>6

(* What a token does to the tree.                                          *)
Kept == UNCHANGED <<fphase, pstate, files, section, nodep, erred>>

LEMMA LexemeTaken ==
  ASSUME ScanToken
  PROVE  LET x == Head(ahead)
             tok == TokenOf(start, x)
         IN  /\ fphase = "parse" /\ ahead # <<>> /\ ahead' = Tail(ahead)
             /\ start' = StartAfter(start, x)
             /\ UNCHANGED <<stream, feof, linked, wrote>>
             /\ tok = "" => Kept
             /\ tok # "" /\ Shifts(pstate, tok) =>
                  ShiftReduce(tok, x.t) /\ UNCHANGED <<fphase, erred>>
             /\ tok # "" /\ ~Shifts(pstate, tok) => SyntaxError
  BY DEF ScanToken, Kept

LEMMA ScanKeepsShape ==
  ASSUME ReaderShape, ScanToken
  PROVE  /\ ReaderShape'
         /\ \A k \in 1..Cur : k < Cur => files'[k] = files[k]
<1>1. PICK x : x = Head(ahead)
  OBVIOUS
<1>2. PICK tok : tok = TokenOf(start, x)
  OBVIOUS
<1>3. /\ fphase = "parse" /\ UNCHANGED <<stream, feof, linked, wrote>>
      /\ tok = "" => Kept
      /\ tok # "" /\ Shifts(pstate, tok) => ShiftReduce(tok, x.t) /\ UNCHANGED <<fphase, erred>>
      /\ tok # "" /\ ~Shifts(pstate, tok) => SyntaxError
  BY <1>1, <1>2, LexemeTaken
<1>4. /\ Cur > 0 /\ Len(files) = Cur /\ Cur \in 1..Cur /\ nodep = [name |-> nodep.name, value |-> nodep.value]
      /\ files[Cur] = [path |-> files[Cur].path, sections |-> files[Cur].sections]
      /\ Cur' = Cur
  <2>1. Cur > 0 /\ nodep = [name |-> nodep.name, value |-> nodep.value] /\ Cur' = Cur
    BY <1>3 DEF ReaderShape, Cur
  <2>2. Cur \in Nat /\ Len(files) = Cur
    BY ShapeParts
  <2>3. Cur \in 1..Cur
    BY <2>1, <2>2
  <2>4. files[Cur] = [path |-> files[Cur].path, sections |-> files[Cur].sections]
    BY <2>3, ShapeParts
  <2>5. QED
    BY <2>1, <2>2, <2>3, <2>4
<1>5. CASE /\ UNCHANGED files /\ fphase' \in {"idle", "loop", "parse"}
           /\ nodep' = [name |-> nodep'.name, value |-> nodep'.value]
  <2>1. FirstOfPath' = FirstOfPath
    BY <1>5 DEF FirstOfPath
  <2>2. files' = [k \in 1..Cur' |-> [path |-> files'[k].path, sections |-> files'[k].sections]]
    BY <1>4, <1>5 DEF ReaderShape
  <2>3. QED
    BY <1>3, <1>4, <1>5, <2>1, <2>2 DEF ReaderShape
<1>6. ASSUME NEW y, files' = [files EXCEPT ![Cur] = [path |-> files[Cur].path, sections |-> y]],
             fphase' = fphase, nodep' = [name |-> nodep'.name, value |-> nodep'.value]
      PROVE  /\ ReaderShape'
             /\ \A k \in 1..Cur : k < Cur => files'[k] = files[k]
  <2>1. /\ files' = [k \in 1..Cur' |-> [path |-> files'[k].path, sections |-> files'[k].sections]]
        /\ linked' = FirstOfPath'
        /\ \A k \in 1..Cur : k < Cur => files'[k] = files[k]
    BY <1>3, <1>4, <1>6, NodeChanged
  <2>2. QED
    BY <1>3, <1>4, <1>6, <2>1 DEF ReaderShape
<1>7. CASE tok = ""
  BY <1>3, <1>4, <1>5, <1>7 DEF Kept
<1>8. CASE tok # "" /\ ~Shifts(pstate, tok)
  BY <1>3, <1>4, <1>5, <1>8 DEF SyntaxError
<1>9. CASE tok # "" /\ Shifts(pstate, tok)
  <2>1. ShiftReduce(tok, x.t) /\ fphase' = fphase
    BY <1>3, <1>9
  <2>2. CASE /\ files' = [files EXCEPT ![Len(files)] = if_add_section_node(@, x.t)] /\ nodep' = nodep
    <3>1. PICK y : if_add_section_node(files[Cur], x.t) = [path |-> files[Cur].path, sections |-> y]
      <4>1. PICK p, q, node : p = files[Cur].path /\ q = files[Cur].sections /\ node = files[Cur]
        OBVIOUS
      <4>2. if_add_section_node(node, x.t) = [path |-> p, sections |-> AddNode(q, x.t, [e \in {} |-> ""])]
        BY <1>4, <4>1, SectionNode
      <4>3. QED
        BY <4>1, <4>2
    <3>2. QED
      BY <1>4, <1>6, <2>1, <2>2, <3>1
  <2>3. CASE nodep' = [name |-> x.t, value |-> ""] /\ UNCHANGED <<files, section>>
    BY <1>3, <1>4, <1>5, <2>1, <2>3
  <2>4. CASE UNCHANGED <<files, section, nodep>>
    BY <1>3, <1>4, <1>5, <2>1, <2>4
  <2>5. CASE /\ nodep' = [nodep EXCEPT !.value = <<tok, x.t>>]
             /\ files' = [files EXCEPT ![Len(files)] = if_add_element(@, section, nodep')]
    <3>1. PICK y : if_add_element(files[Cur], section, nodep') = [path |-> files[Cur].path, sections |-> y]
      BY <1>4, ElementNode
    <3>2. nodep' = [name |-> nodep'.name, value |-> nodep'.value]
      BY <1>4, <2>5
    <3>3. QED
      BY <1>4, <1>6, <2>1, <2>5, <3>1, <3>2
  <2>6. QED
    BY <2>1, <2>2, <2>3, <2>4, <2>5 DEF ShiftReduce
<1>10. QED
  BY <1>7, <1>8, <1>9

(* The scanner takes a lexeme of a text that follows the grammar: there is *)
(* no error, and the reader stands one lexeme further on.                  *)
LEMMA ScanOn ==
  ASSUME ReaderShape, ScanToken, ~erred, NEW c, c = wrote[Cur], Grammar(c),
         NEW i \in 0..Len(c), Stands(c, files[Cur].sections, i)
  PROVE  /\ ~erred' /\ fphase' = "parse"
         /\ \E e : files'[Cur].sections = e /\ \E j \in 0..Len(c) : Stands(c, e, j)'
<1>1. PICK x, f, a, d : /\ x = Head(ahead) /\ f = FlattenSeq(c) /\ a = Tail(ahead)
                        /\ d = files[Cur].sections
  OBVIOUS
<1>2. PICK tok : tok = TokenOf(start, x)
  OBVIOUS
<1>3. /\ fphase = "parse" /\ ahead # <<>> /\ ahead' = a /\ stream' = stream
      /\ start' = StartAfter(start, x) /\ UNCHANGED wrote
      /\ tok = "" => Kept
      /\ tok # "" /\ Shifts(pstate, tok) => ShiftReduce(tok, x.t) /\ UNCHANGED <<fphase, erred>>
  BY <1>1, <1>2, LexemeTaken
<1>4. /\ Len(c) \in Nat /\ Flat(f, c)
      /\ \A k \in 1..Len(c) : (Header(c[k]) \/ Assignment(c[k])) /\ ~(Header(c[k]) /\ Assignment(c[k]))
      /\ Header(c[1])
  BY <1>1, LineTypes, FlattenIs
<1>5. \A n : Unread(f, n, ahead, stream) =>
        /\ n < Len(f) /\ x = f[n + 1] /\ x \in Lexemes /\ Unread(f, n + 1, ahead', stream')
  BY <1>1, <1>3, Matched
<1>6. Len(f) = 3 * Len(c) /\ \A k \in 1..Len(c) : /\ f[3 * k - 3 + 1] = c[k][1]
                                                  /\ f[3 * k - 3 + 2] = c[k][2]
                                                  /\ f[3 * k - 3 + 3] = c[k][3]
  BY <1>4 DEF Flat
<1>7. i \in Nat /\ i <= Len(c)
  BY <1>4
<1>8. ASSUME i < Len(c)
      PROVE  /\ i + 1 \in 1..Len(c) /\ (i + 1) - 1 = i /\ i + 1 # 0 /\ i + 1 \in 0..Len(c)
             /\ f[3 * i + 1] = c[i + 1][1] /\ f[(3 * i + 1) + 1] = c[i + 1][2]
             /\ f[(3 * i + 2) + 1] = c[i + 1][3] /\ (3 * i + 2) + 1 = 3 * (i + 1)
             /\ (3 * i + 1) + 1 = 3 * i + 2
  <2>1. i + 1 \in 1..Len(c) /\ i + 1 \in 0..Len(c)
    BY <1>4, <1>7, <1>8
  <2>2. /\ f[3 * (i + 1) - 3 + 1] = c[i + 1][1] /\ f[3 * (i + 1) - 3 + 2] = c[i + 1][2]
        /\ f[3 * (i + 1) - 3 + 3] = c[i + 1][3]
    BY <1>6, <2>1
  <2>3. /\ 3 * (i + 1) - 3 + 1 = 3 * i + 1 /\ 3 * (i + 1) - 3 + 2 = (3 * i + 1) + 1
        /\ 3 * (i + 1) - 3 + 3 = (3 * i + 2) + 1 /\ (3 * i + 2) + 1 = 3 * (i + 1)
        /\ (3 * i + 1) + 1 = 3 * i + 2 /\ (i + 1) - 1 = i /\ i + 1 # 0
    BY <1>7
  <2>4. QED
    BY <2>1, <2>2, <2>3
<1>9. /\ Cur > 0 /\ Cur' = Cur /\ Cur \in 1..Cur /\ Len(files) = Cur
      /\ nodep = [name |-> nodep.name, value |-> nodep.value]
      /\ files[Cur] = [path |-> files[Cur].path, sections |-> d] /\ DOMAIN files = 1..Cur
  <2>1. Cur > 0 /\ nodep = [name |-> nodep.name, value |-> nodep.value] /\ Cur' = Cur
    BY <1>3 DEF ReaderShape, Cur
  <2>2. Cur \in Nat /\ Len(files) = Cur /\ DOMAIN files = 1..Cur
    BY ShapeParts
  <2>3. Cur \in 1..Cur
    BY <2>1, <2>2
  <2>4. files[Cur] = [path |-> files[Cur].path, sections |-> files[Cur].sections]
    BY <2>3, ShapeParts
  <2>5. QED
    BY <1>1, <2>1, <2>2, <2>3, <2>4
<1>10. CASE Unread(f, 3 * i, ahead, stream) /\ Between(c, d, i)
  <2>1. i < Len(c) /\ x = f[3 * i + 1] /\ x \in Lexemes /\ Unread(f, 3 * i + 1, ahead', stream')
    <3>1. /\ 3 * i < Len(f) /\ x = f[3 * i + 1] /\ x \in Lexemes
          /\ Unread(f, 3 * i + 1, ahead', stream')
      BY <1>5, <1>10
    <3>2. i < Len(c)
      BY <1>4, <1>6, <1>7, <3>1
    <3>3. QED
      BY <3>1, <3>2
  <2>2. x = c[i + 1][1] /\ i + 1 \in 1..Len(c)
    BY <1>8, <2>1
  <2>3. CASE Header(c[i + 1])
    <3>1. x.k = "["
      BY <2>2, <2>3 DEF Header
    <3>2. tok = "" /\ start' = "SLSECTION"
      BY <1>2, <1>3, <2>1, <3>1, Scans
    <3>3. UNCHANGED <<fphase, pstate, files, section, nodep, erred>>
      BY <1>3, <3>2 DEF Kept
    <3>4. Bracket(c, d, i)'
      BY <1>10, <2>1, <2>3, <3>2, <3>3 DEF Bracket, Between
    <3>5. Stands(c, d, i)'
      BY <1>1, <2>1, <3>4 DEF Stands
    <3>6. files'[Cur].sections = d
      BY <1>1, <3>3
    <3>7. QED
      BY <1>3, <1>7, <3>3, <3>5, <3>6
  <2>4. CASE Assignment(c[i + 1])
    <3>1. x.k = "word"
      BY <2>2, <2>4 DEF Assignment
    <3>2. i > 0
      <4>1. i = 0 => c[i + 1] = c[1]
        OBVIOUS
      <4>2. QED
        BY <1>4, <1>7, <2>2, <2>4, <4>1
    <3>3. start = "SLASSIGNMENT" /\ section = SectionAt(c, i) /\ pstate = "section" /\ UpToLine(c, i, d)
      BY <1>10, <3>2 DEF Between
    <3>4. tok = "IDENTIFIER" /\ start' = "INITIAL"
      BY <1>2, <1>3, <2>1, <3>1, <3>3, Scans
    <3>5. ShiftReduce(tok, x.t) /\ UNCHANGED <<fphase, erred>>
      BY <1>3, <3>3, <3>4 DEF Shifts
    <3>6. nodep' = [name |-> x.t, value |-> ""] /\ pstate' = "identifier" /\ UNCHANGED <<files, section>>
      BY <3>4, <3>5 DEF ShiftReduce
    <3>7. LeftSide(c, d, i)'
      BY <2>1, <2>2, <2>4, <3>2, <3>3, <3>4, <3>6 DEF LeftSide
    <3>8. Stands(c, d, i)'
      BY <1>1, <2>1, <3>6, <3>7 DEF Stands
    <3>9. files'[Cur].sections = d
      BY <1>1, <3>6
    <3>10. QED
      BY <1>3, <1>7, <3>5, <3>8, <3>9
  <2>5. QED
    BY <1>4, <2>2, <2>3, <2>4
<1>11. CASE Unread(f, 3 * i + 1, ahead, stream) /\ Bracket(c, d, i)
  <2>1. /\ i < Len(c) /\ Header(c[i + 1]) /\ UpToLine(c, i, d)
        /\ pstate \in {"start", "section"} /\ start = "SLSECTION"
    BY <1>11 DEF Bracket
  <2>2. x = c[i + 1][2] /\ x \in Lexemes /\ Unread(f, 3 * i + 2, ahead', stream') /\ i + 1 \in 1..Len(c)
    BY <1>5, <1>8, <1>11, <2>1
  <2>3. x.k \in Words
    BY <2>1, <2>2 DEF Header
  <2>4. tok = "SECTION_DECL" /\ start' = "SLSECTION"
    BY <1>2, <1>3, <2>1, <2>2, <2>3, Scans
  <2>5. ShiftReduce(tok, x.t) /\ UNCHANGED <<fphase, erred>>
    BY <1>3, <2>1, <2>4 DEF Shifts
  <2>6. /\ section' = x.t /\ pstate' = "section"
        /\ files' = [files EXCEPT ![Len(files)] = if_add_section_node(@, x.t)]
    BY <2>4, <2>5 DEF ShiftReduce
  <2>7. PICK e : e = AddNode(d, x.t, [k \in {} |-> ""])
    OBVIOUS
  <2>8. files'[Cur].sections = e
    <3>1. PICK p, node : p = files[Cur].path /\ node = files[Cur]
      OBVIOUS
    <3>2. if_add_section_node(node, x.t) = [path |-> p, sections |-> e]
      BY <1>9, <2>7, <3>1, SectionNode
    <3>3. files'[Cur] = if_add_section_node(node, x.t)
      BY <1>9, <2>6, <3>1
    <3>4. QED
      BY <3>2, <3>3
  <2>9. UpToLine(c, i + 1, e)
    <3>1. PICK k : k = i + 1 /\ k \in 1..Len(c) /\ k - 1 = i
      BY <1>8, <2>1
    <3>2. UpToLine(c, k, AddNode(d, c[k][2].t, [m \in {} |-> ""]))
      BY <2>1, <3>1, HeaderRead
    <3>3. QED
      BY <2>2, <2>7, <3>1, <3>2
  <2>10. section' = SectionAt(c, i + 1)
    BY <2>1, <2>2, <2>6, SectionSteps
  <2>11. Titled(c, e, i)'
    BY <2>1, <2>4, <2>6, <2>9, <2>10 DEF Titled
  <2>12. Stands(c, e, i)'
    BY <1>1, <2>2, <2>11 DEF Stands
  <2>13. QED
    BY <1>3, <1>7, <2>5, <2>8, <2>12
<1>12. CASE Unread(f, 3 * i + 2, ahead, stream) /\ Titled(c, d, i)
  <2>1. /\ i < Len(c) /\ Header(c[i + 1]) /\ UpToLine(c, i + 1, d)
        /\ pstate = "section" /\ start = "SLSECTION" /\ section = SectionAt(c, i + 1)
    BY <1>12 DEF Titled
  <2>2. x = c[i + 1][3] /\ x \in Lexemes /\ Unread(f, 3 * (i + 1), ahead', stream') /\ i + 1 \in 0..Len(c)
        /\ i + 1 # 0
    BY <1>5, <1>8, <1>12, <2>1
  <2>3. x.k = "]"
    BY <2>1, <2>2 DEF Header
  <2>4. tok = "" /\ start' = "SLASSIGNMENT"
    BY <1>2, <1>3, <2>1, <2>2, <2>3, Scans
  <2>5. UNCHANGED <<fphase, pstate, files, section, nodep, erred>>
    BY <1>3, <2>4 DEF Kept
  <2>6. Between(c, d, i + 1)'
    BY <2>1, <2>2, <2>4, <2>5 DEF Between
  <2>7. Stands(c, d, i + 1)'
    BY <1>1, <2>2, <2>6 DEF Stands
  <2>8. files'[Cur].sections = d
    BY <1>1, <2>5
  <2>9. QED
    BY <1>3, <2>2, <2>5, <2>7, <2>8
<1>13. CASE Unread(f, 3 * i + 1, ahead, stream) /\ LeftSide(c, d, i) /\ pstate = "identifier"
  <2>1. i < Len(c) /\ Assignment(c[i + 1]) /\ start = "INITIAL"
    BY <1>13 DEF LeftSide
  <2>2. x = c[i + 1][2] /\ x \in Lexemes /\ Unread(f, 3 * i + 2, ahead', stream')
    BY <1>5, <1>8, <1>13, <2>1
  <2>3. x.k = "="
    BY <2>1, <2>2 DEF Assignment
  <2>4. tok = "=" /\ start' = "INITIAL"
    BY <1>2, <1>3, <2>1, <2>2, <2>3, Scans
  <2>5. ShiftReduce(tok, x.t) /\ UNCHANGED <<fphase, erred>>
    BY <1>3, <1>13, <2>4 DEF Shifts
  <2>6. pstate' = "equals" /\ UNCHANGED <<files, section, nodep>>
    BY <2>4, <2>5 DEF ShiftReduce
  <2>7. LeftSide(c, d, i)'
    BY <1>13, <2>4, <2>6 DEF LeftSide
  <2>8. Stands(c, d, i)'
    BY <1>1, <2>2, <2>6, <2>7 DEF Stands
  <2>9. files'[Cur].sections = d
    BY <1>1, <2>6
  <2>10. QED
    BY <1>3, <1>7, <2>5, <2>8, <2>9
<1>14. CASE Unread(f, 3 * i + 2, ahead, stream) /\ LeftSide(c, d, i) /\ pstate = "equals"
  <2>1. /\ i < Len(c) /\ Assignment(c[i + 1]) /\ start = "INITIAL" /\ UpToLine(c, i, d)
        /\ section = SectionAt(c, i) /\ nodep.name = c[i + 1][1].t
    BY <1>14 DEF LeftSide
  <2>2. x = c[i + 1][3] /\ x \in Lexemes /\ Unread(f, 3 * (i + 1), ahead', stream') /\ i + 1 \in 0..Len(c)
        /\ i + 1 # 0 /\ i + 1 \in 1..Len(c)
    BY <1>5, <1>8, <1>14, <2>1
  <2>3. x.k \in Words
    BY <2>1, <2>2 DEF Assignment
  <2>4. (tok = IF x.k = "num" THEN "NUMBER" ELSE "STRING") /\ start' = "SLASSIGNMENT"
    BY <1>2, <1>3, <2>1, <2>2, <2>3, Scans
  <2>5. ShiftReduce(tok, x.t) /\ UNCHANGED <<fphase, erred>>
    BY <1>3, <1>14, <2>4 DEF Shifts
  <2>6. /\ nodep' = [nodep EXCEPT !.value = <<tok, x.t>>] /\ pstate' = "section" /\ UNCHANGED section
        /\ files' = [files EXCEPT ![Len(files)] = if_add_element(@, section, nodep')]
    BY <2>4, <2>5 DEF ShiftReduce
  <2>7. nodep'.name = c[i + 1][1].t /\ nodep'.value = ValueOf(x)
    BY <1>9, <2>1, <2>4, <2>6 DEF ValueOf
  <2>8. PICK e : e = [d EXCEPT ![section] = AddNode(@, nodep'.name, nodep'.value)]
    OBVIOUS
  <2>9. section \in DOMAIN d /\ UpToLine(c, i + 1, e)
    <3>1. PICK k : k = i + 1 /\ k \in 1..Len(c) /\ k - 1 = i
      BY <1>8, <2>1
    <3>2. /\ SectionAt(c, i) \in DOMAIN d
          /\ UpToLine(c, k, [d EXCEPT ![SectionAt(c, i)] = AddNode(@, c[k][1].t, ValueOf(c[k][3]))])
      BY <2>1, <3>1, AssignmentRead
    <3>3. QED
      BY <2>1, <2>2, <2>7, <2>8, <3>1, <3>2
  <2>10. files'[Cur].sections = e
    <3>1. PICK p, node, en : p = files[Cur].path /\ node = files[Cur] /\ en = nodep'
      OBVIOUS
    <3>2. if_add_element(node, section, en) = [path |-> p, sections |-> e]
      BY <1>9, <2>8, <2>9, <3>1, ElementNode
    <3>3. files'[Cur] = if_add_element(node, section, en)
      BY <1>9, <2>6, <3>1
    <3>4. QED
      BY <3>2, <3>3
  <2>11. section' = SectionAt(c, i + 1)
    <3>1. PICK k : k = i + 1 /\ k \in 1..Len(c) /\ k - 1 = i
      BY <1>8, <2>1
    <3>2. SectionAt(c, k) = SectionAt(c, k - 1)
      BY <2>1, <3>1, SectionSteps
    <3>3. QED
      BY <2>1, <2>6, <3>1, <3>2
  <2>12. Between(c, e, i + 1)'
    BY <2>2, <2>4, <2>6, <2>9, <2>11 DEF Between
  <2>13. Stands(c, e, i + 1)'
    BY <1>1, <2>2, <2>12 DEF Stands
  <2>14. QED
    BY <1>3, <2>2, <2>5, <2>10, <2>13
<1>15. QED
  BY <1>1, <1>10, <1>11, <1>12, <1>13, <1>14 DEF Stands

LEMMA ScanKeeps ==
  ASSUME ReaderIInv, ScanToken PROVE ReaderIInv'
<1>1. ReaderShape /\ (AllGrammatical => Progress)
  BY DEF ReaderIInv
<1>2. ReaderShape' /\ \A k \in 1..Cur : k < Cur => files'[k] = files[k]
  BY <1>1, ScanKeepsShape
<1>3. fphase = "parse" /\ wrote' = wrote /\ Cur' = Cur
  BY LexemeTaken DEF Cur
<1>4. ASSUME AllGrammatical' PROVE Progress'
  <2>1. AllGrammatical /\ Cur \in 1..Cur
    BY <1>1, <1>3, <1>4, ShapeParts DEF AllGrammatical, ReaderShape
  <2>2. PICK c : c = wrote[Cur] /\ Grammar(c)
    BY <1>1, <2>1, TextRead
  <2>3. ~erred /\ (\A k \in 1..Cur : k < Cur => Done(k)) /\ \E i \in 0..Len(c) : Stands(c, files[Cur].sections, i)
    BY <1>1, <1>3, <2>1, <2>2 DEF Progress
  <2>4. /\ ~erred' /\ fphase' = "parse"
        /\ \E e : files'[Cur].sections = e /\ \E j \in 0..Len(c) : Stands(c, e, j)'
    BY <1>1, <2>2, <2>3, ScanOn
  <2>5. \E j \in 0..Len(c) : Stands(wrote[Cur], files[Cur].sections, j)'
    <3>1. PICK e : files'[Cur].sections = e /\ \E j \in 0..Len(c) : Stands(c, e, j)'
      BY <2>4
    <3>2. PICK j \in 0..Len(c) : Stands(c, e, j)'
      BY <3>1
    <3>3. Stands(wrote[Cur], files[Cur].sections, j)'
      BY <1>3, <2>2, <3>1, <3>2 DEF Stands, Between, Bracket, Titled, LeftSide
    <3>4. QED
      BY <3>3
  <2>6. \A k \in 1..Cur : k < Cur => Done(k)'
    BY <1>2, <1>3, <2>3 DEF Done
  <2>7. QED
    BY <1>3, <2>2, <2>4, <2>5, <2>6 DEF Progress
<1>5. QED
  BY <1>2, <1>4 DEF ReaderIInv

(* The other steps leave the tree as it is.                                *)
LEMMA TreeKept ==
  ASSUME ReaderShape, UNCHANGED <<files, linked, nodep, wrote>>,
         fphase' \in {"idle", "loop", "parse"}, feof' \in BOOLEAN, fphase # "idle"
  PROVE  /\ ReaderShape' /\ Cur' = Cur /\ Cur \in 1..Cur
         /\ AllGrammatical' => AllGrammatical /\ Grammar(wrote[Cur])
         /\ \A k \in 1..Cur : Done(k)' <=> Done(k)
<1>1. Cur' = Cur /\ Cur > 0 /\ Cur \in Nat
  BY ShapeParts DEF ReaderShape, Cur
<1>2. FirstOfPath' = FirstOfPath
  BY DEF FirstOfPath
<1>3. ReaderShape'
  BY <1>1, <1>2 DEF ReaderShape
<1>4. AllGrammatical' => AllGrammatical
  BY DEF AllGrammatical
<1>5. \A k \in 1..Cur : Done(k)' <=> Done(k)
  BY DEF Done
<1>6. Cur \in 1..Cur
  BY <1>1
<1>7. AllGrammatical' => Grammar(wrote[Cur])
  BY <1>4, <1>6, TextRead
<1>8. QED
  BY <1>1, <1>3, <1>4, <1>5, <1>6, <1>7

LEMMA LoopKeeps ==
  ASSUME ReaderIInv, DriveLoop PROVE ReaderIInv'
<1>1. ReaderShape /\ (AllGrammatical => Progress)
  BY DEF ReaderIInv
<1>2. /\ fphase = "loop" /\ (fphase' = IF feof THEN "idle" ELSE "parse") /\ pstate' = "start"
      /\ UNCHANGED <<start, ahead, stream, feof, files, linked, section, nodep, erred, wrote>>
  BY DEF DriveLoop
<1>3. /\ ReaderShape' /\ Cur' = Cur /\ Cur \in 1..Cur
      /\ AllGrammatical' => AllGrammatical /\ Grammar(wrote[Cur])
      /\ \A k \in 1..Cur : Done(k)' <=> Done(k)
  <2>1. fphase' \in {"idle", "loop", "parse"} /\ feof' \in BOOLEAN
    BY <1>1, <1>2 DEF ReaderShape
  <2>2. QED
    BY <1>1, <1>2, <2>1, TreeKept
<1>4. ASSUME AllGrammatical' PROVE Progress'
  <2>1. Progress /\ Grammar(wrote[Cur])
    BY <1>1, <1>3, <1>4
  <2>2. ~erred /\ ahead = <<>> /\ \A k \in 1..Cur : k < Cur => Done(k)
    BY <1>2, <2>1 DEF Progress
  <2>3. CASE feof
    <3>1. fphase' = "idle" /\ Done(Cur)
      BY <1>2, <2>1, <2>3 DEF Progress
    <3>2. \A k \in 1..Cur : Done(k)
      <4>1. \A k \in 1..Cur : k < Cur \/ k = Cur
        BY <1>1, ShapeParts
      <4>2. QED
        BY <2>2, <3>1, <4>1
    <3>3. QED
      BY <1>2, <1>3, <2>2, <3>1, <3>2 DEF Progress
  <2>4. CASE ~feof
    <3>1. PICK c, d : c = wrote[Cur] /\ d = files[Cur].sections
      OBVIOUS
    <3>2. /\ fphase' = "parse" /\ stream = FlattenSeq(c) /\ d = [s \in {} |-> {}]
      BY <1>2, <2>1, <2>4, <3>1 DEF Progress
    <3>3. Flat(FlattenSeq(c), c) /\ Len(c) \in Nat
      BY <2>1, <3>1, LineTypes, FlattenIs
    <3>4. Unread(FlattenSeq(c), 0, ahead, stream)
      <4>1. PICK f : f = FlattenSeq(c)
        OBVIOUS
      <4>2. f \in Seq(Lexemes) /\ Len(f) \in Nat
        BY <3>3, <4>1 DEF Flat
      <4>3. <<>> \in Seq(Lexemes) /\ Len(<<>>) = 0
        OBVIOUS
      <4>4. Unread(f, 0, <<>>, f)
        BY <4>2, <4>3 DEF Unread
      <4>5. QED
        BY <2>2, <3>2, <4>1, <4>4
    <3>5. UpToLine(c, 0, d)
      BY <2>1, <3>1, <3>2, NothingRead
    <3>6. Between(c, d, 0)'
      BY <1>2, <3>5 DEF Between
    <3>7. Unread(FlattenSeq(c), 3 * 0, ahead', stream')
      <4>1. 3 * 0 = 0
        OBVIOUS
      <4>2. QED
        BY <1>2, <3>4, <4>1
    <3>8. Stands(c, d, 0)'
      BY <3>6, <3>7 DEF Stands
    <3>9. Stands(wrote[Cur], files[Cur].sections, 0)'
      BY <1>2, <1>3, <3>1, <3>8 DEF Stands, Between, Bracket, Titled, LeftSide
    <3>10. 0 \in 0..Len(c)
      BY <3>3
    <3>11. \E i \in 0..Len(wrote[Cur])' : Stands(wrote[Cur], files[Cur].sections, i)'
      BY <1>2, <1>3, <3>1, <3>9, <3>10
    <3>12. QED
      BY <1>2, <1>3, <2>2, <3>2, <3>11 DEF Progress
  <2>5. QED
    BY <2>3, <2>4
<1>5. QED
  BY <1>3, <1>4 DEF ReaderIInv

LEMMA RefillKeeps ==
  ASSUME ReaderIInv, Refill PROVE ReaderIInv'
<1>1. ReaderShape /\ (AllGrammatical => Progress)
  BY DEF ReaderIInv
<1>2. /\ fphase = "parse" /\ ahead = <<>> /\ yy_get_next_buffer
      /\ UNCHANGED <<fphase, start, pstate, files, linked, section, nodep, erred, wrote>>
  BY DEF Refill, EmptyBuffer
<1>3. /\ ReaderShape' /\ Cur' = Cur /\ Cur \in 1..Cur
      /\ AllGrammatical' => AllGrammatical /\ Grammar(wrote[Cur])
      /\ \A k \in 1..Cur : Done(k)' <=> Done(k)
  <2>1. fphase' \in {"idle", "loop", "parse"} /\ feof' \in BOOLEAN
    BY <1>1, <1>2 DEF ReaderShape, yy_get_next_buffer
  <2>2. QED
    BY <1>1, <1>2, <2>1, TreeKept
<1>4. ASSUME AllGrammatical' PROVE Progress'
  <2>1. Progress
    BY <1>1, <1>3, <1>4
  <2>2. PICK c, d : c = wrote[Cur] /\ d = files[Cur].sections
    OBVIOUS
  <2>3. PICK i \in 0..Len(c) : Stands(c, d, i)
    BY <1>2, <2>1, <2>2 DEF Progress
  <2>4. \A n : Unread(FlattenSeq(c), n, ahead, stream) => Unread(FlattenSeq(c), n, ahead', stream')
    BY <1>2, ReadOn
  <2>5. Stands(wrote[Cur], files[Cur].sections, i)'
    BY <1>2, <1>3, <2>2, <2>3, <2>4 DEF Stands, Between, Bracket, Titled, LeftSide
  <2>6. ~erred /\ \A k \in 1..Cur : k < Cur => Done(k)
    BY <2>1 DEF Progress
  <2>7. \E j \in 0..Len(wrote[Cur])' : Stands(wrote[Cur], files[Cur].sections, j)'
    BY <1>2, <1>3, <2>2, <2>5
  <2>8. QED
    BY <1>2, <1>3, <2>6, <2>7 DEF Progress
<1>5. QED
  BY <1>3, <1>4 DEF ReaderIInv

LEMMA EndKeeps ==
  ASSUME ReaderIInv, ScanEnd PROVE ReaderIInv'
<1>1. ReaderShape /\ (AllGrammatical => Progress)
  BY DEF ReaderIInv
<1>2. /\ fphase = "parse" /\ ahead = <<>> /\ stream = <<>> /\ yy_get_next_buffer
      /\ fphase' = "loop" /\ UNCHANGED <<files, linked, section, nodep, wrote>>
      /\ pstate = "section" => UNCHANGED erred
  BY DEF ScanEnd, EmptyBuffer, SyntaxError
<1>3. ahead' = <<>> /\ feof' = TRUE
  <2>1. CHUNK \in Nat \ {0} /\ Len(stream) = 0
    BY <1>2, IniAssumption
  <2>2. ahead' = SubSeq(stream, 1, 0) /\ feof' = (feof \/ 0 < CHUNK)
    BY <1>2, <2>1 DEF yy_get_next_buffer
  <2>3. SubSeq(stream, 1, 0) = <<>>
    BY SubSeqEmpty
  <2>4. 0 < CHUNK
    BY <2>1
  <2>5. feof' = TRUE
    BY <2>2, <2>4, Zenon
  <2>6. QED
    BY <2>2, <2>3, <2>5, Zenon
<1>4. /\ ReaderShape' /\ Cur' = Cur /\ Cur \in 1..Cur
      /\ AllGrammatical' => AllGrammatical /\ Grammar(wrote[Cur])
      /\ \A k \in 1..Cur : Done(k)' <=> Done(k)
  <2>1. fphase' \in {"idle", "loop", "parse"} /\ feof' \in BOOLEAN
    BY <1>2, <1>3
  <2>2. QED
    BY <1>1, <1>2, <2>1, TreeKept
<1>5. ASSUME AllGrammatical' PROVE Progress'
  <2>1. Progress
    BY <1>1, <1>4, <1>5
  <2>2. PICK c, d, f : c = wrote[Cur] /\ d = files[Cur].sections /\ f = FlattenSeq(c)
    OBVIOUS
  <2>3. Grammar(c) /\ Len(c) \in Nat \ {0} /\ Flat(f, c)
    BY <1>4, <1>5, <2>2, LineTypes, FlattenIs
  <2>4. PICK i \in 0..Len(c) : Stands(c, d, i)
    BY <1>2, <2>1, <2>2 DEF Progress
  <2>5. i \in Nat /\ i <= Len(c)
    BY <2>3
  <2>6. \A n : Unread(f, n, ahead, stream) => n = 3 * Len(c)
    <3>1. Len(ahead) = 0 /\ Len(stream) = 0
      BY <1>2
    <3>2. ASSUME NEW n, Unread(f, n, ahead, stream) PROVE n = 3 * Len(c)
      <4>1. n \in Nat /\ Len(f) = n + Len(ahead) + Len(stream)
        BY <3>2 DEF Unread
      <4>2. Len(f) = 3 * Len(c)
        BY <2>3 DEF Flat
      <4>3. PICK p, q, r : p = Len(ahead) /\ q = Len(stream) /\ r = Len(f)
        OBVIOUS
      <4>4. r = n + p + q /\ p = 0 /\ q = 0 /\ r = 3 * Len(c)
        BY <3>1, <4>1, <4>2, <4>3
      <4>5. r = n
        BY <4>1, <4>4
      <4>6. QED
        BY <4>4, <4>5
    <3>3. QED
      BY <3>2
  <2>7. i < Len(c) => 3 * i + 1 # 3 * Len(c) /\ 3 * i + 2 # 3 * Len(c)
    BY <2>3, <2>5
  <2>8. 3 * i = 3 * Len(c) /\ Between(c, d, i)
    BY <2>2, <2>4, <2>6, <2>7 DEF Stands, Bracket, Titled, LeftSide
  <2>9. i = Len(c) /\ i # 0
    BY <2>3, <2>5, <2>8
  <2>10. pstate = "section" /\ UpToLine(c, Len(c), d)
    BY <2>8, <2>9 DEF Between
  <2>11. Done(Cur)
    BY <2>2, <2>3, <2>10, AllRead DEF Done
  <2>12. ~erred /\ \A k \in 1..Cur : k < Cur => Done(k)
    BY <2>1 DEF Progress
  <2>13. ~erred'
    BY <1>2, <2>10, <2>12
  <2>14. QED
    BY <1>2, <1>3, <1>4, <2>11, <2>12, <2>13 DEF Progress
<1>6. QED
  BY <1>4, <1>5 DEF ReaderIInv

LEMMA ReaderStep == ReaderIInv /\ [IniNext]_fvars => ReaderIInv'
<1> SUFFICES ASSUME ReaderIInv, [IniNext]_fvars PROVE ReaderIInv'
  OBVIOUS
<1>1. CASE UNCHANGED fvars
  <2>1. UNCHANGED <<fphase, start, ahead, stream, feof, pstate, files, linked, section, nodep, erred, wrote>>
    BY <1>1 DEF fvars
  <2>2. Cur' = Cur /\ FirstOfPath' = FirstOfPath /\ (\A k : Done(k)' = Done(k)) /\ AllGrammatical' = AllGrammatical
    BY <2>1 DEF Cur, FirstOfPath, Done, AllGrammatical
  <2>3. ReaderShape' <=> ReaderShape
    BY <2>1, <2>2 DEF ReaderShape
  <2>4. \A i : Stands(wrote[Cur], files[Cur].sections, i)' <=> Stands(wrote[Cur], files[Cur].sections, i)
    BY <2>1, <2>2 DEF Stands, Between, Bracket, Titled, LeftSide
  <2>5. Progress' <=> Progress
    BY <2>1, <2>2, <2>4 DEF Progress
  <2>6. QED
    BY <2>2, <2>3, <2>5 DEF ReaderIInv
<1>2. CASE IniNext
  BY <1>2, OpenKeeps, LoopKeeps, ScanKeeps, RefillKeeps, EndKeeps DEF IniNext, IniRun
<1>3. QED
  BY <1>1, <1>2

(* Files are read as they are written (IniInv): as long as every file      *)
(* follows the grammar, no error is reported, the nodes of the tree are    *)
(* the first ones of their paths, and each file's node holds exactly what  *)
(* the text says. For every sequence of files, every text and every size   *)
(* of the reads.                                                           *)
THEOREM FilesRead == IniSpec => []IniInv
<1>1. ReaderIInv => IniInv
  <2> SUFFICES ASSUME ReaderIInv, \A i \in DOMAIN wrote : Grammatical(wrote[i])
               PROVE  /\ ~erred
                      /\ linked = {i \in DOMAIN files : \A j \in 1..i-1 : files[j].path # files[i].path}
                      /\ fphase = "idle" =>
                            /\ ahead = <<>>
                            /\ \A i \in DOMAIN files : files[i].sections = Meaning(wrote[i])
    BY DEF IniInv
  <2>1. ReaderShape /\ Progress
    BY DEF ReaderIInv, AllGrammatical
  <2>2. DOMAIN files = 1..Cur
    BY <2>1, ShapeParts
  <2>3. QED
    BY <2>1, <2>2 DEF ReaderShape, Progress, Done, FirstOfPath
<1>2. QED
  BY <1>1, ReaderInit, ReaderStep, PTL DEF IniSpec
=============================================================================
