------------------------------ MODULE DequeOps ------------------------------
(***************************************************************************)
(* The ring of slots of dqacc.c as operators on a header record.           *)
(*                                                                         *)
(* A header carries the fields of DQHEADER that the ring arithmetic reads  *)
(* and writes (dq_open, dqslots, dquse, dqtop, dqbottom) and, as a         *)
(* function "slot", the memory map_slot() points into.  Item bytes are     *)
(* abstract values.  An operation of the code returns an error flag and    *)
(* changes the header; here HasRoom / HasItem is the negated flag and      *)
(* Atd, Abd, Rtd, Rbd is the header after the call, unchanged on error.    *)
(***************************************************************************)
EXTENDS Integers, Sequences

(* dq_init: an open, empty ring; fill stands for the bytes calloc left.    *)
NewDeque(slots, fill) ==
  [ dq_open |-> TRUE, dqslots |-> slots, dquse |-> 0,
    dqtop |-> 0, dqbottom |-> 0, slot |-> [i \in 0 .. slots - 1 |-> fill] ]

(* Faulty: one item more than there are slots.                             *)
HasRoom_Inclusive(dq) == dq.dq_open /\ dq.dqslots >= dq.dquse

(* The guards of the four operations: an add, a removal that succeeds.     *)
HasRoom(dq) == dq.dq_open /\ dq.dqslots > dq.dquse
HasItem(dq) == dq.dq_open /\ dq.dquse > 0

(* The neighbours of slot index i in the ring.                             *)
Above(dq, i) == (i + 1) % dq.dqslots
Below(dq, i) == (i + dq.dqslots - 1) % dq.dqslots

(* dq_atd: an empty ring keeps its index, the item goes where top is.      *)
Atd(dq, item) ==
  LET top == IF dq.dquse # 0 THEN Above(dq, dq.dqtop) ELSE dq.dqtop
  IN  IF HasRoom(dq)
      THEN [dq EXCEPT !.dqtop = top, !.dquse = @ + 1, !.slot[top] = item]
      ELSE dq

(* dq_abd *)
Abd(dq, item) ==
  LET bottom == IF dq.dquse # 0 THEN Below(dq, dq.dqbottom) ELSE dq.dqbottom
  IN  IF HasRoom(dq)
      THEN [dq EXCEPT !.dqbottom = bottom, !.dquse = @ + 1, !.slot[bottom] = item]
      ELSE dq

(* Faulty: the last item moves the index too.                              *)
Rtd_Always(dq) ==
  IF HasItem(dq) THEN [dq EXCEPT !.dqtop = Below(dq, @), !.dquse = @ - 1] ELSE dq

(* dq_rtd: the last item leaves the indices where they are.                *)
Rtd(dq) ==
  IF HasItem(dq)
  THEN [dq EXCEPT !.dqtop = IF dq.dquse # 1 THEN Below(dq, @) ELSE @,
                  !.dquse = @ - 1]
  ELSE dq

(* dq_rbd *)
Rbd(dq) ==
  IF HasItem(dq)
  THEN [dq EXCEPT !.dqbottom = IF dq.dquse # 1 THEN Above(dq, @) ELSE @,
                  !.dquse = @ - 1]
  ELSE dq

(* Faulty: the slot is read after the index moved.                         *)
TopItem_AfterMove(dq) == dq.slot[Below(dq, dq.dqtop)]

(* What rtd and rbd copy out through map_slot.                             *)
TopItem(dq)    == dq.slot[dq.dqtop]
BottomItem(dq) == dq.slot[dq.dqbottom]

-----------------------------------------------------------------------------
(* The items of the ring from bottom to top: the abstraction of a header.  *)
Contents(dq) ==
  [i \in 1 .. dq.dquse |-> dq.slot[(dq.dqbottom + i - 1) % dq.dqslots]]

(* The types of the header fields for items of a set.                      *)
HeaderType(dq, items) ==
  /\ dq \in [ dq_open : BOOLEAN, dqslots : Nat, dquse : 0 .. dq.dqslots,
              dqtop : Nat, dqbottom : Nat,
              slot : [0 .. dq.dqslots - 1 -> items] ]
  /\ dq.dqslots > 0 => dq.dqtop < dq.dqslots /\ dq.dqbottom < dq.dqslots

(* The two indices and the use count always describe one arc of the ring.  *)
RingConsistent(dq) ==
  IF dq.dquse = 0
  THEN dq.dqtop = dq.dqbottom
  ELSE dq.dqtop = (dq.dqbottom + dq.dquse - 1) % dq.dqslots
=============================================================================
