-------------------------------- MODULE Dqacc --------------------------------
(***************************************************************************)
(* dqacc.c: one double ended queue and the life of its header.             *)
(*                                                                         *)
(* A header is initialised over a heap buffer (dq_init), a buffer of the   *)
(* application (dq_init_buffer) or a buffer in a mapped region             *)
(* (dq_init_memmap); it is used, closed, and may be initialised again.     *)
(* Calls are made in any order, also after the close and with the deque    *)
(* full or empty, and the result of each is observed in ret.               *)
(***************************************************************************)
EXTENDS DequeOps

CONSTANTS Items,       \* the values stored (each of dqitem_size bytes)
          Capacities,  \* the deque_size arguments of the dq_init forms
          Blank,       \* the content of a slot nothing was stored in
          ItemSize,    \* the item_size argument
          UShortRange  \* 2^16 in the code: dq_init computes sizes in a ushort

ASSUME DqaccAssumption == /\ Capacities \subseteq Nat
                          /\ Blank \notin Items
                          /\ ItemSize \in Nat
                          /\ UShortRange \in Nat \ {0}

VARIABLES dq,       \* the ring of the header (DequeOps)
          memmapped, buffctrl, \* the two ownership bits of the header
          dqbuff,   \* where dqbuff points: "null", "heap" or "user"
          bufflen,  \* the bytes behind the slots
          heap,     \* the number of slot buffers allocated and not freed
          ret       \* the last call, its error flag and the item it moved

owner == <<memmapped, buffctrl, dqbuff, bufflen, heap>>
vars  == <<dq, memmapped, buffctrl, dqbuff, bufflen, heap, ret>>

Cells == Items \cup {Blank}

(* buffsize = item_size * deque_size, assigned to a ushort.                *)
BuffSize(slots) == (ItemSize * slots) % UShortRange

Returned(op, flag, item) == ret' = [op |-> op, flag |-> flag, item |-> item]

-----------------------------------------------------------------------------
(* The three ways to set up a header.  dq_init_memmap calls dq_init and    *)
(* then frees the buffer that allocated, so it leaves the heap as it was.  *)
dq_init(slots) ==
  /\ dq' = NewDeque(slots, Blank)
  /\ memmapped' = FALSE /\ buffctrl' = FALSE
  /\ dqbuff' = "heap"
  /\ bufflen' = BuffSize(slots)
  /\ heap' = heap + 1
  /\ Returned("init", FALSE, << >>)

dq_init_buffer(slots) ==
  /\ dq' = NewDeque(slots, Blank)
  /\ memmapped' = FALSE /\ buffctrl' = TRUE
  /\ dqbuff' = "user"
  /\ bufflen' = ItemSize * slots
  /\ Returned("init", FALSE, << >>)
  /\ UNCHANGED heap

dq_init_memmap(slots) ==
  /\ dq' = NewDeque(slots, Blank)
  /\ memmapped' = TRUE /\ buffctrl' = FALSE
  /\ dqbuff' = "null"
  /\ bufflen' = ItemSize * slots
  /\ Returned("init", FALSE, << >>)
  /\ UNCHANGED heap

(* A caller initialises a header again once it closed it; mmdq_reset does  *)
(* so with an open one, whose buffer is in the mapped region.              *)
Create(slots) ==
  \/ ~dq.dq_open /\ dq_init(slots)
  \/ ~dq.dq_open /\ dq_init_buffer(slots)
  \/ (~dq.dq_open \/ memmapped) /\ dq_init_memmap(slots)

(* Faulty: the buffctrl bit is not looked at.                              *)
dq_close_Frees ==
  LET frees == dq.dq_open /\ ~memmapped /\ dqbuff # "null"
  IN  /\ dq' = [dq EXCEPT !.dq_open = FALSE]
      /\ dqbuff' = IF frees THEN "null" ELSE dqbuff
      /\ heap' = IF frees THEN heap - 1 ELSE heap
      /\ Returned("close", FALSE, << >>)
      /\ UNCHANGED <<memmapped, buffctrl, bufflen>>

(* dq_close: a second close returns early; only a heap buffer is freed.    *)
dq_close ==
  LET frees == dq.dq_open /\ ~memmapped /\ ~buffctrl /\ dqbuff # "null"
  IN  /\ dq' = [dq EXCEPT !.dq_open = FALSE]
      /\ dqbuff' = IF frees THEN "null" ELSE dqbuff
      /\ heap' = IF frees THEN heap - 1 ELSE heap
      /\ Returned("close", FALSE, << >>)
      /\ UNCHANGED <<memmapped, buffctrl, bufflen>>

dq_atd(item) ==
  /\ dq' = Atd(dq, item)
  /\ Returned("atd", ~HasRoom(dq), IF HasRoom(dq) THEN <<item>> ELSE << >>)
  /\ UNCHANGED owner

dq_abd(item) ==
  /\ dq' = Abd(dq, item)
  /\ Returned("abd", ~HasRoom(dq), IF HasRoom(dq) THEN <<item>> ELSE << >>)
  /\ UNCHANGED owner

dq_rtd ==
  /\ dq' = Rtd(dq)
  /\ Returned("rtd", ~HasItem(dq), IF HasItem(dq) THEN <<TopItem(dq)>> ELSE << >>)
  /\ UNCHANGED owner

dq_rbd ==
  /\ dq' = Rbd(dq)
  /\ Returned("rbd", ~HasItem(dq), IF HasItem(dq) THEN <<BottomItem(dq)>> ELSE << >>)
  /\ UNCHANGED owner

-----------------------------------------------------------------------------
Init ==
  /\ \E slots \in Capacities : dq = NewDeque(slots, Blank)
  /\ \/ /\ memmapped = FALSE /\ buffctrl = FALSE /\ dqbuff = "heap"
        /\ bufflen = BuffSize(dq.dqslots) /\ heap = 1
     \/ /\ memmapped = FALSE /\ buffctrl = TRUE /\ dqbuff = "user"
        /\ bufflen = ItemSize * dq.dqslots /\ heap = 0
     \/ /\ memmapped = TRUE /\ buffctrl = FALSE /\ dqbuff = "null"
        /\ bufflen = ItemSize * dq.dqslots /\ heap = 0
  /\ ret = [op |-> "init", flag |-> FALSE, item |-> << >>]

Next == \/ \E slots \in Capacities : Create(slots)
        \/ dq_close
        \/ \E item \in Items : dq_atd(item) \/ dq_abd(item)
        \/ dq_rtd \/ dq_rbd

Spec == Init /\ [][Next]_vars

-----------------------------------------------------------------------------
(* Type correctness of the header and of the results.                      *)
TypeOK ==
  /\ HeaderType(dq, Cells)
  /\ memmapped \in BOOLEAN /\ buffctrl \in BOOLEAN
  /\ dqbuff \in {"null", "heap", "user"}
  /\ bufflen \in Nat /\ heap \in Nat
  /\ ret.flag \in BOOLEAN /\ ret.item \in Seq(Cells)

(* The top index, the bottom index and the use count, each updated by its  *)
(* own formula in four functions that treat the last item specially,       *)
(* always describe one arc of the ring.                                    *)
RingInv == RingConsistent(dq)

(* A slot of the arc holds a value some call stored: rtd and rbd never     *)
(* return the filler of a slot, in whatever order the ends were used.      *)
NoBlankStored == Contents(dq) \in Seq(Items)

(* One slot buffer is on the heap exactly while a dq_init deque is open:   *)
(* close frees it once, a second close and the two other forms free        *)
(* nothing (dqacc.c "Close a double ended queue").                         *)
HeapBalance ==
  /\ heap = IF dqbuff = "heap" THEN 1 ELSE 0
  /\ dqbuff = "heap" <=> dq.dq_open /\ ~memmapped /\ ~buffctrl

(* Every slot map_slot can return lies inside the buffer: the array is     *)
(* sized by the number of items and the item size (dqacc.c file comment).  *)
SlotsInBuffer ==
  dq.dq_open => \A i \in 0 .. dq.dqslots - 1 : (i + 1) * ItemSize <= bufflen

(* The memory of a deque: freed once, and as long as its slots need it.    *)
MemoryInv == HeapBalance /\ SlotsInBuffer

(* The ring is a deque: INSTANCE of the abstract specification, with the   *)
(* stored arc as its sequence.                                             *)
Abstract == INSTANCE BoundedDeque WITH
              q <- Contents(dq), cap <- dq.dqslots, open <- dq.dq_open

(* Every call of the ring implementation is a call of the abstract deque,  *)
(* with the same result.                                                   *)
ImplementsDeque == Abstract!Spec
=============================================================================
