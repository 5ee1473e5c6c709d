--------------------------- MODULE DequeOpsProofs ---------------------------
(***************************************************************************)
(* Lemmas on the ring operations of DequeOps, for rings of any size and    *)
(* any items.                                                              *)
(***************************************************************************)
EXTENDS DequeOps, SequenceTheorems, TLAPS

(* A remainder is a position of the ring.                                  *)
LEMMA ModRange ==
  ASSUME NEW n \in Nat, n > 0, NEW a \in Nat
  PROVE  a % n \in 0 .. n - 1
  OBVIOUS

(* Closing a record with the fields of a header changes that field only.   *)
LEMMA FieldsOfHeader ==
  ASSUME NEW A, NEW B, NEW C, NEW D, NEW E, NEW F,
         NEW dq \in [ dq_open : A, dqslots : B, dquse : C, dqtop : D,
                      dqbottom : E, slot : F ],
         NEW o
  PROVE  [dq EXCEPT !.dq_open = o] =
           [ dq_open |-> o, dqslots |-> dq.dqslots, dquse |-> dq.dquse,
             dqtop |-> dq.dqtop, dqbottom |-> dq.dqbottom, slot |-> dq.slot ]
  OBVIOUS

(* The values of the fields of a well typed header.                        *)
LEMMA Fields ==
  ASSUME NEW items, NEW dq, HeaderType(dq, items)
  PROVE  /\ dq.dq_open \in BOOLEAN
         /\ dq.dqslots \in Nat /\ dq.dquse \in 0 .. dq.dqslots
         /\ dq.dqtop \in Nat /\ dq.dqbottom \in Nat
         /\ dq.slot \in [0 .. dq.dqslots - 1 -> items]
         /\ dq.dqslots > 0 => dq.dqtop < dq.dqslots /\ dq.dqbottom < dq.dqslots
  BY DEF HeaderType

(* What each operation does to the fields of a well typed header, by case. *)
LEMMA AtdFields ==
  ASSUME NEW items, NEW dq, HeaderType(dq, items), NEW item, HasRoom(dq)
  PROVE  LET top == IF dq.dquse # 0 THEN Above(dq, dq.dqtop) ELSE dq.dqtop
         IN  /\ top \in 0 .. dq.dqslots - 1
             /\ Atd(dq, item) =
                  [ dq_open |-> dq.dq_open, dqslots |-> dq.dqslots,
                    dquse |-> dq.dquse + 1, dqtop |-> top,
                    dqbottom |-> dq.dqbottom,
                    slot |-> [dq.slot EXCEPT ![top] = item] ]
<1> DEFINE top == IF dq.dquse # 0 THEN Above(dq, dq.dqtop) ELSE dq.dqtop
<1>1. top \in 0 .. dq.dqslots - 1
  BY Fields, ModRange DEF HasRoom, Above
<1>2. Atd(dq, item) = [dq EXCEPT !.dqtop = top, !.dquse = @ + 1, !.slot[top] = item]
  BY DEF Atd
<1> HIDE DEF top
<1>3. Atd(dq, item) =
         [ dq_open |-> dq.dq_open, dqslots |-> dq.dqslots,
           dquse |-> dq.dquse + 1, dqtop |-> top, dqbottom |-> dq.dqbottom,
           slot |-> [dq.slot EXCEPT ![top] = item] ]
  BY <1>2 DEF HeaderType
<1>4. QED BY <1>1, <1>3 DEF top
LEMMA AbdFields ==
  ASSUME NEW items, NEW dq, HeaderType(dq, items), NEW item, HasRoom(dq)
  PROVE  LET bottom == IF dq.dquse # 0 THEN Below(dq, dq.dqbottom) ELSE dq.dqbottom
         IN  /\ bottom \in 0 .. dq.dqslots - 1
             /\ Abd(dq, item) =
                  [ dq_open |-> dq.dq_open, dqslots |-> dq.dqslots,
                    dquse |-> dq.dquse + 1, dqtop |-> dq.dqtop,
                    dqbottom |-> bottom,
                    slot |-> [dq.slot EXCEPT ![bottom] = item] ]
<1> DEFINE bottom == IF dq.dquse # 0 THEN Below(dq, dq.dqbottom) ELSE dq.dqbottom
<1>1. bottom \in 0 .. dq.dqslots - 1
  BY Fields, ModRange DEF HasRoom, Below
<1>2. Abd(dq, item) =
         [dq EXCEPT !.dqbottom = bottom, !.dquse = @ + 1, !.slot[bottom] = item]
  BY DEF Abd
<1> HIDE DEF bottom
<1>3. Abd(dq, item) =
         [ dq_open |-> dq.dq_open, dqslots |-> dq.dqslots,
           dquse |-> dq.dquse + 1, dqtop |-> dq.dqtop, dqbottom |-> bottom,
           slot |-> [dq.slot EXCEPT ![bottom] = item] ]
  BY <1>2 DEF HeaderType
<1>4. QED BY <1>1, <1>3 DEF bottom

LEMMA RtdFields ==
  ASSUME NEW items, NEW dq, HeaderType(dq, items), HasItem(dq)
  PROVE  LET top == IF dq.dquse # 1 THEN Below(dq, dq.dqtop) ELSE dq.dqtop
         IN  /\ top \in 0 .. dq.dqslots - 1
             /\ Rtd(dq) =
                  [ dq_open |-> dq.dq_open, dqslots |-> dq.dqslots,
                    dquse |-> dq.dquse - 1, dqtop |-> top,
                    dqbottom |-> dq.dqbottom, slot |-> dq.slot ]
<1> DEFINE top == IF dq.dquse # 1 THEN Below(dq, dq.dqtop) ELSE dq.dqtop
<1>1. top \in 0 .. dq.dqslots - 1
  BY Fields, ModRange DEF HasItem, Below
<1>2. Rtd(dq) = [dq EXCEPT !.dqtop = top, !.dquse = @ - 1]
  BY DEF Rtd
<1> HIDE DEF top
<1>3. Rtd(dq) =
         [ dq_open |-> dq.dq_open, dqslots |-> dq.dqslots,
           dquse |-> dq.dquse - 1, dqtop |-> top,
           dqbottom |-> dq.dqbottom, slot |-> dq.slot ]
  BY <1>2 DEF HeaderType
<1>4. QED BY <1>1, <1>3 DEF top

LEMMA RbdFields ==
  ASSUME NEW items, NEW dq, HeaderType(dq, items), HasItem(dq)
  PROVE  LET bottom == IF dq.dquse # 1 THEN Above(dq, dq.dqbottom) ELSE dq.dqbottom
         IN  /\ bottom \in 0 .. dq.dqslots - 1
             /\ Rbd(dq) =
                  [ dq_open |-> dq.dq_open, dqslots |-> dq.dqslots,
                    dquse |-> dq.dquse - 1, dqtop |-> dq.dqtop,
                    dqbottom |-> bottom, slot |-> dq.slot ]
<1> DEFINE bottom == IF dq.dquse # 1 THEN Above(dq, dq.dqbottom) ELSE dq.dqbottom
<1>1. bottom \in 0 .. dq.dqslots - 1
  BY Fields, ModRange DEF HasItem, Above
<1>2. Rbd(dq) = [dq EXCEPT !.dqbottom = bottom, !.dquse = @ - 1]
  BY DEF Rbd
<1> HIDE DEF bottom
<1>3. Rbd(dq) =
         [ dq_open |-> dq.dq_open, dqslots |-> dq.dqslots,
           dquse |-> dq.dquse - 1, dqtop |-> dq.dqtop,
           dqbottom |-> bottom, slot |-> dq.slot ]
  BY <1>2 DEF HeaderType
<1>4. QED BY <1>1, <1>3 DEF bottom

(* A ring fresh from dq_init, and the effect of dq_close.                  *)
LEMMA NewDequeOK ==
  ASSUME NEW items, NEW fill \in items, NEW slots \in Nat
  PROVE  /\ HeaderType(NewDeque(slots, fill), items)
         /\ RingConsistent(NewDeque(slots, fill))
         /\ Contents(NewDeque(slots, fill)) = << >>
<1>1. HeaderType(NewDeque(slots, fill), items)
  BY DEF HeaderType, NewDeque
<1>2. RingConsistent(NewDeque(slots, fill))
  BY DEF RingConsistent, NewDeque
<1>3. Contents(NewDeque(slots, fill)) = << >>
  BY DEF Contents, NewDeque
<1>4. QED BY <1>1, <1>2, <1>3

LEMMA CloseOK ==
  ASSUME NEW items, NEW dq, HeaderType(dq, items)
  PROVE  LET d == [dq EXCEPT !.dq_open = FALSE]
         IN  /\ HeaderType(d, items)
             /\ RingConsistent(dq) => RingConsistent(d)
             /\ Contents(d) = Contents(dq)
             /\ d.dqslots = dq.dqslots /\ d.dq_open = FALSE
<1> DEFINE d == [dq EXCEPT !.dq_open = FALSE]
<1>1. d = [ dq_open |-> FALSE, dqslots |-> dq.dqslots, dquse |-> dq.dquse,
            dqtop |-> dq.dqtop, dqbottom |-> dq.dqbottom, slot |-> dq.slot ]
  <2>1. dq \in [ dq_open : BOOLEAN, dqslots : Nat, dquse : 0 .. dq.dqslots,
                 dqtop : Nat, dqbottom : Nat, slot : [0 .. dq.dqslots - 1 -> items] ]
    BY DEF HeaderType
  <2>2. ASSUME NEW o
        PROVE  [dq EXCEPT !.dq_open = o] =
                 [ dq_open |-> o, dqslots |-> dq.dqslots, dquse |-> dq.dquse,
                   dqtop |-> dq.dqtop, dqbottom |-> dq.dqbottom, slot |-> dq.slot ]
    BY <2>1, FieldsOfHeader
  <2>3. QED BY <2>2, Zenon
<1> HIDE DEF d
<1>2. /\ d.dq_open = FALSE /\ d.dqslots = dq.dqslots /\ d.dquse = dq.dquse
      /\ d.dqtop = dq.dqtop /\ d.dqbottom = dq.dqbottom /\ d.slot = dq.slot
  BY <1>1
<1>3. HeaderType(d, items)
  BY <1>1, <1>2, Fields DEF HeaderType
<1>4. RingConsistent(dq) => RingConsistent(d)
  BY <1>2 DEF RingConsistent
<1>5. Contents(d) = Contents(dq)
  BY <1>2 DEF Contents
<1>6. QED BY <1>2, <1>3, <1>4, <1>5 DEF d

-----------------------------------------------------------------------------
(* Every operation keeps the header well typed.                            *)
LEMMA AtdType ==
  ASSUME NEW items, NEW dq, HeaderType(dq, items), NEW item \in items
  PROVE  HeaderType(Atd(dq, item), items)
<1>1. CASE HasRoom(dq)
  <2> DEFINE top == IF dq.dquse # 0 THEN Above(dq, dq.dqtop) ELSE dq.dqtop
  <2>1. /\ top \in 0 .. dq.dqslots - 1
        /\ Atd(dq, item) =
             [ dq_open |-> dq.dq_open, dqslots |-> dq.dqslots,
               dquse |-> dq.dquse + 1, dqtop |-> top,
               dqbottom |-> dq.dqbottom,
               slot |-> [dq.slot EXCEPT ![top] = item] ]
    BY <1>1, AtdFields
  <2> HIDE DEF top
  <2>2. [dq.slot EXCEPT ![top] = item] \in [0 .. dq.dqslots - 1 -> items]
    BY <2>1, Fields
  <2>3. QED BY <1>1, <2>1, <2>2, Fields DEF HeaderType, HasRoom
<1>2. QED BY <1>1 DEF Atd

LEMMA AbdType ==
  ASSUME NEW items, NEW dq, HeaderType(dq, items), NEW item \in items
  PROVE  HeaderType(Abd(dq, item), items)
<1>1. CASE HasRoom(dq)
  <2> DEFINE bottom == IF dq.dquse # 0 THEN Below(dq, dq.dqbottom) ELSE dq.dqbottom
  <2>1. /\ bottom \in 0 .. dq.dqslots - 1
        /\ Abd(dq, item) =
             [ dq_open |-> dq.dq_open, dqslots |-> dq.dqslots,
               dquse |-> dq.dquse + 1, dqtop |-> dq.dqtop,
               dqbottom |-> bottom,
               slot |-> [dq.slot EXCEPT ![bottom] = item] ]
    BY <1>1, AbdFields
  <2> HIDE DEF bottom
  <2>2. [dq.slot EXCEPT ![bottom] = item] \in [0 .. dq.dqslots - 1 -> items]
    BY <2>1, Fields
  <2>3. QED BY <1>1, <2>1, <2>2, Fields DEF HeaderType, HasRoom
<1>2. QED BY <1>1 DEF Abd

LEMMA RtdType ==
  ASSUME NEW items, NEW dq, HeaderType(dq, items)
  PROVE  HeaderType(Rtd(dq), items)
<1>1. CASE HasItem(dq)
  <2> DEFINE top == IF dq.dquse # 1 THEN Below(dq, dq.dqtop) ELSE dq.dqtop
  <2>1. /\ top \in 0 .. dq.dqslots - 1
        /\ Rtd(dq) =
             [ dq_open |-> dq.dq_open, dqslots |-> dq.dqslots,
               dquse |-> dq.dquse - 1, dqtop |-> top,
               dqbottom |-> dq.dqbottom, slot |-> dq.slot ]
    BY <1>1, RtdFields
  <2> HIDE DEF top
  <2>2. QED BY <1>1, <2>1, Fields DEF HeaderType, HasItem
<1>2. QED BY <1>1 DEF Rtd

LEMMA RbdType ==
  ASSUME NEW items, NEW dq, HeaderType(dq, items)
  PROVE  HeaderType(Rbd(dq), items)
<1>1. CASE HasItem(dq)
  <2> DEFINE bottom == IF dq.dquse # 1 THEN Above(dq, dq.dqbottom) ELSE dq.dqbottom
  <2>1. /\ bottom \in 0 .. dq.dqslots - 1
        /\ Rbd(dq) =
             [ dq_open |-> dq.dq_open, dqslots |-> dq.dqslots,
               dquse |-> dq.dquse - 1, dqtop |-> dq.dqtop,
               dqbottom |-> bottom, slot |-> dq.slot ]
    BY <1>1, RbdFields
  <2> HIDE DEF bottom
  <2>2. QED BY <1>1, <2>1, Fields DEF HeaderType, HasItem
<1>2. QED BY <1>1 DEF Rbd

-----------------------------------------------------------------------------
(* Every operation keeps the indices and the use count consistent.         *)
LEMMA AtdRing ==
  ASSUME NEW items, NEW dq, HeaderType(dq, items), RingConsistent(dq), NEW item
  PROVE  /\ RingConsistent(Atd(dq, item))
         /\ HasRoom(dq) => Atd(dq, item).dqtop = (dq.dqbottom + dq.dquse) % dq.dqslots
<1>1. CASE HasRoom(dq)
  <2> DEFINE n == dq.dqslots
             b == dq.dqbottom
             u == dq.dquse
             d == Atd(dq, item)
  <2>1. /\ d.dqslots = n /\ d.dquse = u + 1 /\ d.dqbottom = b
        /\ d.dqtop = IF u # 0 THEN (dq.dqtop + 1) % n ELSE dq.dqtop
    BY <1>1, AtdFields DEF Above
  <2>2. n \in Nat /\ b \in Nat /\ b < n /\ u \in Nat /\ u < n /\ dq.dqtop \in Nat
    BY <1>1, Fields DEF HasRoom
  <2>3. dq.dqtop = IF u = 0 THEN b ELSE (b + u - 1) % n
    BY DEF RingConsistent
  <2> HIDE DEF n, b, u, d
  <2>4. d.dqtop = (b + u) % n
    <3>1. CASE u = 0
      <4>1. b % n = b BY <2>2
      <4>2. b + u = b BY <2>2, <3>1
      <4>3. QED BY <2>1, <2>3, <3>1, <4>1, <4>2
    <3>2. CASE u # 0
      <4>1. (((b + u - 1) % n) + 1) % n = (b + u) % n BY <2>2, <3>2
      <4>2. QED BY <2>1, <2>3, <3>2, <4>1
    <3>3. QED BY <3>1, <3>2
  <2>5. u + 1 # 0 /\ b + (u + 1) - 1 = b + u
    BY <2>2
  <2>6. QED BY <2>1, <2>4, <2>5 DEF RingConsistent, n, b, u, d
<1>2. QED BY <1>1 DEF Atd

LEMMA AbdRing ==
  ASSUME NEW items, NEW dq, HeaderType(dq, items), RingConsistent(dq), NEW item
  PROVE  RingConsistent(Abd(dq, item))
<1>1. CASE HasRoom(dq)
  <2> DEFINE n == dq.dqslots
             b == dq.dqbottom
             u == dq.dquse
             d == Abd(dq, item)
  <2>1. /\ d.dqslots = n /\ d.dquse = u + 1 /\ d.dqtop = dq.dqtop
        /\ d.dqbottom = IF u # 0 THEN (b + n - 1) % n ELSE b
    BY <1>1, AbdFields DEF Below
  <2>2. n \in Nat /\ b \in Nat /\ b < n /\ u \in Nat /\ u < n /\ dq.dqtop \in Nat
    BY <1>1, Fields DEF HasRoom
  <2>3. dq.dqtop = IF u = 0 THEN b ELSE (b + u - 1) % n
    BY DEF RingConsistent
  <2> HIDE DEF n, b, u, d
  <2>4. d.dqtop = (d.dqbottom + u) % n
    <3>1. CASE u = 0
      <4>1. b % n = b /\ b + 0 = b BY <2>2
      <4>2. QED BY <2>1, <2>3, <3>1, <4>1
    <3>2. CASE u # 0
      <4>1. (((b + n - 1) % n) + u) % n = (b + u - 1) % n BY <2>2, <3>2
      <4>2. QED BY <2>1, <2>3, <3>2, <4>1
    <3>3. QED BY <3>1, <3>2
  <2>5. d.dqbottom \in Int
    BY <2>1, <2>2
  <2>6. u + 1 # 0 /\ d.dqbottom + (u + 1) - 1 = d.dqbottom + u
    BY <2>2, <2>5
  <2>7. QED BY <2>1, <2>4, <2>6 DEF RingConsistent, n, b, u, d
<1>2. QED BY <1>1 DEF Abd

LEMMA RtdRing ==
  ASSUME NEW items, NEW dq, HeaderType(dq, items), RingConsistent(dq)
  PROVE  RingConsistent(Rtd(dq))
<1>1. CASE HasItem(dq)
  <2> DEFINE n == dq.dqslots
             b == dq.dqbottom
             u == dq.dquse
             d == Rtd(dq)
  <2>1. /\ d.dqslots = n /\ d.dquse = u - 1 /\ d.dqbottom = b
        /\ d.dqtop = IF u # 1 THEN (dq.dqtop + n - 1) % n ELSE dq.dqtop
    BY <1>1, RtdFields DEF Below
  <2>2. n \in Nat /\ b \in Nat /\ b < n /\ u \in Nat /\ u <= n /\ u > 0
    BY <1>1, Fields DEF HasItem
  <2>3. dq.dqtop = (b + u - 1) % n
    BY <1>1, <2>2 DEF RingConsistent, HasItem
  <2> HIDE DEF n, b, u, d
  <2>4. CASE u = 1
    <3>1. (b + 1 - 1) % n = b BY <2>2
    <3>2. QED BY <2>1, <2>3, <2>4, <3>1 DEF RingConsistent, d
  <2>5. CASE u # 1
    <3>1. (((b + u - 1) % n) + n - 1) % n = (b + (u - 1) - 1) % n
      BY <2>2, <2>5
    <3>2. u - 1 # 0 BY <2>2, <2>5
    <3>3. QED BY <2>1, <2>3, <2>5, <3>1, <3>2 DEF RingConsistent, d
  <2>6. QED BY <2>4, <2>5
<1>2. QED BY <1>1 DEF Rtd

LEMMA RbdRing ==
  ASSUME NEW items, NEW dq, HeaderType(dq, items), RingConsistent(dq)
  PROVE  RingConsistent(Rbd(dq))
<1>1. CASE HasItem(dq)
  <2> DEFINE n == dq.dqslots
             b == dq.dqbottom
             u == dq.dquse
             d == Rbd(dq)
  <2>1. /\ d.dqslots = n /\ d.dquse = u - 1 /\ d.dqtop = dq.dqtop
        /\ d.dqbottom = IF u # 1 THEN (b + 1) % n ELSE b
    BY <1>1, RbdFields DEF Above
  <2>2. n \in Nat /\ b \in Nat /\ b < n /\ u \in Nat /\ u <= n /\ u > 0
    BY <1>1, Fields DEF HasItem
  <2>3. dq.dqtop = (b + u - 1) % n
    BY <1>1, <2>2 DEF RingConsistent, HasItem
  <2> HIDE DEF n, b, u, d
  <2>4. CASE u = 1
    <3>1. (b + 1 - 1) % n = b BY <2>2
    <3>2. QED BY <2>1, <2>3, <2>4, <3>1 DEF RingConsistent, d
  <2>5. CASE u # 1
    <3>1. (((b + 1) % n) + (u - 1) - 1) % n = (b + u - 1) % n
      BY <2>2, <2>5
    <3>2. u - 1 # 0 BY <2>2, <2>5
    <3>3. QED BY <2>1, <2>3, <2>5, <3>1, <3>2 DEF RingConsistent, d
  <2>6. QED BY <2>4, <2>5
<1>2. QED BY <1>1 DEF Rbd

-----------------------------------------------------------------------------
(* The arc is a sequence of the stored items, at distinct positions.       *)
LEMMA ContentsSeq ==
  ASSUME NEW items, NEW dq, HeaderType(dq, items)
  PROVE  /\ Contents(dq) \in Seq(items)
         /\ Len(Contents(dq)) = dq.dquse
         /\ \A i \in 1 .. dq.dquse :
              /\ (dq.dqbottom + i - 1) % dq.dqslots \in 0 .. dq.dqslots - 1
              /\ Contents(dq)[i] = dq.slot[(dq.dqbottom + i - 1) % dq.dqslots]
<1> DEFINE at(i) == (dq.dqbottom + i - 1) % dq.dqslots
<1>1. ASSUME NEW i \in 1 .. dq.dquse
      PROVE  at(i) \in 0 .. dq.dqslots - 1
  <2>1. /\ dq.dqslots \in Nat /\ dq.dqslots > 0
        /\ dq.dqbottom \in Nat /\ i \in Nat /\ i > 0
    BY Fields
  <2>2. dq.dqbottom + i - 1 \in Nat
    BY <2>1
  <2>3. QED BY <2>1, <2>2, ModRange
<1>2. \A i \in 1 .. dq.dquse : dq.slot[at(i)] \in items
  BY <1>1, Fields
<1> HIDE DEF at
<1>3. Contents(dq) = [i \in 1 .. dq.dquse |-> dq.slot[at(i)]]
  BY DEF Contents, at
<1>4. Contents(dq) \in [1 .. dq.dquse -> items]
  BY <1>2, <1>3
<1>5. Contents(dq) \in Seq(items) /\ Len(Contents(dq)) = dq.dquse
  BY <1>4, Fields
<1>6. QED BY <1>1, <1>3, <1>5 DEF at

(* Adding at an end appends to, or prepends to, the sequence.              *)
LEMMA AtdContents ==
  ASSUME NEW items, NEW dq, HeaderType(dq, items), RingConsistent(dq),
         NEW item \in items, HasRoom(dq)
  PROVE  Contents(Atd(dq, item)) = Append(Contents(dq), item)
<1> DEFINE d == Atd(dq, item)
           n == dq.dqslots
           b == dq.dqbottom
           u == dq.dquse
<1>1. /\ d.dqslots = n /\ d.dquse = u + 1 /\ d.dqbottom = b
      /\ d.slot = [dq.slot EXCEPT ![d.dqtop] = item]
      /\ d.dqtop \in 0 .. n - 1
  BY AtdFields
<1>2. d.dqtop = (b + u) % n
  BY AtdRing
<1>3. n \in Nat /\ b \in Nat /\ b < n /\ u \in Nat /\ u < n
  BY Fields DEF HasRoom
<1>4. dq.slot \in [0 .. n - 1 -> items]
  BY Fields
<1>5. HeaderType(d, items)
  BY AtdType
<1>6. /\ Contents(dq) \in Seq(items) /\ Len(Contents(dq)) = u
      /\ \A i \in 1 .. u : /\ (b + i - 1) % n \in 0 .. n - 1
                           /\ Contents(dq)[i] = dq.slot[(b + i - 1) % n]
  BY ContentsSeq
<1> HIDE DEF d, n, b, u
<1>7. /\ Contents(d) \in Seq(items) /\ Len(Contents(d)) = d.dquse
      /\ \A i \in 1 .. d.dquse :
           Contents(d)[i] = d.slot[(d.dqbottom + i - 1) % d.dqslots]
  BY <1>5, ContentsSeq
<1>8. /\ Contents(d) \in Seq(items) /\ Len(Contents(d)) = u + 1
      /\ \A i \in 1 .. u + 1 : Contents(d)[i] = d.slot[(b + i - 1) % n]
  BY <1>1, <1>7
<1>9. ASSUME NEW i \in 1 .. u
      PROVE  Contents(d)[i] = Contents(dq)[i]
  <2> DEFINE p == (b + i - 1) % n
  <2>1. i \in Nat /\ 0 < i /\ i <= u /\ i \in 1 .. u + 1
    BY <1>3
  <2>2. p # (b + u) % n
    BY <1>3, <2>1
  <2>3. p \in 0 .. n - 1 /\ Contents(dq)[i] = dq.slot[p]
    BY <1>6
  <2>4. Contents(d)[i] = d.slot[p]
    BY <1>8, <2>1
  <2> HIDE DEF p
  <2>5. d.slot[p] = dq.slot[p]
    BY <1>1, <1>2, <1>4, <2>2, <2>3
  <2>6. QED BY <2>3, <2>4, <2>5
<1>10. Contents(d)[u + 1] = item
  <2>1. u + 1 \in 1 .. u + 1 /\ b + (u + 1) - 1 = b + u
    BY <1>3
  <2>2. Contents(d)[u + 1] = d.slot[d.dqtop]
    BY <1>2, <1>8, <2>1
  <2>3. QED BY <1>1, <1>4, <2>2
<1>11. /\ Append(Contents(dq), item) \in Seq(items)
       /\ Len(Append(Contents(dq), item)) = u + 1
       /\ \A i \in 1 .. u : Append(Contents(dq), item)[i] = Contents(dq)[i]
       /\ Append(Contents(dq), item)[u + 1] = item
  BY <1>6, AppendProperties
<1>12. \A i \in 1 .. u + 1 : Contents(d)[i] = Append(Contents(dq), item)[i]
  BY <1>3, <1>9, <1>10, <1>11
<1>13. Contents(d) = Append(Contents(dq), item)
  BY <1>8, <1>11, <1>12, SeqEqual
<1>14. QED BY <1>13 DEF d

LEMMA AbdContents ==
  ASSUME NEW items, NEW dq, HeaderType(dq, items), RingConsistent(dq),
         NEW item \in items, HasRoom(dq)
  PROVE  Contents(Abd(dq, item)) = <<item>> \o Contents(dq)
<1> DEFINE d == Abd(dq, item)
           n == dq.dqslots
           b == dq.dqbottom
           u == dq.dquse
           c == d.dqbottom
<1>1. /\ d.dqslots = n /\ d.dquse = u + 1
      /\ c = IF u # 0 THEN (b + n - 1) % n ELSE b
      /\ d.slot = [dq.slot EXCEPT ![c] = item]
      /\ c \in 0 .. n - 1
  BY AbdFields DEF Below
<1>2. n \in Nat /\ b \in Nat /\ b < n /\ u \in Nat /\ u < n
  BY Fields DEF HasRoom
<1>3. dq.slot \in [0 .. n - 1 -> items]
  BY Fields
<1>4. HeaderType(d, items)
  BY AbdType
<1>5. /\ Contents(dq) \in Seq(items) /\ Len(Contents(dq)) = u
      /\ \A i \in 1 .. u : /\ (b + i - 1) % n \in 0 .. n - 1
                           /\ Contents(dq)[i] = dq.slot[(b + i - 1) % n]
  BY ContentsSeq
<1> HIDE DEF d, n, b, u
<1>6. /\ Contents(d) \in Seq(items) /\ Len(Contents(d)) = d.dquse
      /\ \A i \in 1 .. d.dquse : Contents(d)[i] = d.slot[(c + i - 1) % d.dqslots]
  BY <1>4, ContentsSeq
<1>7. /\ Contents(d) \in Seq(items) /\ Len(Contents(d)) = u + 1
      /\ \A i \in 1 .. u + 1 : Contents(d)[i] = d.slot[(c + i - 1) % n]
  BY <1>1, <1>6
<1>8. c \in Nat /\ c < n
  BY <1>1, <1>2
<1> HIDE DEF c
<1>9. ASSUME NEW i \in 1 .. u
      PROVE  Contents(d)[i + 1] = Contents(dq)[i]
  <2> DEFINE p == (b + i - 1) % n
  <2>1. u # 0 /\ i \in Nat /\ 0 < i /\ i <= u /\ i + 1 \in 1 .. u + 1
    BY <1>2
  <2>2. c = (b + n - 1) % n
    BY <1>1, <2>1
  <2>3. (((b + n - 1) % n) + i) % n = p /\ p # (b + n - 1) % n
    BY <1>2, <2>1
  <2>4. c + (i + 1) - 1 = c + i
    BY <1>8, <2>1
  <2>5. p \in 0 .. n - 1 /\ Contents(dq)[i] = dq.slot[p]
    BY <1>5
  <2> HIDE DEF p
  <2>6. Contents(d)[i + 1] = d.slot[p]
    BY <1>7, <2>1, <2>2, <2>3, <2>4
  <2>7. d.slot[p] = dq.slot[p]
    BY <1>1, <1>3, <2>2, <2>3, <2>5
  <2>8. QED BY <2>5, <2>6, <2>7
<1>10. Contents(d)[1] = item
  <2>1. c % n = c
    BY <1>2, <1>8
  <2>2. c + 1 - 1 = c /\ 1 \in 1 .. u + 1
    BY <1>2, <1>8
  <2>3. Contents(d)[1] = d.slot[c]
    BY <1>7, <2>1, <2>2
  <2>4. QED BY <1>1, <1>3, <2>3
<1>11. /\ <<item>> \in Seq(items) /\ Len(<<item>>) = 1 /\ <<item>>[1] = item
  OBVIOUS
<1>12. /\ <<item>> \o Contents(dq) \in Seq(items)
       /\ Len(<<item>> \o Contents(dq)) = u + 1
       /\ \A i \in 1 .. u + 1 : (<<item>> \o Contents(dq))[i] =
                                IF i = 1 THEN item ELSE Contents(dq)[i - 1]
  BY <1>2, <1>5, <1>11, ConcatProperties
<1>13. ASSUME NEW i \in 1 .. u + 1
       PROVE  Contents(d)[i] = (<<item>> \o Contents(dq))[i]
  <2>1. CASE i = 1
    BY <1>10, <1>12, <2>1
  <2>2. CASE i # 1
    <3>1. i - 1 \in 1 .. u /\ (i - 1) + 1 = i
      BY <1>2, <2>2
    <3>2. QED BY <1>9, <1>12, <2>2, <3>1
  <2>3. QED BY <2>1, <2>2
<1>14. Contents(d) = <<item>> \o Contents(dq)
  BY <1>7, <1>12, <1>13, SeqEqual
<1>15. QED BY <1>14 DEF d

(* Removing at an end returns, and takes off, the item of that end.        *)
LEMMA RtdContents ==
  ASSUME NEW items, NEW dq, HeaderType(dq, items), RingConsistent(dq), HasItem(dq)
  PROVE  /\ Contents(Rtd(dq)) = SubSeq(Contents(dq), 1, Len(Contents(dq)) - 1)
         /\ TopItem(dq) = Contents(dq)[Len(Contents(dq))]
         /\ Contents(dq) # << >>
<1> DEFINE d == Rtd(dq)
           n == dq.dqslots
           b == dq.dqbottom
           u == dq.dquse
           C == Contents(dq)
<1>1. /\ d.dqslots = n /\ d.dquse = u - 1 /\ d.dqbottom = b /\ d.slot = dq.slot
  BY RtdFields
<1>2. n \in Nat /\ b \in Nat /\ b < n /\ u \in Nat /\ u <= n /\ 0 < u
  BY Fields DEF HasItem
<1>3. HeaderType(d, items)
  BY RtdType
<1>4. /\ C \in Seq(items) /\ Len(C) = u
      /\ \A i \in 1 .. u : C[i] = dq.slot[(b + i - 1) % n]
  BY ContentsSeq
<1>5. dq.dqtop = (b + u - 1) % n
  BY <1>2 DEF RingConsistent
<1> HIDE DEF d, n, b, u
<1>6. /\ Contents(d) \in Seq(items) /\ Len(Contents(d)) = d.dquse
      /\ \A i \in 1 .. d.dquse : Contents(d)[i] = d.slot[(d.dqbottom + i - 1) % d.dqslots]
  BY <1>3, ContentsSeq
<1>7. /\ Contents(d) \in Seq(items) /\ Len(Contents(d)) = u - 1
      /\ \A i \in 1 .. u - 1 : Contents(d)[i] = dq.slot[(b + i - 1) % n]
  BY <1>1, <1>6
<1> HIDE DEF C
<1>8. \A i \in 1 .. u : C[i] \in items
  BY <1>4, ElementOfSeq
<1>9. /\ SubSeq(C, 1, u - 1) \in Seq(items)
      /\ Len(SubSeq(C, 1, u - 1)) = u - 1
      /\ \A i \in 1 .. u - 1 : SubSeq(C, 1, u - 1)[i] = C[i]
  <2>1. 1 \in Int /\ u - 1 \in Int /\ (\A i \in 1 .. u - 1 : C[i] \in items)
    BY <1>2, <1>8
  <2>2. /\ SubSeq(C, 1, u - 1) \in Seq(items)
        /\ Len(SubSeq(C, 1, u - 1)) = IF 1 <= u - 1 THEN (u - 1) - 1 + 1 ELSE 0
        /\ \A i \in 1 .. (u - 1) - 1 + 1 : SubSeq(C, 1, u - 1)[i] = C[1 + i - 1]
    BY <2>1, SubSeqProperties
  <2>3. (IF 1 <= u - 1 THEN (u - 1) - 1 + 1 ELSE 0) = u - 1 /\ (u - 1) - 1 + 1 = u - 1
    BY <1>2
  <2>4. \A i \in 1 .. u - 1 : 1 + i - 1 = i
    BY <1>2
  <2>5. QED BY <2>2, <2>3, <2>4
<1>10. \A i \in 1 .. u - 1 : Contents(d)[i] = SubSeq(C, 1, u - 1)[i]
  <2>1. \A i \in 1 .. u - 1 : i \in 1 .. u
    BY <1>2
  <2>2. QED BY <1>4, <1>7, <1>9, <2>1
<1>11. Contents(d) = SubSeq(C, 1, u - 1)
  BY <1>7, <1>9, <1>10, SeqEqual
<1>12. dq.slot[dq.dqtop] = C[u]
  <2>1. u \in 1 .. u
    BY <1>2
  <2>2. QED BY <1>4, <1>5, <2>1
<1>13. C # << >>
  BY <1>2, <1>4
<1>14. QED BY <1>4, <1>11, <1>12, <1>13 DEF d, C, TopItem

LEMMA RbdContents ==
  ASSUME NEW items, NEW dq, HeaderType(dq, items), RingConsistent(dq), HasItem(dq)
  PROVE  /\ Contents(Rbd(dq)) = Tail(Contents(dq))
         /\ BottomItem(dq) = Contents(dq)[1]
         /\ Contents(dq) # << >>
<1> DEFINE d == Rbd(dq)
           n == dq.dqslots
           b == dq.dqbottom
           u == dq.dquse
           C == Contents(dq)
<1>1. /\ d.dqslots = n /\ d.dquse = u - 1 /\ d.slot = dq.slot
      /\ d.dqbottom = IF u # 1 THEN (b + 1) % n ELSE b
  BY RbdFields DEF Above
<1>2. n \in Nat /\ b \in Nat /\ b < n /\ u \in Nat /\ u <= n /\ 0 < u
  BY Fields DEF HasItem
<1>3. HeaderType(d, items)
  BY RbdType
<1>4. /\ C \in Seq(items) /\ Len(C) = u
      /\ \A i \in 1 .. u : C[i] = dq.slot[(b + i - 1) % n]
  BY ContentsSeq
<1> HIDE DEF d, n, b, u
<1>5. /\ Contents(d) \in Seq(items) /\ Len(Contents(d)) = d.dquse
      /\ \A i \in 1 .. d.dquse : Contents(d)[i] = d.slot[(d.dqbottom + i - 1) % d.dqslots]
  BY <1>3, ContentsSeq
<1>6. /\ Contents(d) \in Seq(items) /\ Len(Contents(d)) = u - 1
      /\ \A i \in 1 .. u - 1 : Contents(d)[i] = dq.slot[(d.dqbottom + i - 1) % n]
  BY <1>1, <1>5
<1> HIDE DEF C
<1>7. C # << >>
  BY <1>2, <1>4
<1>8. /\ Tail(C) \in Seq(items) /\ Len(Tail(C)) = u - 1
      /\ \A i \in 1 .. u - 1 : Tail(C)[i] = C[i + 1]
  BY <1>4, <1>7, HeadTailProperties
<1>9. ASSUME NEW i \in 1 .. u - 1
      PROVE  Contents(d)[i] = Tail(C)[i]
  <2>1. i \in Nat /\ 0 < i /\ i <= u - 1 /\ u # 1 /\ i + 1 \in 1 .. u
    BY <1>2
  <2>2. (((b + 1) % n) + i - 1) % n = (b + (i + 1) - 1) % n
    BY <1>2, <2>1
  <2>3. d.dqbottom = (b + 1) % n
    BY <1>1, <2>1
  <2>4. Contents(d)[i] = dq.slot[(b + (i + 1) - 1) % n]
    BY <1>6, <2>2, <2>3
  <2>5. QED BY <1>4, <1>8, <2>1, <2>4
<1>10. Contents(d) = Tail(C)
  BY <1>6, <1>8, <1>9, SeqEqual
<1>11. dq.slot[b] = C[1]
  <2>1. (b + 1 - 1) % n = b /\ 1 \in 1 .. u
    BY <1>2
  <2>2. QED BY <1>4, <2>1
<1>12. QED BY <1>7, <1>10, <1>11 DEF d, b, C, BottomItem
=============================================================================
