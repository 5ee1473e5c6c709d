------------------------------ MODULE NodeList ------------------------------
(***************************************************************************)
(* What the comments of llacc.c promise of a list: a sequence of distinct  *)
(* nodes, and for each function what it does to the sequence and returns.  *)
(* ll_pluck and ll_insert return TRUE (non-zero) when the node they look   *)
(* for is not on the list; a new node goes right behind the one it is      *)
(* given, wherever on the list that is.                                    *)
(***************************************************************************)
EXTENDS Integers, Sequences, SequencesExt

CONSTANTS Node,
          Null       \* what a function without a node returns

VARIABLES items,
          last       \* the last call: function, its nodes, the value returned

Called(fn, nodes, value) == last' = [fn |-> fn, nodes |-> nodes, value |-> value]
On(n) == n \in ToSet(items)

AddFront(n) == Called("ll_addfront", <<n>>, Null) /\ ~On(n) /\ items' = <<n>> \o items
AddBack(n)  == Called("ll_addback", <<n>>, Null) /\ ~On(n) /\ items' = Append(items, n)

GetFront == \/ items # <<>> /\ Called("ll_getfront", <<>>, Head(items)) /\ items' = Tail(items)
            \/ items = <<>> /\ Called("ll_getfront", <<>>, Null) /\ UNCHANGED items
GetBack  == \/ items # <<>> /\ Called("ll_getback", <<>>, Last(items)) /\ items' = Front(items)
            \/ items = <<>> /\ Called("ll_getback", <<>>, Null) /\ UNCHANGED items

Pluck(n) == \/ /\ Called("ll_pluck", <<n>>, FALSE)
               /\ \E i \in DOMAIN items : items[i] = n /\ items' = RemoveAt(items, i)
            \/ Called("ll_pluck", <<n>>, TRUE) /\ ~On(n) /\ UNCHANGED items

Insert(p, n) ==
  \/ /\ Called("ll_insert", <<p, n>>, FALSE) /\ ~On(n)
     /\ \E i \in DOMAIN items : items[i] = p /\ items' = InsertAt(items, i + 1, n)
  \/ Called("ll_insert", <<p, n>>, TRUE) /\ ~On(n) /\ ~On(p) /\ UNCHANGED items

Drain == Called("ll_drain", <<>>, Null) /\ items' = <<>>

Init == items = <<>> /\ last = [fn |-> "ll_init", nodes |-> <<>>, value |-> Null]
Next == \/ GetFront \/ GetBack \/ Drain
        \/ \E n \in Node : AddFront(n) \/ AddBack(n) \/ Pluck(n) \/ \E p \in Node : Insert(p, n)
Spec == Init /\ [][Next]_<<items, last>>
=============================================================================
