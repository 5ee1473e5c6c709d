----------------------------- MODULE LinkedList -----------------------------
(***************************************************************************)
(* llacc.c: a singly linked list with front and back pointers and a count. *)
(* Each function is an operator on the record of the header and the link   *)
(* words; the callers are single threaded, so a call is a step.            *)
(*                                                                         *)
(* ll_pluck does not count the node it takes from the middle, ll_insert    *)
(* does not count the one it puts there; ll_insert looks for the node      *)
(* before pnode, so the first node is never found, and leaves the back     *)
(* pointer where it is when pnode is the last.  free holds the nodes that  *)
(* the application may add.                                                *)
(***************************************************************************)
EXTENDS Integers, Sequences, FiniteSets, SequencesExt

CONSTANTS Nodes,     \* the nodes of the application
          NULL,
          CountMod   \* the values of the ushort ll_cnt: 65536 in C

ASSUME LinkedListAssumption == NULL \notin Nodes /\ IsFiniteSet(Nodes) /\ CountMod \in Nat \ {0}

VARIABLES list,      \* [fptr, bptr, cnt, link]
          free,      \* the nodes the application holds
          drift,     \* history: plucks less inserts in the middle since the list was empty
          last       \* history: the last call, its nodes and the value returned

llvars == <<list, free, drift, last>>

Bump(c, d) == (c + d) % CountMod

ll_init(l) == [l EXCEPT !.fptr = NULL, !.bptr = NULL, !.cnt = 0]

ll_ins0(l, p, n) == [l EXCEPT !.link[n] = l.link[p], !.link[p] = n]
(* Faulty: the successor of the removed node is lost. *)
ll_plu0_First(l, p) == IF l.link[p] = NULL THEN l ELSE [l EXCEPT !.link[p] = NULL]

(* The successor of p is taken out. *)
ll_plu0(l, p) == IF l.link[p] = NULL THEN l
                 ELSE [l EXCEPT !.link[p] = l.link[l.link[p]]]

ll_addfront(l, n) == [l EXCEPT !.fptr = n, !.link[n] = l.fptr, !.cnt = Bump(@, 1),
                               !.bptr = IF l.fptr = NULL THEN n ELSE @]

ll_addback(l, n) ==
  IF l.fptr = NULL THEN ll_addfront(l, n)
  ELSE [l EXCEPT !.bptr = n, !.cnt = Bump(@, 1),
                 !.link = [@ EXCEPT ![n] = NULL, ![l.bptr] = n]]

ll_iterate(l, n) == IF n = NULL THEN NULL ELSE l.link[n]

(* The nodes that ll_search visits: all that are linked.                   *)
Linked(l) == LET at[i \in 1..Cardinality(Nodes)] ==
                   IF i = 1 THEN l.fptr ELSE LET p == at[i - 1] IN ll_iterate(l, p)
             IN  SubSeq(at, 1, Cardinality({i \in DOMAIN at : at[i] # NULL}))

(* A match function is the set of the nodes it accepts; the first of them  *)
(* is found, or none.                                                      *)
ll_match_link(l, target) == {n \in Nodes : l.link[n] = target}
ll_search(l, matches)    == LET s    == Linked(l)
                                hits == {i \in DOMAIN s : s[i] \in matches}
                            IN  IF hits = {} THEN NULL
                                ELSE s[CHOOSE i \in hits : \A j \in hits : i <= j]
Predecessor(l, n)        == ll_search(l, ll_match_link(l, n))

ll_getfront(l) == IF l.fptr = NULL THEN l
                  ELSE IF l.fptr = l.bptr THEN ll_init(l)
                  ELSE [l EXCEPT !.fptr = l.link[l.fptr], !.cnt = Bump(@, -1)]
ll_getback(l)  == IF l.fptr = NULL THEN l
                  ELSE IF l.fptr = l.bptr THEN ll_init(l)
                  ELSE LET pred == Predecessor(l, l.bptr)
                       IN  [ll_plu0(l, pred) EXCEPT !.bptr = pred, !.cnt = Bump(@, -1)]

(* The value returned is TRUE when the node is not on the list. *)
ll_pluck(l, n) ==
  IF l.fptr = n THEN [l |-> ll_getfront(l), flag |-> FALSE]
  ELSE IF l.bptr = n THEN [l |-> ll_getback(l), flag |-> FALSE]
  ELSE IF Predecessor(l, n) = NULL THEN [l |-> l, flag |-> TRUE]
  ELSE [l |-> ll_plu0(l, Predecessor(l, n)), flag |-> FALSE]

(* Faulty: the node is put before p. *)
ll_insert_Before(l, p, n) == IF Predecessor(l, p) = NULL THEN [l |-> l, flag |-> TRUE]
                             ELSE [l |-> ll_ins0(l, Predecessor(l, p), n), flag |-> FALSE]

ll_insert(l, p, n) == IF Predecessor(l, p) = NULL THEN [l |-> l, flag |-> TRUE]
                      ELSE [l |-> ll_ins0(l, p, n), flag |-> FALSE]

(* What ll_getfront would return until it returns NULL. *)
Listed(l) == LET s == Linked(l)
            IN  IF s = <<>> THEN <<>> ELSE SubSeq(s, 1, CHOOSE i \in DOMAIN s : s[i] = l.bptr)
ll_drain(l) == LET after[i \in 0..Len(Listed(l))] ==
                     IF i = 0 THEN l ELSE LET d == after[i - 1] IN ll_getfront(d)
               IN  after[Len(Listed(l))]

-----------------------------------------------------------------------------
LLInit == /\ list = ll_init([fptr |-> NULL, bptr |-> NULL, cnt |-> 0,
                             link |-> [n \in Nodes |-> NULL]])
          /\ free = Nodes /\ drift = 0
          /\ last = [fn |-> "ll_init", nodes |-> <<>>, value |-> NULL]

Middle(n)    == n \in ToSet(Listed(list)) \ {list.fptr, list.bptr}
Drifted(l, d) == drift' = IF l.fptr = NULL THEN 0 ELSE Bump(drift, d)

Called(fn, nodes, value) == last' = [fn |-> fn, nodes |-> nodes, value |-> value]

Add(n) == /\ n \in free
          /\ \/ list' = ll_addfront(list, n) /\ Called("ll_addfront", <<n>>, NULL)
             \/ list' = ll_addback(list, n) /\ Called("ll_addback", <<n>>, NULL)
          /\ free' = free \ {n} /\ UNCHANGED drift

GetFront == /\ list' = ll_getfront(list) /\ Called("ll_getfront", <<>>, list.fptr)
            /\ free' = free \cup ({list.fptr} \ {NULL}) /\ Drifted(list', 0)

GetBack == LET node == IF list.fptr = NULL THEN NULL ELSE list.bptr
           IN  /\ list' = ll_getback(list) /\ Called("ll_getback", <<>>, node)
               /\ free' = free \cup ({node} \ {NULL}) /\ Drifted(list', 0)

(* The application plucks nodes it has added, or that are not on a list.   *)
Pluck(n) == LET r == ll_pluck(list, n)
            IN  /\ list' = r.l /\ Called("ll_pluck", <<n>>, r.flag)
                /\ free' = IF r.flag THEN free ELSE free \cup {n}
                /\ Drifted(r.l, IF Middle(n) THEN 1 ELSE 0)

Insert(p, n) == LET r == ll_insert(list, p, n)
                IN  /\ n \in free /\ p \notin free
                    /\ list' = r.l /\ Called("ll_insert", <<p, n>>, r.flag)
                    /\ free' = IF r.flag THEN free ELSE free \ {n}
                    /\ Drifted(r.l, IF Middle(p) THEN -1 ELSE 0)

Drain == /\ list' = ll_drain(list) /\ Called("ll_drain", <<>>, NULL)
         /\ free' = free \cup ToSet(Listed(list)) /\ drift' = 0

LLNext == \/ GetFront \/ GetBack \/ Drain
          \/ \E n \in Nodes : Add(n) \/ Pluck(n) \/ \E p \in Nodes : Insert(p, n)
LLSpec == LLInit /\ [][LLNext]_llvars

-----------------------------------------------------------------------------
ListType == [fptr : Nodes \cup {NULL}, bptr : Nodes \cup {NULL}, cnt : 0..(CountMod - 1),
             link : [Nodes -> Nodes \cup {NULL}]]
LLTypeOK == list \in ListType /\ free \subseteq Nodes /\ drift \in 0..(CountMod - 1)

(* The links form one chain without a loop that the back pointer points    *)
(* into, no node is both in it and in the hands of the application, and    *)
(* the count is that of the nodes up to the back pointer less what was     *)
(* plucked from or inserted into the middle: nothing else moves it.        *)
LLInv ==
  LET chain == Linked(list) IN
  /\ LLTypeOK
  /\ (list.fptr = NULL) = (list.bptr = NULL)
  /\ IsInjective(chain)
  /\ list.fptr # NULL => /\ list.bptr \in ToSet(chain) /\ list.link[Last(chain)] = NULL
  /\ ToSet(chain) \cap free = {}
  /\ list.cnt = Bump(Len(Listed(list)), drift)
  /\ list.fptr = NULL => drift = 0

(* Where llacc.c does not do what it promises.  ll_insert refuses to put a *)
(* node behind the first one; behind the last one, or behind a stray, it   *)
(* says that it did and the list is as before; and a stray can be plucked. *)
Stray(n) == n \in ToSet(Linked(list)) \ ToSet(Listed(list))
Deviates ==
  /\ \E n \in Nodes :
       \/ Called("ll_pluck", <<n>>, FALSE) /\ Stray(n)
       \/ n \in free /\ \E p \in Nodes :
            \/ Called("ll_insert", <<p, n>>, TRUE) /\ p = list.fptr
            \/ /\ Called("ll_insert", <<p, n>>, FALSE)
               /\ (p = list.bptr /\ p # list.fptr) \/ Stray(p)
  /\ UNCHANGED Listed(list)

(* Up to the back pointer the list is the sequence that the comments       *)
(* promise, and every function returns what they say, but for the calls of *)
(* Deviates.                                                               *)
NL             == INSTANCE NodeList WITH Node <- Nodes, Null <- NULL, items <- Listed(list)
ImplementsList == NL!Init /\ [][NL!Next \/ Deviates]_<<Listed(list), last>>

(* "insert a node into the linked list so that it immediately follows the  *)
(* given node" (llacc.c:335-336) and the other promises, of every call.    *)
ListPromised == NL!Spec

(* "the number of items currently on the list" (llacc.c:407), the value    *)
(* ll_getptrs returns.                                                     *)
CountIsLength == list.cnt = Len(Listed(list))
=============================================================================
