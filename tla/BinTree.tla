------------------------------ MODULE BinTree ------------------------------
(***************************************************************************)
(* btacc.c: a binary tree sorted by the comparison function of its user,   *)
(* whose nodes link to both children and to the parent.  Each function is  *)
(* an operator on the record of the root and the header fields of the      *)
(* nodes; callers are single threaded, so a call is a step.                *)
(*                                                                         *)
(* bt_replace does not tell the children that their parent is another node *)
(* now.  bt_del reads the parent of the node it deletes and of the one     *)
(* that takes its place: with a stale one it writes into the node that was *)
(* replaced.  corrupted records that this happened; the model stops there. *)
(***************************************************************************)
EXTENDS Integers, Sequences, FiniteSets, SequencesExt

CONSTANTS TNodes,     \* the nodes of the application
          TNULL,
          KeyOf,      \* the key the comparison function finds in a node
          HitMod      \* the values of the ushort tr_count: 65536 in C

ASSUME BinTreeAssumption == /\ TNULL \notin TNodes /\ IsFiniteSet(TNodes)
                            /\ KeyOf \in [TNodes -> Int] /\ HitMod \in Nat \ {0}

VARIABLES tree,       \* [root, left, right, parent, count]
          members,    \* history: the nodes added or put in by bt_replace, not deleted or replaced
          corrupted   \* history: bt_del went through the parent of a replaced node

btvars == <<tree, members, corrupted>>

compare(c, n) == KeyOf[n] - KeyOf[c]

-----------------------------------------------------------------------------
(* bt_add and bt_insert go down to the node with the key, or to the one    *)
(* the new node becomes a child of.                                        *)
Seat(t, n) == LET seat[c \in TNodes] ==
                    CASE compare(c, n) < 0 /\ t.left[c] # TNULL  -> seat[t.left[c]]
                      [] compare(c, n) > 0 /\ t.right[c] # TNULL -> seat[t.right[c]]
                      [] OTHER -> c
              IN  seat[t.root]

Leaf(t, n, p) == [t EXCEPT !.left[n] = TNULL, !.right[n] = TNULL, !.parent[n] = p]

bt_insert(t, n) ==
  LET c == Seat(t, n)
  IN  CASE compare(c, n) = 0 -> [t EXCEPT !.count[c] = (@ + 1) % HitMod]
        [] compare(c, n) < 0 -> [Leaf(t, n, c) EXCEPT !.left[c] = n]
        [] OTHER             -> [Leaf(t, n, c) EXCEPT !.right[c] = n]

bt_add(t, n) == IF t.root = TNULL THEN [Leaf(t, n, TNULL) EXCEPT !.root = n]
                ELSE bt_insert(t, n)

bt_search(t, k) == LET at[c \in TNodes \cup {TNULL}] ==
                         CASE c = TNULL    -> TNULL
                           [] c # TNULL /\ k < KeyOf[c] -> at[t.left[c]]
                           [] c # TNULL /\ k = KeyOf[c] -> c
                           [] OTHER -> at[t.right[c]]
                   IN  at[t.root]

(* The last node on the way down one side, the given one when it is alone: *)
(* the callers replace the NULL of that case by the node.                  *)
Outermost(side, n) == LET end[c \in TNodes] == IF side[c] = TNULL THEN c ELSE end[side[c]]
                      IN  end[n]
bt_leftmost(t, n)  == Outermost(t.left, n)
bt_rightmost(t, n) == Outermost(t.right, n)

(* The node that takes the place of n: the next smaller, or else the next  *)
(* greater below it.                                                       *)
Replacement(t, n) == CASE t.left[n] # TNULL  -> bt_rightmost(t, t.left[n])
                       [] t.left[n] = TNULL /\ t.right[n] # TNULL -> bt_leftmost(t, t.right[n])
                       [] OTHER -> TNULL

(* In node p, the link to child c is changed to r. *)
Relink(t, p, c, r) == CASE p = TNULL -> [t EXCEPT !.root = r]
                        [] p # TNULL /\ t.left[p] = c -> [t EXCEPT !.left[p] = r]
                        [] OTHER -> [t EXCEPT !.right[p] = r]

Adopt(t, c, p) == IF c = TNULL THEN t ELSE [t EXCEPT !.parent[c] = p]
(* Faulty: the subtree of the replacement goes with it. *)
Detach_Loses(t, n, r) ==
  LET p == t.parent[r]
  IN  CASE p = n -> t
        [] p # n /\ t.left[n] # TNULL -> [t EXCEPT !.right[p] = TNULL]
        [] OTHER -> [t EXCEPT !.left[p] = TNULL]

(* The replacement r hands its one subtree to its parent, unless that is   *)
(* the node that goes.                                                     *)
Detach(t, n, r) ==
  LET p == t.parent[r]
  IN  CASE p = n -> t
        [] p # n /\ t.left[n] # TNULL -> Adopt([t EXCEPT !.right[p] = t.left[r]], t.left[r], p)
        [] OTHER -> Adopt([t EXCEPT !.left[p] = t.right[r]], t.right[r], p)

bt_del(t, n) ==
  LET r  == Replacement(t, n)
      t1 == Detach(t, n, r)
      t2 == Relink(t1, t1.parent[n], n, r)
      lc == IF t2.left[n] = r THEN t2.left[r] ELSE t2.left[n]
      rc == IF t2.right[n] = r THEN t2.right[r] ELSE t2.right[n]
      t3 == [t2 EXCEPT !.parent[r] = t2.parent[n], !.left[r] = lc, !.right[r] = rc]
  IN  CASE t.root = TNULL -> t
        [] t.root # TNULL /\ r = TNULL -> Relink(t, t.parent[n], n, TNULL)
        [] OTHER -> Adopt(Adopt(t3, lc, r), rc, r)

(* The root is compared with the old node before its parent is followed.   *)
bt_replace(t, old, new) ==
  LET t1 == Relink(t, IF t.root = old THEN TNULL ELSE t.parent[old], old, new)
  IN  IF t.root = TNULL THEN t
      ELSE [t1 EXCEPT !.parent[new] = t1.parent[old], !.left[new] = t1.left[old],
                      !.right[new] = t1.right[old], !.count[new] = t1.count[old]]

(* The nodes in the order in which the action function is called while it  *)
(* returns TRUE.                                                           *)
bt_inorder(t) == LET in[c \in TNodes \cup {TNULL}] ==
                       IF c = TNULL THEN <<>> ELSE in[t.left[c]] \o <<c>> \o in[t.right[c]]
                 IN  in[t.root]

-----------------------------------------------------------------------------
BTInit == /\ tree = [root |-> TNULL, count |-> [n \in TNodes |-> 0],
                     left |-> [n \in TNodes |-> TNULL], right |-> [n \in TNodes |-> TNULL],
                     parent |-> [n \in TNodes |-> TNULL]]
          /\ members = {} /\ corrupted = FALSE

TAdd(n) == /\ ~corrupted /\ n \notin members
           /\ tree' = bt_add(tree, n)
           /\ members' = IF \E m \in members : KeyOf[m] = KeyOf[n] THEN members
                         ELSE members \cup {n}
           /\ UNCHANGED corrupted

(* A node is somebody's child, or the root. *)
IsChildOf(t, n, p) == IF p = TNULL THEN t.root = n ELSE n \in {t.left[p], t.right[p]} /\ p \in members
StaleParent(n)     == ~IsChildOf(tree, n, tree.parent[n])

TDel(n) == /\ ~corrupted /\ n \in members
           /\ tree' = bt_del(tree, n) /\ members' = members \ {n}
           /\ corrupted' = \E m \in {n, Replacement(tree, n)} \ {TNULL} : StaleParent(m)

(* The caller has to keep the order (btacc.c:637-641). *)
TReplace(old, new) == /\ ~corrupted /\ old \in members /\ new \notin members
                      /\ KeyOf[old] = KeyOf[new]
                      /\ IF StaleParent(old) THEN corrupted' = TRUE ELSE UNCHANGED corrupted
                      /\ tree' = bt_replace(tree, old, new)
                      /\ members' = (members \ {old}) \cup {new}

BTNext == \E n \in TNodes : TAdd(n) \/ TDel(n) \/ \E m \in TNodes : TReplace(n, m)
BTSpec == BTInit /\ [][BTNext]_btvars

-----------------------------------------------------------------------------
(* While no delete or replace went through a stale parent: the tree holds  *)
(* the members and nothing else, each once, in the order of their keys; a  *)
(* search finds each of them; and a parent is wrong only when it is a node *)
(* that was replaced.                                                      *)
TreeInv ==
  ~corrupted =>
    LET nodes == bt_inorder(tree) IN
    /\ ToSet(nodes) = members
    /\ \A i \in 1..(Len(nodes) - 1) : KeyOf[nodes[i]] < KeyOf[nodes[i + 1]]
    /\ \A n \in TNodes : LET f == bt_search(tree, KeyOf[n])
                         IN  IF f = TNULL THEN n \notin members
                             ELSE f \in members /\ KeyOf[f] = KeyOf[n]
    /\ \A n \in members : StaleParent(n) => tree.parent[n] \in TNodes \ members

(* "This function is called to delete an item from a binary tree"          *)
(* (btacc.c:222): a node that was deleted is no longer found.              *)
DeleteRemoves == \A n \in TNodes \ members : bt_search(tree, KeyOf[n]) # n
=============================================================================
