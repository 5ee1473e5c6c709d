---------------------------- MODULE BoundedDeque ----------------------------
(***************************************************************************)
(* What dqacc.h promises of a deque: a sequence of at most "cap" items,    *)
(* inserted and removed at either end.  A call on a deque that is not      *)
(* open, an insertion into a full one and a removal from an empty one      *)
(* fail and change nothing.  q runs from bottom to top, and ret records    *)
(* the last call with what it returned, so that a call at the wrong end    *)
(* or with the wrong item is not a behaviour of this specification.        *)
(***************************************************************************)
EXTENDS Integers, Sequences

CONSTANTS Items,       \* the values an application stores
          Capacities   \* the capacities a deque is created with

VARIABLES q,      \* the stored items, bottom first
          cap,    \* the capacity
          open,   \* whether the deque is ready for use
          ret     \* the last call, its error flag and the items it moved

vars == <<q, cap, open, ret>>

Did(op, item)  == ret' = [op |-> op, flag |-> FALSE, item |-> <<item>>]
Refused(op)    == /\ ret' = [op |-> op, flag |-> TRUE, item |-> << >>]
                  /\ UNCHANGED <<q, cap, open>>
Fits == open /\ Len(q) < cap
Some == open /\ q # << >>

Create == /\ cap' \in Capacities
          /\ q' = << >>
          /\ open' = TRUE
          /\ ret' = [op |-> "init", flag |-> FALSE, item |-> << >>]

Reset == /\ q' = << >>
         /\ open' = TRUE
         /\ ret' = [op |-> "reset", flag |-> FALSE, item |-> << >>]
         /\ UNCHANGED cap

Close == /\ open' = FALSE
         /\ ret' = [op |-> "close", flag |-> FALSE, item |-> << >>]
         /\ UNCHANGED <<q, cap>>

AddTop(item) == \/ /\ Fits
                   /\ q' = Append(q, item)
                   /\ Did("atd", item)
                   /\ UNCHANGED <<cap, open>>
                \/ ~Fits /\ Refused("atd")

AddBottom(item) == \/ /\ Fits
                      /\ q' = <<item>> \o q
                      /\ Did("abd", item)
                      /\ UNCHANGED <<cap, open>>
                   \/ ~Fits /\ Refused("abd")

RemoveTop == \/ /\ Some
                /\ q' = SubSeq(q, 1, Len(q) - 1)
                /\ Did("rtd", q[Len(q)])
                /\ UNCHANGED <<cap, open>>
             \/ ~Some /\ Refused("rtd")

RemoveBottom == \/ /\ Some
                   /\ q' = Tail(q)
                   /\ Did("rbd", q[1])
                   /\ UNCHANGED <<cap, open>>
                \/ ~Some /\ Refused("rbd")

Init == /\ cap \in Capacities
        /\ q = << >>
        /\ open = TRUE
        /\ ret = [op |-> "init", flag |-> FALSE, item |-> << >>]

Next == \/ Create \/ Reset \/ Close \/ RemoveTop \/ RemoveBottom
        \/ \E item \in Items : AddTop(item) \/ AddBottom(item)

Spec == Init /\ [][Next]_vars
=============================================================================
