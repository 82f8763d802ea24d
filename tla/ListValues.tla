------------------------------ MODULE ListValues ------------------------------
(***************************************************************************)
(* What Lists and records are to a program: independent sequences that     *)
(* grow by additions and change one element at a time.                     *)
(***************************************************************************)
EXTENDS Naturals, Sequences

CONSTANTS Value,   \* values of elements
          MaxLists, MaxElements

VARIABLE lists

Init == lists = <<>>

(* A List starts empty, a record with all fields zero. *)
New(n) ==
    /\ Len(lists) < MaxLists
    /\ lists' = Append(lists, [i \in 1..n |-> 0])

Add(l, v) == lists' = [lists EXCEPT ![l] = Append(@, v)]

Set(l, i, v) == lists' = [lists EXCEPT ![l][i] = v]

Next ==
    \/ \E n \in 0..MaxElements : New(n)
    \/ \E l \in DOMAIN lists, v \in Value :
          \/ Add(l, v)
          \/ \E i \in DOMAIN lists[l] : Set(l, i, v)

Spec == Init /\ [][Next]_lists
=============================================================================
