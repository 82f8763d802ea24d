----------------------------- MODULE PollBatching ----------------------------
(***************************************************************************)
(* The batched path of minyar_rc_poll (minyar_bounded_rc.h).  While no     *)
(* frame and no chunk waits, a poll does not select a queue for every      *)
(* unit: it follows chains of unary records and runs along the slots of a  *)
(* List.  What the program may see afterwards has to be what the general   *)
(* scheduler, one unit after the other, would have left.                   *)
(*                                                                         *)
(* The program gives up references and polls; objects hold what they were  *)
(* made with.  cleanup is the whole state of the bounded profile, so that  *)
(* a poll of either kind is a function of it.                              *)
(***************************************************************************)
EXTENDS Integers, SequencesExt, FiniteSetsExt

CONSTANTS Heaps,       \* the kinds and fields of objects, None where a field is scalar
          None,
          CursorBits,  \* of a cursor in one byte of a record's map
          WordBits,    \* of size_t
          MaxBudget    \* MINYAR_RC_POLL_BUDGET

VARIABLES heap,
          hold,      \* the references of the program
          cleanup

vars == <<heap, hold, cleanup>>

Object == DOMAIN heap
Fields(o) == heap[o].fields
Kind(o) == heap[o].kind
Unary(o) == Kind(o) = "RECORD" /\ Len(Fields(o)) = 1

(* Kinds that have no owners to visit, and nodes without fields. *)
Leaf(o) == Kind(o) = "SCALAR_RECORD" \/ Fields(o) = <<>>

(* The owners of o, when the first visited[p] fields of p gave theirs up. *)
Owners(o, visited) ==
    FoldSet(LAMBDA p, sum : sum +
                Cardinality({i \in (visited[p] + 1)..Len(Fields(p)) : Fields(p)[i] = o}),
            IF o \in hold THEN 1 ELSE 0, Object)

(* Where a dead object keeps its cursor: a List in its capacity, a record  *)
(* in the upper bits of its map, which are zero while it lives.            *)
Alive(o) == IF Kind(o) = "REFERENCES" THEN Len(Fields(o)) ELSE [i \in DOMAIN Fields(o) |-> 0]

Init ==
    /\ heap \in Heaps
    /\ hold \in {H \in SUBSET Object :
                   \A o \in Object : (\A p \in Object : o \notin Range(Fields(p))) => o \in H}
    /\ \E turn \in {0, 1} :
          cleanup = [count |-> [o \in Object |-> Owners(o, [p \in Object |-> 0])],
                     cursor |-> [o \in Object |-> Alive(o)],
                     recent |-> <<>>, old |-> <<>>, active |-> None, activeCursor |-> 0,
                     turn |-> turn, next |-> 2, pending |-> 0, freed |-> <<>>]
-----------------------------------------------------------------------------
Weight(i) == 2^(CursorBits * (i - 1))
InWord(i) == CursorBits * (i - 1) < WordBits

SavedCursor(s, o) ==
    IF Kind(o) = "REFERENCES" THEN s.cursor[o]
    ELSE FoldLeft(LAMBDA sum, i : IF InWord(i) THEN sum + s.cursor[o][i] * Weight(i) ELSE sum,
                  0, [i \in DOMAIN Fields(o) |-> i])

SaveCursor(s, o, n) ==
    IF Kind(o) = "REFERENCES" THEN [s EXCEPT !.cursor[o] = n]
    ELSE [s EXCEPT !.cursor[o] = [i \in DOMAIN @ |->
             IF InWord(i) THEN (n \div Weight(i)) % 2^CursorBits ELSE @[i]]]

(* rc_bounded_finish_object *)
Finish(s, o) ==
    [s EXCEPT !.count[o] = 0, !.cursor[o] = Alive(o), !.freed = Append(@, o)]

(* rc_drop: what dies waits on the recent stack, unless it is a leaf. *)
Drop(s, o) ==
    IF o = None THEN s
    ELSE IF s.count[o] > 1 THEN [s EXCEPT !.count[o] = @ - 1]
    ELSE IF Leaf(o) THEN Finish(s, o)
    ELSE [SaveCursor(s, o, 0) EXCEPT !.count[o] = 0, !.recent = <<o>> \o @, !.pending = @ + 1]

Retire(s, o) == [Finish(s, o) EXCEPT !.pending = @ - 1]
RetireActive(s) == [Retire(s, s.active) EXCEPT !.active = None, !.activeCursor = 0]

OldObjectUnit(s) ==
    LET first == Head(s.old)
        t == IF s.active # None THEN s
             ELSE [s EXCEPT !.active = first, !.old = Tail(@), !.activeCursor = SavedCursor(s, first)]
        n == t.activeCursor + 1
    IN  IF n <= Len(Fields(t.active))
        THEN Drop([t EXCEPT !.activeCursor = n], Fields(t.active)[n])
        ELSE RetireActive(t)

RecentObjectUnit(s) ==
    LET o == Head(s.recent)
        n == SavedCursor(s, o) + 1
    IN  IF n <= Len(Fields(o)) THEN Drop(SaveCursor(s, o, n), Fields(o)[n])
        ELSE [Retire(s, o) EXCEPT !.recent = Tail(@)]

(* The recent stack becomes the batch when that is exhausted. *)
Captured(s) ==
    IF s.active = None /\ s.old = <<>> THEN [s EXCEPT !.old = s.recent, !.recent = <<>>] ELSE s

SoleUnaryParent(s) ==
    s.old = <<>> /\ s.active # None /\ Unary(s.active) /\ s.activeCursor = 1

ObjectUnit(s) ==
    LET t == [Captured(s) EXCEPT !.turn = 1 - @]
    IN  IF s.turn = 1 /\ t.recent # <<>> /\ ~SoleUnaryParent(t)
        THEN RecentObjectUnit(t) ELSE OldObjectUnit(t)

(* The general scheduler, when only objects wait. *)
Scheduled(s, budget) ==
    FoldLeft(LAMBDA t, i : IF t.pending = 0 THEN t ELSE [ObjectUnit(t) EXCEPT !.next = 1],
             s, [i \in 1..budget |-> i])
-----------------------------------------------------------------------------
(* The batched path.  A run says what it has made of the state, how much   *)
(* of the budget is left, and whether its loop has come to an end.         *)
Run(s, left, ended) == [state |-> s, left |-> left, ended |-> ended]

(* A loop that takes a unit or more each time round. *)
Loop(body(_), s, left) ==
    FoldLeft(LAMBDA r, i : IF r.ended THEN r ELSE body(r), Run(s, left, FALSE),
             [i \in 1..left |-> i])

(* Mutant: the last pair of a poll carries its child as well. *)
CarriesAlways(s, child, left) ==
    left >= 2 /\ child # None /\ s.count[child] = 1 /\ Unary(child)

(* The child is unique, and this poll can finish its pair of units too. *)
Carries(s, child, left) ==
    left >= 4 /\ child # None /\ s.count[child] = 1 /\ Unary(child)

(* A chain of unary records, two units for each of them. *)
Link(r) ==
    LET s == r.state
        child == Fields(s.active)[1]
    IN  IF Carries(s, child, r.left)
        THEN Run([Finish(s, s.active) EXCEPT !.count[child] = 0, !.active = child], r.left - 2, FALSE)
        ELSE Run(RetireActive(Drop(s, child)), r.left - 2, TRUE)

(* An owner slot of the active List.  The run along them ends at last, or  *)
(* when a node dies.                                                       *)
Slot(r, last) ==
    LET s == r.state
        n == s.activeCursor + 1
        t == Drop([s EXCEPT !.activeCursor = n, !.turn = 1 - @], Fields(s.active)[n])
    IN  IF n > last THEN [r EXCEPT !.ended = TRUE] ELSE Run(t, r.left - 1, t.recent # <<>>)

(* The only task, if it is a unary record not yet visited. *)
Single(s) ==
    {o \in Range(s.old \o s.recent) :
        s.pending = 1 /\ s.active = None /\ Unary(o) /\ s.cursor[o][1] = 0}

OnList(s) ==
    /\ s.recent = <<>> /\ s.active # None /\ Kind(s.active) = "REFERENCES"
    /\ s.activeCursor < Len(Fields(s.active))

Iteration(r) ==
    LET s == r.state
        left == r.left
        last == Min({Len(Fields(s.active)), s.activeCursor + left})
    IN  IF left = 0 \/ s.pending = 0 THEN [r EXCEPT !.ended = TRUE]
        ELSE IF left >= 2 /\ Single(s) # {}
        THEN [Loop(Link, [s EXCEPT !.old = <<>>, !.recent = <<>>, !.activeCursor = 1,
                                   !.active = CHOOSE o \in Single(s) : TRUE], left)
                EXCEPT !.ended = FALSE]
        ELSE IF OnList(s)
        THEN [Loop(LAMBDA q : Slot(q, last), s, left) EXCEPT !.ended = FALSE]
        ELSE Run(ObjectUnit(s), left - 1, FALSE)

Batched(s, budget) ==
    IF budget = 0 \/ s.pending = 0 THEN s ELSE [Loop(Iteration, s, budget).state EXCEPT !.next = 1]
-----------------------------------------------------------------------------
Release(o) ==
    /\ o \in hold
    /\ hold' = hold \ {o}
    /\ cleanup' = Drop(cleanup, o)
    /\ UNCHANGED heap

Poll(budget) ==
    /\ cleanup' = Batched(cleanup, budget)
    /\ UNCHANGED <<heap, hold>>

Next == (\E o \in Object : Release(o)) \/ (\E budget \in 1..MaxBudget : Poll(budget))

Spec == Init /\ [][Next]_vars
-----------------------------------------------------------------------------
Visited(p) ==
    IF p \in Range(cleanup.freed) THEN Len(Fields(p))
    ELSE IF cleanup.count[p] > 0 THEN 0
    ELSE IF cleanup.active = p THEN cleanup.activeCursor
    ELSE SavedCursor(cleanup, p)

(* Every owner is dropped once and nothing is freed twice, though a cursor *)
(* is kept in a byte or two of the object that it is about.                *)
VisitedOnce ==
    /\ IsInjective(cleanup.freed)
    /\ \A o \in Object \ Range(cleanup.freed) :
          cleanup.count[o] = Owners(o, [p \in Object |-> Visited(p)])

(* "Match the general scheduler's next queue after any object work", "an   *)
(* odd budget still resumes identically" (minyar_bounded_rc.h 244 and      *)
(* 268): whatever waits, and however much a poll may do, the batched path  *)
(* frees the same objects in the same order as the general scheduler and   *)
(* leaves the same queues, cursors, counts and turn.                       *)
PollBatched ==
    /\ VisitedOnce
    /\ \A budget \in 0..MaxBudget : Batched(cleanup, budget) = Scheduled(cleanup, budget)
=============================================================================
