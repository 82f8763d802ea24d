----------------------------- MODULE ArenaLists ------------------------------
(***************************************************************************)
(* Lists and records in the compiler's arenas.  Element storage comes from *)
(* the list arena, or from the large-list arena once a List has Large      *)
(* elements.  A full List extends its storage in place if it can, and      *)
(* moves otherwise; its old storage is abandoned.                          *)
(***************************************************************************)
EXTENDS Arena

CONSTANTS Value,       \* values of elements
          Large,       \* LARGE_LIST_CAPACITY
          BlockSize,   \* of the list arena, in elements
          LargeBlock,  \* of the large-list arena
          MaxLists,    \* bound: Lists and records made
          MaxElements  \* bound: elements of a List

ASSUME ArenaListsAssumption ==
    /\ {Large, BlockSize, LargeBlock} \subseteq Nat \ {0}
    /\ {MaxLists, MaxElements} \subseteq Nat

VARIABLES arena,   \* list_arena and large_list_arena
          memory,  \* of each arena
          store    \* the headers: arena, pointer, length and capacity

vars == <<arena, memory, store>>

Kinds == {"list", "large"}

(* list_arena_for *)
ArenaFor(capacity) == IF capacity >= Large THEN "large" ELSE "list"

BlockOf(kind) == IF kind = "large" THEN LargeBlock ELSE BlockSize

(* An element takes the place of sizeof(long long) bytes, its alignment. *)
ListAllocate(capacity) ==
    Allocate(arena[ArenaFor(capacity)], capacity, 1, BlockOf(ArenaFor(capacity)))

NoStorage == [kind |-> "list", block |-> 0, at |-> 0, length |-> 0, capacity |-> 0,
              record |-> FALSE]

Init ==
    /\ arena = [k \in Kinds |-> NewArena]
    /\ memory = [k \in Kinds |-> <<<<>>>>]
    /\ store = <<>>

(* minyar_list_new *)
ListNew ==
    /\ Len(store) < MaxLists
    /\ store' = Append(store, NoStorage)
    /\ UNCHANGED <<arena, memory>>

(* record_allocate: storage of the given size whose fields are cleared;    *)
(* generated code never adds to a record.                                  *)
RecordNew(n) ==
    LET a == ListAllocate(n)
        k == ArenaFor(n)
    IN  /\ Len(store) < MaxLists /\ n > 0
        /\ arena' = [arena EXCEPT ![k] = a.arena]
        /\ memory' = [memory EXCEPT ![k] =
                         Write(WithBlock(@, a.arena), a.block, a.at, [i \in 1..n |-> 0])]
        /\ store' = Append(store, [kind |-> k, block |-> a.block, at |-> a.at,
                                   length |-> n, capacity |-> n, record |-> TRUE])

Capacity(l) ==
    LET c == store[l].capacity IN IF c = 0 THEN 2 ELSE IF c >= Large THEN c * 4 ELSE c * 2

(* The first half of list_grow: the newest storage of the same arena. *)
GrowsInPlace(l, k, capacity) ==
    /\ store[l].capacity > 0 /\ ArenaFor(store[l].capacity) = k
    /\ CanExtend(arena[k], store[l], store[l].capacity, capacity - store[l].capacity)

(* Mutant: the elements are not copied. *)
MovedEmpty(l) == <<>>

Moved(l) == Read(memory[store[l].kind], store[l], store[l].length)

(* list_grow: the arenas, the memory and the header of l afterwards. *)
ListGrow(l) ==
    LET capacity == Capacity(l)
        k == ArenaFor(capacity)
        a == ListAllocate(capacity)
    IN  IF GrowsInPlace(l, k, capacity)
        THEN [arena |-> [arena EXCEPT ![k] = Extended(@, capacity - store[l].capacity)],
              memory |-> memory,
              store |-> [store[l] EXCEPT !.capacity = capacity]]
        ELSE [arena |-> [arena EXCEPT ![k] = a.arena],
              memory |-> [memory EXCEPT ![k] =
                             Write(WithBlock(@, a.arena), a.block, a.at, Moved(l))],
              store |-> [store[l] EXCEPT !.kind = k, !.block = a.block, !.at = a.at,
                                         !.capacity = capacity]]

(* The same when l has room for another element. *)
Grown(l) ==
    IF store[l].length < store[l].capacity
    THEN [arena |-> arena, memory |-> memory, store |-> store[l]]
    ELSE ListGrow(l)

(* minyar_list_appended grows its new List to the size of the result       *)
(* before it adds the first element.                                       *)
ListReserve(l) ==
    /\ ~store[l].record /\ store[l].length = 0 /\ l = Len(store)
    /\ store[l].capacity < MaxElements
    /\ arena' = ListGrow(l).arena
    /\ memory' = ListGrow(l).memory
    /\ store' = [store EXCEPT ![l] = ListGrow(l).store]

(* minyar_list_add: values[length++] = value *)
ListAdd(l, v) ==
    LET g == Grown(l)
        h == g.store
    IN  /\ ~store[l].record /\ store[l].length < MaxElements
        /\ arena' = g.arena
        /\ memory' = [g.memory EXCEPT ![h.kind] = Write(@, h.block, h.at + h.length, <<v>>)]
        /\ store' = [store EXCEPT ![l] = [h EXCEPT !.length = @ + 1]]

(* minyar_list_set_owned, minyar_record_set; a position outside the List   *)
(* stops the program.                                                      *)
ListSet(l, i, v) ==
    LET h == store[l] IN
    /\ i <= h.length
    /\ memory' = [memory EXCEPT ![h.kind] = Write(@, h.block, h.at + i - 1, <<v>>)]
    /\ UNCHANGED <<arena, store>>

Next ==
    \/ ListNew
    \/ \E n \in 1..MaxElements : RecordNew(n)
    \/ \E l \in DOMAIN store : ListReserve(l)
    \/ \E l \in DOMAIN store, v \in Value :
          \/ ListAdd(l, v)
          \/ \E i \in 1..MaxElements : ListSet(l, i, v)

Spec == Init /\ [][Next]_vars
-----------------------------------------------------------------------------
Elements(l) == Read(memory[store[l].kind], store[l], store[l].length)

TypeOK ==
    /\ \A k \in Kinds : arena[k].used <= arena[k].capacity
    /\ \A l \in DOMAIN store :
          /\ store[l].length <= store[l].capacity
          /\ store[l].capacity > 0 =>
                store[l].at + store[l].capacity <= Len(memory[store[l].kind][store[l].block + 1])

(* No two Lists share storage, not even the part beyond their lengths that *)
(* they may still grow into (arena_extend, list_grow).                     *)
StoragesApart ==
    \A l, m \in DOMAIN store :
        (l # m /\ store[l].capacity > 0 /\ store[m].capacity > 0
         /\ store[l].kind = store[m].kind /\ store[l].block = store[m].block)
            => \/ store[l].at + store[l].capacity <= store[m].at
               \/ store[m].at + store[m].capacity <= store[l].at

(* To the program, Lists and records are independent values. *)
AsValues == INSTANCE ListValues WITH lists <- [l \in DOMAIN store |-> Elements(l)]
ImplementsLists == AsValues!Spec
=============================================================================
