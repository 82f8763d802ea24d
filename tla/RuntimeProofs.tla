---------------------------- MODULE RuntimeProofs -----------------------------
(***************************************************************************)
(* Results about the runtime below the values.  The storages of Lists and  *)
(* records in the compiler's arenas never overlap, and to the program they *)
(* are independent values, for all sizes of blocks and Lists and any limit *)
(* between small and large Lists.  For stacks, frames and reserves of any  *)
(* size the guard stops recursion in time.  And encoding and decoding are  *)
(* inverse to each other for every Character and every sequence of bytes.  *)
(***************************************************************************)
EXTENDS MCRuntime, Utf8, FiniteSetTheorems, FunctionTheorems, SequenceTheorems,
        WellFoundedInduction, TLAPS

ArenaType == [block : Nat, used : Nat, capacity : Nat]
HeaderType == [kind : Kinds, block : Nat, at : Nat, length : Nat, capacity : Nat,
               record : BOOLEAN]

(* A storage lies in the arena its capacity says and in a block that       *)
(* exists; in the newest one, below the top.                               *)
Below(h, as) ==
    h.capacity > 0 =>
        /\ h.kind = ArenaFor(h.capacity)
        /\ h.block <= as[h.kind].block
        /\ h.block = as[h.kind].block => h.at + h.capacity <= as[h.kind].used

(* Two storages do not overlap. *)
Apart(g, h) ==
    (g.capacity > 0 /\ h.capacity > 0 /\ g.kind = h.kind /\ g.block = h.block)
        => g.at + g.capacity <= h.at \/ h.at + h.capacity <= g.at

(* The inductive invariant. *)
Laid ==
    /\ arena \in [Kinds -> ArenaType]
    /\ store \in Seq(HeaderType)
    /\ \A l \in DOMAIN store : Below(store[l], arena)
    /\ \A l, m \in DOMAIN store : l # m => Apart(store[l], store[m])

(* What arena_allocate returns lies behind everything laid before it. *)
LEMMA AllocationIsFresh ==
    ASSUME NEW a \in ArenaType, NEW size \in Nat, NEW blockSize \in Nat
    PROVE  LET r == Allocate(a, size, 1, blockSize)
           IN  /\ r.arena \in ArenaType /\ r.block \in Nat /\ r.at \in Nat
               /\ r.block = r.arena.block /\ r.at + size <= r.arena.used
               /\ a.block <= r.arena.block
               /\ a.block = r.arena.block => r.at >= a.used /\ a.used <= r.arena.used
<1>1. AlignUp(a.used, 1) = a.used
  BY SMT DEF AlignUp, ArenaType
<1>2. CASE Fits(a, size, 1)
  BY <1>1, <1>2 DEF Allocate, ArenaType
<1>3. CASE ~Fits(a, size, 1)
  BY <1>3 DEF Allocate, Grow, Larger, ArenaType
<1> QED BY <1>2, <1>3

(* The arenas only move forward. *)
Forward(from, to) ==
    /\ to \in [Kinds -> ArenaType]
    /\ \A k \in Kinds :
          /\ from[k].block <= to[k].block
          /\ from[k].block = to[k].block => from[k].used <= to[k].used

LEMMA BelowStays ==
    ASSUME NEW from \in [Kinds -> ArenaType], NEW to, Forward(from, to),
           NEW h \in HeaderType, Below(h, from)
    PROVE  Below(h, to)
<1>1. h.kind \in Kinds /\ h.block \in Nat /\ h.at \in Nat /\ h.capacity \in Nat
  BY DEF HeaderType
<1> DEFINE prior == from[h.kind]  new == to[h.kind]
<1>2. prior.block \in Nat /\ prior.used \in Nat /\ new.block \in Nat /\ new.used \in Nat
  BY <1>1 DEF Forward, ArenaType
<1>3. prior.block <= new.block /\ (prior.block = new.block => prior.used <= new.used)
  BY <1>1 DEF Forward
<1>4. h.capacity > 0 =>
        h.block <= prior.block /\ (h.block = prior.block => h.at + h.capacity <= prior.used)
  BY DEF Below
<1>6. h.capacity > 0 => h.kind = ArenaFor(h.capacity)
  BY DEF Below
<1> HIDE DEF prior, new
<1>5. h.capacity > 0 =>
        h.block <= new.block /\ (h.block = new.block => h.at + h.capacity <= new.used)
  BY <1>1, <1>2, <1>3, <1>4
<1> QED BY <1>5, <1>6 DEF Below, new

(* A new header next to the old ones. *)
LEMMA LayAppended ==
    ASSUME Laid, NEW h \in HeaderType, Forward(arena, arena'), Below(h, arena'),
           \A m \in DOMAIN store : Apart(store[m], h),
           store' = Append(store, h)
    PROVE  Laid'
<1>1. store' \in Seq(HeaderType) /\ arena' \in [Kinds -> ArenaType]
  BY DEF Laid, Forward
<1>2. \A l \in DOMAIN store' : (l \in DOMAIN store /\ store'[l] = store[l])
                                \/ (l = Len(store) + 1 /\ l \notin DOMAIN store /\ store'[l] = h)
  BY DEF Laid
<1>3. \A l \in DOMAIN store : store[l] \in HeaderType /\ Below(store[l], arena)
  BY DEF Laid
<1>4. \A l \in DOMAIN store : Below(store[l], arena')
  BY <1>3, BelowStays DEF Laid
<1>5. \A l \in DOMAIN store' : Below(store'[l], arena')
  BY <1>2, <1>4
<1>6. \A l, m \in DOMAIN store' : l # m => Apart(store'[l], store'[m])
  <2> SUFFICES ASSUME NEW l \in DOMAIN store', NEW m \in DOMAIN store', l # m
               PROVE  Apart(store'[l], store'[m])
    OBVIOUS
  <2>1. CASE l \in DOMAIN store /\ m \in DOMAIN store
    BY <2>1, <1>2 DEF Laid
  <2>2. CASE l \in DOMAIN store /\ m \notin DOMAIN store
    BY <2>2, <1>2
  <2>3. CASE l \notin DOMAIN store /\ m \in DOMAIN store
    BY <2>3, <1>2 DEF Apart
  <2>4. CASE l \notin DOMAIN store /\ m \notin DOMAIN store
    BY <2>4, <1>2
  <2> QED BY <2>1, <2>2, <2>3, <2>4
<1> QED BY <1>1, <1>5, <1>6 DEF Laid

(* A header in the place of an old one. *)
LEMMA LayReplaced ==
    ASSUME Laid, NEW i \in DOMAIN store, NEW h \in HeaderType,
           Forward(arena, arena'), Below(h, arena'),
           \A m \in DOMAIN store \ {i} : Apart(store[m], h),
           store' = [store EXCEPT ![i] = h]
    PROVE  Laid'
<1>1. store' \in Seq(HeaderType) /\ arena' \in [Kinds -> ArenaType]
  BY DEF Laid, Forward
<1>2. DOMAIN store' = DOMAIN store /\ store'[i] = h
      /\ \A l \in DOMAIN store \ {i} : store'[l] = store[l]
  BY DEF Laid
<1>3. \A l \in DOMAIN store : store[l] \in HeaderType /\ Below(store[l], arena)
  BY DEF Laid
<1>4. \A l \in DOMAIN store : Below(store[l], arena')
  BY <1>3, BelowStays DEF Laid
<1>5. \A l \in DOMAIN store' : Below(store'[l], arena')
  BY <1>2, <1>4
<1>6. \A l, m \in DOMAIN store' : l # m => Apart(store'[l], store'[m])
  <2> SUFFICES ASSUME NEW l \in DOMAIN store', NEW m \in DOMAIN store', l # m
               PROVE  Apart(store'[l], store'[m])
    OBVIOUS
  <2>1. CASE l # i /\ m # i
    BY <2>1, <1>2 DEF Laid
  <2>2. CASE l # i /\ m = i
    BY <2>2, <1>2
  <2>3. CASE l = i
    BY <2>3, <1>2 DEF Apart
  <2> QED BY <2>1, <2>2, <2>3
<1> QED BY <1>1, <1>5, <1>6 DEF Laid

(* Storage just allocated in the arena of kind k. *)
LEMMA FreshIsApart ==
    ASSUME Laid, NEW k \in Kinds, NEW size \in Nat, NEW blockSize \in Nat,
           NEW h \in HeaderType, NEW r, r = Allocate(arena[k], size, 1, blockSize),
           h.kind = k, h.block = r.block, h.at = r.at, h.capacity = size,
           k = ArenaFor(size)
    PROVE  /\ Forward(arena, [arena EXCEPT ![k] = r.arena])
           /\ Below(h, [arena EXCEPT ![k] = r.arena])
           /\ \A m \in DOMAIN store : Apart(store[m], h)
<1>1. arena \in [Kinds -> ArenaType] /\ arena[k] \in ArenaType
  BY DEF Laid
<1>2. /\ r.arena \in ArenaType /\ r.block \in Nat /\ r.at \in Nat
      /\ r.block = r.arena.block /\ r.at + size <= r.arena.used
      /\ arena[k].block <= r.arena.block
      /\ arena[k].block = r.arena.block => r.at >= arena[k].used /\ arena[k].used <= r.arena.used
  BY <1>1, AllocationIsFresh
<1>3. \A j \in Kinds : arena[j].block <= arena[j].block /\ arena[j].used <= arena[j].used
  BY <1>1 DEF ArenaType
<1>4. Forward(arena, [arena EXCEPT ![k] = r.arena])
  BY <1>1, <1>2, <1>3 DEF Forward
<1>5. Below(h, [arena EXCEPT ![k] = r.arena])
  BY <1>1, <1>2 DEF Below
<1>6. ASSUME NEW m \in DOMAIN store PROVE Apart(store[m], h)
  <2>1. store[m] \in HeaderType /\ Below(store[m], arena)
    BY DEF Laid
  <2>2. /\ store[m].block \in Nat /\ store[m].at \in Nat /\ store[m].capacity \in Nat
        /\ arena[k].block \in Nat /\ arena[k].used \in Nat
        /\ r.arena.block \in Nat /\ r.arena.used \in Nat
    BY <1>1, <1>2, <2>1 DEF HeaderType, ArenaType
  <2>3. SUFFICES ASSUME store[m].capacity > 0, store[m].kind = k, store[m].block = h.block
                 PROVE  store[m].at + store[m].capacity <= h.at
    BY DEF Apart
  <2>4. store[m].block <= arena[k].block
    BY <2>1, <2>3 DEF Below
  <2>5. store[m].block = arena[k].block /\ arena[k].block = r.arena.block
    BY <1>2, <2>2, <2>3, <2>4
  <2>6. store[m].at + store[m].capacity <= arena[k].used
    BY <2>1, <2>3, <2>5 DEF Below
  <2> QED BY <1>2, <2>2, <2>5, <2>6
<1> QED BY <1>4, <1>5, <1>6

(* list_grow keeps the storages laid out, in place or moving; h is the     *)
(* header it leaves, with any length.                                      *)
LEMMA GrowKeepsLaid ==
    ASSUME Laid, NEW l \in DOMAIN store, NEW h,
           \E n \in Nat : h = [ListGrow(l).store EXCEPT !.length = n],
           arena' = ListGrow(l).arena, store' = [store EXCEPT ![l] = h]
    PROVE  Laid'
<1> PICK n \in Nat : h = [ListGrow(l).store EXCEPT !.length = n]
  OBVIOUS
<1> DEFINE c == Capacity(l)
           k == ArenaFor(c)
           s == store[l]
<1>1. s \in HeaderType /\ Below(s, arena) /\ arena \in [Kinds -> ArenaType]
  BY DEF Laid
<1>2. /\ s.kind \in Kinds /\ s.block \in Nat /\ s.at \in Nat /\ s.length \in Nat
      /\ s.capacity \in Nat /\ s.record \in BOOLEAN
  BY <1>1 DEF HeaderType
<1>3. c \in Nat /\ s.capacity <= c
  BY <1>2, ArenaListsAssumption DEF Capacity
<1>4. k \in Kinds /\ BlockOf(k) \in Nat
  BY ArenaListsAssumption DEF ArenaFor, Kinds, BlockOf
<1>5. \A j \in Kinds : arena[j] \in ArenaType /\ arena[j].block \in Nat /\ arena[j].used \in Nat
  BY <1>1 DEF ArenaType
<1>6. \A m \in DOMAIN store \ {l} : Apart(store[m], s)
  BY DEF Laid
<1>7. CASE GrowsInPlace(l, k, c)
  <2> DEFINE g == [s EXCEPT !.capacity = c]
               a == [arena EXCEPT ![k] = Extended(@, c - s.capacity)]
  <2>1. ListGrow(l).arena = a /\ ListGrow(l).store = g
    BY <1>7 DEF ListGrow
  <2>2. arena' = a /\ store' = [store EXCEPT ![l] = h] /\ h = [g EXCEPT !.length = n]
    BY <2>1
  <2>3. /\ g \in HeaderType /\ g.kind = s.kind /\ g.block = s.block /\ g.at = s.at
        /\ g.capacity = c /\ g.length = s.length
    BY <1>1, <1>2, <1>3 DEF HeaderType
  <2>4. /\ h \in HeaderType /\ h.kind = g.kind /\ h.block = g.block /\ h.at = g.at
        /\ h.capacity = g.capacity
    <3> HIDE DEF g
    <3> QED BY <2>2, <2>3 DEF HeaderType
  <2>5. s.capacity > 0 /\ s.block = arena[k].block /\ s.at + s.capacity = arena[k].used
    BY <1>7 DEF GrowsInPlace, CanExtend
  <2>6. s.kind = k
    BY <1>1, <1>7, <2>5 DEF GrowsInPlace, Below
  <2> DEFINE u == Extended(arena[k], c - s.capacity)
  <2>7. u \in ArenaType /\ u.block = arena[k].block /\ u.used = s.at + c
    <3>1. arena[k].used + (c - s.capacity) = s.at + c /\ s.at + c \in Nat
      BY <1>2, <1>3, <2>5
    <3> QED BY <1>4, <1>5, <3>1 DEF Extended, ArenaType
  <2>8. a[k] = u /\ a \in [Kinds -> ArenaType] /\ \A j \in Kinds \ {k} : a[j] = arena[j]
    BY <1>1, <1>4, <2>7
  <2> HIDE DEF a, u
  <2>9. Forward(arena, a)
    <3>1. arena[k].used <= u.used
      BY <1>2, <1>3, <2>5, <2>7
    <3> QED BY <1>5, <2>7, <2>8, <3>1 DEF Forward
  <2>10. Below(h, a)
    <3>1. h.kind = k /\ h.block = u.block /\ h.at + h.capacity = u.used /\ u.block \in Nat
          /\ u.used \in Nat /\ k = ArenaFor(h.capacity)
      BY <2>3, <2>4, <2>5, <2>6, <2>7 DEF ArenaType
    <3> QED BY <2>8, <3>1 DEF Below
  <2>11. ASSUME NEW m \in DOMAIN store \ {l} PROVE Apart(store[m], h)
    <3>1. store[m] \in HeaderType /\ Below(store[m], arena) /\ Apart(store[m], s)
      BY <1>6 DEF Laid
    <3>2. store[m].block \in Nat /\ store[m].at \in Nat /\ store[m].capacity \in Nat
      BY <3>1 DEF HeaderType
    <3>3. SUFFICES ASSUME store[m].capacity > 0, store[m].kind = k, store[m].block = s.block
                   PROVE  store[m].at + store[m].capacity <= s.at
      BY <2>3, <2>4, <2>6 DEF Apart
    <3>4. store[m].at + store[m].capacity <= arena[k].used
      BY <2>5, <3>1, <3>3 DEF Below
    <3>5. store[m].at + store[m].capacity <= s.at \/ s.at + s.capacity <= store[m].at
      BY <2>5, <2>6, <3>1, <3>3 DEF Apart
    <3> QED BY <1>2, <1>4, <1>5, <2>5, <3>2, <3>3, <3>4, <3>5
  <2>12. h \in HeaderType /\ store' = [store EXCEPT ![l] = h] /\ arena' = a
    BY <2>2, <2>4
  <2> QED BY ONLY Laid, l \in DOMAIN store, <2>9, <2>10, <2>11, <2>12, LayReplaced
<1>8. CASE ~GrowsInPlace(l, k, c)
  <2> DEFINE r == ListAllocate(c)
             g == [s EXCEPT !.kind = k, !.block = r.block, !.at = r.at, !.capacity = c]
             a == [arena EXCEPT ![k] = r.arena]
  <2>1. ListGrow(l).arena = a /\ ListGrow(l).store = g
    BY <1>8 DEF ListGrow
  <2>2. arena' = a /\ store' = [store EXCEPT ![l] = h] /\ h = [g EXCEPT !.length = n]
    BY <2>1
  <2>3. r = Allocate(arena[k], c, 1, BlockOf(k))
    BY DEF ListAllocate
  <2>4. r.block \in Nat /\ r.at \in Nat
    BY <1>3, <1>4, <1>5, <2>3, AllocationIsFresh
  <2> HIDE DEF r
  <2>5. /\ g \in HeaderType /\ g.kind = k /\ g.block = r.block /\ g.at = r.at
        /\ g.capacity = c /\ g.length \in Nat
    BY <1>1, <1>2, <1>3, <1>4, <2>4 DEF HeaderType
  <2> HIDE DEF g
  <2>6. /\ h \in HeaderType /\ h.kind = k /\ h.block = r.block /\ h.at = r.at
        /\ h.capacity = c
    BY <2>2, <2>5 DEF HeaderType
  <2>7. Forward(arena, a) /\ Below(h, a) /\ \A m \in DOMAIN store : Apart(store[m], h)
    <3>1. BlockOf(k) \in Nat /\ k \in Kinds /\ c \in Nat /\ k = ArenaFor(c)
      BY <1>3, <1>4
    <3> HIDE DEF c, k
    <3> QED BY ONLY Laid, <2>3, <2>6, <3>1, FreshIsApart
  <2>8. h \in HeaderType /\ store' = [store EXCEPT ![l] = h] /\ arena' = a
    BY <2>2, <2>6
  <2> HIDE DEF a
  <2> QED BY ONLY Laid, l \in DOMAIN store, <2>7, <2>8, LayReplaced
<1> QED BY <1>7, <1>8

(* list_grow changes where the elements are and how many fit, no more. *)
LEMMA GrowKeepsLength ==
    ASSUME NEW l \in DOMAIN store, store[l] \in HeaderType
    PROVE  LET g == ListGrow(l).store
           IN  g.length = store[l].length /\ g.record = store[l].record
BY DEF ListGrow, HeaderType

(* minyar_list_add keeps the storages laid out: the List has room or grows. *)
LEMMA AddKeepsLaid ==
    ASSUME Laid, NEW l \in DOMAIN store, NEW v, ListAdd(l, v)
    PROVE  Laid'
<1> DEFINE s == store[l]
<1>1. s \in HeaderType /\ Below(s, arena) /\ arena \in [Kinds -> ArenaType]
  BY DEF Laid
<1>2. /\ s.kind \in Kinds /\ s.block \in Nat /\ s.at \in Nat /\ s.length \in Nat
      /\ s.capacity \in Nat /\ s.record \in BOOLEAN
  BY <1>1 DEF HeaderType
<1>5. \A j \in Kinds : arena[j] \in ArenaType /\ arena[j].block \in Nat /\ arena[j].used \in Nat
  BY <1>1 DEF ArenaType
<1>6. \A m \in DOMAIN store \ {l} : Apart(store[m], s)
  BY DEF Laid
<1>7. CASE s.length < s.capacity
  <2>1. Grown(l) = [arena |-> arena, memory |-> memory, store |-> s]
    BY <1>7 DEF Grown
  <2>6. arena' = arena /\ store' = [store EXCEPT ![l] = [s EXCEPT !.length = @ + 1]]
    BY <2>1 DEF ListAdd
  <2> DEFINE h == [s EXCEPT !.length = @ + 1]
  <2>2. /\ h \in HeaderType /\ h.kind = s.kind /\ h.block = s.block /\ h.at = s.at
        /\ h.capacity = s.capacity
    BY <1>1, <1>2 DEF HeaderType
  <2>3. Forward(arena, arena')
    BY <1>1, <1>5, <2>6 DEF Forward
  <2>4. Below(h, arena')
    BY <1>1, <2>6, <2>2 DEF Below
  <2>5. \A m \in DOMAIN store \ {l} : Apart(store[m], h)
    BY <1>6, <2>2 DEF Apart
  <2> HIDE DEF h
  <2> QED BY <2>6, <2>2, <2>3, <2>4, <2>5, LayReplaced DEF h
<1>8. CASE ~(s.length < s.capacity)
  <2> DEFINE g == ListGrow(l).store
             h == [g EXCEPT !.length = @ + 1]
  <2>1. Grown(l).arena = ListGrow(l).arena /\ Grown(l).store = g
    BY <1>8 DEF Grown
  <2>2. arena' = ListGrow(l).arena /\ store' = [store EXCEPT ![l] = h]
    BY <2>1 DEF ListAdd
  <2>3. g.length + 1 \in Nat /\ h = [g EXCEPT !.length = g.length + 1]
    BY <1>1, <1>2, GrowKeepsLength
  <2> HIDE DEF g
  <2>4. \E n \in Nat : h = [g EXCEPT !.length = n]
    BY <2>3
  <2> HIDE DEF h
  <2> QED BY <2>2, <2>4, GrowKeepsLaid DEF g
<1> QED BY <1>7, <1>8

(* The room that minyar_list_appended reserves. *)
LEMMA ReserveKeepsLaid ==
    ASSUME Laid, NEW l \in DOMAIN store, ListReserve(l)
    PROVE  Laid'
<1> DEFINE g == ListGrow(l).store
<1>1. arena' = ListGrow(l).arena /\ store' = [store EXCEPT ![l] = g]
  BY DEF ListReserve
<1>2. store[l] \in HeaderType
  BY DEF Laid
<1>3. g.length \in Nat
  BY <1>2, GrowKeepsLength DEF HeaderType
<1>4. g = [g EXCEPT !.length = g.length]
  BY <1>2 DEF ListGrow, HeaderType
<1> HIDE DEF g
<1>5. \E n \in Nat : g = [g EXCEPT !.length = n]
  BY <1>3, <1>4
<1> QED BY <1>1, <1>5, GrowKeepsLaid DEF g

(* The layout is kept by every step (minyar_list_new, record_allocate,     *)
(* minyar_list_add, minyar_list_set_owned).                                *)
THEOREM LayoutIsInductive == Spec => []Laid
<1>1. Init => Laid
  BY DEF Init, Laid, NewArena, ArenaType, Kinds
<1>2. Laid /\ [Next]_vars => Laid'
  <2> SUFFICES ASSUME Laid, [Next]_vars PROVE Laid'
    OBVIOUS
  <2>1. arena \in [Kinds -> ArenaType] /\ \A j \in Kinds : arena[j].block \in Nat /\ arena[j].used \in Nat
    BY DEF Laid, ArenaType
  <2>2. CASE ListNew
    <3>1. NoStorage \in HeaderType /\ NoStorage.capacity = 0
      BY DEF NoStorage, HeaderType, Kinds
    <3>2. Forward(arena, arena') /\ Below(NoStorage, arena')
          /\ \A m \in DOMAIN store : Apart(store[m], NoStorage)
      BY <2>1, <2>2, <3>1 DEF ListNew, Forward, Below, Apart
    <3> QED BY <2>2, <3>1, <3>2, LayAppended DEF ListNew
  <2>3. ASSUME NEW n \in 1..MaxElements, RecordNew(n) PROVE Laid'
    <3> DEFINE r == ListAllocate(n)
               k == ArenaFor(n)
               h == [kind |-> k, block |-> r.block, at |-> r.at,
                     length |-> n, capacity |-> n, record |-> TRUE]
    <3>1. n \in Nat /\ k \in Kinds /\ BlockOf(k) \in Nat /\ arena[k] \in ArenaType
      BY <2>1, ArenaListsAssumption DEF ArenaFor, Kinds, BlockOf
    <3>2. r = Allocate(arena[k], n, 1, BlockOf(k))
      BY DEF ListAllocate
    <3>3. r.block \in Nat /\ r.at \in Nat
      BY <3>1, <3>2, AllocationIsFresh
    <3>4. arena' = [arena EXCEPT ![k] = r.arena] /\ store' = Append(store, h)
      BY <2>3 DEF RecordNew
    <3> HIDE DEF r
    <3>5. h \in HeaderType /\ h.kind = k /\ h.block = r.block /\ h.at = r.at /\ h.capacity = n
      BY <3>1, <3>3 DEF HeaderType
    <3> HIDE DEF h
    <3>6. Forward(arena, arena') /\ Below(h, arena') /\ \A m \in DOMAIN store : Apart(store[m], h)
      BY <3>1, <3>2, <3>4, <3>5, FreshIsApart
    <3> QED BY <3>4, <3>5, <3>6, LayAppended
  <2>4. ASSUME NEW l \in DOMAIN store, NEW v \in Value, ListAdd(l, v) PROVE Laid'
    BY <2>4, AddKeepsLaid
  <2>7. ASSUME NEW l \in DOMAIN store, ListReserve(l) PROVE Laid'
    BY <2>7, ReserveKeepsLaid
  <2>5. ASSUME NEW l \in DOMAIN store, NEW v \in Value, NEW i \in 1..MaxElements, ListSet(l, i, v)
        PROVE  Laid'
    BY <2>5 DEF ListSet, Laid
  <2>6. CASE UNCHANGED vars
    BY <2>6 DEF vars, Laid
  <2> QED BY <2>2, <2>3, <2>4, <2>5, <2>6, <2>7 DEF Next
<1> QED BY <1>1, <1>2, PTL DEF Spec

(* No two Lists or records ever share storage, not even the part they may  *)
(* still grow into.                                                        *)
THEOREM StoragesNeverOverlap == Spec => []StoragesApart
<1>1. Laid => StoragesApart
  BY DEF Laid, Apart, StoragesApart
<1> QED BY <1>1, LayoutIsInductive, PTL
-----------------------------------------------------------------------------
(* What a cell of a block can hold: an element, the zero of a cleared      *)
(* field, or what malloc left there.                                       *)
Cell == Value \cup {0, Junk}

Memories == [Kinds -> Seq(Seq(Cell))]

(* The memory of an arena ends with the block the arena allocates from.    *)
Matches(mem, as) ==
    /\ mem \in Memories
    /\ \A k \in Kinds :
          /\ Len(mem[k]) = as[k].block + 1
          /\ Len(mem[k][as[k].block + 1]) = as[k].capacity
          /\ as[k].used <= as[k].capacity

(* A storage lies within its block, and its elements within the storage. *)
Lies(h, mem) ==
    /\ h.length <= h.capacity
    /\ h.block < Len(mem[h.kind])
    /\ h.at + h.capacity <= Len(mem[h.kind][h.block + 1])

Placed ==
    /\ Matches(memory, arena)
    /\ \A l \in DOMAIN store : Lies(store[l], memory)

Cells(mem, h) == [i \in 1..h.length |-> mem[h.kind][h.block + 1][h.at + i]]

(* The elements of a List are the cells from its pointer on (minyar_list_get). *)
LEMMA ElementsAreCells ==
    ASSUME Laid, Placed, NEW l \in DOMAIN store
    PROVE  Elements(l) = Cells(memory, store[l])
<1>1. store[l] \in HeaderType /\ Lies(store[l], memory)
  BY DEF Laid, Placed
<1>2. /\ store[l].kind \in Kinds /\ store[l].block \in Nat /\ store[l].at \in Nat
      /\ store[l].length \in Nat /\ store[l].capacity \in Nat
  BY <1>1 DEF HeaderType
<1> DEFINE s == memory[store[l].kind][store[l].block + 1]
           at == store[l].at
           n == store[l].length
<1>3. memory[store[l].kind] \in Seq(Seq(Cell))
  BY <1>2 DEF Placed, Matches, Memories
<1>4. store[l].block + 1 \in 1..Len(memory[store[l].kind])
  BY <1>1, <1>2, <1>3 DEF Lies
<1>5. s \in Seq(Cell)
  BY <1>3, <1>4, ElementOfSeq
<1>6. at + n <= Len(s) /\ at \in Nat /\ n \in Nat
  BY SMTT(60), <1>1, <1>2, <1>5 DEF Lies
<1>7. Elements(l) = SubSeq(s, at + 1, at + n)
  BY DEF Elements, Read
<1>8. Cells(memory, store[l]) = [i \in 1..n |-> s[at + i]]
  BY DEF Cells
<1> HIDE DEF s, at, n
<1>9. SubSeq(s, at + 1, at + n) = [i \in 1..n |-> s[at + i]]
  <2>1. at + 1 \in 1..(Len(s) + 1) /\ at + n \in ((at + 1) - 1)..Len(s)
    BY <1>5, <1>6
  <2> QED BY <1>5, <1>6, <2>1
<1> QED BY <1>7, <1>8, <1>9

(* The block after a write differs in the written cells only. *)
Changed(S, w, m, b, at, cells) ==
    /\ w \in Seq(Seq(S)) /\ Len(w) = Len(m)
    /\ \A j \in 1..Len(m) : j # b + 1 => w[j] = m[j]
    /\ Len(w[b + 1]) = Len(m[b + 1])
    /\ \A i \in 1..Len(m[b + 1]) :
          w[b + 1][i] = IF i - at \in DOMAIN cells THEN cells[i - at] ELSE m[b + 1][i]

(* The write of the model does so. *)
LEMMA WriteChanges ==
    ASSUME NEW S, NEW m \in Seq(Seq(S)), NEW b \in Nat, b < Len(m), NEW at \in Nat,
           NEW cells \in Seq(S)
    PROVE  Changed(S, Write(m, b, at, cells), m, b, at, cells)
<1> DEFINE prior == m[b + 1]
           new == [i \in DOMAIN prior |-> IF i - at \in DOMAIN cells THEN cells[i - at] ELSE prior[i]]
<1>1. b + 1 \in DOMAIN m /\ prior \in Seq(S) /\ DOMAIN prior = 1..Len(prior)
  BY ElementOfSeq
<1>2. \A i \in DOMAIN prior : prior[i] \in S
  BY <1>1
<1>3. \A i \in DOMAIN cells : cells[i] \in S
  OBVIOUS
<1> HIDE DEF prior
<1>4. new \in [1..Len(prior) -> S]
  BY <1>1, <1>2, <1>3
<1>5. new \in Seq(S) /\ Len(new) = Len(prior) /\ Len(prior) \in Nat
  BY <1>1, <1>4, SeqDef
<1>6. Write(m, b, at, cells) = [m EXCEPT ![b + 1] = new]
  BY DEF Write, prior
<1>7. \A i \in 1..Len(prior) : new[i] = IF i - at \in DOMAIN cells THEN cells[i - at] ELSE prior[i]
  BY <1>1
<1> HIDE DEF new
<1>8. [m EXCEPT ![b + 1] = new] \in Seq(Seq(S)) /\ Len([m EXCEPT ![b + 1] = new]) = Len(m)
  BY <1>1, <1>5, ExceptSeq
<1> QED BY <1>1, <1>5, <1>6, <1>7, <1>8 DEF prior, Changed

(* A block the arena grew by is added to its memory; the others stay       *)
(* (arena_grow).                                                           *)
LEMMA BlockAdded ==
    ASSUME NEW S, Junk \in S, NEW m \in Seq(Seq(S)), NEW a \in ArenaType, NEW r \in ArenaType,
           Len(m) = a.block + 1,
           (r.block = a.block /\ r.capacity = Len(m[a.block + 1])) \/ r.block = a.block + 1
    PROVE  LET w == WithBlock(m, r)
           IN  /\ w \in Seq(Seq(S)) /\ Len(w) = r.block + 1
               /\ Len(w[r.block + 1]) = r.capacity
               /\ \A j \in 1..Len(m) : w[j] = m[j]
<1>1. a.block \in Nat /\ r.block \in Nat /\ r.capacity \in Nat
  BY DEF ArenaType
<1>2. CASE r.block = a.block /\ r.capacity = Len(m[a.block + 1])
  BY <1>1, <1>2 DEF WithBlock
<1>3. CASE r.block = a.block + 1
  <2> DEFINE n == r.capacity
             new == [i \in 1..n |-> Junk]
  <2>0. n \in Nat
    BY <1>1
  <2>1. new \in [1..n -> S]
    OBVIOUS
  <2>3. WithBlock(m, r) = Append(m, new)
    BY <1>1, <1>3 DEF WithBlock
  <2> HIDE DEF new, n
  <2>2. new \in Seq(S) /\ Len(new) = n
    BY <2>0, <2>1, SeqDef
  <2> QED BY <1>1, <1>3, <2>2, <2>3, AppendProperties DEF n
<1> QED BY <1>2, <1>3

(* The storage h at least: the cells the write may change. *)
Within(h, k, b, at, cells) ==
    h.kind = k /\ h.block = b /\ h.at <= at /\ at + Len(cells) <= h.at + h.capacity

Written(mem, k, b, at, cells) == [mem EXCEPT ![k] = Write(@, b, at, cells)]

(* A write within the storage of h leaves all storages where they are, and *)
(* the elements of every storage apart from it as they are.                *)
LEMMA WrittenKeeps ==
    ASSUME NEW mem \in Memories, NEW k \in Kinds, NEW b \in Nat, b < Len(mem[k]),
           NEW at \in Nat, NEW cells \in Seq(Cell)
    PROVE  LET w == Written(mem, k, b, at, cells)
           IN  /\ w \in Memories
               /\ \A j \in Kinds : Len(w[j]) = Len(mem[j])
               /\ \A j \in Kinds, n \in Nat : n < Len(mem[j]) => Len(w[j][n + 1]) = Len(mem[j][n + 1])
               /\ \A as : Matches(mem, as) /\ as \in [Kinds -> ArenaType] => Matches(w, as)
               /\ \A g \in HeaderType : Lies(g, mem) => Lies(g, w)
<1> DEFINE w == Written(mem, k, b, at, cells)
           x == Write(mem[k], b, at, cells)
<1>0. b \in Nat /\ b < Len(mem[k]) /\ at \in Nat /\ cells \in Seq(Cell)
  OBVIOUS
<1>1. mem[k] \in Seq(Seq(Cell)) /\ \A j \in Kinds : Len(mem[j]) \in Nat
  BY DEF Memories
<1>2. /\ x \in Seq(Seq(Cell)) /\ Len(x) = Len(mem[k])
      /\ \A j \in 1..Len(mem[k]) : j # b + 1 => x[j] = mem[k][j]
      /\ Len(x[b + 1]) = Len(mem[k][b + 1])
  <2>1. Changed(Cell, Write(mem[k], b, at, cells), mem[k], b, at, cells)
    BY <1>0, <1>1, WriteChanges
  <2> QED BY ONLY <2>1 DEF Changed
<1>3. w = [mem EXCEPT ![k] = x]
  BY DEF Written
<1> HIDE DEF w, x
<1>4. w \in Memories /\ w[k] = x /\ \A j \in Kinds : j # k => w[j] = mem[j]
  BY <1>2, <1>3 DEF Memories
<1>5. \A j \in Kinds : Len(w[j]) = Len(mem[j])
  BY <1>2, <1>4
<1>6. ASSUME NEW j \in Kinds, NEW n \in Nat, n < Len(mem[j])
      PROVE  Len(w[j][n + 1]) = Len(mem[j][n + 1])
  <2>1. n + 1 \in 1..Len(mem[j])
    BY <1>1, <1>6
  <2> QED BY <1>2, <1>4, <2>1
<1>7. ASSUME NEW as, Matches(mem, as), as \in [Kinds -> ArenaType] PROVE Matches(w, as)
  <2>1. \A j \in Kinds : as[j].block \in Nat /\ as[j].block < Len(mem[j])
    <3>1. \A j \in Kinds : as[j].block \in Nat
      BY <1>7 DEF ArenaType
    <3> QED
      <4> TAKE j \in Kinds
      <4>1. Len(mem[j]) = as[j].block + 1 /\ as[j].block \in Nat
        BY <1>7, <3>1 DEF Matches
      <4>2. PICK n \in Nat : n = as[j].block /\ Len(mem[j]) = n + 1
        BY <4>1
      <4>5. n \in Nat /\ Len(mem[j]) = n + 1
        BY <4>2
      <4>3. n < Len(mem[j])
        BY ONLY <4>5
      <4> QED BY <4>1, <4>2, <4>3, Zenon
  <2>2. \A j \in Kinds : Len(w[j][as[j].block + 1]) = Len(mem[j][as[j].block + 1])
    BY <1>6, <2>1
  <2> QED BY <1>4, <1>5, <1>7, <2>2 DEF Matches
<1>8. ASSUME NEW g \in HeaderType, Lies(g, mem) PROVE Lies(g, w)
  <2>1. g.kind \in Kinds /\ g.block \in Nat
    BY DEF HeaderType
  <2> QED BY <1>5, <1>6, <1>8, <2>1 DEF Lies
<1> QED BY <1>4, <1>5, <1>6, <1>7, <1>8 DEF w

(* A cell of one of two storages apart lies outside a write into the      *)
(* other.                                                                  *)
LEMMA OutsideWrite ==
    ASSUME NEW ga \in Nat, NEW gl \in Nat, NEW gc \in Nat, NEW ha \in Nat, NEW hc \in Nat,
           NEW at \in Nat, NEW c \in Nat, NEW i \in Nat, NEW j \in Nat,
           i <= gl, 1 <= i, gl <= gc, j = ga + i,
           ga + gc <= ha \/ ha + hc <= ga, ha <= at, at + c <= ha + hc
    PROVE  ~(j - at \in 1..c)
OBVIOUS

(* So a write into one leaves the elements of the other.                   *)
LEMMA ApartUntouched ==
    ASSUME NEW mem \in Memories, NEW k \in Kinds, NEW b \in Nat, b < Len(mem[k]),
           NEW at \in Nat, NEW cells \in Seq(Cell), NEW h \in HeaderType,
           Within(h, k, b, at, cells), h.capacity > 0,
           NEW g \in HeaderType, Lies(g, mem), Apart(g, h)
    PROVE  Cells(Written(mem, k, b, at, cells), g) = Cells(mem, g)
<1> DEFINE w == Written(mem, k, b, at, cells)
           x == Write(mem[k], b, at, cells)
<1>0. b \in Nat /\ b < Len(mem[k]) /\ at \in Nat /\ cells \in Seq(Cell)
  OBVIOUS
<1>1. mem[k] \in Seq(Seq(Cell)) /\ \A j \in Kinds : Len(mem[j]) \in Nat
  BY DEF Memories
<1>2. /\ \A j \in 1..Len(mem[k]) : j # b + 1 => x[j] = mem[k][j]
      /\ \A i \in 1..Len(mem[k][b + 1]) :
            x[b + 1][i] = IF i - at \in DOMAIN cells THEN cells[i - at] ELSE mem[k][b + 1][i]
  <2>1. Changed(Cell, Write(mem[k], b, at, cells), mem[k], b, at, cells)
    BY <1>0, <1>1, WriteChanges
  <2> QED BY ONLY <2>1 DEF Changed
<1>3. w = [mem EXCEPT ![k] = x]
  BY DEF Written
<1> HIDE DEF w, x
<1>4. w[k] = x /\ \A j \in Kinds : j # k => w[j] = mem[j]
  BY <1>3 DEF Memories
<1>5. /\ g.kind \in Kinds /\ g.block \in Nat /\ g.at \in Nat /\ g.length \in Nat /\ g.capacity \in Nat
      /\ h.block \in Nat /\ h.at \in Nat /\ h.capacity \in Nat
  BY DEF HeaderType
<1>6. Len(cells) \in Nat /\ DOMAIN cells = 1..Len(cells)
  BY EmptySeq
<1>7. ASSUME NEW i \in 1..g.length
      PROVE  w[g.kind][g.block + 1][g.at + i] = mem[g.kind][g.block + 1][g.at + i]
  <2>1. CASE g.kind # k \/ g.block # b
    <3>1. g.block + 1 \in 1..Len(mem[g.kind])
      <4>1. g.block < Len(mem[g.kind])
        BY DEF Lies
      <4>2. PICK n \in Nat, c \in Nat : n = Len(mem[g.kind]) /\ c = g.block
        BY <1>1, <1>5
      <4>3. c + 1 \in 1..n
        BY <4>1, <4>2
      <4> QED BY <4>2, <4>3
    <3>2. CASE g.kind = k
      <4>1. g.block + 1 # b + 1
        BY <1>5, <2>1, <3>2
      <4> QED BY <1>2, <1>4, <3>1, <3>2, <4>1
    <3>3. CASE g.kind # k
      BY <1>4, <1>5, <3>3
    <3> QED BY <3>2, <3>3
  <2>2. CASE g.kind = k /\ g.block = b
    <3>1. mem[k][b + 1] \in Seq(Cell)
      BY <1>1, ElementOfSeq
    <3>2. Len(mem[k][b + 1]) \in Nat
      BY <3>1
    <3>6. g.length <= g.capacity /\ g.at + g.capacity <= Len(mem[k][b + 1])
      BY <2>2 DEF Lies
    <3>7. PICK n \in Nat : n = Len(mem[k][b + 1])
      BY <3>2
    <3>8. g.at + i \in 1..n
      BY ONLY SMTT(60), <1>5, i \in 1..g.length, <3>6, <3>7
    <3>10. PICK j \in Nat : j = g.at + i
      BY <1>5, <1>7
    <3>3. j \in 1..Len(mem[k][b + 1])
      BY <3>7, <3>8, <3>10
    <3>4. g.at + g.capacity <= h.at \/ h.at + h.capacity <= g.at
      BY <1>5, <1>6, <1>7, <2>2 DEF Apart, Within, Lies
    <3>5. ~(j - at \in DOMAIN cells)
      <4>1. h.at <= at /\ at + Len(cells) <= h.at + h.capacity
        BY DEF Within
      <4>2. PICK c \in Nat : c = Len(cells)
        BY <1>6
      <4>4. i \in Nat /\ 1 <= i /\ i <= g.length
        BY <1>5, <1>7
      <4>3. ~(j - at \in 1..c)
        <5>1. PICK ga \in Nat, gl \in Nat, gc \in Nat, ha \in Nat, hc \in Nat :
                  ga = g.at /\ gl = g.length /\ gc = g.capacity /\ ha = h.at /\ hc = h.capacity
          BY <1>5
        <5>2. /\ i <= gl /\ gl <= gc /\ j = ga + i /\ (ga + gc <= ha \/ ha + hc <= ga)
              /\ ha <= at /\ at + c <= ha + hc
          BY <3>4, <3>6, <3>10, <4>1, <4>2, <4>4, <5>1
        <5>3. /\ c \in Nat /\ j \in Nat /\ i \in Nat /\ 1 <= i /\ at \in Nat
              /\ ga \in Nat /\ gl \in Nat /\ gc \in Nat /\ ha \in Nat /\ hc \in Nat
          BY <4>4
        <5> QED BY ONLY <5>2, <5>3, OutsideWrite
      <4> QED BY <1>6, <4>2, <4>3
    <3>9. x[b + 1][j] = mem[k][b + 1][j]
      BY ONLY <1>2, <3>3, <3>5
    <3> QED BY <1>4, <2>2, <3>9, <3>10
  <2> QED BY <2>1, <2>2
<1> QED BY <1>7 DEF Cells, w

(* What a storage reads after a write into it, d cells from its start. *)
LEMMA WrittenReads ==
    ASSUME NEW mem \in Memories, NEW h \in HeaderType, Lies(h, mem), NEW d \in Nat,
           NEW at \in Nat, at = h.at + d, NEW cells \in Seq(Cell), NEW i \in 1..h.length
    PROVE  Cells(Written(mem, h.kind, h.block, at, cells), h)[i]
               = IF i - d \in DOMAIN cells THEN cells[i - d] ELSE Cells(mem, h)[i]
<1> DEFINE k == h.kind
           b == h.block
           w == Written(mem, k, b, at, cells)
           x == Write(mem[k], b, at, cells)
<1>1. /\ k \in Kinds /\ b \in Nat /\ h.at \in Nat /\ h.length \in Nat /\ h.capacity \in Nat
  BY DEF HeaderType
<1>2. mem[k] \in Seq(Seq(Cell)) /\ b < Len(mem[k])
  BY <1>1 DEF Memories, Lies
<1>3. Changed(Cell, x, mem[k], b, at, cells)
  BY <1>1, <1>2, WriteChanges
<1>4. w[k] = x
  BY <1>1 DEF Written, Memories
<1>5. Cells(w, h)[i] = w[k][b + 1][h.at + i] /\ Cells(mem, h)[i] = mem[k][b + 1][h.at + i]
  BY DEF Cells
<1> HIDE DEF k, b, w, x
<1>6. mem[k][b + 1] \in Seq(Cell)
  BY <1>1, <1>2, ElementOfSeq
<1>7. PICK n \in Nat : n = Len(mem[k][b + 1])
  BY <1>6
<1>8. h.length <= h.capacity /\ h.at + h.capacity <= n
  BY <1>7 DEF Lies, k, b
<1>9. PICK j \in Nat : j = h.at + i
  BY <1>1
<1>10. j \in 1..n /\ j - at = i - d
  <2>1. PICK a \in Nat, l \in Nat, c \in Nat : a = h.at /\ l = h.length /\ c = h.capacity
    BY <1>1
  <2>2. i \in 1..l /\ l <= c /\ a + c <= n /\ at = a + d /\ j = a + i
    BY <1>8, <1>9, <2>1
  <2>3. d \in Nat /\ at \in Nat /\ n \in Nat /\ j \in Nat /\ a \in Nat /\ l \in Nat /\ c \in Nat
    OBVIOUS
  <2> QED BY ONLY <2>2, <2>3
<1>11. x[b + 1][j] = IF j - at \in DOMAIN cells THEN cells[j - at] ELSE mem[k][b + 1][j]
  BY <1>3, <1>7, <1>10 DEF Changed
<1>12. x[b + 1][j] = IF i - d \in DOMAIN cells THEN cells[i - d] ELSE mem[k][b + 1][j]
  BY ONLY <1>10, <1>11
<1> QED BY <1>4, <1>5, <1>9, <1>12 DEF w, k, b

(* The memory of the arenas only gains blocks. *)
Extends(m1, m2) ==
    /\ m1 \in Memories /\ m2 \in Memories
    /\ \A k \in Kinds :
          /\ Len(m1[k]) <= Len(m2[k])
          /\ \A j \in 1..Len(m1[k]) : m2[k][j] = m1[k][j]

(* Storages and elements stay when blocks are added.                       *)
LEMMA ExtendsKeeps ==
    ASSUME NEW m1, NEW m2, Extends(m1, m2), NEW g \in HeaderType, Lies(g, m1)
    PROVE  Lies(g, m2) /\ Cells(m2, g) = Cells(m1, g)
<1>1. g.kind \in Kinds /\ g.block \in Nat
  BY DEF HeaderType
<1>2. m1[g.kind] \in Seq(Seq(Cell)) /\ m2[g.kind] \in Seq(Seq(Cell))
  BY <1>1 DEF Extends, Memories
<1>3. PICK n \in Nat, p \in Nat : n = Len(m1[g.kind]) /\ p = Len(m2[g.kind])
  BY <1>2
<1>4. PICK b \in Nat : b = g.block
  BY <1>1
<1>5. b < n /\ n <= p
  BY <1>1, <1>3, <1>4 DEF Lies, Extends
<1>6. b + 1 \in 1..n /\ b < p
  BY ONLY <1>5, n \in Nat, b \in Nat, p \in Nat
<1>7. m2[g.kind][b + 1] = m1[g.kind][b + 1]
  BY <1>1, <1>3, <1>6 DEF Extends
<1> QED BY <1>3, <1>4, <1>6, <1>7 DEF Lies, Cells

(* An arena never allocates more than its block holds. *)
LEMMA AllocationFits ==
    ASSUME NEW a \in ArenaType, a.used <= a.capacity, NEW size \in Nat, NEW blockSize \in Nat,
           NEW r, r = Allocate(a, size, 1, blockSize)
    PROVE  /\ (r.arena.block = a.block /\ r.arena.capacity = a.capacity) \/ r.arena.block = a.block + 1
           /\ r.arena.used <= r.arena.capacity
<1>1. AlignUp(a.used, 1) = a.used
  BY SMT DEF AlignUp, ArenaType
<1>2. CASE Fits(a, size, 1)
  BY <1>1, <1>2 DEF Allocate, ArenaType, Fits
<1>3. CASE ~Fits(a, size, 1)
  BY <1>1, <1>3 DEF Allocate, Grow, Larger, ArenaType
<1> QED BY <1>2, <1>3

(* After an allocation the memory is that of the arenas, with room for     *)
(* what was asked for (arena_allocate).                                    *)
LEMMA AllocatedMatches ==
    ASSUME NEW mem, NEW as \in [Kinds -> ArenaType], Matches(mem, as), NEW k \in Kinds,
           NEW size \in Nat, NEW blockSize \in Nat,
           NEW r, r = Allocate(as[k], size, 1, blockSize)
    PROVE  LET more == [mem EXCEPT ![k] = WithBlock(@, r.arena)]
           IN  /\ Matches(more, [as EXCEPT ![k] = r.arena]) /\ Extends(mem, more)
               /\ r.block \in Nat /\ r.at \in Nat
               /\ r.block < Len(more[k]) /\ r.at + size <= Len(more[k][r.block + 1])
<1> DEFINE m == mem[k]
           a == as[k]
           w == WithBlock(m, r.arena)
           more == [mem EXCEPT ![k] = WithBlock(@, r.arena)]
           to == [as EXCEPT ![k] = r.arena]
<1>1. a \in ArenaType /\ mem \in Memories /\ m \in Seq(Seq(Cell))
  BY DEF Matches, Memories
<1>2. Len(m) = a.block + 1 /\ Len(m[a.block + 1]) = a.capacity /\ a.used <= a.capacity
  BY DEF Matches
<1>3. r.arena \in ArenaType /\ r.block \in Nat /\ r.at \in Nat /\ r.block = r.arena.block
      /\ r.at + size <= r.arena.used /\ a.block <= r.arena.block
  BY <1>1, AllocationIsFresh
<1>4. /\ (r.arena.block = a.block /\ r.arena.capacity = a.capacity) \/ r.arena.block = a.block + 1
      /\ r.arena.used <= r.arena.capacity
  <2>1. a.used <= a.capacity /\ r = Allocate(a, size, 1, blockSize)
    BY <1>2
  <2> HIDE DEF a
  <2> QED BY ONLY <1>1, <2>1, size \in Nat, blockSize \in Nat, AllocationFits
<1>5. more = [mem EXCEPT ![k] = w]
  OBVIOUS
<1> HIDE DEF m, a
<1>6. /\ w \in Seq(Seq(Cell)) /\ Len(w) = r.arena.block + 1
      /\ Len(w[r.arena.block + 1]) = r.arena.capacity
      /\ \A j \in 1..Len(m) : w[j] = m[j]
  <2>1. Junk \in Cell
    BY DEF Cell
  <2>2. (r.arena.block = a.block /\ r.arena.capacity = Len(m[a.block + 1])) \/ r.arena.block = a.block + 1
    BY <1>2, <1>4
  <2>3. a \in ArenaType /\ r.arena \in ArenaType /\ m \in Seq(Seq(Cell)) /\ Len(m) = a.block + 1
    BY <1>1, <1>2, <1>3
  <2>4. w = WithBlock(m, r.arena)
    OBVIOUS
  <2> HIDE DEF w
  <2> QED BY ONLY <2>1, <2>2, <2>3, <2>4, BlockAdded
<1> HIDE DEF w, more
<1>7. more \in Memories /\ more[k] = w /\ \A j \in Kinds : j # k => more[j] = mem[j]
  BY <1>1, <1>5, <1>6 DEF Memories
<1>8. to[k] = r.arena /\ \A j \in Kinds : j # k => to[j] = as[j]
  OBVIOUS
<1> HIDE DEF to
<1>9. Matches(more, to)
  BY <1>4, <1>6, <1>7, <1>8 DEF Matches
<1>10. PICK b \in Nat, c \in Nat, n \in Nat, u \in Nat, f \in Nat :
          b = a.block /\ c = r.arena.block /\ n = r.arena.capacity /\ u = r.arena.used /\ f = r.at
  BY <1>1, <1>3 DEF ArenaType
<1>14. Len(m) = b + 1 /\ Len(w) = c + 1
  BY <1>2, <1>6, <1>10
<1>15. b <= c
  BY <1>3, <1>10
<1>16. f + size <= u
  BY <1>3, <1>10
<1>17. u <= n
  BY <1>4, <1>10
<1>11. Len(m) = b + 1 /\ Len(w) = c + 1 /\ b <= c /\ f + size <= u /\ u <= n
  BY <1>14, <1>15, <1>16, <1>17
<1>12. Len(m) <= Len(w) /\ c < Len(w) /\ f + size <= n
  BY ONLY <1>11, b \in Nat, c \in Nat, n \in Nat, u \in Nat, f \in Nat, size \in Nat
<1>13. Extends(mem, more)
  <2>1. \A j \in Kinds : Len(mem[j]) \in Nat
    BY <1>1 DEF Memories
  <2>2. ASSUME NEW j \in Kinds
        PROVE  Len(mem[j]) <= Len(more[j]) /\ \A i \in 1..Len(mem[j]) : more[j][i] = mem[j][i]
    <3>1. CASE j = k
      BY <1>6, <1>7, <1>12, <3>1 DEF m
    <3>2. CASE j # k
      BY <1>7, <2>1, <3>2
    <3> QED BY <3>1, <3>2
  <2> QED BY <1>1, <1>7, <2>2 DEF Extends
<1> QED BY <1>3, <1>6, <1>7, <1>9, <1>10, <1>12, <1>13 DEF more, to

(* What the program sees of its Lists and records. *)
Shown == [l \in DOMAIN store |-> Elements(l)]

(* These are the cells of the storages. *)
LEMMA ShownAreCells ==
    Laid /\ Placed => Shown = [l \in DOMAIN store |-> Cells(memory, store[l])]
BY ElementsAreCells DEF Shown

(* The elements of a storage are a sequence of its length.                 *)
LEMMA CellsType ==
    ASSUME NEW mem \in Memories, NEW h \in HeaderType, Lies(h, mem)
    PROVE  Cells(mem, h) \in Seq(Cell) /\ Len(Cells(mem, h)) = h.length
<1>1. /\ h.kind \in Kinds /\ h.block \in Nat /\ h.at \in Nat /\ h.length \in Nat /\ h.capacity \in Nat
  BY DEF HeaderType
<1>2. mem[h.kind] \in Seq(Seq(Cell))
  BY <1>1 DEF Memories
<1>3. h.block + 1 \in 1..Len(mem[h.kind])
  BY <1>1, <1>2 DEF Lies
<1>4. mem[h.kind][h.block + 1] \in Seq(Cell)
  BY <1>2, <1>3, ElementOfSeq
<1>5. PICK n \in Nat, a \in Nat, l \in Nat, c \in Nat :
          n = Len(mem[h.kind][h.block + 1]) /\ a = h.at /\ l = h.length /\ c = h.capacity
  BY SMTT(60), <1>1, <1>4
<1>6. l <= c /\ a + c <= n
  BY <1>5 DEF Lies
<1>7. \A i \in 1..l : a + i \in 1..n
  BY ONLY <1>6, n \in Nat, a \in Nat, l \in Nat, c \in Nat
<1>8. \A i \in 1..l : mem[h.kind][h.block + 1][a + i] \in Cell
  BY <1>4, <1>5, <1>7
<1>9. Cells(mem, h) = [i \in 1..l |-> mem[h.kind][h.block + 1][a + i]]
  BY <1>5 DEF Cells
<1>10. Cells(mem, h) \in [1..l -> Cell]
  BY <1>8, <1>9
<1> QED BY <1>5, <1>10, SeqDef

(* A new List or record next to the others. *)
LEMMA ShownAppended ==
    ASSUME Laid, Placed, Laid', NEW h \in HeaderType, store' = Append(store, h),
           Matches(memory', arena'), Lies(h, memory'),
           \A l \in DOMAIN store : /\ Lies(store[l], memory')
                                   /\ Cells(memory', store[l]) = Cells(memory, store[l])
    PROVE  Placed' /\ Shown' = Append(Shown, Cells(memory', h)) /\ Len(Shown) = Len(store)
<1> DEFINE n == Len(store)
           c == Cells(memory', h)
           S == {Cells(memory, store[l]) : l \in DOMAIN store} \cup {c}
<1>1. n \in Nat /\ DOMAIN store = 1..n /\ DOMAIN store' = 1..(n + 1)
      /\ store'[n + 1] = h /\ \A l \in 1..n : store'[l] = store[l]
  BY DEF Laid
<1>2. Placed'
  <2>1. \A l \in 1..(n + 1) : l \in 1..n \/ l = n + 1
    BY <1>1
  <2> QED BY <1>1, <2>1 DEF Placed
<1>3. Shown = [l \in 1..n |-> Cells(memory, store[l])]
  BY <1>1, ShownAreCells
<1>4. (Laid /\ Placed => Shown = [l \in DOMAIN store |-> Cells(memory, store[l])])'
  BY ShownAreCells, PTL
<1>5. Shown' = [l \in 1..(n + 1) |-> Cells(memory', store'[l])]
  BY <1>1, <1>2, <1>4
<1>6. \A l \in 1..n : Cells(memory', store'[l]) = Cells(memory, store[l])
  BY <1>1
<1> HIDE DEF n, c
<1>7. Shown \in [1..n -> S]
  BY <1>1, <1>3
<1>8. Shown \in Seq(S) /\ Len(Shown) = n
  BY <1>1, <1>7, SeqDef
<1>9. c \in S
  OBVIOUS
<1> HIDE DEF S
<1>10. Append(Shown, c) = [l \in 1..(n + 1) |-> IF l = n + 1 THEN c ELSE Shown[l]]
  <2>1. /\ Append(Shown, c) \in Seq(S) /\ Len(Append(Shown, c)) = n + 1
        /\ \A l \in 1..n : Append(Shown, c)[l] = Shown[l]
        /\ Append(Shown, c)[n + 1] = c
    BY <1>8, <1>9, AppendProperties
  <2>2. Append(Shown, c) \in [1..(n + 1) -> S]
    <3> DEFINE a == Append(Shown, c)
    <3>1. a \in Seq(S) /\ Len(a) = n + 1
      BY <2>1
    <3> HIDE DEF a
    <3>2. a \in [1..Len(a) -> S]
      BY <3>1
    <3> QED BY <3>1, <3>2 DEF a
  <2>3. \A l \in 1..(n + 1) : Append(Shown, c)[l] = IF l = n + 1 THEN c ELSE Shown[l]
    BY <1>1, <2>1
  <2> QED BY <2>2, <2>3
<1>11. \A l \in 1..(n + 1) : Cells(memory', store'[l]) = IF l = n + 1 THEN c ELSE Shown[l]
  <2>1. \A l \in 1..(n + 1) : l \in 1..n \/ l = n + 1
    BY <1>1
  <2>2. \A l \in 1..n : l # n + 1
    BY <1>1
  <2> QED BY <1>1, <1>3, <1>6, <2>1, <2>2 DEF c
<1>12. Shown' = Append(Shown, c)
  BY <1>5, <1>10, <1>11
<1> QED BY <1>2, <1>8, <1>12 DEF n, c

(* A List in the place it had. *)
LEMMA ShownReplaced ==
    ASSUME Laid, Placed, Laid', NEW i \in DOMAIN store, NEW h \in HeaderType,
           store' = [store EXCEPT ![i] = h],
           Matches(memory', arena'), Lies(h, memory'),
           \A l \in DOMAIN store \ {i} : /\ Lies(store[l], memory')
                                         /\ Cells(memory', store[l]) = Cells(memory, store[l])
    PROVE  Placed' /\ Shown' = [Shown EXCEPT ![i] = Cells(memory', h)]
<1>1. DOMAIN store' = DOMAIN store /\ store'[i] = h /\ \A l \in DOMAIN store \ {i} : store'[l] = store[l]
  BY DEF Laid
<1>2. Placed'
  BY <1>1 DEF Placed
<1>3. Shown = [l \in DOMAIN store |-> Cells(memory, store[l])]
  BY ShownAreCells
<1>4. (Laid /\ Placed => Shown = [l \in DOMAIN store |-> Cells(memory, store[l])])'
  BY ShownAreCells, PTL
<1>5. Shown' = [l \in DOMAIN store |-> Cells(memory', store'[l])]
  BY <1>1, <1>2, <1>4
<1>6. \A l \in DOMAIN store \ {i} : Cells(memory', store'[l]) = Cells(memory, store[l])
  BY <1>1
<1> QED BY <1>1, <1>2, <1>3, <1>5, <1>6

(* The List l with room for another element: the elements of all Lists are *)
(* where they were or have moved unchanged (list_grow).                    *)
HasRoom(l, as, mem, h) ==
    /\ Matches(mem, as)
    /\ h \in HeaderType /\ h.length = store[l].length /\ h.length < h.capacity
    /\ Lies(h, mem) /\ Cells(mem, h) = Cells(memory, store[l])
    /\ \A m \in DOMAIN store \ {l} :
          Lies(store[m], mem) /\ Cells(mem, store[m]) = Cells(memory, store[m])

(* No growth is needed. *)
LEMMA RoomAlready ==
    ASSUME Laid, Placed, NEW l \in DOMAIN store, store[l].length < store[l].capacity
    PROVE  HasRoom(l, arena, memory, store[l])
BY DEF Laid, Placed, HasRoom

(* The storage ends at the top of its block and its block has room. *)
LEMMA RoomInPlace ==
    ASSUME Laid, Placed, NEW l \in DOMAIN store, NEW c \in Nat, NEW k \in Kinds,
           k = ArenaFor(c), store[l].length < c, store[l].capacity <= c, GrowsInPlace(l, k, c)
    PROVE  HasRoom(l, [arena EXCEPT ![k] = Extended(@, c - store[l].capacity)], memory,
                   [store[l] EXCEPT !.capacity = c])
<1> DEFINE s == store[l]
           a == arena[k]
           h == [s EXCEPT !.capacity = c]
           u == Extended(a, c - s.capacity)
           as == [arena EXCEPT ![k] = u]
<1>1. s \in HeaderType /\ Below(s, arena) /\ Lies(s, memory) /\ arena \in [Kinds -> ArenaType]
      /\ a \in ArenaType /\ Matches(memory, arena)
  BY DEF Laid, Placed
<1>2. s.capacity > 0 /\ ArenaFor(s.capacity) = k /\ s.block = a.block
      /\ s.at + s.capacity = a.used /\ c - s.capacity <= a.capacity - a.used
  BY DEF GrowsInPlace, CanExtend
<1>3. s.kind = k
  BY <1>1, <1>2 DEF Below
<1>4. /\ h \in HeaderType /\ h.kind = s.kind /\ h.block = s.block /\ h.at = s.at
      /\ h.capacity = c /\ h.length = s.length
  BY <1>1 DEF HeaderType
<1>5. u.block = a.block /\ u.capacity = a.capacity /\ u.used = a.used + (c - s.capacity)
  BY <1>1 DEF Extended, ArenaType
<1>6. PICK at \in Nat, q \in Nat, n \in Nat, p \in Nat :
          at = s.at /\ q = s.capacity /\ n = a.capacity /\ p = a.used
  BY <1>1 DEF HeaderType, ArenaType
<1>7. at + q = p /\ c - q <= n - p /\ q <= c
  BY <1>2, <1>6
<1>8. p + (c - q) <= n /\ at + c <= n
  BY ONLY <1>7, at \in Nat, q \in Nat, n \in Nat, p \in Nat, c \in Nat
<1>9. u.used = p + (c - q)
  BY <1>5, <1>6
<1>10. as[k] = u /\ \A j \in Kinds : j # k => as[j] = arena[j]
  BY <1>1
<1>11. u.used <= u.capacity
  BY <1>5, <1>6, <1>8, <1>9
<1>12. \A j \in Kinds : as[j].block = arena[j].block /\ as[j].capacity = arena[j].capacity
  BY <1>5, <1>10
<1>13. \A j \in Kinds : as[j].used <= as[j].capacity
  BY <1>1, <1>10, <1>11 DEF Matches
<1> HIDE DEF as, u, h
<1>14. Matches(memory, as)
  BY <1>1, <1>12, <1>13 DEF Matches
<1>15. Len(memory[k][a.block + 1]) = n
  BY <1>1, <1>6 DEF Matches
<1>16. h.at + h.capacity <= Len(memory[h.kind][h.block + 1])
  BY <1>2, <1>3, <1>4, <1>6, <1>8, <1>15
<1>17. h.length < h.capacity /\ h.length <= h.capacity
  BY <1>1, <1>4 DEF HeaderType
<1>18. Lies(h, memory) /\ Cells(memory, h) = Cells(memory, s)
  BY <1>1, <1>4, <1>16, <1>17 DEF Lies, Cells
<1>19. \A m \in DOMAIN store \ {l} : Lies(store[m], memory)
  BY DEF Placed
<1> QED BY <1>4, <1>14, <1>17, <1>18, <1>19 DEF HasRoom, as, u, h

(* The elements move to a new storage. *)
LEMMA RoomElsewhere ==
    ASSUME Laid, Placed, NEW l \in DOMAIN store, NEW c \in Nat, NEW k \in Kinds,
           k = ArenaFor(c), store[l].length < c,
           NEW r, r = Allocate(arena[k], c, 1, BlockOf(k))
    PROVE  HasRoom(l, [arena EXCEPT ![k] = r.arena],
                   [memory EXCEPT ![k] = Write(WithBlock(@, r.arena), r.block, r.at, Moved(l))],
                   [store[l] EXCEPT !.kind = k, !.block = r.block, !.at = r.at, !.capacity = c])
<1> DEFINE s == store[l]
           h == [s EXCEPT !.kind = k, !.block = r.block, !.at = r.at, !.capacity = c]
           as == [arena EXCEPT ![k] = r.arena]
           more == [memory EXCEPT ![k] = WithBlock(@, r.arena)]
           w == Written(more, k, r.block, r.at, Moved(l))
<1>1. s \in HeaderType /\ Lies(s, memory) /\ arena \in [Kinds -> ArenaType]
      /\ Matches(memory, arena) /\ memory \in Memories
  BY DEF Laid, Placed, Matches
<1>2. BlockOf(k) \in Nat
  BY ArenaListsAssumption DEF BlockOf
<1>3. /\ Matches(more, as) /\ Extends(memory, more)
      /\ r.block \in Nat /\ r.at \in Nat
      /\ r.block < Len(more[k]) /\ r.at + c <= Len(more[k][r.block + 1])
  BY <1>1, <1>2, AllocatedMatches
<1>4. /\ h \in HeaderType /\ h.kind = k /\ h.block = r.block /\ h.at = r.at
      /\ h.capacity = c /\ h.length = s.length
  <2>1. r.block \in Nat /\ r.at \in Nat /\ c \in Nat /\ k \in Kinds
    BY <1>3
  <2> HIDE DEF s, as, more, w
  <2>2. PICK b \in Nat, at \in Nat : b = r.block /\ at = r.at
    BY <2>1
  <2>3. [s EXCEPT !.kind = k, !.block = b, !.at = at, !.capacity = c] \in HeaderType
    BY ONLY <1>1, <2>1, b \in Nat, at \in Nat DEF HeaderType
  <2>4. s \in HeaderType
    BY <1>1
  <2> QED BY ONLY <2>2, <2>3, <2>4 DEF HeaderType
<1>5. Moved(l) = Cells(memory, s)
  BY ElementsAreCells DEF Moved, Elements
<1>6. Moved(l) \in Seq(Cell) /\ Len(Moved(l)) = s.length /\ s.length \in Nat
  BY <1>1, <1>5, CellsType DEF HeaderType
<1>7. [memory EXCEPT ![k] = Write(WithBlock(@, r.arena), r.block, r.at, Moved(l))] = w
  BY <1>1 DEF Written, Memories
<1>8. more \in Memories /\ as \in [Kinds -> ArenaType]
  <2>1. r.arena \in ArenaType
    BY <1>1, <1>2, AllocationIsFresh
  <2> QED BY <1>1, <1>3, <2>1 DEF Matches
<1>9. h.length < h.capacity /\ h.length <= h.capacity /\ h.capacity > 0
  BY <1>4, <1>6
<1> HIDE DEF h, more, as
<1>10. Lies(h, more)
  BY <1>3, <1>4, <1>9 DEF Lies
<1>11. w \in Memories /\ Matches(w, as) /\ \A g \in HeaderType : Lies(g, more) => Lies(g, w)
  BY <1>3, <1>6, <1>8, WrittenKeeps
<1>12. Cells(w, h) = Cells(memory, s)
  <2>1. ASSUME NEW i \in 1..h.length PROVE Cells(w, h)[i] = Moved(l)[i]
    <3>1. r.at = h.at + 0
      BY <1>3, <1>4
    <3>2. Cells(Written(more, h.kind, h.block, r.at, Moved(l)), h)[i]
            = IF i - 0 \in DOMAIN Moved(l) THEN Moved(l)[i - 0] ELSE Cells(more, h)[i]
      BY <1>3, <1>4, <1>6, <1>8, <1>10, <3>1, WrittenReads
    <3>3. i - 0 = i /\ i \in DOMAIN Moved(l)
      BY <1>4, <1>6
    <3> QED BY <1>4, <3>2, <3>3
  <2>2. Cells(w, h) = [i \in 1..h.length |-> Cells(w, h)[i]]
    BY DEF Cells
  <2>3. Moved(l) = [i \in 1..h.length |-> Moved(l)[i]]
    BY <1>4, <1>5 DEF Cells
  <2> QED BY <1>5, <2>1, <2>2, <2>3
<1>13. ASSUME NEW m \in DOMAIN store \ {l}
       PROVE  Lies(store[m], w) /\ Cells(w, store[m]) = Cells(memory, store[m])
  <2>1. store[m] \in HeaderType /\ Lies(store[m], memory)
    BY DEF Laid, Placed
  <2>2. Lies(store[m], more) /\ Cells(more, store[m]) = Cells(memory, store[m])
    BY <1>3, <2>1, ExtendsKeeps
  <2>3. Apart(store[m], h)
    BY <1>2, <1>4, FreshIsApart
  <2>4. Within(h, k, r.block, r.at, Moved(l))
    BY <1>3, <1>4, <1>6, <1>9 DEF Within
  <2>5. Cells(w, store[m]) = Cells(more, store[m])
    BY <1>3, <1>4, <1>6, <1>8, <1>9, <2>1, <2>2, <2>3, <2>4, ApartUntouched
  <2> QED BY <1>11, <2>1, <2>2, <2>5
<1>15. store[l] = s
  OBVIOUS
<1> HIDE DEF w, s
<1>14. HasRoom(l, as, w, h)
  BY <1>4, <1>9, <1>10, <1>11, <1>12, <1>13, <1>15 DEF HasRoom
<1> QED BY <1>7, <1>14 DEF h, as, s

(* list_grow always makes room. *)
LEMMA ListGrowHasRoom ==
    ASSUME Laid, Placed, NEW l \in DOMAIN store
    PROVE  LET g == ListGrow(l) IN HasRoom(l, g.arena, g.memory, g.store)
<1> DEFINE c == Capacity(l)
           k == ArenaFor(c)
           s == store[l]
<1>1. s \in HeaderType /\ Lies(s, memory)
  BY DEF Laid, Placed
<1>2. s.length \in Nat /\ s.capacity \in Nat /\ s.length <= s.capacity
  BY <1>1 DEF HeaderType, Lies
<1>3. c \in Nat /\ s.capacity <= c /\ s.length < c
  BY <1>2 DEF Capacity
<1>4. k \in Kinds
  BY DEF ArenaFor, Kinds
<1>5. CASE GrowsInPlace(l, k, c)
  BY <1>3, <1>4, <1>5, RoomInPlace DEF ListGrow
<1>6. CASE ~GrowsInPlace(l, k, c)
  <2> DEFINE r == ListAllocate(c)
  <2>1. r = Allocate(arena[k], c, 1, BlockOf(k))
    BY DEF ListAllocate
  <2>2. HasRoom(l, [arena EXCEPT ![k] = r.arena],
                [memory EXCEPT ![k] = Write(WithBlock(@, r.arena), r.block, r.at, Moved(l))],
                [s EXCEPT !.kind = k, !.block = r.block, !.at = r.at, !.capacity = c])
    BY <1>3, <1>4, <2>1, RoomElsewhere
  <2> QED BY <1>6, <2>2 DEF ListGrow
<1> QED BY <1>5, <1>6

LEMMA GrownHasRoom ==
    ASSUME Laid, Placed, NEW l \in DOMAIN store
    PROVE  LET g == Grown(l) IN HasRoom(l, g.arena, g.memory, g.store)
<1>1. CASE store[l].length < store[l].capacity
  BY <1>1, RoomAlready DEF Grown
<1>2. CASE ~(store[l].length < store[l].capacity)
  BY <1>2, ListGrowHasRoom DEF Grown
<1> QED BY <1>1, <1>2

(* minyar_list_appended's reserve changes no List. *)
LEMMA ReserveShown ==
    ASSUME Laid, Placed, Laid', NEW l \in DOMAIN store, ListReserve(l)
    PROVE  Placed' /\ Shown' = Shown
<1> DEFINE g == ListGrow(l)
           mem == g.memory
           h == g.store
<1>1. HasRoom(l, g.arena, mem, h)
  BY ListGrowHasRoom
<1>2. arena' = g.arena /\ memory' = mem /\ store' = [store EXCEPT ![l] = h]
  BY DEF ListReserve
<1> HIDE DEF g, mem, h
<1>3. /\ Matches(mem, g.arena) /\ h \in HeaderType
      /\ Lies(h, mem) /\ Cells(mem, h) = Cells(memory, store[l])
      /\ \A m \in DOMAIN store \ {l} :
            Lies(store[m], mem) /\ Cells(mem, store[m]) = Cells(memory, store[m])
  BY <1>1 DEF HasRoom
<1>4. Placed' /\ Shown' = [Shown EXCEPT ![l] = Cells(memory', h)]
  BY <1>2, <1>3, ShownReplaced
<1>5. Shown[l] = Cells(memory, store[l]) /\ l \in DOMAIN Shown
  BY ShownAreCells DEF Shown
<1>6. [Shown EXCEPT ![l] = Shown[l]] = Shown
  BY DEF Shown
<1> QED BY <1>2, <1>3, <1>4, <1>5, <1>6

(* minyar_list_add adds the element to the List and to no other. *)
LEMMA AddShown ==
    ASSUME Laid, Placed, Laid', NEW l \in DOMAIN store, NEW v \in Value, ListAdd(l, v)
    PROVE  Placed' /\ Shown' = [Shown EXCEPT ![l] = Append(@, v)]
<1> DEFINE g == Grown(l)
           mem == g.memory
           one == <<v>>
           h == g.store
           n == h.length
           h1 == [h EXCEPT !.length = n + 1]
           w == Written(mem, h.kind, h.block, h.at + n, one)
<1>1. HasRoom(l, g.arena, mem, h)
  BY GrownHasRoom
<1>2. arena' = g.arena /\ memory' = w /\ store' = [store EXCEPT ![l] = h1]
  BY DEF ListAdd, Written
<1>18. one \in Seq(Cell) /\ Len(one) = 1 /\ DOMAIN one = {1} /\ one[1] = v
  BY DEF Cell
<1> HIDE DEF g, h, mem, one
<1>3. /\ Matches(mem, g.arena) /\ h \in HeaderType /\ n < h.capacity
      /\ Lies(h, mem) /\ Cells(mem, h) = Cells(memory, store[l])
      /\ \A m \in DOMAIN store \ {l} :
            Lies(store[m], mem) /\ Cells(mem, store[m]) = Cells(memory, store[m])
  BY <1>1 DEF HasRoom
<1>4. /\ h.kind \in Kinds /\ h.block \in Nat /\ h.at \in Nat /\ n \in Nat /\ h.capacity \in Nat
      /\ h.record \in BOOLEAN
  BY <1>3 DEF HeaderType
<1>5. /\ h1 \in HeaderType /\ h1.kind = h.kind /\ h1.block = h.block /\ h1.at = h.at
      /\ h1.capacity = h.capacity /\ h1.length = n + 1
  BY <1>3, <1>4 DEF HeaderType
<1>6. mem \in Memories /\ h.block < Len(mem[h.kind]) /\ h.at + n \in Nat
  BY <1>3, <1>4 DEF Matches, Lies
<1>7. one \in Seq(Cell) /\ Len(one) = 1
  BY <1>18
<1>8. n + 1 <= h.capacity /\ h.capacity > 0
  BY <1>3, <1>4
<1> HIDE DEF h1, n, w
<1>17. PICK at \in Nat : at = h.at + n /\ w = Written(mem, h.kind, h.block, at, one)
  BY <1>6 DEF w
<1>9. Lies(h1, mem)
  BY <1>3, <1>5, <1>8 DEF Lies
<1>10. arena' \in [Kinds -> ArenaType]
  BY DEF Laid
<1>11. /\ w \in Memories /\ Matches(w, arena')
       /\ \A q \in HeaderType : Lies(q, mem) => Lies(q, w)
  BY <1>2, <1>3, <1>4, <1>6, <1>7, <1>10, WrittenKeeps DEF w
<1>12. Cells(w, h1) = Append(Cells(memory, store[l]), v)
  <2> DEFINE prior == Cells(memory, store[l])
  <2>1. prior \in Seq(Cell) /\ Len(prior) = n
    <3>1. Cells(mem, h) \in Seq(Cell) /\ Len(Cells(mem, h)) = h.length
      BY <1>3, <1>6, CellsType
    <3> QED BY <1>3, <3>1 DEF n
  <2>2. Cells(w, h1) \in Seq(Cell) /\ Len(Cells(w, h1)) = n + 1
    BY <1>5, <1>9, <1>11, CellsType
  <2>3. ASSUME NEW i \in 1..(n + 1)
        PROVE  Cells(w, h1)[i] = IF i - n \in DOMAIN one THEN one[i - n] ELSE Cells(mem, h1)[i]
    <3>1. at = h1.at + n /\ i \in 1..h1.length /\ n \in Nat
      BY <1>4, <1>5, <1>17, <2>3
    <3>2. Cells(Written(mem, h1.kind, h1.block, at, one), h1)[i]
            = IF i - n \in DOMAIN one THEN one[i - n] ELSE Cells(mem, h1)[i]
      BY ONLY <1>5, <1>6, <1>7, <1>9, <1>17, <3>1, WrittenReads
    <3> QED BY <1>5, <1>17, <3>2
  <2> HIDE DEF prior
  <2>4. Cells(w, h1)[n + 1] = v
    <3>1. (n + 1) - n = 1 /\ n + 1 \in 1..(n + 1) /\ 1 \in DOMAIN one /\ one[1] = v
      BY <1>4, <1>18
    <3> QED BY <2>3, <3>1
  <2>5. ASSUME NEW i \in 1..n PROVE Cells(w, h1)[i] = prior[i]
    <3>1. i \in 1..(n + 1) /\ ~(i - n \in DOMAIN one) /\ i \in 1..h1.length /\ i \in 1..h.length
      BY <1>4, <1>5, <1>18, <2>5 DEF n
    <3>2. Cells(w, h1)[i] = Cells(mem, h1)[i]
      BY <2>3, <3>1
    <3>3. Cells(mem, h1)[i] = Cells(mem, h)[i]
      BY <1>5, <3>1 DEF Cells
    <3> QED BY <1>3, <3>2, <3>3 DEF prior
  <2>6. Append(prior, v) \in Seq(Cell) /\ Len(Append(prior, v)) = n + 1
        /\ Append(prior, v)[n + 1] = v /\ \A i \in 1..n : Append(prior, v)[i] = prior[i]
    <3>1. v \in Cell
      BY DEF Cell
    <3> QED BY <2>1, <3>1, AppendProperties
  <2>7. \A i \in 1..(n + 1) : i \in 1..n \/ i = n + 1
    BY <1>4
  <2>8. \A i \in 1..(n + 1) : Cells(w, h1)[i] = Append(prior, v)[i]
    BY <2>4, <2>5, <2>6, <2>7
  <2> QED BY <2>2, <2>6, <2>8, SeqEqual DEF prior
<1>13. ASSUME NEW m \in DOMAIN store \ {l}
       PROVE  Lies(store[m], w) /\ Cells(w, store[m]) = Cells(memory, store[m])
  <2>1. store[m] \in HeaderType
    BY DEF Laid
  <2>2. Apart(store[m], h1)
    <3>1. DOMAIN store' = DOMAIN store /\ store'[l] = h1 /\ store'[m] = store[m]
      BY <1>2 DEF Laid
    <3>2. Apart(store'[m], store'[l])
      BY <3>1 DEF Laid
    <3> QED BY <3>1, <3>2
  <2>3. Within(h1, h.kind, h.block, at, one)
    BY <1>4, <1>5, <1>7, <1>8, <1>17 DEF Within
  <2>5. Lies(store[m], mem) /\ h1.capacity > 0 /\ h.block \in Nat /\ h.kind \in Kinds
    BY <1>3, <1>4, <1>5, <1>8
  <2>4. Cells(w, store[m]) = Cells(mem, store[m])
    BY ONLY <1>5, <1>6, <1>7, <1>17, <2>1, <2>2, <2>3, <2>5, ApartUntouched
  <2> QED BY <1>3, <1>11, <2>1, <2>4
<1>14. Lies(h1, w)
  BY <1>5, <1>9, <1>11
<1>15. Placed' /\ Shown' = [Shown EXCEPT ![l] = Cells(memory', h1)]
  BY <1>2, <1>5, <1>11, <1>13, <1>14, ShownReplaced
<1>16. Shown[l] = Cells(memory, store[l])
  BY ShownAreCells
<1> QED BY <1>2, <1>12, <1>15, <1>16

(* minyar_list_set_owned and minyar_record_set change one element of one   *)
(* List.                                                                   *)
LEMMA SetShown ==
    ASSUME Laid, Placed, Laid', NEW l \in DOMAIN store, NEW v \in Value,
           NEW i \in 1..MaxElements, ListSet(l, i, v)
    PROVE  /\ Placed' /\ i \in DOMAIN Shown[l]
           /\ Shown' = [Shown EXCEPT ![l] = [Shown[l] EXCEPT ![i] = v]]
<1> DEFINE h == store[l]
           mem == memory
           one == <<v>>
           w == Written(mem, h.kind, h.block, h.at + i - 1, one)
<1>1. i <= h.length /\ memory' = w /\ arena' = arena /\ store' = store
  BY DEF ListSet, Written
<1>2. h \in HeaderType /\ Lies(h, mem) /\ Matches(mem, arena) /\ mem \in Memories
  BY DEF Laid, Placed, Matches
<1>3. one \in Seq(Cell) /\ Len(one) = 1 /\ DOMAIN one = {1} /\ one[1] = v
  BY DEF Cell
<1> HIDE DEF h, mem, one
<1>4. /\ h.kind \in Kinds /\ h.block \in Nat /\ h.at \in Nat /\ h.length \in Nat /\ h.capacity \in Nat
  BY <1>2 DEF HeaderType
<1>5. i \in Nat /\ i >= 1
  BY ArenaListsAssumption
<1>6. PICK d \in Nat : d = i - 1
  BY <1>5
<1>7. PICK at \in Nat : at = h.at + d
  BY <1>4
<1>8. h.at + i - 1 = at
  <2>1. PICK a \in Nat : a = h.at
    BY <1>4
  <2>2. a + i - 1 = a + d
    BY ONLY <1>5, <1>6, a \in Nat, d \in Nat
  <2> QED BY <1>7, <2>1, <2>2
<1>9. w = Written(mem, h.kind, h.block, at, one)
  BY <1>8
<1> HIDE DEF w
<1>10. h.block < Len(mem[h.kind]) /\ h.length <= h.capacity
  BY <1>2 DEF Lies
<1>11. arena' \in [Kinds -> ArenaType] /\ Matches(mem, arena')
  BY <1>1, <1>2 DEF Laid
<1>12. /\ w \in Memories /\ Matches(w, arena')
       /\ \A q \in HeaderType : Lies(q, mem) => Lies(q, w)
  BY <1>2, <1>3, <1>4, <1>9, <1>10, <1>11, WrittenKeeps
<1>13. Cells(mem, h) \in Seq(Cell) /\ Len(Cells(mem, h)) = h.length
  BY <1>2, CellsType
<1>14. ASSUME NEW j \in 1..h.length PROVE Cells(w, h)[j] = IF j = i THEN v ELSE Cells(mem, h)[j]
  <2>1. Cells(w, h)[j] = IF j - d \in DOMAIN one THEN one[j - d] ELSE Cells(mem, h)[j]
    BY ONLY <1>2, <1>3, <1>7, <1>9, <1>14, d \in Nat, at \in Nat, WrittenReads
  <2>2. CASE j = i
    <3>1. j - d = 1
      BY <1>5, <1>6, <2>2
    <3> QED BY <1>3, <2>1, <2>2, <3>1
  <2>3. CASE j # i
    <3>1. j - d # 1
      BY <1>4, <1>5, <1>6, <2>3
    <3> QED BY <1>3, <2>1, <2>3, <3>1
  <2> QED BY <2>2, <2>3
<1>15. Cells(w, h) = [j \in 1..h.length |-> Cells(w, h)[j]]
       /\ Cells(mem, h) = [j \in 1..h.length |-> Cells(mem, h)[j]]
  BY DEF Cells
<1>16. i \in 1..h.length
  BY <1>1, <1>4, <1>5
<1>17. Cells(w, h) = [Cells(mem, h) EXCEPT ![i] = v]
  <2> DEFINE A == Cells(w, h)
             B == Cells(mem, h)
             n == h.length
  <2>1. A = [j \in 1..n |-> A[j]] /\ B = [j \in 1..n |-> B[j]]
    BY <1>15
  <2>2. \A j \in 1..n : A[j] = IF j = i THEN v ELSE B[j]
    BY <1>14
  <2> HIDE DEF A, B, n
  <2>3. A = [B EXCEPT ![i] = v]
    BY <2>1, <2>2
  <2> QED BY <2>3 DEF A, B
<1>18. ASSUME NEW m \in DOMAIN store \ {l}
       PROVE  Lies(store[m], w) /\ Cells(w, store[m]) = Cells(mem, store[m])
  <2>1. store[m] \in HeaderType /\ Lies(store[m], mem)
    BY DEF Laid, Placed, mem
  <2>2. Apart(store[m], h)
    BY DEF Laid, h
  <2>3. Within(h, h.kind, h.block, at, one) /\ h.capacity > 0
    <3>1. PICK a \in Nat, n \in Nat, c \in Nat : a = h.at /\ n = h.length /\ c = h.capacity
      BY <1>4
    <3>2. n <= c /\ i <= n /\ at = a + d
      BY <1>1, <1>7, <1>10, <3>1
    <3>3. a <= at /\ at + 1 <= a + c /\ c > 0
      BY ONLY <3>2, <1>5, <1>6, a \in Nat, n \in Nat, c \in Nat, at \in Nat, d \in Nat
    <3> QED BY <1>3, <3>1, <3>3 DEF Within
  <2>4. Cells(w, store[m]) = Cells(mem, store[m])
    BY ONLY <1>2, <1>3, <1>4, <1>9, <1>10, at \in Nat, <2>1, <2>2, <2>3, ApartUntouched
  <2> QED BY <1>12, <2>1, <2>4
<1>19. store' = [store EXCEPT ![l] = h] /\ l \in DOMAIN store
  BY <1>1 DEF Laid, h
<1>20. Lies(h, w)
  BY <1>2, <1>12
<1>21. Placed' /\ Shown' = [Shown EXCEPT ![l] = Cells(memory', h)]
  BY <1>1, <1>2, <1>12, <1>18, <1>19, <1>20, ShownReplaced DEF mem
<1>22. Shown[l] = Cells(mem, h)
  BY ShownAreCells DEF mem, h
<1>23. i \in DOMAIN Shown[l]
  BY <1>13, <1>16, <1>22
<1>24. Cells(memory', h) = [Shown[l] EXCEPT ![i] = v]
  BY <1>1, <1>17, <1>22
<1> QED BY <1>21, <1>23, <1>24

(* minyar_list_new *)
LEMMA NewShown ==
    ASSUME Laid, Placed, Laid', ListNew
    PROVE  Placed' /\ Shown' = Append(Shown, <<>>) /\ Len(Shown) = Len(store)
<1>1. NoStorage \in HeaderType /\ NoStorage.length = 0
  BY DEF NoStorage, HeaderType, Kinds
<1>2. memory' = memory /\ arena' = arena /\ store' = Append(store, NoStorage)
  BY DEF ListNew
<1>3. Matches(memory', arena') /\ \A l \in DOMAIN store : Lies(store[l], memory')
  BY <1>2 DEF Placed
<1>4. Lies(NoStorage, memory)
  <2>1. "list" \in Kinds /\ arena["list"].block \in Nat /\ memory["list"] \in Seq(Seq(Cell))
    BY DEF Kinds, Laid, ArenaType, Placed, Matches, Memories
  <2>2. PICK n \in Nat : n = arena["list"].block /\ Len(memory["list"]) = n + 1
    BY <2>1 DEF Placed, Matches
  <2>3. 0 < n + 1 /\ 1 \in 1..(n + 1) /\ 0 + 0 = 0 /\ 0 + 1 = 1
    OBVIOUS
  <2>4. memory["list"][1] \in Seq(Cell)
    BY <2>1, <2>2, <2>3, ElementOfSeq
  <2>5. 0 <= Len(memory["list"][1])
    BY <2>4
  <2> QED BY <2>2, <2>3, <2>5 DEF Lies, NoStorage
<1>5. Cells(memory, NoStorage) = <<>>
  <2>1. Cells(memory, NoStorage) \in Seq(Cell) /\ Len(Cells(memory, NoStorage)) = 0
    BY <1>1, <1>4, CellsType DEF Placed, Matches
  <2> QED BY <2>1, EmptySeq
<1>6. \A l \in DOMAIN store : Cells(memory', store[l]) = Cells(memory, store[l])
  BY <1>2
<1> QED BY <1>1, <1>2, <1>3, <1>4, <1>5, <1>6, ShownAppended

(* record_allocate *)
LEMMA RecordShown ==
    ASSUME Laid, Placed, Laid', NEW n \in 1..MaxElements, RecordNew(n)
    PROVE  Placed' /\ Shown' = Append(Shown, [i \in 1..n |-> 0]) /\ Len(Shown) = Len(store)
<1> DEFINE r == ListAllocate(n)
           k == ArenaFor(n)
           h == [kind |-> k, block |-> r.block, at |-> r.at,
                 length |-> n, capacity |-> n, record |-> TRUE]
           zeros == [i \in 1..n |-> 0]
           more == [memory EXCEPT ![k] = WithBlock(@, r.arena)]
           w == Written(more, k, r.block, r.at, zeros)
<1>1. n \in Nat /\ n > 0 /\ k \in Kinds /\ BlockOf(k) \in Nat
  BY ArenaListsAssumption DEF ArenaFor, Kinds, BlockOf
<1>2. r = Allocate(arena[k], n, 1, BlockOf(k))
  BY DEF ListAllocate
<1>3. arena \in [Kinds -> ArenaType] /\ Matches(memory, arena) /\ memory \in Memories
  BY DEF Laid, Placed, Matches
<1>4. arena' = [arena EXCEPT ![k] = r.arena] /\ memory' = w /\ store' = Append(store, h)
  BY <1>1, <1>3 DEF RecordNew, Written, Memories
<1> HIDE DEF r, k
<1>5. /\ Matches(more, arena') /\ Extends(memory, more)
      /\ r.block \in Nat /\ r.at \in Nat
      /\ r.block < Len(more[k]) /\ r.at + n <= Len(more[k][r.block + 1])
  BY <1>1, <1>2, <1>3, <1>4, AllocatedMatches
<1>6. h \in HeaderType /\ h.kind = k /\ h.block = r.block /\ h.at = r.at
      /\ h.capacity = n /\ h.length = n
  BY <1>1, <1>5 DEF HeaderType
<1>7. zeros \in [1..n -> Cell]
  BY DEF Cell
<1>8. zeros \in Seq(Cell) /\ Len(zeros) = n
  BY <1>1, <1>7, SeqDef
<1>9. \A i \in 1..n : zeros[i] = 0
  OBVIOUS
<1> HIDE DEF h, zeros, more, w
<1>10. arena' \in [Kinds -> ArenaType] /\ more \in Memories
  BY <1>5 DEF Laid, Matches
<1>11. Lies(h, more)
  BY <1>1, <1>5, <1>6 DEF Lies
<1>12. w \in Memories /\ Matches(w, arena') /\ \A g \in HeaderType : Lies(g, more) => Lies(g, w)
  BY <1>1, <1>5, <1>8, <1>10, WrittenKeeps DEF w
<1>13. Cells(w, h) = zeros
  <2>1. Cells(w, h) \in Seq(Cell) /\ Len(Cells(w, h)) = n
    BY <1>6, <1>11, <1>12, CellsType
  <2>2. ASSUME NEW i \in 1..n PROVE Cells(w, h)[i] = zeros[i]
    <3>1. r.at = h.at + 0 /\ i \in 1..h.length /\ w = Written(more, h.kind, h.block, r.at, zeros)
      BY <1>5, <1>6 DEF w
    <3>2. Cells(w, h)[i] = IF i - 0 \in DOMAIN zeros THEN zeros[i - 0] ELSE Cells(more, h)[i]
      <4>1. PICK at \in Nat : at = r.at /\ at = h.at + 0
        BY <1>5, <3>1
      <4>2. w = Written(more, h.kind, h.block, at, zeros)
        BY <3>1, <4>1
      <4>3. more \in Memories /\ h \in HeaderType /\ Lies(h, more) /\ zeros \in Seq(Cell)
        BY <1>6, <1>8, <1>10, <1>11
      <4>4. 0 \in Nat
        OBVIOUS
      <4> QED BY ONLY <3>1, <4>1, <4>2, <4>3, <4>4, WrittenReads
    <3>3. i - 0 = i /\ i \in DOMAIN zeros
      BY <1>8
    <3> QED BY <3>2, <3>3
  <2> QED BY <1>8, <2>1, <2>2, SeqEqual
<1>14. ASSUME NEW m \in DOMAIN store
       PROVE  Lies(store[m], w) /\ Cells(w, store[m]) = Cells(memory, store[m])
  <2>1. store[m] \in HeaderType /\ Lies(store[m], memory)
    BY DEF Laid, Placed
  <2>2. Lies(store[m], more) /\ Cells(more, store[m]) = Cells(memory, store[m])
    BY <1>5, <2>1, ExtendsKeeps
  <2>3. Apart(store[m], h)
    BY <1>1, <1>2, <1>5, <1>6, FreshIsApart DEF k
  <2>4. Within(h, k, r.block, r.at, zeros) /\ h.capacity > 0
    BY <1>1, <1>5, <1>6, <1>8 DEF Within
  <2>5. Cells(w, store[m]) = Cells(more, store[m])
    BY <1>1, <1>5, <1>6, <1>8, <1>10, <2>1, <2>2, <2>3, <2>4, ApartUntouched DEF w
  <2> QED BY <1>12, <2>1, <2>2, <2>5
<1>15. Lies(h, w)
  BY <1>6, <1>11, <1>12
<1> QED BY <1>4, <1>6, <1>12, <1>13, <1>14, <1>15, ShownAppended DEF zeros

(* Every step of the arenas is one of independent values, and the memory   *)
(* stays that of the arenas.                                               *)
LEMMA StepShown ==
    ASSUME Laid, Placed, Laid', Next
    PROVE  Placed' /\ (AsValues!Next \/ Shown' = Shown)
<1>1. CASE ListNew
  <2>1. Placed' /\ Shown' = Append(Shown, <<>>) /\ Len(Shown) = Len(store)
    BY <1>1, NewShown
  <2>2. [i \in 1..0 |-> 0] = <<>> /\ 0 \in 0..MaxElements
    BY ArenaListsAssumption
  <2>3. Len(store) < MaxLists
    BY <1>1 DEF ListNew
  <2>4. AsValues!New(0)
    BY <2>1, <2>2, <2>3 DEF AsValues!New, Shown
  <2> QED BY <2>1, <2>2, <2>4 DEF AsValues!Next
<1>2. ASSUME NEW n \in 1..MaxElements, RecordNew(n) PROVE Placed' /\ AsValues!Next
  <2>1. Placed' /\ Shown' = Append(Shown, [i \in 1..n |-> 0]) /\ Len(Shown) = Len(store)
    BY <1>2, RecordShown
  <2>2. Len(store) < MaxLists /\ n \in 0..MaxElements
    BY <1>2 DEF RecordNew
  <2>3. AsValues!New(n)
    BY <2>1, <2>2 DEF AsValues!New, Shown
  <2> QED BY <2>1, <2>2, <2>3 DEF AsValues!Next
<1>3. ASSUME NEW l \in DOMAIN store, NEW v \in Value, ListAdd(l, v)
      PROVE  Placed' /\ AsValues!Next
  <2>1. Placed' /\ Shown' = [Shown EXCEPT ![l] = Append(@, v)]
    BY <1>3, AddShown
  <2>2. l \in DOMAIN Shown
    BY DEF Shown
  <2>3. AsValues!Add(l, v)
    BY <2>1 DEF AsValues!Add, Shown
  <2> QED BY <2>1, <2>2, <2>3 DEF AsValues!Next, Shown
<1>4. ASSUME NEW l \in DOMAIN store, NEW v \in Value, NEW i \in 1..MaxElements, ListSet(l, i, v)
      PROVE  Placed' /\ AsValues!Next
  <2>1. /\ Placed' /\ i \in DOMAIN Shown[l]
        /\ Shown' = [Shown EXCEPT ![l] = [Shown[l] EXCEPT ![i] = v]]
    BY <1>4, SetShown
  <2>2. l \in DOMAIN Shown
    BY DEF Shown
  <2>3. AsValues!Set(l, i, v)
    BY <2>1, <2>2 DEF AsValues!Set, Shown
  <2> QED BY <2>1, <2>2, <2>3 DEF AsValues!Next, Shown
<1>5. ASSUME NEW l \in DOMAIN store, ListReserve(l) PROVE Placed' /\ Shown' = Shown
  BY <1>5, ReserveShown
<1> QED BY <1>1, <1>2, <1>3, <1>4, <1>5 DEF Next

(* Before the first allocation the arenas have no block. *)
LEMMA PlacedInit == Init => Placed
<1> SUFFICES ASSUME Init PROVE Placed
  OBVIOUS
<1>1. memory = [k \in Kinds |-> <<<<>>>>] /\ arena = [k \in Kinds |-> NewArena] /\ store = <<>>
  BY DEF Init
<1>2. <<>> \in Seq(Cell)
  BY EmptySeq
<1>3. <<<<>>>> \in Seq(Seq(Cell)) /\ Len(<<<<>>>>) = 1 /\ <<<<>>>>[1] = <<>>
  BY <1>2
<1>4. memory \in Memories
  BY <1>1, <1>3 DEF Memories
<1>5. NewArena.block = 0 /\ NewArena.used = 0 /\ NewArena.capacity = 0
  BY DEF NewArena
<1>6. \A k \in Kinds : Len(memory[k]) = arena[k].block + 1
  BY <1>1, <1>3, <1>5
<1>7. \A k \in Kinds : Len(memory[k][arena[k].block + 1]) = arena[k].capacity
  <2>1. 0 + 1 = 1 /\ Len(<<>>) = 0
    OBVIOUS
  <2> QED BY <1>1, <1>3, <1>5, <2>1
<1>8. \A k \in Kinds : arena[k].used <= arena[k].capacity
  BY <1>1, <1>5
<1> QED BY <1>1, <1>4, <1>6, <1>7, <1>8 DEF Placed, Matches

(* To the program the Lists and records of the arenas are independent      *)
(* values: an addition or a change is seen in the List it was made to and  *)
(* in no other, wherever its elements are and have been.                   *)
THEOREM ListsAreValues == Spec => ImplementsLists
<1>1. Init => AsValues!Init
  <2> SUFFICES ASSUME Init PROVE AsValues!Init
    OBVIOUS
  <2>1. store = <<>> /\ DOMAIN store = {}
    BY DEF Init
  <2>2. [l \in {} |-> Elements(l)] = <<>>
    OBVIOUS
  <2> QED BY <2>1, <2>2 DEF AsValues!Init
<1>2. Laid /\ Laid' /\ Placed /\ [Next]_vars => Placed' /\ [AsValues!Next]_Shown
  <2> SUFFICES ASSUME Laid, Laid', Placed, [Next]_vars
               PROVE  Placed' /\ [AsValues!Next]_Shown
    OBVIOUS
  <2>1. CASE Next
    BY <2>1, StepShown
  <2>2. CASE UNCHANGED vars
    BY <2>2 DEF vars, Placed, Matches, Lies, Shown, Elements
  <2> QED BY <2>1, <2>2
<1>3. AsValues!Spec <=> AsValues!Init /\ [][AsValues!Next]_Shown
  BY DEF AsValues!Spec, Shown
<1> QED BY <1>1, <1>2, <1>3, PlacedInit, LayoutIsInductive, PTL DEF Spec, ImplementsLists
-----------------------------------------------------------------------------
(* The stack with its guard. *)
GuardTypeOK ==
    /\ known \in BOOLEAN
    /\ depth \in Nat /\ frames \in Seq(Frame) /\ room \in Int
    /\ outcome \in {"running", "fault", "refused", "unbalanced"}

(* Whoever passed the guard left the reserve untouched, so that the next   *)
(* frame still fits in it, and a return only gives room back.              *)
ReserveKept == known /\ outcome = "running" => room > Reserve

Guarded == GuardTypeOK /\ ReserveKept /\ Guard!StackGuarded

(* At the call of main nothing has been taken. *)
LEMMA GuardedInit == ASSUME Guard!StackAssumption, Guard!Init PROVE Guarded
BY EmptySeq
   DEF Guard!StackAssumption, Guard!Init, Guarded, GuardTypeOK, ReserveKept, Guard!StackGuarded

(* minyar_stack_enter refuses a frame that reaches into the reserve; what  *)
(* it refuses lies in the reserve.                                         *)
LEMMA EnterKeeps ==
  ASSUME Guard!StackAssumption, NEW f \in Frame, Guarded, Guard!Enter(f) PROVE Guarded'
<1>1. f \in Nat /\ Reserve \in Nat /\ Report \in Nat /\ f + Report <= Reserve
  BY DEF Guard!StackAssumption
<1>2. known' = known /\ outcome = "running" /\ room' = room - f /\ room \in Int /\ depth \in Nat
  BY DEF Guarded, GuardTypeOK, Guard!Enter
<1>3. frames' \in Seq(Frame) /\ Len(frames') = Len(frames) + 1
  BY DEF Guarded, GuardTypeOK, Guard!Enter
<1>4. depth = Len(frames) /\ (known => room' >= Report /\ room' > 0)
  BY <1>1, <1>2 DEF Guarded, ReserveKept, Guard!StackGuarded
<1>5. CASE room' <= 0 /\ outcome' = "fault" /\ depth' = depth
  BY <1>2, <1>3, <1>4, <1>5 DEF Guarded, GuardTypeOK, ReserveKept, Guard!StackGuarded
<1>6. CASE room' > 0 /\ Guard!Refused(room') /\ outcome' = "refused" /\ depth' = depth
  BY <1>1, <1>2, <1>3, <1>4, <1>6 DEF Guarded, GuardTypeOK, ReserveKept, Guard!StackGuarded
<1>7. CASE room' > 0 /\ ~Guard!Refused(room') /\ outcome' = outcome /\ depth' = depth + 1
  BY <1>1, <1>2, <1>3, <1>4, <1>7 DEF Guarded, GuardTypeOK, ReserveKept, Guard!StackGuarded, Guard!Refused
<1>8. QED
  BY <1>5, <1>6, <1>7 DEF Guard!Enter

(* A return gives room back and is never one too many. *)
LEMMA LeaveKeeps == ASSUME Guard!StackAssumption, Guarded, Guard!Leave PROVE Guarded'
<1>1. outcome = "running" /\ frames # <<>> /\ known' = known /\ depth = Len(frames)
  BY DEF Guarded, Guard!StackGuarded, Guard!Leave
<1>2. frames \in Seq(Frame) /\ room \in Int /\ depth \in Nat
  BY DEF Guarded, GuardTypeOK
<1>3. Head(frames) \in Frame /\ Tail(frames) \in Seq(Frame) /\ Len(Tail(frames)) = Len(frames) - 1
      /\ Len(frames) > 0
  BY <1>1, <1>2
<1>4. Head(frames) \in Nat
  BY <1>3 DEF Guard!StackAssumption
<1>5. depth' = depth - 1 /\ outcome' = outcome /\ frames' = Tail(frames)
      /\ room' = room + Head(frames)
  BY <1>1, <1>3 DEF Guard!Leave
<1>6. Reserve \in Nat
  BY DEF Guard!StackAssumption
<1>7. QED
  BY <1>1, <1>2, <1>3, <1>4, <1>5, <1>6 DEF Guarded, GuardTypeOK, ReserveKept, Guard!StackGuarded

(* The part of a program's memory that takes steps leaves the others as    *)
(* they are: each of them behaves as it does on its own.                   *)
LEMMA PartsOfMemory == MemorySpec => Spec /\ Data!Spec /\ Guard!Spec
<1>1. MemoryInit => Init /\ Data!Init /\ Guard!Init
  BY DEF MemoryInit, FirstState
<1>2. [MemoryNext]_<<part, memoryVars, textsVars>>
        => [Next]_vars /\ [Data!Next]_Data!vars /\ [Guard!Next]_Guard!vars
  <2>1. UNCHANGED dataVars => UNCHANGED Data!vars
    BY DEF dataVars, Data!vars
  <2>2. UNCHANGED stackVars => UNCHANGED Guard!vars
    BY DEF stackVars, Guard!vars
  <2>3. UNCHANGED memoryVars => UNCHANGED vars /\ UNCHANGED dataVars /\ UNCHANGED stackVars
    BY DEF memoryVars
  <2>4. MemoryNext => /\ Next \/ UNCHANGED vars
                      /\ Data!Next \/ UNCHANGED dataVars
                      /\ Guard!Next \/ UNCHANGED stackVars
    BY DEF MemoryNext, ListsPart, TextsPart, PoolPart, PollPart, StackPart
  <2> QED BY <2>1, <2>2, <2>3, <2>4
<1> QED BY <1>1, <1>2, PTL DEF MemorySpec, Spec, Data!Spec, Guard!Spec

(* Recursion ends in a report and not in the guard page                    *)
(* (minyar_stack_enter): with known bounds no frame reaches the guard      *)
(* page, a report has room, and calls and returns stay paired.             *)
THEOREM RecursionEndsInAReport == MemorySpec => []StackGuarded
<1>1. Guarded /\ [Guard!Next]_Guard!vars => Guarded'
  <2>1. ASSUME Guarded, UNCHANGED Guard!vars PROVE Guarded'
    BY <2>1 DEF Guarded, GuardTypeOK, ReserveKept, Guard!StackGuarded, Guard!vars
  <2>2. QED
    BY <2>1, EnterKeeps, LeaveKeeps, StackAssumption DEF Guard!Next
<1>2. Guarded => StackGuarded
  BY DEF Guarded, StackGuarded
<1>3. Guard!Init => Guarded
  BY GuardedInit, StackAssumption
<1> QED BY <1>1, <1>2, <1>3, PartsOfMemory, PTL DEF Guard!Spec
-----------------------------------------------------------------------------
(* Texts in the data arena. *)
(* Its arithmetic is the one above. *)
LEMMA DataArithmetic ==
    /\ \A a, size, by, blockSize : Data!Allocate(a, size, by, blockSize) = Allocate(a, size, by, blockSize)
    /\ \A m, a : Data!WithBlock(m, a) = WithBlock(m, a)
    /\ \A m, b, at, cells : Data!Write(m, b, at, cells) = Write(m, b, at, cells)
    /\ \A m, p, size : Data!Read(m, p, size) = Read(m, p, size)
    /\ \A a, p, size, more : Data!CanExtend(a, p, size, more) = CanExtend(a, p, size, more)
    /\ \A a, more : Data!Extended(a, more) = Extended(a, more)
    /\ Data!NewArena = NewArena
BY DEF Data!Allocate, Allocate, Data!Fits, Fits, Data!AlignUp, AlignUp, Data!Grow, Grow,
       Data!Larger, Larger, Data!WithBlock, WithBlock, Data!Junk, Junk, Data!Write, Write,
       Data!Read, Read, Data!CanExtend, CanExtend, Data!Extended, Extended,
       Data!NewArena, NewArena

TextType == [block : Nat, at : Nat, size : Nat]

(* A Text and its terminator lie in a block, and in the newest block below *)
(* the top.                                                                *)
TextLies(t, m, a) ==
    /\ t.block < Len(m)
    /\ t.at + t.size < Len(m[t.block + 1])
    /\ t.block = a.block => a.block = 0 \/ t.at + t.size < a.used

(* The memory of the data arena ends with the block it allocates from;     *)
(* block 0, with the literals, is not the arena's.                         *)
DataMatches(m, a) ==
    /\ a \in ArenaType /\ a.used <= a.capacity
    /\ m \in Seq(Seq(Int)) /\ Len(m) = a.block + 1
    /\ a.block > 0 => Len(m[a.block + 1]) = a.capacity

(* The terminator of t is the last cell allocated. *)
Newest(t, a) == a.block > 0 /\ t.block = a.block /\ t.at + t.size + 1 = a.used

TextsLaid ==
    /\ DataMatches(dataMemory, dataArena)
    /\ texts \in Seq(TextType)
    /\ \A t \in DOMAIN texts : TextLies(texts[t], dataMemory, dataArena)

(* n cells of block b, from f on. *)
Cut(m, b, f, n) == [i \in 1..n |-> m[b + 1][f + i]]

(* They are what is read there. *)
LEMMA ReadsAreCuts ==
    ASSUME NEW m \in Seq(Seq(Int)), NEW b \in Nat, NEW f \in Nat, NEW n \in Nat,
           b < Len(m), f + n <= Len(m[b + 1])
    PROVE  /\ SubSeq(m[b + 1], f + 1, f + n) = Cut(m, b, f, n)
           /\ Cut(m, b, f, n) \in Seq(Int) /\ Len(Cut(m, b, f, n)) = n
<1> DEFINE s == m[b + 1]
           x == [i \in 1..n |-> s[f + i]]
<1>1. s \in Seq(Int)
  BY ElementOfSeq
<1>2. PICK c \in Nat : c = Len(s)
  BY <1>1
<1>3. f + n <= c
  BY <1>2
<1>4. Cut(m, b, f, n) = x
  BY DEF Cut
<1>5. \A j \in 1..c : s[j] \in Int
  BY <1>1, <1>2
<1> HIDE DEF s
<1>6. \A i \in 1..n : f + i \in 1..c
  BY <1>3
<1>7. x \in [1..n -> Int]
  BY <1>5, <1>6
<1>8. SubSeq(s, f + 1, f + n) = x
  <2>1. f + 1 \in 1..(c + 1) /\ f + n \in ((f + 1) - 1)..c
    BY <1>3
  <2> QED BY <1>1, <1>2, <1>3, <2>1
<1> HIDE DEF x
<1>9. x \in Seq(Int) /\ Len(x) = n
  BY <1>7, SeqDef
<1> QED BY <1>4, <1>8, <1>9 DEF s

(* A write leaves what lies in other blocks or before it. *)
LEMMA OutsideCut ==
    ASSUME NEW m \in Seq(Seq(Int)), NEW b \in Nat, b < Len(m), NEW at \in Nat,
           NEW cells \in Seq(Int), NEW c \in Nat, NEW f \in Nat, NEW n \in Nat,
           c < Len(m), f + n <= Len(m[c + 1]), c = b => f + n <= at
    PROVE  Cut(Write(m, b, at, cells), c, f, n) = Cut(m, c, f, n)
<1> DEFINE w == Write(m, b, at, cells)
<1>1. Changed(Int, w, m, b, at, cells)
  BY WriteChanges
<1> HIDE DEF w
<1>2. c + 1 \in 1..Len(m)
  OBVIOUS
<1>3. ASSUME NEW i \in 1..n PROVE w[c + 1][f + i] = m[c + 1][f + i]
  <2>1. CASE c # b
    <3>1. w[c + 1] = m[c + 1]
      BY <1>1, <1>2, <2>1 DEF Changed
    <3> QED BY <3>1
  <2>2. CASE c = b
    <3>1. m[b + 1] \in Seq(Int)
      BY ElementOfSeq
    <3>2. PICK k \in Nat : k = Len(m[b + 1])
      BY <3>1
    <3>3. f + n <= k /\ f + n <= at
      BY <2>2, <3>2
    <3>4. PICK j \in Nat : j = f + i
      OBVIOUS
    <3>5. j \in 1..k /\ j <= at
      BY <3>3, <3>4
    <3>6. ~(j - at \in DOMAIN cells)
      BY <3>5
    <3>7. w[b + 1][j] = m[b + 1][j]
      BY <1>1, <3>2, <3>5, <3>6 DEF Changed
    <3> QED BY <2>2, <3>4, <3>7
  <2> QED BY <2>1, <2>2
<1> QED BY <1>3 DEF Cut, w

(* The bytes s and the terminator; the bytes of a concatenation. *)
Terminated(z, s) == z = s \o <<0>>
Joined(r, s) == r \o s

(* Cells that end with what is written, a Text's last bytes and its        *)
(* terminator.                                                             *)
LEMMA WrittenCut ==
    ASSUME NEW m \in Seq(Seq(Int)), NEW b \in Nat, b < Len(m), NEW f \in Nat, NEW d \in Nat,
           NEW s \in Seq(Int), NEW p \in Nat, p = f + d, NEW n \in Nat, n = d + Len(s),
           f + n < Len(m[b + 1]), NEW z \in Seq(Int), Terminated(z, s)
    PROVE  Cut(Write(m, b, p, z), b, f, n) = Joined(Cut(m, b, f, d), s)
<1> DEFINE w == Write(m, b, p, z)
           x == Cut(w, b, f, n)
           y == Cut(m, b, f, d)
<1>1. PICK k \in Nat, c \in Nat : k = Len(s) /\ c = Len(m[b + 1])
  <2>1. m[b + 1] \in Seq(Int)
    BY ElementOfSeq
  <2> QED BY <2>1
<1>2. f + d + k < c /\ n = d + k
  BY <1>1
<1>3. z \in Seq(Int) /\ DOMAIN z = 1..(k + 1) /\ \A i \in 1..k : z[i] = s[i]
  BY <1>1 DEF Terminated
<1>4. Changed(Int, w, m, b, p, z)
  <2>1. z \in Seq(Int) /\ w = Write(m, b, p, z)
    BY <1>3
  <2> HIDE DEF w
  <2> QED BY <2>1, WriteChanges
<1>5. y \in Seq(Int) /\ Len(y) = d
  <2>1. f + d <= Len(m[b + 1])
    BY ONLY <1>1, <1>2, f \in Nat, d \in Nat
  <2> QED BY ONLY <2>1, m \in Seq(Seq(Int)), b \in Nat, b < Len(m), f \in Nat, d \in Nat,
             ReadsAreCuts
<1>6. \A i \in 1..d : y[i] = m[b + 1][f + i]
  BY DEF Cut
<1>7. x = [i \in 1..(d + k) |-> w[b + 1][f + i]]
  BY <1>2 DEF Cut
<1> HIDE DEF x, y, w
<1>8. y \o s \in Seq(Int) /\ Len(y \o s) = d + k
      /\ \A i \in 1..(d + k) : (y \o s)[i] = IF i <= d THEN y[i] ELSE s[i - d]
  BY ONLY <1>1, <1>5, s \in Seq(Int), ConcatProperties
<1>9. ASSUME NEW i \in 1..(d + k) PROVE w[b + 1][f + i] = (y \o s)[i]
  <2>1. PICK j \in Nat : j = f + i
    OBVIOUS
  <2>2. j \in 1..c /\ j - p = i - d
    BY <1>2, <2>1
  <2>3. w[b + 1][j] = IF i - d \in DOMAIN z THEN z[i - d] ELSE m[b + 1][j]
    <3>1. w[b + 1][j] = IF j - p \in DOMAIN z THEN z[j - p] ELSE m[b + 1][j]
      BY <1>1, <1>4, <2>2 DEF Changed
    <3> QED BY ONLY <2>2, <3>1
  <2>4. CASE i <= d
    <3>1. ~(i - d \in 1..(k + 1)) /\ i \in 1..d
      BY <2>4
    <3>2. w[b + 1][j] = m[b + 1][j]
      BY ONLY <1>3, <2>3, <3>1
    <3> QED BY <1>6, <1>8, <2>1, <2>4, <3>1, <3>2
  <2>5. CASE ~(i <= d)
    <3>1. i - d \in 1..k /\ i - d \in 1..(k + 1)
      BY <2>5
    <3>2. w[b + 1][j] = s[i - d]
      BY ONLY <1>3, <2>3, <3>1
    <3> QED BY <1>8, <2>1, <2>5, <3>2
  <2> QED BY <2>4, <2>5
<1>10. y \o s = [i \in 1..(d + k) |-> (y \o s)[i]]
  <2> DEFINE q == y \o s
  <2>1. q \in Seq(Int) /\ Len(q) = d + k
    BY <1>8
  <2> HIDE DEF q
  <2>2. q = [i \in 1..(d + k) |-> q[i]]
    BY <2>1
  <2> QED BY <2>2 DEF q
<1>11. x = y \o s
  BY <1>7, <1>9, <1>10
<1> QED BY <1>11 DEF w, x, y, Joined

(* The bytes of a Text that lies in memory. *)
LEMMA BytesAreCut ==
    ASSUME NEW m, NEW a, DataMatches(m, a), NEW t \in TextType, TextLies(t, m, a)
    PROVE  /\ Data!BytesOf(m, t) = Cut(m, t.block, t.at, t.size)
           /\ Data!BytesOf(m, t) \in Seq(Int) /\ Len(Data!BytesOf(m, t)) = t.size
<1>1. PICK b \in Nat, f \in Nat, n \in Nat : b = t.block /\ f = t.at /\ n = t.size
  BY DEF TextType
<1>2. m \in Seq(Seq(Int)) /\ b < Len(m)
  BY <1>1 DEF DataMatches, TextLies
<1>3. f + n < Len(m[b + 1])
  BY <1>1 DEF TextLies
<1>4. f + n <= Len(m[b + 1])
  <2>1. m[b + 1] \in Seq(Int)
    BY <1>2, ElementOfSeq
  <2>2. PICK c \in Nat : c = Len(m[b + 1])
    BY <2>1
  <2> QED BY <1>3, <2>2
<1>5. Data!BytesOf(m, t) = SubSeq(m[b + 1], f + 1, f + n)
  BY <1>1, DataArithmetic DEF Data!BytesOf, Read
<1>6. /\ SubSeq(m[b + 1], f + 1, f + n) = Cut(m, b, f, n)
      /\ Cut(m, b, f, n) \in Seq(Int) /\ Len(Cut(m, b, f, n)) = n
  BY ONLY <1>2, <1>4, b \in Nat, f \in Nat, n \in Nat, ReadsAreCuts
<1> QED BY <1>1, <1>5, <1>6

(* Memory only gains blocks. *)
Gains(m, w) == Len(m) <= Len(w) /\ \A j \in 1..Len(m) : w[j] = m[j]

(* The alignments of Texts and of other data. *)
LEMMA AlignsUp ==
    ASSUME NEW n \in Nat, NEW by \in {1, 2}
    PROVE  AlignUp(n, by) \in Nat /\ n <= AlignUp(n, by)
<1>1. AlignUp(n, 1) \in Nat /\ n <= AlignUp(n, 1)
  BY DEF AlignUp
<1>2. AlignUp(n, 2) \in Nat /\ n <= AlignUp(n, 2)
  BY DEF AlignUp
<1> QED BY <1>1, <1>2

(* What an allocation in the data arena returns, and the memory then. *)
Allotted(m, a, size, r) ==
    /\ DataMatches(WithBlock(m, r.arena), r.arena) /\ Gains(m, WithBlock(m, r.arena))
    /\ r.block \in Nat /\ r.at \in Nat /\ r.block = r.arena.block /\ r.block > 0
    /\ r.at + size = r.arena.used
    /\ a.block <= r.block /\ (a.block = r.block => a.used <= r.at)

LEMMA DataAllocated ==
    ASSUME NEW m, NEW a, DataMatches(m, a), NEW size \in Nat, NEW by \in {1, 2},
           DataBlock \in Nat, NEW r, r = Allocate(a, size, by, DataBlock)
    PROVE  Allotted(m, a, size, r)
<1>1. a \in ArenaType /\ a.used <= a.capacity /\ m \in Seq(Seq(Int)) /\ Len(m) = a.block + 1
      /\ (a.block > 0 => Len(m[a.block + 1]) = a.capacity)
  BY DEF DataMatches
<1>2. PICK b \in Nat, u \in Nat, c \in Nat, l \in Nat :
         b = a.block /\ u = a.used /\ c = a.capacity /\ l = AlignUp(a.used, by) /\ u <= l
  BY <1>1, AlignsUp DEF ArenaType
<1>3. a = [block |-> b, used |-> u, capacity |-> c] /\ u <= c
  BY <1>1, <1>2 DEF ArenaType
<1>4. CASE Fits(a, size, by)
  <2>1. b > 0 /\ l <= c /\ size <= c - l
    BY <1>2, <1>4 DEF Fits
  <2>2. r.arena = [block |-> b, used |-> l + size, capacity |-> c] /\ r.block = b /\ r.at = l
    BY <1>2, <1>3, <1>4 DEF Allocate
  <2>3. r.arena \in ArenaType /\ r.arena.used <= r.arena.capacity
    BY <2>1, <2>2 DEF ArenaType
  <2>4. WithBlock(m, r.arena) = m
    BY <1>1, <1>2, <2>2 DEF WithBlock
  <2>5. PICK k \in Nat : k = Len(m)
    BY <1>1
  <2>6. Gains(m, m)
    BY <2>5 DEF Gains
  <2>7. DataMatches(m, r.arena)
    BY <1>1, <1>3, <2>2, <2>3 DEF DataMatches
  <2>8. /\ r.block \in Nat /\ r.at \in Nat /\ r.block = r.arena.block /\ r.block > 0
        /\ r.at + size = r.arena.used
    BY <1>2, <2>1, <2>2
  <2>9. a.block <= r.block /\ a.used <= r.at
    BY <1>2, <2>2
  <2> QED BY <2>4, <2>6, <2>7, <2>8, <2>9 DEF Allotted
<1>5. CASE ~Fits(a, size, by)
  <2>1. PICK k \in Nat : k = Larger(size, DataBlock) /\ size <= k
    BY DEF Larger
  <2>2. r.arena = [block |-> b + 1, used |-> size, capacity |-> k] /\ r.block = b + 1 /\ r.at = 0
    BY <1>2, <1>5, <2>1 DEF Allocate, Grow
  <2>3. r.arena \in ArenaType /\ r.arena.used <= r.arena.capacity
    BY <2>1, <2>2 DEF ArenaType
  <2>4. Junk \in Int
    BY DEF Junk
  <2>5. LET w == WithBlock(m, r.arena)
        IN  /\ w \in Seq(Seq(Int)) /\ Len(w) = r.arena.block + 1
            /\ Len(w[r.arena.block + 1]) = r.arena.capacity
            /\ \A j \in 1..Len(m) : w[j] = m[j]
    <3>1. r.arena.block = a.block + 1
      BY <1>2, <2>2
    <3>2. a \in ArenaType /\ r.arena \in ArenaType /\ m \in Seq(Seq(Int)) /\ Len(m) = a.block + 1
      BY <1>1, <2>3
    <3>3. PICK to : to = r.arena
      OBVIOUS
    <3> QED BY ONLY <2>4, <3>1, <3>2, <3>3, BlockAdded
  <2> DEFINE w == WithBlock(m, r.arena)
  <2>6. /\ w \in Seq(Seq(Int)) /\ Len(w) = b + 2 /\ Len(w[r.arena.block + 1]) = r.arena.capacity
        /\ \A j \in 1..Len(m) : w[j] = m[j]
    <3>1. r.arena.block = b + 1
      BY <2>2
    <3> QED BY <2>5, <3>1
  <2> HIDE DEF w
  <2>7. Gains(m, w)
    <3>1. Len(m) = b + 1
      BY <1>1, <1>2
    <3>2. Len(m) <= Len(w)
      BY ONLY <2>6, <3>1, b \in Nat
    <3> QED BY <2>6, <3>2 DEF Gains
  <2>8. DataMatches(w, r.arena)
    <3>1. Len(w) = r.arena.block + 1
      BY <2>2, <2>6
    <3> QED BY <2>3, <2>6, <3>1 DEF DataMatches
  <2>9. /\ r.block \in Nat /\ r.at \in Nat /\ r.block = r.arena.block /\ r.block > 0
        /\ r.at + size = r.arena.used
    BY <1>2, <2>2
  <2>10. a.block <= r.block /\ a.block # r.block
    BY <1>2, <2>2
  <2> QED BY <2>7, <2>8, <2>9, <2>10 DEF Allotted, w
<1> QED BY <1>4, <1>5

(* The Texts stay where they are when memory gains blocks and the arena    *)
(* moves on.                                                               *)
MovesOn(a, to) == a.block <= to.block /\ (a.block = to.block => a.used <= to.used)

LEMMA TextStays ==
    ASSUME NEW m, NEW a, DataMatches(m, a), NEW w, NEW to, DataMatches(w, to),
           Gains(m, w), MovesOn(a, to), NEW t \in TextType, TextLies(t, m, a)
    PROVE  TextLies(t, w, to)
           /\ Cut(w, t.block, t.at, t.size) = Cut(m, t.block, t.at, t.size)
<1>1. PICK b \in Nat, f \in Nat, n \in Nat : b = t.block /\ f = t.at /\ n = t.size
  BY DEF TextType
<1>2. PICK l \in Nat, k \in Nat, p \in Nat, q \in Nat, u \in Nat, v \in Nat :
         l = Len(m) /\ k = Len(w) /\ p = a.block /\ q = to.block /\ u = a.used /\ v = to.used
  <2>1. a.block \in Nat /\ a.used \in Nat /\ to.block \in Nat /\ to.used \in Nat
    BY DEF DataMatches, ArenaType
  <2>2. Len(m) \in Nat /\ Len(w) \in Nat
    BY DEF DataMatches
  <2> QED BY <2>1, <2>2
<1>3. b < l /\ l <= k /\ l = p + 1 /\ p <= q /\ (p = q => u <= v) /\ (b = p => p = 0 \/ f + n < u)
  BY <1>1, <1>2 DEF TextLies, Gains, DataMatches, MovesOn
<1>4. b < k /\ b + 1 \in 1..l /\ (b = q => q = 0 \/ f + n < v)
  BY ONLY <1>2, <1>3, b \in Nat, f \in Nat, n \in Nat
<1>5. w[b + 1] = m[b + 1]
  BY <1>2, <1>4 DEF Gains
<1> QED BY <1>1, <1>2, <1>4, <1>5 DEF TextLies, Cut

(* No Text loses a byte. *)
BytesKept == \A t \in DOMAIN texts : Data!Bytes(t)' = Data!Bytes(t)

(* Nothing but a terminator is allocated in block b from p on. *)
Behind(b, p) == dataArena.block = b => dataArena.used <= p + 1

(* A step makes a Text of n bytes at f in block b: d bytes that stand      *)
(* there already and then s, which is written with a terminator (z) at p,  *)
(* behind everything allocated or over the terminator of the newest Text.  *)
Making(w, b, f, d, s, k, n, u, p, z, new) ==
    /\ DataMatches(w, dataArena') /\ Gains(dataMemory, w) /\ MovesOn(dataArena, dataArena')
    /\ b > 0 /\ b = dataArena'.block /\ k = Len(s) /\ n = d + k
    /\ u = dataArena'.used /\ u = f + n + 1 /\ p = f + d /\ Behind(b, p)
    /\ Terminated(z, s) /\ dataMemory' = Write(w, b, p, z)
    /\ new.block = b /\ new.at = f /\ new.size = n /\ texts' = Append(texts, new)

(* The other Texts stay as they are.                                       *)
LEMMA TextMade ==
    ASSUME TextsLaid, NEW w, NEW b \in Nat, NEW f \in Nat, NEW d \in Nat, NEW s \in Seq(Int),
           NEW k \in Nat, NEW n \in Nat, NEW u \in Nat, NEW p \in Nat, NEW z \in Seq(Int),
           NEW new \in TextType, Making(w, b, f, d, s, k, n, u, p, z, new)
    PROVE  /\ TextsLaid' /\ BytesKept
           /\ texts' # <<>> /\ Newest(texts'[Len(texts')], dataArena')
           /\ Data!BytesOf(dataMemory', texts'[Len(texts')]) = Joined(Cut(w, b, f, d), s)
<1> /\ DataMatches(w, dataArena') /\ Gains(dataMemory, w) /\ MovesOn(dataArena, dataArena')
    /\ b > 0 /\ b = dataArena'.block /\ k = Len(s) /\ n = d + k
    /\ u = dataArena'.used /\ u = f + n + 1 /\ p = f + d /\ Behind(b, p)
    /\ Terminated(z, s) /\ dataMemory' = Write(w, b, p, z)
    /\ new.block = b /\ new.at = f /\ new.size = n /\ texts' = Append(texts, new)
  BY DEF Making
<1> DEFINE a == dataArena'
           v == dataMemory'
<1>1. PICK l \in Nat, c \in Nat : l = Len(w) /\ c = a.capacity
  BY DEF DataMatches, ArenaType
<1>2. w \in Seq(Seq(Int)) /\ l = b + 1 /\ Len(w[b + 1]) = c /\ u <= c
  BY <1>1 DEF DataMatches
<1>3. b < l /\ p + k + 1 = u /\ b < Len(w)
  BY ONLY <1>1, <1>2, p = f + d, n = d + k, u = f + n + 1, p \in Nat, k \in Nat, u \in Nat,
          f \in Nat, d \in Nat, n \in Nat, b \in Nat, l \in Nat
<1>4. Changed(Int, v, w, b, p, z)
  BY <1>2, <1>3, WriteChanges
<1>5. /\ v \in Seq(Seq(Int)) /\ Len(v) = l /\ Len(v[b + 1]) = c
      /\ \A j \in 1..l : j # b + 1 => v[j] = w[j]
  BY <1>1, <1>2, <1>4 DEF Changed
<1>6. DataMatches(v, a)
  <2>1. v \in Seq(Seq(Int)) /\ Len(v) = Len(w) /\ Len(v[b + 1]) = Len(w[b + 1])
    BY <1>4 DEF Changed
  <2> QED BY <2>1 DEF DataMatches
<1>7. TextLies(new, v, a)
  <2>1. Len(v) = l /\ Len(v[b + 1]) = c
    BY <1>1, <1>2, <1>4 DEF Changed
  <2>2. f + n < c /\ f + n < u
    BY ONLY <1>2, u = f + n + 1, f \in Nat, n \in Nat, u \in Nat, c \in Nat
  <2> QED BY ONLY <1>3, <2>1, <2>2, new.block = b, new.at = f, new.size = n, u = dataArena'.used DEF TextLies
<1>8. /\ texts' \in Seq(TextType) /\ Len(texts') = Len(texts) + 1 /\ texts'[Len(texts')] = new
      /\ \A t \in DOMAIN texts : t \in DOMAIN texts' /\ texts'[t] = texts[t]
      /\ \A t \in DOMAIN texts' : t \in DOMAIN texts \/ texts'[t] = new
      /\ Len(texts') \in DOMAIN texts'
  BY DEF TextsLaid
<1>9. ASSUME NEW t \in DOMAIN texts
       PROVE  /\ TextLies(texts[t], v, a)
              /\ Cut(v, texts[t].block, texts[t].at, texts[t].size)
                     = Cut(dataMemory, texts[t].block, texts[t].at, texts[t].size)
  <2>1. texts[t] \in TextType /\ TextLies(texts[t], dataMemory, dataArena)
    BY DEF TextsLaid
  <2>2. PICK g \in Nat, h \in Nat, m \in Nat : g = texts[t].block /\ h = texts[t].at /\ m = texts[t].size
    BY <2>1 DEF TextType
  <2>3. TextLies(texts[t], w, a) /\ Cut(w, g, h, m) = Cut(dataMemory, g, h, m)
    <3>1. DataMatches(dataMemory, dataArena)
      BY DEF TextsLaid
    <3> QED BY <2>1, <2>2, <3>1, TextStays
  <2>4. g < l /\ (g = a.block => a.block = 0 \/ h + m < u)
    BY <1>1, <2>2, <2>3 DEF TextLies
  <2>5. g + 1 \in 1..l /\ w[g + 1] \in Seq(Int) /\ v[g + 1] \in Seq(Int)
    <3>1. g + 1 \in 1..l
      BY ONLY <2>4, g \in Nat, l \in Nat
    <3> QED BY ONLY <1>1, <1>2, <1>5, <3>1, ElementOfSeq
  <2>6. PICK e \in Nat : e = Len(w[g + 1])
    BY <2>5
  <2>7. h + m < e
    BY <2>2, <2>3, <2>6 DEF TextLies
  <2>8. Len(v[g + 1]) = e /\ Len(v) = l
    <3>1. CASE g = b
      BY ONLY <1>2, <1>5, <2>6, <3>1
    <3>2. CASE g # b
      <4>1. g + 1 # b + 1
        BY <3>2
      <4> QED BY ONLY <1>5, <2>5, <2>6, <4>1
    <3> QED BY <3>1, <3>2
  <2>9. TextLies(texts[t], v, a)
    BY <1>1, <2>2, <2>4, <2>7, <2>8 DEF TextLies
  <2>10. g = b => h + m <= p
    <3>1. ASSUME g = b PROVE h + m <= p
      <4>1. PICK o \in Nat, q \in Nat : o = dataArena.block /\ q = dataArena.used
        BY DEF TextsLaid, DataMatches, ArenaType
      <4>2. g < Len(dataMemory) /\ Len(dataMemory) = o + 1 /\ o <= b
        BY <2>1, <2>2, <4>1 DEF TextLies, TextsLaid, DataMatches, MovesOn
      <4>3. o = b
        BY ONLY <3>1, <4>2, g \in Nat, o \in Nat, b \in Nat
      <4>4. h + m < q /\ q <= p + 1
        BY <2>1, <2>2, <3>1, <4>1, <4>3 DEF TextLies, Behind
      <4> QED BY ONLY <4>4, h \in Nat, m \in Nat, q \in Nat, p \in Nat
    <3> QED BY <3>1
  <2>11. Cut(Write(w, b, p, z), g, h, m) = Cut(w, g, h, m)
    <3>1. g < Len(w) /\ h + m <= Len(w[g + 1])
      BY <1>1, <2>4, <2>6, <2>7
    <3> QED BY ONLY <1>2, <1>3, z \in Seq(Int), <2>10, <3>1, b \in Nat, p \in Nat, g \in Nat, h \in Nat,
                 m \in Nat, OutsideCut
  <2> QED BY <2>2, <2>3, <2>9, <2>11
<1>10. TextsLaid'
  BY <1>6, <1>7, <1>8, <1>9 DEF TextsLaid
<1>11. BytesKept
  <2> SUFFICES ASSUME NEW t \in DOMAIN texts
               PROVE  Data!BytesOf(v, texts'[t]) = Data!BytesOf(dataMemory, texts[t])
    BY DEF BytesKept, Data!Bytes
  <2>1. texts[t] \in TextType /\ TextLies(texts[t], dataMemory, dataArena)
    BY DEF TextsLaid
  <2>2. DataMatches(dataMemory, dataArena)
    BY DEF TextsLaid
  <2>3. Data!BytesOf(dataMemory, texts[t]) = Cut(dataMemory, texts[t].block, texts[t].at, texts[t].size)
    BY <2>1, <2>2, BytesAreCut
  <2>4. Data!BytesOf(v, texts[t]) = Cut(v, texts[t].block, texts[t].at, texts[t].size)
    BY <1>6, <1>9, <2>1, BytesAreCut
  <2> QED BY <1>8, <1>9, <2>3, <2>4
<1>12. Newest(texts'[Len(texts')], a)
  BY <1>8 DEF Newest
<1>13. Data!BytesOf(v, new) = Joined(Cut(w, b, f, d), s)
  <2>1. Data!BytesOf(v, new) = Cut(v, b, f, n)
    BY <1>6, <1>7, BytesAreCut
  <2>2. f + n < Len(w[b + 1])
    BY ONLY <1>1, <1>2, u = f + n + 1, u \in Nat, f \in Nat, n \in Nat
  <2>3. w \in Seq(Seq(Int)) /\ b < Len(w)
    BY <1>2, <1>3
  <2>4. Cut(Write(w, b, p, z), b, f, n) = Joined(Cut(w, b, f, d), s)
    <3>1. n = d + Len(s)
      OBVIOUS
    <3> QED BY ONLY z \in Seq(Int), Terminated(z, s), <2>2, <2>3, <3>1, p \in Nat, p = f + d,
           b \in Nat, f \in Nat, d \in Nat, n \in Nat, s \in Seq(Int), WrittenCut
  <2> QED BY <2>1, <2>4
<1>14. texts' # <<>>
  BY ONLY <1>8, EmptySeq
<1> QED BY ONLY <1>8, <1>10, <1>11, <1>12, <1>13, <1>14

(* What a call that makes a Text does: the Text is the newest, has the     *)
(* bytes s and ends the allocated part of its block; the others stay.      *)
Made(s) ==
    /\ TextsLaid' /\ BytesKept
    /\ Len(texts') = Len(texts) + 1 /\ Newest(texts'[Len(texts')], dataArena')
    /\ Data!BytesOf(dataMemory', texts'[Len(texts')]) = s

(* new_bytes and new_text, which copy. *)
LEMMA NewTextMade ==
    ASSUME Data!ArenaTextsAssumption, TextsLaid, NEW s \in Seq(Int), NEW ans, Data!NewText(s, ans)
    PROVE  Made(s)
<1> DEFINE a == Allocate(dataArena, Len(s) + 1, 1, DataBlock)
           w == WithBlock(dataMemory, a.arena)
<1>1. PICK k \in Nat : k = Len(s)
  OBVIOUS
<1>2. DataMatches(dataMemory, dataArena) /\ DataBlock \in Nat
  BY DEF TextsLaid, Data!ArenaTextsAssumption
<1>3. a = Allocate(dataArena, k + 1, 1, DataBlock) /\ k + 1 \in Nat
  BY <1>1
<1>4. /\ dataArena' = a.arena /\ dataMemory' = Write(w, a.block, a.at, s \o <<0>>)
      /\ texts' = Append(texts, [block |-> a.block, at |-> a.at, size |-> k])
  BY <1>1, DataArithmetic DEF Data!NewText, Data!Text, Data!Terminator
<1> HIDE DEF a
<1>5. /\ DataMatches(w, a.arena) /\ Gains(dataMemory, w)
      /\ a.block \in Nat /\ a.at \in Nat /\ a.block = a.arena.block /\ a.block > 0
      /\ a.at + (k + 1) = a.arena.used
      /\ dataArena.block <= a.block /\ (dataArena.block = a.block => dataArena.used <= a.at)
  <2>1. PICK m \in Nat : m = k + 1
    OBVIOUS
  <2>2. 1 \in {1, 2}
    OBVIOUS
  <2>3. a = Allocate(dataArena, m, 1, DataBlock)
    BY <1>3, <2>1
  <2>4. Allotted(dataMemory, dataArena, m, a)
    BY <1>2, <2>1, <2>2, <2>3, DataAllocated
  <2> QED BY <2>1, <2>4 DEF Allotted
<1> HIDE DEF w
<1>6. PICK b \in Nat, f \in Nat, q \in Nat, o \in Nat, u \in Nat :
          b = a.block /\ f = a.at /\ q = dataArena.used /\ o = dataArena.block /\ u = dataArena'.used
  BY <1>2, <1>4, <1>5 DEF DataMatches, ArenaType
<1>7. b > 0 /\ b = dataArena'.block /\ f + k + 1 = u /\ o <= b /\ (o = b => q <= f)
  <2>1. f + (k + 1) = u
    BY ONLY <1>4, <1>5, <1>6
  <2>2. f + k + 1 = u
    BY ONLY <2>1, f \in Nat, k \in Nat, u \in Nat
  <2>3. b > 0 /\ b = dataArena'.block /\ o <= b /\ (o = b => q <= f)
    BY ONLY <1>4, <1>5, <1>6
  <2> QED BY <2>2, <2>3
<1>8. o = b => q <= f + 1 /\ q <= u
  BY ONLY <1>7, f \in Nat, k \in Nat, q \in Nat, u \in Nat
<1>9. MovesOn(dataArena, dataArena')
  BY <1>6, <1>7, <1>8 DEF MovesOn
<1>10. /\ DataMatches(w, dataArena')
       /\ dataMemory' = Write(w, b, f, s \o <<0>>)
       /\ texts' = Append(texts, [block |-> b, at |-> f, size |-> k])
  BY <1>4, <1>5, <1>6
<1>11. /\ TextsLaid' /\ BytesKept /\ Newest(texts'[Len(texts')], dataArena')
       /\ Data!BytesOf(dataMemory', texts'[Len(texts')]) = Joined(Cut(w, b, f, 0), s)
  <2>1. PICK z, new : z = s \o <<0>> /\ new = [block |-> b, at |-> f, size |-> k]
    OBVIOUS
  <2>2. z \in Seq(Int) /\ Terminated(z, s) /\ dataMemory' = Write(w, b, f, z)
    BY <1>10, <2>1 DEF Terminated
  <2>3. new \in TextType /\ new.block = b /\ new.at = f /\ new.size = k /\ texts' = Append(texts, new)
    BY <1>10, <2>1 DEF TextType
  <2>4. Behind(b, f)
    BY ONLY <1>6, <1>7, <1>8 DEF Behind
  <2>5. PICK d \in Nat : d = 0
    OBVIOUS
  <2>6. f = f + d /\ k = d + k /\ u = f + k + 1 /\ b > 0 /\ b = dataArena'.block /\ u = dataArena'.used
    BY ONLY <1>6, <1>7, <2>5, f \in Nat, k \in Nat, u \in Nat
  <2>7. /\ TextsLaid' /\ BytesKept
        /\ texts' # <<>> /\ Newest(texts'[Len(texts')], dataArena')
        /\ Data!BytesOf(dataMemory', texts'[Len(texts')]) = Joined(Cut(w, b, f, d), s)
    <3>1. DataMatches(w, dataArena') /\ Gains(dataMemory, w)
      BY <1>5, <1>10
    <3>2. Making(w, b, f, d, s, k, k, u, f, z, new)
      BY ONLY <1>1, <1>9, <2>2, <2>3, <2>4, <2>6, <3>1 DEF Making
    <3> QED BY ONLY TextsLaid, <2>2, <2>3, <3>2, b \in Nat, f \in Nat,
           d \in Nat, s \in Seq(Int), k \in Nat, u \in Nat, TextMade
  <2> QED BY <2>5, <2>7
<1>12. Joined(Cut(w, b, f, 0), s) = s
  <2>1. Cut(w, b, f, 0) = <<>>
    BY DEF Cut
  <2> QED BY <2>1 DEF Joined
<1>13. Len(texts') = Len(texts) + 1
  BY <1>4 DEF TextsLaid
<1> QED BY <1>11, <1>12, <1>13 DEF Made

(* minyar_join_text, in place or by copying. *)
LEMMA JoinMade ==
    ASSUME Data!ArenaTextsAssumption, TextsLaid, NEW l \in DOMAIN texts, NEW r \in DOMAIN texts,
           Data!JoinText(l, r)
    PROVE  Made(Joined(Data!Bytes(l), Data!Bytes(r)))
<1> DEFINE s == Data!Bytes(r)
<1>1. /\ texts[l] \in TextType /\ TextLies(texts[l], dataMemory, dataArena)
      /\ texts[r] \in TextType /\ TextLies(texts[r], dataMemory, dataArena)
      /\ DataMatches(dataMemory, dataArena)
  BY DEF TextsLaid
<1>2. PICK g \in Nat, h \in Nat, m \in Nat : g = texts[l].block /\ h = texts[l].at /\ m = texts[l].size
  BY <1>1 DEF TextType
<1>3. Data!Bytes(l) = Cut(dataMemory, g, h, m) /\ Data!Bytes(l) \in Seq(Int)
  BY <1>1, <1>2, BytesAreCut DEF Data!Bytes
<1>4. s \in Seq(Int)
  BY <1>1, BytesAreCut DEF Data!Bytes
<1>5. PICK k \in Nat : k = Len(s)
  BY <1>4
<1>6. CASE Data!CanExtend(dataArena, texts[l], Data!TopOf(l), Len(s))
  <2>1. PICK q \in Nat, o \in Nat, c \in Nat :
           q = dataArena.used /\ o = dataArena.block /\ c = dataArena.capacity
    BY <1>1 DEF DataMatches, ArenaType
  <2>2. o > 0 /\ k <= c - q /\ g = o /\ h + (m + 1) = q
    BY <1>2, <1>5, <1>6, <2>1, DataArithmetic DEF CanExtend, Data!TopOf
  <2>3. /\ dataArena' = Extended(dataArena, k)
        /\ dataMemory' = Write(dataMemory, g, h + m, s \o <<0>>)
        /\ texts' = Append(texts, [block |-> g, at |-> h, size |-> m + k])
    BY <1>2, <1>5, <1>6, DataArithmetic DEF Data!JoinText, Data!Text, Data!Terminator
  <2>4. dataArena = [block |-> o, used |-> q, capacity |-> c]
    BY <1>1, <2>1 DEF DataMatches, ArenaType
  <2>5. dataArena' = [block |-> o, used |-> q + k, capacity |-> c]
    BY <2>3, <2>4 DEF Extended
  <2>6. dataArena' \in ArenaType /\ q + k <= c
    BY <2>2, <2>5 DEF ArenaType
  <2>7. DataMatches(dataMemory, dataArena')
    BY <1>1, <2>1, <2>5, <2>6 DEF DataMatches
  <2>8. Gains(dataMemory, dataMemory)
    <3>1. PICK y \in Nat : y = Len(dataMemory)
      BY <1>1 DEF DataMatches
    <3> QED BY <3>1 DEF Gains
  <2>9. MovesOn(dataArena, dataArena')
    BY <2>1, <2>5 DEF MovesOn
  <2>10. PICK n \in Nat, u \in Nat : n = m + k /\ u = q + k
    OBVIOUS
  <2>11. h + n + 1 = u /\ q <= h + m + 1
    BY <2>2, <2>10
  <2>12. g > 0 /\ g = dataArena'.block /\ u = dataArena'.used
    BY <2>2, <2>5, <2>10
  <2>13. texts' = Append(texts, [block |-> g, at |-> h, size |-> n])
    BY <2>3, <2>10
  <2> HIDE DEF s
  <2>14. /\ TextsLaid' /\ BytesKept /\ Newest(texts'[Len(texts')], dataArena')
         /\ Data!BytesOf(dataMemory', texts'[Len(texts')]) = Joined(Cut(dataMemory, g, h, m), s)
    <3>1. PICK z, new : z = s \o <<0>> /\ new = [block |-> g, at |-> h, size |-> n]
      OBVIOUS
    <3>2. PICK p \in Nat : p = h + m
      OBVIOUS
    <3>3. z \in Seq(Int) /\ Terminated(z, s) /\ dataMemory' = Write(dataMemory, g, p, z)
      BY <1>4, <2>3, <3>2, <3>1 DEF Terminated
    <3>4. new \in TextType /\ new.block = g /\ new.at = h /\ new.size = n /\ texts' = Append(texts, new)
      BY <2>13, <3>1 DEF TextType
    <3>5. Behind(g, p)
      BY ONLY <2>1, <2>11, <3>2 DEF Behind
    <3>6. /\ TextsLaid' /\ BytesKept
          /\ texts' # <<>> /\ Newest(texts'[Len(texts')], dataArena')
          /\ Data!BytesOf(dataMemory', texts'[Len(texts')]) = Joined(Cut(dataMemory, g, h, m), s)
      <4>1. u = h + n + 1
        BY <2>11
      <4>2. Making(dataMemory, g, h, m, s, k, n, u, p, z, new)
        BY ONLY <1>5, <2>7, <2>8, <2>9, <2>10, <2>12, <3>2, <3>3, <3>4, <3>5, <4>1 DEF Making
      <4>3. z \in Seq(Int) /\ new \in TextType
        BY <3>3, <3>4
      <4> QED BY ONLY TextsLaid, <1>4, <4>2, <4>3, g \in Nat, h \in Nat, m \in Nat, k \in Nat,
             n \in Nat, u \in Nat, p \in Nat, TextMade
    <3> QED BY <3>6
  <2>15. Len(texts') = Len(texts) + 1
    BY <2>13 DEF TextsLaid
  <2> QED BY <1>3, <2>14, <2>15 DEF Made, s
<1>7. CASE ~Data!CanExtend(dataArena, texts[l], Data!TopOf(l), Len(s))
  <2>1. Data!NewText(Data!Bytes(l) \o s, [do |-> "join", left |-> l, right |-> r])
    BY <1>7 DEF Data!JoinText
  <2>2. Joined(Data!Bytes(l), s) \in Seq(Int)
    BY <1>3, <1>4 DEF Joined
  <2>3. Data!NewText(Joined(Data!Bytes(l), s), [do |-> "join", left |-> l, right |-> r])
    BY <2>1 DEF Joined
  <2> QED BY <2>2, <2>3, NewTextMade
<1> QED BY <1>6, <1>7

(* Cells i to j of a cut are a cut. *)
Inner(f, n, i, j, g, k) == 0 < i /\ i <= j + 1 /\ j <= n /\ g + 1 = f + i /\ k + i = j + 1

LEMMA CutOfCut ==
    ASSUME NEW m \in Seq(Seq(Int)), NEW b \in Nat, b < Len(m), NEW f \in Nat, NEW n \in Nat,
           f + n <= Len(m[b + 1]), NEW i \in Nat, NEW j \in Nat, NEW g \in Nat, NEW k \in Nat,
           Inner(f, n, i, j, g, k)
    PROVE  SubSeq(Cut(m, b, f, n), i, j) = Cut(m, b, g, k)
<1> 0 < i /\ i <= j + 1 /\ j <= n /\ g + 1 = f + i /\ k + i = j + 1
  BY DEF Inner
<1> DEFINE x == Cut(m, b, f, n)
<1>1. x \in Seq(Int) /\ Len(x) = n
  BY ReadsAreCuts
<1>2. \A h \in 1..n : x[h] = m[b + 1][f + h]
  BY DEF Cut
<1> HIDE DEF x
<1>3. SubSeq(x, i, j) = [h \in 1..k |-> x[i + h - 1]]
  <2>1. i \in 1..(n + 1) /\ j \in (i - 1)..n
    OBVIOUS
  <2> QED BY <1>1, <2>1
<1>4. ASSUME NEW h \in 1..k PROVE x[i + h - 1] = m[b + 1][g + h]
  <2>1. PICK o \in 1..n : o = i + h - 1
    OBVIOUS
  <2>2. f + o = g + h
    BY <2>1
  <2> QED BY <1>2, <2>1, <2>2
<1> QED BY <1>3, <1>4 DEF Cut, x

(* minyar_text_slice: whatever the cache returns has the bytes asked for.  *)
LEMMA SliceMade ==
    ASSUME TextsLaid, NEW t \in DOMAIN texts, NEW first \in Nat, NEW last \in Nat,
           Data!Slice(t, first, last)
    PROVE  /\ TextsLaid' /\ BytesKept
           /\ Data!BytesOf(dataMemory', texts'[answer'.result])
                  = SubSeq(Data!Bytes(t), first + 1, last)
           /\ answer'.do = "slice" /\ answer'.of = t
           /\ answer'.first = first /\ answer'.last = last
<1>1. /\ texts[t] \in TextType /\ TextLies(texts[t], dataMemory, dataArena)
      /\ DataMatches(dataMemory, dataArena) /\ texts \in Seq(TextType)
  BY DEF TextsLaid
<1>2. PICK b \in Nat, f \in Nat, n \in Nat : b = texts[t].block /\ f = texts[t].at /\ n = texts[t].size
  BY <1>1 DEF TextType
<1>3. Data!Bytes(t) = Cut(dataMemory, b, f, n)
  BY <1>1, <1>2, BytesAreCut DEF Data!Bytes
<1>4. first <= last /\ last <= n
  BY <1>2 DEF Data!Slice
<1>5. PICK g \in Nat, k \in Nat : g = f + first /\ k = last - first
  BY <1>4
<1>6. dataMemory \in Seq(Seq(Int)) /\ b < Len(dataMemory)
  BY <1>1, <1>2 DEF DataMatches, TextLies
<1>7. PICK c \in Nat : c = Len(dataMemory[b + 1]) /\ f + n < c
  <2>1. dataMemory[b + 1] \in Seq(Int)
    BY <1>6, ElementOfSeq
  <2>2. PICK q \in Nat : q = Len(dataMemory[b + 1])
    BY <2>1
  <2> QED BY <1>1, <1>2, <2>2 DEF TextLies
<1>8. f + n <= Len(dataMemory[b + 1]) /\ g + k <= Len(dataMemory[b + 1]) /\ g + k < c
      /\ g + k <= f + n
  BY ONLY <1>4, <1>5, <1>7, f \in Nat, n \in Nat, g \in Nat, k \in Nat, c \in Nat,
          first \in Nat, last \in Nat
<1>9. SubSeq(Data!Bytes(t), first + 1, last) = Cut(dataMemory, b, g, k)
  <2>1. SubSeq(Cut(dataMemory, b, f, n), first + 1, last) = Cut(dataMemory, b, g, k)
    <3>1. PICK o \in Nat : o = first + 1
      OBVIOUS
    <3>2. Inner(f, n, o, last, g, k)
      BY <1>4, <1>5, <3>1 DEF Inner
    <3>3. SubSeq(Cut(dataMemory, b, f, n), o, last) = Cut(dataMemory, b, g, k)
      BY ONLY <1>6, <1>8, <3>2, b \in Nat, f \in Nat, n \in Nat, g \in Nat,
         k \in Nat, o \in Nat, last \in Nat, CutOfCut
    <3> QED BY <3>1, <3>3
  <2> QED BY <1>3, <2>1
<1> DEFINE p == [block |-> texts[t].block, at |-> texts[t].at + first]
           s == Data!Read(dataMemory, p, last - first)
           new == Data!Text(p, last - first)
           result(q) == [do |-> "slice", of |-> t, first |-> first, last |-> last, result |-> q]
<1>10. s = Cut(dataMemory, b, g, k)
  <2>1. s = SubSeq(dataMemory[b + 1], g + 1, g + k)
    BY <1>2, <1>5, DataArithmetic DEF Read
  <2>2. SubSeq(dataMemory[b + 1], g + 1, g + k) = Cut(dataMemory, b, g, k)
    BY ONLY <1>6, <1>8, b \in Nat, g \in Nat, k \in Nat, ReadsAreCuts
  <2> QED BY <2>1, <2>2
<1>11. new \in TextType /\ new.block = b /\ new.at = g /\ new.size = k
  BY <1>2, <1>5 DEF Data!Text, TextType
<1>12. /\ dataArena' = dataArena /\ dataMemory' = dataMemory
       /\ \/ \E q : Data!Hit(q, s) /\ answer' = result(q) /\ texts' = texts
          \/ answer' = result(Len(texts) + 1) /\ texts' = Append(texts, new)
  BY DEF Data!Slice
<1> HIDE DEF p, s, new
<1>13. CASE \E q : Data!Hit(q, s) /\ answer' = result(q) /\ texts' = texts
  <2>1. PICK q : Data!Hit(q, s) /\ answer' = result(q) /\ texts' = texts
    BY <1>13
  <2>2. Data!BytesOf(dataMemory', texts'[q]) = s
    BY <1>12, <2>1 DEF Data!Hit, Data!Bytes
  <2>3. TextsLaid'
    BY <1>12, <2>1 DEF TextsLaid
  <2>4. BytesKept
    BY <1>12, <2>1 DEF BytesKept, Data!Bytes
  <2> QED BY <1>9, <1>10, <2>1, <2>2, <2>3, <2>4
<1>14. CASE answer' = result(Len(texts) + 1) /\ texts' = Append(texts, new)
  <2>1. TextLies(new, dataMemory, dataArena)
    <3>1. PICK u \in Nat : u = dataArena.used
      BY <1>1 DEF DataMatches, ArenaType
    <3>2. b = dataArena.block => dataArena.block = 0 \/ f + n < u
      BY <1>1, <1>2, <3>1 DEF TextLies
    <3>3. b = dataArena.block => dataArena.block = 0 \/ g + k < u
      BY ONLY <1>8, <3>2, f \in Nat, n \in Nat, g \in Nat, k \in Nat, u \in Nat
    <3> QED BY ONLY <1>6, <1>7, <1>8, <1>11, <3>1, <3>3 DEF TextLies
  <2>2. /\ texts' \in Seq(TextType) /\ texts'[Len(texts) + 1] = new
        /\ \A o \in DOMAIN texts : o \in DOMAIN texts' /\ texts'[o] = texts[o]
        /\ \A o \in DOMAIN texts' : o \in DOMAIN texts \/ texts'[o] = new
    BY <1>1, <1>11, <1>14
  <2>3. TextsLaid'
    BY <1>12, <2>1, <2>2 DEF TextsLaid
  <2>4. BytesKept
    BY <1>12, <2>2 DEF BytesKept, Data!Bytes
  <2>5. Data!BytesOf(dataMemory', new) = Cut(dataMemory, b, g, k)
    BY <1>1, <1>11, <1>12, <2>1, BytesAreCut
  <2> QED BY <1>9, <1>14, <2>2, <2>3, <2>4, <2>5
<1> QED BY <1>12, <1>13, <1>14

(* Other data in the arena. *)
LEMMA DataKeeps ==
    ASSUME Data!ArenaTextsAssumption, TextsLaid, Data!AllocateData(2, 2)
    PROVE  TextsLaid' /\ BytesKept /\ answer'.do = "other"
<1> DEFINE a == Allocate(dataArena, 2, 2, DataBlock)
           w == WithBlock(dataMemory, a.arena)
<1>1. dataArena' = a.arena /\ dataMemory' = w /\ texts' = texts /\ answer'.do = "other"
  BY DataArithmetic DEF Data!AllocateData
<1>2. DataMatches(dataMemory, dataArena) /\ DataBlock \in Nat
  BY DEF TextsLaid, Data!ArenaTextsAssumption
<1>3. /\ DataMatches(w, a.arena) /\ Gains(dataMemory, w)
      /\ a.block \in Nat /\ a.at \in Nat /\ a.block = a.arena.block /\ a.at + 2 = a.arena.used
      /\ dataArena.block <= a.block /\ (dataArena.block = a.block => dataArena.used <= a.at)
  <2>1. PICK n \in Nat : n = 2
    OBVIOUS
  <2>2. 2 \in {1, 2}
    OBVIOUS
  <2>3. a = Allocate(dataArena, n, 2, DataBlock)
    BY <2>1
  <2> HIDE DEF a
  <2>4. Allotted(dataMemory, dataArena, n, a)
    BY <1>2, <2>1, <2>2, <2>3, DataAllocated
  <2> QED BY <2>1, <2>4 DEF Allotted
<1> HIDE DEF a, w
<1>4. MovesOn(dataArena, dataArena')
  <2>1. PICK f \in Nat, q \in Nat : f = a.at /\ q = dataArena.used
    BY <1>2, <1>3 DEF DataMatches, ArenaType
  <2>2. a.arena.used = f + 2 /\ (dataArena.block = a.block => q <= f)
    BY <1>3, <2>1
  <2>3. dataArena.block = a.block => q <= f + 2
    BY ONLY <2>2, f \in Nat, q \in Nat
  <2> QED BY <1>1, <1>3, <2>1, <2>2, <2>3 DEF MovesOn
<1>5. ASSUME NEW t \in DOMAIN texts
      PROVE  /\ TextLies(texts[t], dataMemory', dataArena')
             /\ Data!BytesOf(dataMemory', texts'[t]) = Data!BytesOf(dataMemory, texts[t])
  <2>1. texts[t] \in TextType /\ TextLies(texts[t], dataMemory, dataArena)
    BY DEF TextsLaid
  <2>2. DataMatches(dataMemory', dataArena') /\ Gains(dataMemory, dataMemory')
    BY <1>1, <1>3
  <2>3. /\ TextLies(texts[t], dataMemory', dataArena')
        /\ Cut(dataMemory', texts[t].block, texts[t].at, texts[t].size)
               = Cut(dataMemory, texts[t].block, texts[t].at, texts[t].size)
    BY <1>2, <1>4, <2>1, <2>2, TextStays
  <2>4. Data!BytesOf(dataMemory, texts[t]) = Cut(dataMemory, texts[t].block, texts[t].at, texts[t].size)
    BY <1>2, <2>1, BytesAreCut
  <2>5. Data!BytesOf(dataMemory', texts[t]) = Cut(dataMemory', texts[t].block, texts[t].at, texts[t].size)
    BY <2>1, <2>2, <2>3, BytesAreCut
  <2> QED BY <1>1, <2>3, <2>4, <2>5
<1>6. TextsLaid'
  BY <1>1, <1>3, <1>5 DEF TextsLaid
<1> QED BY <1>1, <1>5, <1>6 DEF BytesKept, Data!Bytes

(* Joining something to the last join's result grows it in place.          *)
InPlace ==
    (answer.do = "join" /\ answer'.do = "join" /\ answer'.left = Len(texts)
        /\ texts[answer'.right].size <= dataArena.capacity - dataArena.used)
      => /\ texts'[Len(texts')].block = texts[Len(texts)].block
         /\ texts'[Len(texts')].at = texts[Len(texts)].at

LEMMA ChainedInPlace ==
    ASSUME TextsLaid, NEW l \in DOMAIN texts, NEW r \in DOMAIN texts, Data!JoinText(l, r),
           Newest(texts[l], dataArena), texts[r].size <= dataArena.capacity - dataArena.used
    PROVE  texts'[Len(texts')].block = texts[l].block /\ texts'[Len(texts')].at = texts[l].at
<1>1. /\ texts[r] \in TextType /\ TextLies(texts[r], dataMemory, dataArena)
      /\ DataMatches(dataMemory, dataArena) /\ texts \in Seq(TextType) /\ texts[l] \in TextType
  BY DEF TextsLaid
<1>2. Len(Data!Bytes(r)) = texts[r].size
  BY <1>1, BytesAreCut DEF Data!Bytes
<1>3. PICK h \in Nat, m \in Nat, q \in Nat : h = texts[l].at /\ m = texts[l].size /\ q = dataArena.used
  BY <1>1 DEF TextType, DataMatches, ArenaType
<1>4. dataArena.block > 0 /\ texts[l].block = dataArena.block /\ h + m + 1 = q
  BY <1>3 DEF Newest
<1>5. h + (m + 1) = q
  BY ONLY <1>4, h \in Nat, m \in Nat, q \in Nat
<1>6. CanExtend(dataArena, texts[l], Data!TopOf(l), Len(Data!Bytes(r)))
  BY <1>2, <1>3, <1>4, <1>5 DEF CanExtend, Data!TopOf
<1>7. Data!CanExtend(dataArena, texts[l], Data!TopOf(l), Len(Data!Bytes(r)))
  BY <1>6, DataArithmetic
<1>8. texts' = Append(texts, Data!Text(texts[l], texts[l].size + Len(Data!Bytes(r))))
  BY <1>7 DEF Data!JoinText
<1>9. texts' = Append(texts, [block |-> texts[l].block, at |-> texts[l].at,
                              size |-> texts[l].size + Len(Data!Bytes(r))])
  BY <1>8 DEF Data!Text
<1> QED BY <1>1, <1>9

(* The inductive invariant. *)
TextsSound ==
    /\ TextsLaid
    /\ answer.do = "join" => texts # <<>> /\ Newest(texts[Len(texts)], dataArena)
    /\ Data!ResultsTrue

LEMMA JoinSound ==
    ASSUME Data!ArenaTextsAssumption, TextsSound, NEW l \in DOMAIN texts, NEW r \in DOMAIN texts,
           Data!JoinText(l, r)
    PROVE  TextsSound' /\ BytesKept /\ InPlace
<1>1. Made(Joined(Data!Bytes(l), Data!Bytes(r)))
  BY JoinMade DEF TextsSound
<1>2. /\ TextsLaid /\ TextsLaid' /\ BytesKept
      /\ Len(texts') = Len(texts) + 1 /\ Newest(texts'[Len(texts')], dataArena')
      /\ Data!BytesOf(dataMemory', texts'[Len(texts')]) = Joined(Data!Bytes(l), Data!Bytes(r))
  BY <1>1 DEF Made, TextsSound
<1>3. answer' = [do |-> "join", left |-> l, right |-> r]
  BY DEF Data!JoinText, Data!NewText
<1>4. texts' # <<>>
  <2>1. Len(texts) \in Nat
    BY <1>2 DEF TextsLaid
  <2> QED BY <1>2, <2>1
<1>5. Data!ResultsTrue'
  <2>1. Data!Bytes(l)' = Data!Bytes(l) /\ Data!Bytes(r)' = Data!Bytes(r)
    BY <1>2 DEF BytesKept
  <2>2. Data!Bytes(Len(texts))' = Joined(Data!Bytes(l)', Data!Bytes(r)')
    BY <1>2, <2>1 DEF Data!Bytes
  <2> QED BY <1>3, <2>2 DEF Data!ResultsTrue, Joined
<1>6. TextsSound'
  BY <1>2, <1>4, <1>5 DEF TextsSound
<1>7. InPlace
  <2> SUFFICES ASSUME answer.do = "join", l = Len(texts),
                      texts[r].size <= dataArena.capacity - dataArena.used
               PROVE  /\ texts'[Len(texts')].block = texts[Len(texts)].block
                      /\ texts'[Len(texts')].at = texts[Len(texts)].at
    BY <1>3 DEF InPlace
  <2>1. Newest(texts[l], dataArena)
    BY DEF TextsSound
  <2> QED BY <1>2, <2>1, ChainedInPlace
<1> QED BY <1>2, <1>6, <1>7

LEMMA SliceSound ==
    ASSUME TextsSound, NEW t \in DOMAIN texts, NEW first \in 0..texts[t].size,
           NEW last \in 0..texts[t].size, Data!Slice(t, first, last)
    PROVE  TextsSound' /\ BytesKept /\ InPlace
<1>1. first \in Nat /\ last \in Nat
  BY DEF TextsSound, TextsLaid, TextType
<1>2. /\ TextsLaid' /\ BytesKept
      /\ Data!BytesOf(dataMemory', texts'[answer'.result]) = SubSeq(Data!Bytes(t), first + 1, last)
      /\ answer'.do = "slice" /\ answer'.of = t /\ answer'.first = first /\ answer'.last = last
  BY <1>1, SliceMade DEF TextsSound
<1>3. Data!ResultsTrue'
  <2>1. Data!Bytes(t)' = Data!Bytes(t)
    BY <1>2 DEF BytesKept
  <2> QED BY <1>2, <2>1 DEF Data!ResultsTrue, Data!Bytes
<1> QED BY <1>2, <1>3 DEF TextsSound, InPlace

LEMMA DataSound ==
    ASSUME Data!ArenaTextsAssumption, TextsSound, Data!AllocateData(2, 2)
    PROVE  TextsSound' /\ BytesKept /\ InPlace
<1>1. TextsLaid' /\ BytesKept /\ answer'.do = "other"
  BY DataKeeps DEF TextsSound
<1> QED BY <1>1 DEF TextsSound, InPlace, Data!ResultsTrue

LEMMA DataStarts == ASSUME Data!ArenaTextsAssumption, Data!Init PROVE TextsSound
<1>1. /\ dataArena = [block |-> 0, used |-> 0, capacity |-> 0]
      /\ dataMemory = <<LiteralData>> /\ texts = DataLiterals /\ answer.do = "other"
  BY DataArithmetic DEF Data!Init, NewArena
<1> DEFINE R == [block : {0}, at : Nat, size : Nat]
<1>2. /\ LiteralData \in Seq(Int) /\ DataLiterals \in Seq(R)
      /\ \A t \in DOMAIN DataLiterals : DataLiterals[t].at + DataLiterals[t].size < Len(LiteralData)
  BY DEF Data!ArenaTextsAssumption
<1>3. R \subseteq TextType /\ \A x \in R : x.block = 0
  BY DEF TextType
<1> HIDE DEF R
<1>4. DataMatches(dataMemory, dataArena)
  BY <1>1, <1>2 DEF DataMatches, ArenaType
<1>5. \A t \in DOMAIN DataLiterals : DataLiterals[t] \in R
  BY <1>2
<1>6. texts \in Seq(TextType)
  <2>1. PICK n \in Nat : DataLiterals \in [1..n -> R]
    BY <1>2, SeqDef
  <2>2. DataLiterals \in [1..n -> TextType]
    BY <1>3, <2>1
  <2> QED BY <1>1, <2>2, SeqDef
<1>7. ASSUME NEW t \in DOMAIN texts PROVE TextLies(texts[t], dataMemory, dataArena)
  <2>1. texts[t].block = 0 /\ texts[t].at + texts[t].size < Len(LiteralData)
    BY <1>1, <1>2, <1>3, <1>5
  <2>2. Len(dataMemory) = 1 /\ dataMemory[0 + 1] = LiteralData
    BY <1>1
  <2> QED BY <1>1, <2>1, <2>2 DEF TextLies
<1> QED BY <1>1, <1>4, <1>6, <1>7 DEF TextsSound, TextsLaid, Data!ResultsTrue

LEMMA TextsStep ==
    ASSUME Data!ArenaTextsAssumption, TextsSound, [Data!Next]_Data!vars
    PROVE  TextsSound' /\ (UNCHANGED Data!vars \/ (BytesKept /\ InPlace))
<1>1. CASE UNCHANGED Data!vars
  <2>1. /\ dataArena' = dataArena /\ dataMemory' = dataMemory /\ texts' = texts
        /\ answer' = answer
    BY <1>1 DEF Data!vars
  <2>2. TextsLaid' /\ Data!ResultsTrue'
    BY <2>1 DEF TextsSound, TextsLaid, Data!ResultsTrue, Data!Bytes
  <2> QED BY <1>1, <2>1, <2>2 DEF TextsSound
<1>2. ASSUME NEW l \in DOMAIN texts, NEW r \in DOMAIN texts, Data!JoinText(l, r)
      PROVE  TextsSound' /\ BytesKept /\ InPlace
  BY <1>2, JoinSound
<1>3. ASSUME NEW t \in DOMAIN texts, NEW first \in 0..texts[t].size,
             NEW last \in 0..texts[t].size, Data!Slice(t, first, last)
      PROVE  TextsSound' /\ BytesKept /\ InPlace
  BY <1>3, SliceSound
<1>4. CASE Data!AllocateData(2, 2)
  BY <1>4, DataSound
<1> QED BY <1>1, <1>2, <1>3, <1>4 DEF Data!Next, Data!Made

(* However Texts share the data arena: each lies in a block with its       *)
(* terminator, every join returns the concatenation and every slice the    *)
(* bytes asked for, whatever the cache returns (minyar_join_text,          *)
(* minyar_text_slice).                                                     *)
THEOREM TextsAreTrue == MemorySpec => []ResultsTrue
<1>1. TextsSound => ResultsTrue
  <2> SUFFICES ASSUME TextsSound, NEW t \in DOMAIN texts
               PROVE  /\ texts[t].block \in 0..(Len(dataMemory) - 1)
                      /\ texts[t].at + texts[t].size < Len(dataMemory[texts[t].block + 1])
    BY DEF TextsSound, ResultsTrue, Data!TypeOK, Data!Made
  <2>1. texts[t] \in TextType /\ TextLies(texts[t], dataMemory, dataArena)
    BY DEF TextsSound, TextsLaid
  <2>2. Len(dataMemory) \in Nat /\ texts[t].block \in Nat
    BY <2>1 DEF TextsSound, TextsLaid, DataMatches, TextType
  <2> QED BY <2>1, <2>2 DEF TextLies
<1>2. TextsSound /\ [Data!Next]_Data!vars => TextsSound'
  BY TextsStep, DataAssumption
<1>3. Data!Init => TextsSound
  BY DataStarts, DataAssumption
<1> QED BY <1>1, <1>2, <1>3, PartsOfMemory, PTL DEF Data!Spec

(* No step changes the bytes of a Text made earlier, and joining to the    *)
(* last join's result copies no byte of it while its block has room        *)
(* (minyar_join_text, arena_extend).                                       *)
THEOREM TextsKeepTheirBytes == MemorySpec => TextsKeepBytes
<1>1. TextsSound /\ [Data!Next]_Data!vars => TextsSound'
  BY TextsStep, DataAssumption
<1>2. TextsSound /\ [Data!Next]_Data!vars
        => [\A t \in Data!Made : Data!Bytes(t)' = Data!Bytes(t)]_Data!vars
  BY TextsStep, DataAssumption DEF BytesKept, Data!Made
<1>3. TextsSound /\ [Data!Next]_Data!vars
        => [(answer.do = "join" /\ answer'.do = "join" /\ answer'.left = Len(texts)
              /\ texts[answer'.right].size <= dataArena.capacity - dataArena.used)
            => /\ texts'[Len(texts')].block = texts[Len(texts)].block
               /\ texts'[Len(texts')].at = texts[Len(texts)].at]_Data!vars
  BY TextsStep, DataAssumption DEF InPlace
<1>4. Data!Init => TextsSound
  BY DataStarts, DataAssumption
<1> QED BY <1>1, <1>2, <1>3, <1>4, PartsOfMemory, PTL
        DEF Data!Spec, TextsKeepBytes, Data!TextsKeepBytes, Data!ChainsStayInPlace

-----------------------------------------------------------------------------
(* Texts: the bytes of Characters. *)
(* Division by 64, the radix of continuation bytes. *)
LEMMA Radix ==
    ASSUME NEW n \in Nat
    PROVE  /\ n = 64 * (n \div 64) + (n % 64)
           /\ n % 64 \in 0..63
           /\ n \div 64 \in Nat
           /\ n \div 1 = n
           /\ n \div 4096 = (n \div 64) \div 64
           /\ n \div 262144 = ((n \div 64) \div 64) \div 64
  BY SMT

(* A Character of one byte: the byte is the code point. *)
LEMMA OneByteTrip ==
    ASSUME NEW c \in Nat, c < 128
    PROVE  /\ EncodeCharacter(c) \in Seq(Byte) \ {<<>>}
           /\ DecodeCharacter(EncodeCharacter(c)) = Decoded(Len(EncodeCharacter(c)), c)
<1> DEFINE s == <<c>>
<1>1. EncodeCharacter(c) = s
  BY DEF EncodeCharacter
<1>2. s \in Seq(Byte) \ {<<>>} /\ Len(s) = 1 /\ s[1] = c
  BY SMT DEF Byte
<1> HIDE DEF s
<1>3. DecodeCharacter(s) = Decoded(1, c)
  BY <1>2, SMT DEF DecodeCharacter
<1> QED BY <1>1, <1>2, <1>3

(* A Character of two bytes. *)
LEMMA TwoByteTrip ==
    ASSUME NEW c \in Nat, ~(c < 128), c < 2048
    PROVE  /\ EncodeCharacter(c) \in Seq(Byte) \ {<<>>}
           /\ DecodeCharacter(EncodeCharacter(c)) = Decoded(Len(EncodeCharacter(c)), c)
<1> DEFINE a == c \div 64  b == c % 64
           s == <<192 + a, 128 + b>>
<1>1. EncodeCharacter(c) = s
  BY Radix, SMT DEF EncodeCharacter, Tail6
<1>2. c = a * 64 + b /\ a \in 2..31 /\ b \in 0..63
  BY SMT
<1> HIDE DEF a, b
<1>3. s \in Seq(Byte) \ {<<>>} /\ Len(s) = 2 /\ s[1] = 192 + a /\ s[2] = 128 + b
  BY <1>2, SMT DEF Byte
<1> HIDE DEF s
<1>4. ~(s[1] < 128) /\ s[1] \in 194..223 /\ s[1] % 32 = a
  BY <1>2, <1>3, SMT
<1>5. Continuation(s[2]) /\ Payload(s[2]) = b
  BY <1>2, <1>3, SMT DEF Continuation, Payload
<1>6. TwoBytes(s)
  BY <1>3, <1>4, <1>5, SMT DEF TwoBytes
<1>7. DecodeCharacter(s) = Decoded(2, c)
  BY <1>2, <1>4, <1>5, <1>6, SMT DEF DecodeCharacter
<1> QED BY <1>1, <1>3, <1>7

(* A Character of three bytes: since it is neither small nor a surrogate,  *)
(* the checks on the second byte pass.                                     *)
LEMMA ThreeByteTrip ==
    ASSUME NEW c \in Nat, Scalar(c), ~(c < 2048), c < 65536
    PROVE  /\ EncodeCharacter(c) \in Seq(Byte) \ {<<>>}
           /\ DecodeCharacter(EncodeCharacter(c)) = Decoded(Len(EncodeCharacter(c)), c)
<1> DEFINE a == c \div 4096  b == (c \div 64) % 64  d == c % 64
           s == <<224 + a, 128 + b, 128 + d>>
<1>1. EncodeCharacter(c) = s
  BY Radix, SMT DEF EncodeCharacter, Tail6
<1>2. c = a * 4096 + b * 64 + d /\ a \in 0..15 /\ b \in 0..63 /\ d \in 0..63
  BY SMT
<1> HIDE DEF a, b, d
<1>3. (a = 0 => b >= 32) /\ (a = 13 => b < 32)
  BY <1>2, SMT DEF Scalar
<1>4. /\ s \in Seq(Byte) \ {<<>>} /\ Len(s) = 3
      /\ s[1] = 224 + a /\ s[2] = 128 + b /\ s[3] = 128 + d
  BY <1>2, SMT DEF Byte
<1> HIDE DEF s
<1>5. ~(s[1] < 128) /\ s[1] \notin 194..223 /\ s[1] \div 16 = 14 /\ s[1] % 16 = a
  BY <1>2, <1>4, SMT
<1>6. /\ Continuation(s[2]) /\ Payload(s[2]) = b
      /\ Continuation(s[3]) /\ Payload(s[3]) = d
  BY <1>2, <1>4, SMT DEF Continuation, Payload
<1>7. ThreeBytes(s) /\ ~TwoBytes(s)
  BY <1>2, <1>3, <1>4, <1>5, <1>6, SMT DEF ThreeBytes, TwoBytes
<1>8. DecodeCharacter(s) = Decoded(3, c)
  BY <1>2, <1>5, <1>6, <1>7, SMT DEF DecodeCharacter
<1> QED BY <1>1, <1>4, <1>8

(* A Character of four bytes, within the range of Unicode. *)
LEMMA FourByteTrip ==
    ASSUME NEW c \in Nat, Scalar(c), ~(c < 65536)
    PROVE  /\ EncodeCharacter(c) \in Seq(Byte) \ {<<>>}
           /\ DecodeCharacter(EncodeCharacter(c)) = Decoded(Len(EncodeCharacter(c)), c)
<1> DEFINE p == c \div 64  q == p \div 64
           a == q \div 64  b == q % 64  d == p % 64  e == c % 64
           s == <<240 + a, 128 + b, 128 + d, 128 + e>>
<1>0. c \div 262144 = a /\ c \div 4096 = q /\ c \div 1 = c
  BY Radix
<1>1. EncodeCharacter(c) = s
  BY <1>0, ~(c < 128), ~(c < 2048), SMT DEF EncodeCharacter, Tail6
<1>2. /\ c = 64 * p + e /\ p \in Nat /\ e \in 0..63
      /\ p = 64 * q + d /\ q \in Nat /\ d \in 0..63
      /\ q = 64 * a + b /\ a \in Nat /\ b \in 0..63
  BY SMT
<1> HIDE DEF p, q, a, b, d, e
<1>3. /\ c = a * 262144 + b * 4096 + d * 64 + e /\ a \in 0..4
      /\ a = 0 => b >= 16
      /\ a = 4 => b < 16
  BY <1>2, SMT DEF Scalar
<1>4. /\ s \in Seq(Byte) \ {<<>>} /\ Len(s) = 4
      /\ s[1] = 240 + a /\ s[2] = 128 + b /\ s[3] = 128 + d /\ s[4] = 128 + e
  BY <1>2, <1>3, SMT DEF Byte
<1> HIDE DEF s
<1>5. /\ ~(s[1] < 128) /\ s[1] \in 240..244 /\ s[1] % 8 = a
      /\ s[1] \notin 194..223 /\ s[1] \div 16 # 14
  BY <1>3, <1>4, SMT
<1>6. /\ Continuation(s[2]) /\ Payload(s[2]) = b
      /\ Continuation(s[3]) /\ Payload(s[3]) = d
      /\ Continuation(s[4]) /\ Payload(s[4]) = e
  BY <1>2, <1>4, SMT DEF Continuation, Payload
<1>7. FourBytes(s) /\ ~TwoBytes(s) /\ ~ThreeBytes(s)
  BY <1>2, <1>3, <1>4, <1>5, <1>6, SMT DEF FourBytes, ThreeBytes, TwoBytes
<1>8. DecodeCharacter(s) = Decoded(4, c)
  BY <1>2, <1>3, <1>5, <1>6, <1>7, SMT DEF DecodeCharacter
<1> QED BY <1>1, <1>4, <1>8

(* What encode_character writes, and what decode_character makes of it,    *)
(* for every Character.                                                    *)
LEMMA EncodeDecode ==
    ASSUME NEW c \in Nat, Scalar(c)
    PROVE  /\ EncodeCharacter(c) \in Seq(Byte) \ {<<>>}
           /\ DecodeCharacter(EncodeCharacter(c)) = Decoded(Len(EncodeCharacter(c)), c)
<1>1. CASE c < 128
  BY <1>1, OneByteTrip
<1>2. CASE ~(c < 128) /\ c < 2048
  BY <1>2, TwoByteTrip
<1>3. CASE ~(c < 2048) /\ c < 65536
  BY <1>3, ThreeByteTrip
<1>4. CASE ~(c < 65536)
  BY <1>4, FourByteTrip
<1> QED BY <1>1, <1>2, <1>3, <1>4, SMT

(* A byte is a number. *)
LEMMA ByteIsNumber == Byte \subseteq Nat
  BY SMT DEF Byte

(* A continuation byte is 128 and six bits. *)
LEMMA SixBits ==
    ASSUME NEW b \in Byte, Continuation(b)
    PROVE  Payload(b) \in 0..63 /\ b = 128 + Payload(b)
  BY SMT DEF Byte, Continuation, Payload

(* The first byte of a Character is its mark and the leading bits. *)
LEMMA LeadingBits ==
    ASSUME NEW b \in Nat
    PROVE  /\ b \in 194..223 => b % 32 \in 2..31 /\ b = 192 + (b % 32)
           /\ b \div 16 = 14 => b % 16 \in 0..15 /\ b = 224 + (b % 16)
           /\ b \in 240..244 => b % 8 \in 0..4 /\ b = 240 + (b % 8)
  BY SMT

(* The number with the given digits, in radix 64. *)
Value2(a, b) == a * 64 + b
Value3(a, b, d) == a * 4096 + b * 64 + d
Value4(a, b, d, e) == a * 262144 + b * 4096 + d * 64 + e

(* Digits that the checks on the second byte let through. *)
Digits3(a, b, d) ==
    /\ a \in 0..15 /\ b \in 0..63 /\ d \in 0..63
    /\ a = 0 => b >= 32
    /\ a = 13 => b < 32
Digits4(a, b, d, e) ==
    /\ a \in 0..4 /\ b \in 0..63 /\ d \in 0..63 /\ e \in 0..63
    /\ a = 0 => b >= 16
    /\ a = 4 => b < 16

(* Two bytes that are accepted are the encoding of what they are read as.  *)
LEMMA TwoBytesStrict ==
    ASSUME NEW a \in 2..31, NEW b \in 0..63, NEW c \in Nat, c = Value2(a, b)
    PROVE  Scalar(c) /\ EncodeCharacter(c) = <<192 + a, 128 + b>>
<1>1. c = 64 * a + b /\ ~(c < 128) /\ c < 2048
  BY SMT DEF Value2
<1>2. c \div 64 = a /\ c % 64 = b /\ c \div 1 = c
  BY <1>1, SMT
<1> QED BY <1>1, <1>2, SMT DEF EncodeCharacter, Tail6, Scalar

(* Three accepted bytes: the checks on the second one exclude smaller      *)
(* Characters and surrogates.                                              *)
LEMMA ThreeBytesStrict ==
    ASSUME NEW a, NEW b, NEW d, Digits3(a, b, d)
    PROVE  /\ Scalar(Value3(a, b, d))
           /\ EncodeCharacter(Value3(a, b, d)) = <<224 + a, 128 + b, 128 + d>>
<1> DEFINE c == Value3(a, b, d)  p == 64 * a + b
<1> USE DEF Digits3
<1>0. c \in Nat
  BY SMT DEF Value3
<1>1. c = 64 * p + d /\ p \in Nat
  BY SMT DEF Value3
<1>2. Scalar(c) /\ ~(c < 128) /\ ~(c < 2048) /\ c < 65536
  BY SMT DEF Scalar, Value3
<1>3. p \div 64 = a /\ p % 64 = b
  BY SMT
<1> HIDE DEF c, p
<1>4. c \div 64 = p /\ c % 64 = d
  BY <1>0, <1>1, SMT
<1>5. c \div 4096 = a /\ c \div 1 = c
  BY <1>0, <1>3, <1>4, Radix, SMT
<1>6. EncodeCharacter(c) = <<224 + a, 128 + b, 128 + d>>
  BY <1>2, <1>3, <1>4, <1>5, SMT DEF EncodeCharacter, Tail6
<1> QED BY <1>2, <1>6, SMT DEF c

(* Four accepted bytes: the checks on the second one exclude smaller       *)
(* Characters and numbers above the range of Unicode.                      *)
LEMMA FourBytesStrict ==
    ASSUME NEW a, NEW b, NEW d, NEW e, Digits4(a, b, d, e)
    PROVE  /\ Scalar(Value4(a, b, d, e))
           /\ EncodeCharacter(Value4(a, b, d, e)) = <<240 + a, 128 + b, 128 + d, 128 + e>>
<1> DEFINE c == Value4(a, b, d, e)  q == 64 * a + b  p == 64 * q + d
<1> USE DEF Digits4
<1>0. c \in Nat
  BY SMT DEF Value4
<1>1. c = 64 * p + e /\ p \in Nat /\ q \in Nat
  BY SMT DEF Value4
<1>2. Scalar(c) /\ ~(c < 128) /\ ~(c < 2048) /\ ~(c < 65536)
  BY SMT DEF Scalar, Value4
<1>3. q \div 64 = a /\ q % 64 = b
  BY SMT
<1>4. p \div 64 = q /\ p % 64 = d
  BY <1>1, SMT
<1> HIDE DEF c, p, q
<1>5. c \div 64 = p /\ c % 64 = e
  BY <1>0, <1>1, SMT
<1>6. c \div 262144 = a /\ c \div 4096 = q /\ c \div 1 = c
  BY <1>0, <1>3, <1>4, <1>5, Radix, SMT
<1>7. EncodeCharacter(c) = <<240 + a, 128 + b, 128 + d, 128 + e>>
  BY <1>2, <1>3, <1>4, <1>5, <1>6, SMT DEF EncodeCharacter, Tail6
<1> QED BY <1>2, <1>7, SMT DEF c

(* What it takes for the bytes s to be the encoding of c, followed by      *)
(* whatever is next.                                                       *)
Spells(s, d) ==
    LET e == EncodeCharacter(d.character) IN
    /\ Scalar(d.character)
    /\ Len(e) = d.width
    /\ d.width <= Len(s)
    /\ \A i \in 1..d.width : e[i] = s[i]

(* Whatever decode_character accepts is an encoding.                       *)
LEMMA DecodeStrict ==
    ASSUME NEW s \in Seq(Byte), s # <<>>, DecodeCharacter(s).width > 0
    PROVE  Spells(s, DecodeCharacter(s))
<1> DEFINE d == DecodeCharacter(s)
<1>0. Len(s) \in Nat /\ Len(s) >= 1 /\ \A i \in 1..Len(s) : s[i] \in Byte
  <2>1. Len(s) \in Nat /\ \A i \in 1..Len(s) : s[i] \in Byte
    BY SMT
  <2>2. Len(s) # 0
    BY EmptySeq
  <2> QED BY <2>1, <2>2, SMT
<1>a. 1 \in 1..Len(s)
  BY <1>0, SMT
<1>b. s[1] \in Nat
  BY <1>0, <1>a, ByteIsNumber
<1>1. CASE s[1] < 128
  <2>1. s[1] \in Nat /\ d = Decoded(1, s[1])
    BY <1>b, <1>1, SMT DEF DecodeCharacter
  <2>2. EncodeCharacter(s[1]) = <<s[1]>> /\ Scalar(s[1])
    BY <2>1, <1>1, SMT DEF EncodeCharacter, Scalar
  <2> HIDE DEF d
  <2>3. Spells(s, d)
    BY <1>0, <2>1, <2>2, SMT DEF Spells, Decoded
  <2> QED BY <2>3 DEF d
<1>2. CASE ~(s[1] < 128) /\ TwoBytes(s)
  <2> DEFINE a == s[1] % 32  b == Payload(s[2])  c == Value2(a, b)
  <2>1. d = Decoded(2, c)
    BY <1>2, SMT DEF DecodeCharacter, Value2
  <2>2. Len(s) >= 2 /\ s[1] \in Nat /\ s[2] \in Byte /\ s[1] \in 194..223 /\ Continuation(s[2])
    BY <1>0, <1>b, <1>2, SMT DEF TwoBytes
  <2>3. b \in 0..63 /\ s[2] = 128 + b
    BY <2>2, SixBits
  <2>4. a \in 2..31 /\ s[1] = 192 + a
    BY <2>2, LeadingBits
  <2> HIDE DEF a, b, d
  <2>5. c \in Nat
    BY <2>3, <2>4, SMT DEF Value2
  <2>6. Scalar(c) /\ EncodeCharacter(c) = <<192 + a, 128 + b>>
    <3>1. a \in 2..31 /\ b \in 0..63 /\ c \in Nat /\ c = Value2(a, b)
      BY <2>3, <2>4, <2>5
    <3> HIDE DEF c
    <3> QED BY ONLY <3>1, TwoBytesStrict, ZenonT(60)
  <2> HIDE DEF c
  <2>7. Spells(s, d)
    BY <1>0, <2>1, <2>2, <2>3, <2>4, <2>6, SMT DEF Spells, Decoded
  <2> QED BY <2>7 DEF d
<1>3. CASE ~(s[1] < 128) /\ ~TwoBytes(s) /\ ThreeBytes(s)
  <2> DEFINE a == s[1] % 16  b == Payload(s[2])  e == Payload(s[3])
             c == Value3(a, b, e)
  <2>1. d = Decoded(3, c)
    BY <1>3, SMT DEF DecodeCharacter, Value3
  <2>2. /\ Len(s) >= 3 /\ s[1] \in Nat /\ s[2] \in Byte /\ s[3] \in Byte
        /\ s[1] \div 16 = 14 /\ Continuation(s[2]) /\ Continuation(s[3])
        /\ s[1] = 224 => s[2] >= 160
        /\ s[1] = 237 => s[2] < 160
    BY <1>0, <1>b, <1>3, SMT DEF ThreeBytes
  <2>3. b \in 0..63 /\ s[2] = 128 + b /\ e \in 0..63 /\ s[3] = 128 + e
    BY <2>2, SixBits
  <2>4. a \in 0..15 /\ s[1] = 224 + a
    BY <2>2, LeadingBits
  <2> HIDE DEF a, b, e, d
  <2>5. Digits3(a, b, e)
    BY <2>2, <2>3, <2>4, SMT DEF Digits3
  <2>6. Scalar(c) /\ EncodeCharacter(c) = <<224 + a, 128 + b, 128 + e>>
    BY <2>5, ThreeBytesStrict
  <2> HIDE DEF c
  <2>7. Spells(s, d)
    BY <1>0, <2>1, <2>2, <2>3, <2>4, <2>6, SMT DEF Spells, Decoded
  <2> QED BY <2>7, SMT DEF d
<1>4. CASE ~(s[1] < 128) /\ ~TwoBytes(s) /\ ~ThreeBytes(s) /\ FourBytes(s)
  <2> DEFINE a == s[1] % 8  b == Payload(s[2])  e == Payload(s[3])  f == Payload(s[4])
             c == Value4(a, b, e, f)
  <2>1. d = Decoded(4, c)
    BY <1>4, SMT DEF DecodeCharacter, Value4
  <2>2. /\ Len(s) >= 4 /\ s[1] \in Nat /\ s[2] \in Byte /\ s[3] \in Byte /\ s[4] \in Byte
        /\ s[1] \in 240..244
        /\ Continuation(s[2]) /\ Continuation(s[3]) /\ Continuation(s[4])
        /\ s[1] = 240 => s[2] >= 144
        /\ s[1] = 244 => s[2] < 144
    BY <1>0, <1>b, <1>4, SMT DEF FourBytes
  <2>3. /\ b \in 0..63 /\ s[2] = 128 + b /\ e \in 0..63 /\ s[3] = 128 + e
        /\ f \in 0..63 /\ s[4] = 128 + f
    BY <2>2, SixBits
  <2>4. a \in 0..4 /\ s[1] = 240 + a
    BY <2>2, LeadingBits
  <2> HIDE DEF a, b, e, f, d
  <2>5. Digits4(a, b, e, f)
    BY <2>2, <2>3, <2>4, SMT DEF Digits4
  <2>6. Scalar(c) /\ EncodeCharacter(c) = <<240 + a, 128 + b, 128 + e, 128 + f>>
    BY <2>5, FourBytesStrict
  <2> HIDE DEF c
  <2>7. Spells(s, d)
    BY <1>0, <2>1, <2>2, <2>3, <2>4, <2>6, SMT DEF Spells, Decoded
  <2> QED BY <2>7, SMT DEF d
<1>5. CASE ~(s[1] < 128) /\ ~TwoBytes(s) /\ ~ThreeBytes(s) /\ ~FourBytes(s)
  <2>1. d.width = 0
    BY <1>5, SMT DEF DecodeCharacter, Invalid, Decoded
  <2> QED BY <2>1, SMT
<1> QED BY <1>1, <1>2, <1>3, <1>4, <1>5
-----------------------------------------------------------------------------
(* The Codec converts with the operators of Utf8. *)
LEMMA CodecConverts ==
  /\ Codec!Byte = Byte
  /\ \A c : Codec!Scalar(c) <=> Scalar(c)
  /\ \A s : Codec!DecodeCharacter(s) = DecodeCharacter(s)
  /\ \A c : Codec!EncodeCharacter(c) = EncodeCharacter(c)
  /\ \A w, c : Codec!Decoded(w, c) = Decoded(w, c)
BY DEF Codec!Byte, Byte, Codec!Scalar, Scalar, Codec!DecodeCharacter, DecodeCharacter,
       Codec!EncodeCharacter, EncodeCharacter, Codec!Decoded, Decoded, Codec!Invalid, Invalid,
       Codec!TwoBytes, TwoBytes, Codec!ThreeBytes, ThreeBytes, Codec!FourBytes, FourBytes,
       Codec!Continuation, Continuation, Codec!Payload, Payload, Codec!Tail6, Tail6

CodecStates == part = "codec" => Codec!TypeOK

(* A Text is never empty bytes and a Character is a scalar value: what     *)
(* character_at returns can be given to minyar_character_text again.       *)
THEOREM CodecTypeCorrect == TextsSpec => []CodecStates
<1>1. TextsInit => CodecStates
  BY CodecAssumption, CodecConverts
     DEF Codec!InputAssumption, Codec!CharacterAssumption, TextsInit, FirstState, CodecStates,
         Codec!Init, Codec!TypeOK, Scalar
<1>2. CodecStates /\ [TextsNext]_<<part, memoryVars, textsVars>> => CodecStates'
  <2> SUFFICES ASSUME CodecStates, [TextsNext]_<<part, memoryVars, textsVars>>, part' = "codec"
               PROVE  Codec!TypeOK'
    BY DEF CodecStates
  <2>1. CASE CodecPart /\ Codec!CharacterAt
    <3>1. Codec!TypeOK
      BY <2>1 DEF CodecStates, CodecPart
    <3>2. Spells(bytes, DecodeCharacter(bytes))
      BY <2>1, <3>1, CodecConverts, DecodeStrict, SMT DEF Codec!TypeOK, Codec!CharacterAt
    <3> QED BY <2>1, <3>1, <3>2, CodecConverts DEF Codec!TypeOK, Codec!CharacterAt, Spells
  <2>2. CASE CodecPart /\ Codec!CharacterText
    <3>1. Codec!TypeOK
      BY <2>2 DEF CodecStates, CodecPart
    <3>2. character \in Nat /\ Scalar(character)
      BY <3>1, CodecConverts, SMT DEF Codec!TypeOK, Scalar
    <3> QED BY <2>2, <3>1, <3>2, CodecConverts, EncodeDecode DEF Codec!TypeOK, Codec!CharacterText
  <2>3. CASE UNCHANGED <<part, codecVars>>
    BY <2>3 DEF CodecStates, Codec!TypeOK, codecVars
  <2>4. \/ CodecPart /\ (Codec!CharacterAt \/ Codec!CharacterText)
        \/ UNCHANGED <<part, codecVars>>
    BY DEF TextsNext, IndexPart, CodecPart, Codec!Next, textsVars
  <2> QED BY <2>1, <2>2, <2>3, <2>4
<1> QED BY <1>1, <1>2, PTL DEF TextsSpec

(* For every Character and all bytes: reading undoes writing, and bytes    *)
(* that are no encoding are refused.                                       *)
THEOREM CodecIsExact == TextsSpec => []CodecExact
<1>1. Codec!TypeOK => Codec!EncodingIsRead
  <2> SUFFICES ASSUME Codec!TypeOK PROVE Codec!EncodingIsRead
    OBVIOUS
  <2>1. character \in Nat /\ Scalar(character)
    BY CodecConverts, SMT DEF Codec!TypeOK, Scalar
  <2> QED BY <2>1, CodecConverts, EncodeDecode DEF Codec!EncodingIsRead
<1>2. Codec!TypeOK => Codec!DecodingIsStrict
  <2> SUFFICES ASSUME Codec!TypeOK, DecodeCharacter(bytes).width > 0
               PROVE  Spells(bytes, DecodeCharacter(bytes))
    BY CodecConverts DEF Codec!DecodingIsStrict, Spells
  <2> QED BY CodecConverts, DecodeStrict DEF Codec!TypeOK
<1>3. CodecStates => CodecExact
  BY <1>1, <1>2 DEF CodecStates, CodecExact, Codec!CodecExact
<1> QED BY <1>3, CodecTypeCorrect, PTL
=============================================================================
