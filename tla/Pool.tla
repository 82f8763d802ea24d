-------------------------------- MODULE Pool --------------------------------
(***************************************************************************)
(* The buddy allocator of the fixed and lazy heap profiles                 *)
(* (minyar_pool.h).  The pool is 2^Depth granules of 32 bytes; a block of  *)
(* order k is 2^k granules, aligned to its size.  The state map holds one  *)
(* mark per granule, and the free blocks of each order form a doubly       *)
(* linked list threaded through the free memory itself.                    *)
(*                                                                         *)
(* A call is a sequence of steps, one per list operation: op says what the *)
(* current call has still to do, steps counts its metadata iterations      *)
(* (POOL_STEP).                                                            *)
(***************************************************************************)
EXTENDS Integers, FiniteSets, FiniteSetsExt

CONSTANTS Depth,   \* minyar_pool_max_order
          None     \* the null link

DepthAssumption == Depth \in Nat /\ None \notin Int

VARIABLES map,      \* minyar_pool_map
          head,     \* minyar_pool_free: first free block of each order
          link,     \* the PoolLink at the start of each free block
          mask,     \* minyar_pool_mask: orders with a free block
          used,     \* minyar_pool_used, in granules
          highWater,
          held,     \* the allocations the runtime owns: their offset and order
          op,       \* the call in progress
          old,      \* an allocation to release once its replacement exists
          steps

lists == <<head, link, mask>>
vars == <<map, lists, used, highWater, held, op, old, steps>>

Size(k) == 2^k
Granule == 0..(Size(Depth) - 1)
Order == 0..Depth

(* Marks of the state map: the granule starts no block, a free block or an *)
(* allocated one.                                                          *)
Interior == 0
FreeMark(k) == k + 1
UsedMark(k) == 128 + k + 1

NoLink == [previous |-> None, next |-> None]
NoOp == [do |-> "idle"]
Idle == op = NoOp

Block(a, k) == [at |-> a, order |-> k]

Buddy(a, k) == IF (a \div Size(k)) % 2 = 0 THEN a + Size(k) ELSE a - Size(k)
Lower(a, b) == IF a < b THEN a ELSE b
-----------------------------------------------------------------------------
(***************************************************************************)
(* Free lists.                                                             *)
(***************************************************************************)
PoolInsert(a, k) ==
    /\ link' = [g \in Granule |->
                   CASE g = a -> [previous |-> None, next |-> head[k]]
                     [] g = head[k] /\ g # a -> [link[g] EXCEPT !.previous = a]
                     [] OTHER -> link[g]]
    /\ head' = [head EXCEPT ![k] = a]
    /\ mask' = mask \cup {k}
    /\ map' = [map EXCEPT ![a] = FreeMark(k)]

(* Mutant: the successor keeps pointing back at the removed block. *)
HalfUnlinked(a, g) ==
    CASE g = a -> NoLink
      [] g = link[a].previous -> [link[g] EXCEPT !.next = link[a].next]
      [] OTHER -> link[g]

(* The neighbours of a removed block are joined; the block's own link is   *)
(* never read again.                                                       *)
Unlinked(a, g) ==
    CASE g = a -> NoLink
      [] g # a /\ g = link[a].previous -> [link[g] EXCEPT !.next = link[a].next]
      [] g # a /\ g = link[a].next -> [link[g] EXCEPT !.previous = link[a].previous]
      [] OTHER -> link[g]

PoolRemove(a, k) ==
    /\ link' = [g \in Granule |-> Unlinked(a, g)]
    /\ head' = IF link[a].previous = None THEN [head EXCEPT ![k] = link[a].next]
               ELSE head
    /\ mask' = IF head'[k] = None THEN mask \ {k} ELSE mask
    /\ map' = [map EXCEPT ![a] = Interior]

Account(delta) ==
    /\ used' = used + delta
    /\ highWater' = IF used' > highWater THEN used' ELSE highWater
-----------------------------------------------------------------------------
(***************************************************************************)
(* minyar_pool_allocate.                                                   *)
(***************************************************************************)
(* The runtime asks for a block; Depth + 1 stands for more than the pool.  *)
Request(k) ==
    /\ Idle
    /\ op' = [do |-> "allocate", want |-> k]
    /\ steps' = 0
    /\ UNCHANGED <<map, lists, used, highWater, held, old>>

Fitting(k) == {j \in mask : j >= k}

(* The loop that doubles the block size. *)
SizeSteps(k) == k

(* The runtime stops: it neither drains pending objects nor expands.       *)
Exhaust ==
    /\ op' = [do |-> "exhausted", want |-> op.want]
    /\ steps' = steps + IF op.want > Depth THEN 0 ELSE SizeSteps(op.want)
    /\ UNCHANGED <<map, lists, used, highWater, held, old>>

TryAllocate ==
    /\ op.do = "allocate"
    /\ IF op.want > Depth \/ Fitting(op.want) = {}
       THEN Exhaust
       ELSE LET found == Min(Fitting(op.want))
                a == head[found]
            IN /\ PoolRemove(a, found)
               /\ op' = [do |-> "split", at |-> a, order |-> found, want |-> op.want]
               /\ steps' = steps + SizeSteps(op.want)
               /\ UNCHANGED <<used, highWater, held, old>>

(* The upper half becomes a free block. *)
SplitStep ==
    /\ op.do \in {"split", "shrink"}
    /\ op.order > op.want
    /\ PoolInsert(op.at + Size(op.order - 1), op.order - 1)
    /\ op' = [op EXCEPT !.order = @ - 1]
    /\ steps' = steps + 1
    /\ UNCHANGED <<used, highWater, held, old>>

(* After a resize that moved, the old block is released. *)
AfterAllocate == IF old = None THEN NoOp ELSE [do |-> "free", at |-> old]

FinishAllocate ==
    /\ op.do = "split"
    /\ op.order = op.want
    /\ map' = [map EXCEPT ![op.at] = UsedMark(op.want)]
    /\ Account(Size(op.want))
    /\ held' = held \cup {Block(op.at, op.want)}
    /\ op' = AfterAllocate
    /\ old' = None
    /\ UNCHANGED <<lists, steps>>
-----------------------------------------------------------------------------
(***************************************************************************)
(* minyar_pool_deallocate.                                                 *)
(***************************************************************************)
Release(b) ==
    /\ Idle
    /\ op' = [do |-> "free", at |-> b.at]
    /\ steps' = 0
    /\ UNCHANGED <<map, lists, used, highWater, held, old>>

AllocatedOrder(a) == map[a] - UsedMark(0)

(* From here on the memory is the pool's. *)
FreeBlock ==
    /\ op.do = "free"
    /\ LET k == AllocatedOrder(op.at)
       IN /\ Account(-Size(k))
          /\ held' = held \ {Block(op.at, k)}
          /\ op' = [do |-> "merge", at |-> op.at, order |-> k]
    /\ map' = [map EXCEPT ![op.at] = Interior]
    /\ UNCHANGED <<lists, old, steps>>

BuddyFree(a, k) ==
    /\ k < Depth
    /\ map[Buddy(a, k)] = FreeMark(k)

MergeStep ==
    /\ op.do = "merge"
    /\ BuddyFree(op.at, op.order)
    /\ PoolRemove(Buddy(op.at, op.order), op.order)
    /\ op' = [op EXCEPT !.at = Lower(op.at, Buddy(op.at, op.order)), !.order = @ + 1]
    /\ steps' = steps + 1
    /\ UNCHANGED <<used, highWater, held, old>>

FinishFree ==
    /\ op.do = "merge"
    /\ ~ BuddyFree(op.at, op.order)
    /\ PoolInsert(op.at, op.order)
    /\ op' = NoOp
    /\ steps' = steps + IF op.order < Depth THEN 1 ELSE 0
    /\ UNCHANGED <<used, highWater, held, old>>
-----------------------------------------------------------------------------
(***************************************************************************)
(* minyar_pool_resize and minyar_pool_resize_discard.                      *)
(***************************************************************************)
(* Where the block starts once it has been merged up to order k. *)
MergedBase(a, k) == a - (a % Size(k))

(* The buddy at order j on the way up from block a. *)
PathBuddy(a, j) == Buddy(MergedBase(a, j), j)

PathFree(a, j) == map[PathBuddy(a, j)] = FreeMark(j)

(* The orders a scan examines: up to the first buddy that is not free. *)
Scanned(a, k, want) ==
    {j \in k..(want - 1) : \A i \in k..(j - 1) : PathFree(a, i)}

AllFree(a, k, want) == \A j \in k..(want - 1) : PathFree(a, j)

Change(b, want) == Size(want) - Size(b.order)

Shrink(b, want) ==
    /\ want <= b.order
    /\ Account(Change(b, want))
    /\ op' = [do |-> "shrink", at |-> b.at, order |-> b.order, want |-> want, was |-> b]
    /\ steps' = SizeSteps(want)
    /\ UNCHANGED <<map, lists, held, old>>

(* A block grows through free buddies: upper ones only, or, when its       *)
(* contents need not survive, lower ones too.                              *)
Aligned(a, k) == a % Size(k) = 0

Grow(b, want, discard) ==
    /\ want > b.order /\ want <= Depth
    /\ Aligned(b.at, want) \/ discard
    /\ AllFree(b.at, b.order, want)
    /\ op' = [do |-> "grow", at |-> b.at, order |-> b.order, want |-> want, was |-> b]
    /\ steps' = SizeSteps(want) + Cardinality(Scanned(b.at, b.order, want))
    /\ UNCHANGED <<map, lists, used, highWater, held, old>>

(* Otherwise a new block is allocated before the old one is released. *)
Relocate(b, want, discard) ==
    LET scans == Aligned(b.at, want) \/ discard
    IN /\ want > b.order
       /\ want <= Depth => ~ (scans /\ AllFree(b.at, b.order, want))
       /\ op' = IF want > Depth THEN [do |-> "exhausted", want |-> want]
                ELSE [do |-> "allocate", want |-> want]
       /\ old' = IF want > Depth THEN None ELSE b.at
       /\ steps' = IF want > Depth THEN 0
                   ELSE SizeSteps(want) + IF scans
                        THEN Cardinality(Scanned(b.at, b.order, want)) ELSE 0
       /\ UNCHANGED <<map, lists, used, highWater, held>>

Resize(b, want, discard) ==
    /\ Idle
    /\ Shrink(b, want) \/ Grow(b, want, discard) \/ Relocate(b, want, discard)

FinishShrink ==
    /\ op.do = "shrink"
    /\ op.order = op.want
    /\ map' = [map EXCEPT ![op.at] = UsedMark(op.want)]
    /\ held' = (held \ {op.was}) \cup {Block(op.at, op.want)}
    /\ op' = NoOp
    /\ UNCHANGED <<lists, used, highWater, old, steps>>

GrowStep ==
    /\ op.do = "grow"
    /\ op.order < op.want
    /\ PoolRemove(PathBuddy(op.at, op.order), op.order)
    /\ op' = [op EXCEPT !.order = @ + 1]
    /\ steps' = steps + 1
    /\ UNCHANGED <<used, highWater, held, old>>

FinishGrow ==
    /\ op.do = "grow"
    /\ op.order = op.want
    /\ LET base == MergedBase(op.at, op.want)
       IN /\ map' = [map EXCEPT ![op.at] = Interior, ![base] = UsedMark(op.want)]
          /\ held' = (held \ {op.was}) \cup {Block(base, op.want)}
    /\ Account(Change(op.was, op.want))
    /\ op' = NoOp
    /\ UNCHANGED <<lists, old, steps>>

(* The runtime stops with an error: no expansion, no drain. *)
Stopped == op.do = "exhausted" /\ UNCHANGED vars

Call ==
    \/ \E k \in 0..(Depth + 1) : Request(k)
    \/ \E b \in held :
          \/ Release(b)
          \/ \E want \in 0..(Depth + 1), discard \in BOOLEAN : Resize(b, want, discard)

Advance ==
    \/ TryAllocate \/ SplitStep \/ FinishAllocate
    \/ FreeBlock \/ MergeStep \/ FinishFree
    \/ FinishShrink \/ GrowStep \/ FinishGrow

Next == Call \/ Advance \/ Stopped

(* minyar_pool_initialize: one free block. *)
Init ==
    /\ map = [g \in Granule |-> IF g = 0 THEN FreeMark(Depth) ELSE Interior]
    /\ head = [k \in Order |-> IF k = Depth THEN 0 ELSE None]
    /\ link = [g \in Granule |-> NoLink]
    /\ mask = {Depth}
    /\ used = 0 /\ highWater = 0
    /\ held = {}
    /\ op = NoOp /\ old = None /\ steps = 0

Spec == Init /\ [][Next]_vars
-----------------------------------------------------------------------------
Granules(b) == b.at..(b.at + Size(b.order) - 1)

FreeBlocks == {Block(a, map[a] - FreeMark(0)) :
                   a \in {g \in Granule : map[g] \in FreeMark(0)..FreeMark(Depth)}}

(* The memory a call is working on, and the allocations it is not. *)
Transit ==
    CASE op.do \in {"split", "merge", "shrink"} -> {Block(op.at, op.order)}
      [] op.do = "grow" -> {Block(MergedBase(op.at, op.order), op.order)}
      [] OTHER -> {}
Settled == held \ IF op.do \in {"shrink", "grow"} THEN {op.was} ELSE {}

(* The blocks reached by following the list of order k from its head. *)
Chain(k) ==
    LET at[n \in 0..Size(Depth - k)] ==
            IF n = 0 THEN head[k]
            ELSE IF at[n - 1] = None THEN None ELSE link[at[n - 1]].next
    IN {at[n] : n \in 0..Size(Depth - k)} \ {None}

(* The variables keep their types. *)
TypeOK ==
    /\ map \in [Granule -> {Interior} \cup {FreeMark(k) : k \in Order}
                              \cup {UsedMark(k) : k \in Order}]
    /\ head \in [Order -> Granule \cup {None}]
    /\ link \in [Granule -> [previous : Granule \cup {None}, next : Granule \cup {None}]]
    /\ mask \subseteq Order
    /\ used \in 0..Size(Depth) /\ highWater \in 0..Size(Depth)
    /\ held \subseteq [at : Granule, order : Order]
    /\ old \in Granule \cup {None}
    /\ steps \in Nat

(* At every step the free blocks, the allocations and the block in transit *)
(* cover the pool exactly once: no two allocations overlap, and no memory  *)
(* is lost or handed out twice, whatever was split, merged or resized.     *)
Tiling ==
    LET parts == ({"free"} \X FreeBlocks) \cup ({"used"} \X Settled)
                 \cup ({"transit"} \X Transit)
    IN /\ \A g \in Granule : Cardinality({p \in parts : g \in Granules(p[2])}) = 1
       /\ \A p \in parts : Aligned(p[2].at, p[2].order)

(* The lists, the mask and the state map describe the same free blocks, so *)
(* that unlinking a buddy found in the map needs no search.                *)
ListsExact ==
    LET free == FreeBlocks IN
    /\ mask = {k \in Order : head[k] # None}
    /\ \A k \in Order :
       LET chain == Chain(k) IN
          /\ chain = {b.at : b \in {c \in free : c.order = k}}
          /\ \A a \in chain :
                /\ link[a].previous = None <=> a = head[k]
                /\ link[a].next # None => link[link[a].next].previous = a

(* Between calls no two free buddies remain unmerged. *)
Coalesced ==
    Idle => \A b \in FreeBlocks :
                b.order < Depth => Block(Buddy(b.at, b.order), b.order) \notin FreeBlocks

(* Between calls the accounting is the memory handed out. *)
UsedExact ==
    Idle => /\ used = FoldSet(LAMBDA b, sum : sum + Size(b.order), 0, held)
            /\ \A b \in held : map[b.at] = UsedMark(b.order)

(* The pool reports exhaustion only when no aligned run of free memory of  *)
(* the requested size exists: a failure is real fragmentation or debt.     *)
ExhaustedHonestly ==
    op.do = "exhausted" /\ op.want <= Depth =>
        LET free == UNION {Granules(b) : b \in FreeBlocks}
        IN \A a \in Granule : Aligned(a, op.want) => ~ Granules(Block(a, op.want)) \subseteq free

(* Documented bound on the metadata iterations of one call. *)
StepsBounded == steps <= 4 * Depth + 1

(* Memory is neither lost nor handed out twice, and every record of it,    *)
(* the state map, the lists, the mask and the accounting, says the same.   *)
PoolExact == TypeOK /\ Tiling /\ ListsExact /\ Coalesced /\ UsedExact /\ StepsBounded
=============================================================================
