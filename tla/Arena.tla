-------------------------------- MODULE Arena --------------------------------
(***************************************************************************)
(* The bump arenas of the compiler's own build of the runtime              *)
(* (minyar_runtime.c, MINYAR_COMPILER_ARENA).  Memory is never freed.  An  *)
(* arena allocates from its newest block only, and lets the newest         *)
(* allocation of that block grow in place.                                 *)
(*                                                                         *)
(* Blocks are numbered; a pointer is a block and an offset.  Block 0 is    *)
(* memory outside every arena, such as literals.                           *)
(***************************************************************************)
EXTENDS Integers, Sequences

(* What malloc leaves in a new block. *)
Junk == -1

NewArena == [block |-> 0, used |-> 0, capacity |-> 0]

Larger(m, n) == IF m > n THEN m ELSE n

(* (n + alignment - 1) & ~(alignment - 1) *)
AlignUp(n, alignment) == ((n + alignment - 1) \div alignment) * alignment

Grow(arena, size, blockSize) ==
    [block |-> arena.block + 1, used |-> size, capacity |-> Larger(size, blockSize)]

Fits(arena, size, alignment) ==
    LET start == AlignUp(arena.used, alignment) IN
    arena.block > 0 /\ start <= arena.capacity /\ size <= arena.capacity - start

(* The arena after an allocation, and the pointer to it. *)
Allocate(arena, size, alignment, blockSize) ==
    IF Fits(arena, size, alignment)
    THEN LET start == AlignUp(arena.used, alignment) IN
         [arena |-> [arena EXCEPT !.used = start + size],
          block |-> arena.block, at |-> start]
    ELSE [arena |-> Grow(arena, size, blockSize), block |-> arena.block + 1, at |-> 0]

(* Mutant: any allocation of the newest block is extended. *)
CanExtendAny(arena, pointer, old, extra) ==
    arena.block > 0 /\ extra <= arena.capacity - arena.used /\ pointer.block = arena.block

(* arena_extend succeeds: the allocation of old cells at pointer ends at   *)
(* the arena's top, and the block has room.                                *)
CanExtend(arena, pointer, old, extra) ==
    /\ arena.block > 0 /\ extra <= arena.capacity - arena.used
    /\ pointer.block = arena.block /\ pointer.at + old = arena.used

Extended(arena, extra) == [arena EXCEPT !.used = @ + extra]
-----------------------------------------------------------------------------
(* Memory: the cells of every block. *)
WithBlock(memory, arena) ==
    IF arena.block < Len(memory) THEN memory
    ELSE Append(memory, [i \in 1..arena.capacity |-> Junk])

Write(memory, block, at, cells) ==
    [memory EXCEPT ![block + 1] =
        [i \in DOMAIN @ |-> IF i - at \in DOMAIN cells THEN cells[i - at] ELSE @[i]]]

Read(memory, pointer, size) ==
    SubSeq(memory[pointer.block + 1], pointer.at + 1, pointer.at + size)
=============================================================================
