----------------------------- MODULE ArenaTexts ------------------------------
(***************************************************************************)
(* Texts in the compiler's arenas.  Nothing is counted or freed, and bytes *)
(* are shared: a slice points into its source, a join extends its left     *)
(* operand's bytes when those are the newest allocation of the data arena, *)
(* and short slices with equal bytes share one header through a            *)
(* direct-mapped cache.  All Texts are ASCII here; positions are bytes.    *)
(***************************************************************************)
EXTENDS Arena

CONSTANTS Literals,     \* the first Texts: where the bytes of each stand ...
          LiteralData,  \* ... in block 0, which holds the data of the program
          BlockSize,    \* of the data arena
          CacheSize,    \* SLICE_CACHE_SIZE
          CacheBytes,   \* SLICE_CACHE_BYTES
          MaxTexts,     \* bound: Texts made
          MaxLength,    \* bound: no longer Text is made
          MaxBlocks     \* bound: blocks when other data is allocated

ArenaTextsAssumption ==
    /\ BlockSize \in Nat \ {0} /\ CacheSize \in Nat \ {0} /\ CacheBytes \in Nat
    /\ LiteralData \in Seq(Nat)
    /\ Literals \in Seq([block : {0}, at : Nat, size : Nat])
    /\ \A l \in DOMAIN Literals : Literals[l].at + Literals[l].size < Len(LiteralData)

VARIABLES arena,    \* data_arena
          memory,
          texts,    \* the headers: pointer and byte length
          cache,    \* slice_cache, 0 for an empty slot
          answer    \* the last call

vars == <<arena, memory, texts, cache, answer>>

Text(pointer, size) == [block |-> pointer.block, at |-> pointer.at, size |-> size]
BytesOf(memo, t) == Read(memo, t, t.size)
Bytes(t) == BytesOf(memory, texts[t])
Terminator == <<0>>

Init ==
    /\ arena = NewArena
    /\ memory = <<LiteralData>>
    /\ texts = Literals
    /\ cache = [s \in 0..(CacheSize - 1) |-> 0]
    /\ answer = [do |-> "other"]

(* new_bytes, the copy into it, and new_text. *)
NewText(s, ans) ==
    LET a == Allocate(arena, Len(s) + 1, 1, BlockSize) IN
    /\ Len(texts) < MaxTexts /\ Len(s) <= MaxLength
    /\ arena' = a.arena
    /\ memory' = Write(WithBlock(memory, a.arena), a.block, a.at, s \o Terminator)
    /\ texts' = Append(texts, Text(a, Len(s)))
    /\ answer' = ans
    /\ UNCHANGED cache

(* The bytes of a Text up to the arena's top, with the terminator. *)
TopOf(l) == texts[l].size + 1

(* minyar_join_text.  Growing in place overwrites the terminator. *)
JoinText(l, r) ==
    LET left == texts[l]
        s == Bytes(r)
        ans == [do |-> "join", left |-> l, right |-> r]
    IN  \/ /\ CanExtend(arena, left, TopOf(l), Len(s))
           /\ Len(texts) < MaxTexts /\ left.size + Len(s) <= MaxLength
           /\ arena' = Extended(arena, Len(s))
           /\ memory' = Write(memory, left.block, left.at + left.size, s \o Terminator)
           /\ texts' = Append(texts, Text(left, left.size + Len(s)))
           /\ answer' = ans
           /\ UNCHANGED cache
        \/ /\ ~CanExtend(arena, left, TopOf(l), Len(s))
           /\ NewText(Bytes(l) \o s, ans)

(* Mutant: lengths decide. *)
HitByLength(c, s) == c # 0 /\ texts[c].size = Len(s)

(* The slot holds a Text with these very bytes. *)
Hit(c, s) == c # 0 /\ texts[c].size = Len(s) /\ Bytes(c) = s

(* A hash of the length and of the first, middle and last byte. *)
Slot(s) == (Len(s) + s[1] + s[Len(s) \div 2 + 1] + s[Len(s)]) % CacheSize

(* minyar_text_slice.  The result is the number of the Text returned. *)
Slice(t, first, last) ==
    LET size == last - first
        pointer == [block |-> texts[t].block, at |-> texts[t].at + first]
        s == Read(memory, pointer, size)
        cached == size > 0 /\ size <= CacheBytes
        ans(result) == [do |-> "slice", of |-> t, first |-> first, last |-> last,
                        result |-> result]
    IN  /\ 0 <= first /\ first <= last /\ last <= texts[t].size
        /\ \/ /\ cached /\ Hit(cache[Slot(s)], s)
              /\ answer' = ans(cache[Slot(s)])
              /\ UNCHANGED <<texts, cache>>
           \/ /\ ~(cached /\ Hit(cache[Slot(s)], s))
              /\ Len(texts) < MaxTexts
              /\ texts' = Append(texts, Text(pointer, size))
              /\ cache' = IF cached THEN [cache EXCEPT ![Slot(s)] = Len(texts) + 1] ELSE cache
              /\ answer' = ans(Len(texts) + 1)
        /\ UNCHANGED <<arena, memory>>

(* Other users of the data arena, such as the index of a Text. *)
AllocateData(size, alignment) ==
    LET a == Allocate(arena, size, alignment, BlockSize) IN
    /\ Len(memory) <= MaxBlocks
    /\ arena' = a.arena
    /\ memory' = WithBlock(memory, a.arena)
    /\ answer' = [do |-> "other"]
    /\ UNCHANGED <<texts, cache>>

Made == DOMAIN texts

Next ==
    \/ \E l, r \in Made : JoinText(l, r)
    \/ \E t \in Made : \E first, last \in 0..texts[t].size : Slice(t, first, last)
    \/ AllocateData(2, 2)

Spec == Init /\ [][Next]_vars
-----------------------------------------------------------------------------
(* Every Text lies in a block, with its terminator. *)
TypeOK ==
    \A t \in Made :
        /\ texts[t].block \in 0..(Len(memory) - 1)
        /\ texts[t].at + texts[t].size < Len(memory[texts[t].block + 1])

(* "Its bytes stay untouched; only the terminator beyond them is           *)
(* overwritten" (minyar_runtime.c 714): no join, slice or allocation ever  *)
(* changes the bytes of a Text made earlier, however Texts share memory.   *)
TextsKeepBytes == [][\A t \in Made : Bytes(t)' = Bytes(t)]_vars

(* A join returns the concatenation and a slice the bytes asked for, even  *)
(* if the cache returns a Text made from another source.                   *)
ResultsTrue ==
    /\ answer.do = "join" => Bytes(Len(texts)) = Bytes(answer.left) \o Bytes(answer.right)
    /\ answer.do = "slice" =>
          Bytes(answer.result) = SubSeq(Bytes(answer.of), answer.first + 1, answer.last)

(* "Growing the left Text in place keeps a chain of joins linear"          *)
(* (minyar_runtime.c 713): joining something to the last join's result     *)
(* copies no left byte while its block has room.                           *)
ChainsStayInPlace ==
    [][(answer.do = "join" /\ answer'.do = "join" /\ answer'.left = Len(texts)
        /\ texts[answer'.right].size <= arena.capacity - arena.used)
          => /\ texts'[Len(texts')].block = texts[Len(texts)].block
             /\ texts'[Len(texts')].at = texts[Len(texts)].at]_vars
=============================================================================
