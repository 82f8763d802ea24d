------------------------------ MODULE MCRuntime ------------------------------
(***************************************************************************)
(* The runtime library of a running program.  The compiler's build keeps   *)
(* Lists in the list arenas (ArenaLists) and Texts in the data arena       *)
(* (ArenaTexts); the bounded profiles have the buddy pool (Pool) and clean *)
(* up in polls, which are batched when only objects wait (PollBatching);   *)
(* every build has the stack with its guard (StackGuard), the positions in *)
(* Texts (TextIndex) and the encoding of Characters (Utf8Codec).  No two   *)
(* of them share memory or state here, so a behaviour takes the steps of   *)
(* one: MemorySpec those of the first five, TextsSpec those of the last    *)
(* two.                                                                    *)
(***************************************************************************)
EXTENDS ArenaLists, TLC

CONSTANTS
    DataLiterals, LiteralData, DataBlock, CacheSize, CacheBytes,
    MaxTexts, MaxLength, MaxBlocks,                               \* of ArenaTexts
    Depth, None,                                                  \* of Pool
    StackSize, Frame, Reserve, Report, MaxDepth, FallbackDepth,   \* of StackGuard
    Handles, Texts, Literals, Alphabet, Stride, NarrowMax,
    CopyAbove, CopyShare, MixedJoins, MaxBytes,                   \* of TextIndex
    Inputs, CodePoints                                            \* of Utf8Codec

VARIABLES
    part,   \* the one that takes steps
    dataArena, dataMemory, texts, cache, answer,                  \* of ArenaTexts
    map, head, link, mask, used, highWater, held, op, old, steps, \* of Pool
    heap, owned, cleanup,                                         \* of PollBatching
    known, depth, frames, room, outcome,                          \* of StackGuard
    text, hold, reply, stopped,                                   \* of TextIndex
    bytes, character                                              \* of Utf8Codec

Data == INSTANCE ArenaTexts WITH
            arena <- dataArena, memory <- dataMemory,
            Literals <- DataLiterals, BlockSize <- DataBlock

(* Two Texts of a byte.  Their slices share a slot of the cache. *)
MCLiteralData == <<2, 0, 4, 0>>
MCDataLiterals == <<[block |-> 0, at |-> 0, size |-> 1], [block |-> 0, at |-> 2, size |-> 1]>>

Buddies == INSTANCE Pool

(* Any three objects; and chains of four, or a List of such chains.        *)
Node(kind, fields) == [kind |-> kind, fields |-> fields]
ScalarNode == Node("SCALAR_RECORD", <<>>)
Unaries(later) == {Node("RECORD", <<a>>) : a \in later}
Lists(later) == {Node("REFERENCES", <<a, b>>) : a \in later, b \in later}
Binaries(later) == {Node("RECORD", <<a, b>>) : a \in later \cup {None}, b \in later}
Nodes(later) == {ScalarNode} \cup Unaries(later \cup {None}) \cup Lists(later) \cup Binaries(later)
MCHeaps ==
    (Nodes({2, 3}) \X Nodes({3}) \X Nodes({}))
        \cup ((Unaries({2, 3, 4}) \cup Lists({2, 3, 4})) \X Unaries({3, 4}) \X Unaries({4})
                 \X Nodes({}))

Polls == INSTANCE PollBatching WITH
            hold <- owned, Heaps <- MCHeaps, CursorBits <- 1, WordBits <- 2, MaxBudget <- 6

Guard == INSTANCE StackGuard

Index == INSTANCE TextIndex WITH answer <- reply

(* Characters of one and of two bytes. *)
MCAlphabet == {65, 233}

(* A Text that crosses a breadcrumb, and a continuation byte on its own.   *)
MCLiterals == {<<65, 65, 195, 169>>, <<169>>}

TextSymmetry == Permutations(Handles) \cup Permutations(Texts)

(* The smallest and largest byte of every class decode_character tells     *)
(* apart, in each place.                                                   *)
First == {0, 127, 128, 191, 192, 193, 194, 223, 224, 225, 236, 237, 238, 239,
          240, 241, 243, 244, 245, 255}
Second == {0, 127, 128, 143, 144, 159, 160, 191, 192, 255}
Later == {127, 128, 191, 192}

MCInputs ==
    {<<a>> : a \in First}
        \cup {<<a, b>> : a \in First, b \in Second}
        \cup {<<a, b, c>> : a \in First, b \in Second, c \in Later}
        \cup {<<a, b, c, d>> : a \in First, b \in Second, c \in Later, d \in Later}

MCCodePoints ==
    {0, 127, 128, 2047, 2048, 4095, 4096, 55295, 57344, 65535, 65536,
     262143, 262144, 1048575, 1048576, 1114111}

Codec == INSTANCE Utf8Codec

ASSUME DataAssumption == Data!ArenaTextsAssumption
ASSUME PoolAssumption == Buddies!DepthAssumption
ASSUME StackAssumption == Guard!StackAssumption
ASSUME IndexAssumption == Index!BoundsAssumption
ASSUME CodecAssumption == Codec!InputAssumption /\ Codec!CharacterAssumption

dataVars == <<dataArena, dataMemory, texts, cache, answer>>
poolVars == <<map, head, link, mask, used, highWater, held, op, old, steps>>
pollVars == <<heap, owned, cleanup>>
stackVars == <<known, depth, frames, room, outcome>>
memoryVars == <<vars, dataVars, poolVars, pollVars, stackVars>>
indexVars == <<text, hold, reply, stopped>>
codecVars == <<bytes, character>>
textsVars == <<indexVars, codecVars>>

NothingToPoll == heap = <<ScalarNode>> /\ owned = {} /\ cleanup = <<>>

FirstState ==
    /\ Init /\ Data!Init /\ Buddies!Init /\ Guard!Init /\ Index!Init
    /\ part # "stack" => known
    /\ IF part = "polls" THEN Polls!Init ELSE NothingToPoll
    /\ IF part = "codec" THEN Codec!Init ELSE bytes = <<>> /\ character = 0

MemoryInit ==
    /\ part \in {"lists", "texts", "pool", "polls", "stack"}
    /\ FirstState

ListsPart == part = "lists" /\ Next /\ UNCHANGED <<dataVars, poolVars, pollVars, stackVars>>
TextsPart == part = "texts" /\ Data!Next /\ UNCHANGED <<vars, poolVars, pollVars, stackVars>>
PoolPart == part = "pool" /\ Buddies!Next /\ UNCHANGED <<vars, dataVars, pollVars, stackVars>>
PollPart == part = "polls" /\ Polls!Next /\ UNCHANGED <<vars, dataVars, poolVars, stackVars>>
StackPart == part = "stack" /\ Guard!Next /\ UNCHANGED <<vars, dataVars, poolVars, pollVars>>

MemoryNext ==
    /\ ListsPart \/ TextsPart \/ PoolPart \/ PollPart \/ StackPart
    /\ UNCHANGED <<part, textsVars>>

MemorySpec == MemoryInit /\ [][MemoryNext]_<<part, memoryVars, textsVars>>

TextsInit ==
    /\ part \in {"positions", "codec"}
    /\ FirstState

IndexPart == part = "positions" /\ Index!Next /\ UNCHANGED codecVars
CodecPart == part = "codec" /\ Codec!Next /\ UNCHANGED indexVars

TextsNext ==
    /\ IndexPart \/ CodecPart
    /\ UNCHANGED <<part, memoryVars>>

TextsSpec == TextsInit /\ [][TextsNext]_<<part, memoryVars, textsVars>>
-----------------------------------------------------------------------------
(* A join or slice has the bytes it was asked for, whatever sharing its    *)
(* header and its bytes have; and every Text lies in a block of the data   *)
(* arena, with its terminator (minyar_join_text, minyar_text_slice).       *)
ResultsTrue == part = "texts" => Data!TypeOK /\ Data!ResultsTrue

(* "Its bytes stay untouched; only the terminator beyond them is           *)
(* overwritten" (minyar_runtime.c 714), for every Text made earlier; and a *)
(* chain of joins that extends the newest allocation copies nothing.       *)
TextsKeepBytes == Data!TextsKeepBytes /\ Data!ChainsStayInPlace

(* The pool's memory is neither lost nor handed out twice, and its map,    *)
(* lists, mask and accounting agree (minyar_pool.h); it refuses a size     *)
(* only if no aligned run of it is free.                                   *)
PoolExact == part = "pool" => Buddies!PoolExact /\ Buddies!ExhaustedHonestly

(* The batched path of minyar_rc_poll frees the same objects in the same   *)
(* order as the general scheduler and leaves the same state behind.        *)
PollBatched == part = "polls" => Polls!PollBatched

(* Recursion ends in a report and not in the guard page                    *)
(* (minyar_stack_enter).                                                   *)
StackGuarded == Guard!StackGuarded

(* What is kept about a Text of its Characters is right, whatever was      *)
(* asked before (ensure_text_index, indexed_byte_offset).                  *)
IndexSound == Index!IndexSound

(* Calls on Texts answer truly or stop justly (docs/language.md 39-51).    *)
AnswersTrue == Index!AnswersTrue

(* No position is expensive to find: one scan is bounded, and a loop over   *)
(* the Characters of a Text scans nothing (minyar_runtime.c 885).          *)
ReadsAreCheap == Index!ReadsAreCheap

(* Every Text a handle holds keeps its bytes, but for the left operand of  *)
(* a taking join (minyar_join_text_take_left).                             *)
TextsImmutable == Index!TextsImmutable

(* Indexing the Text of a Character gives the Character back, and          *)
(* decode_character accepts nothing but encodings, none of them longer     *)
(* than needed: encode_character and decode_character are inverse to each  *)
(* other, so texts_are_equal may compare bytes.                            *)
CodecExact == part = "codec" => Codec!TypeOK /\ Codec!CodecExact
=============================================================================
