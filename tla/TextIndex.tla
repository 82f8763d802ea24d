------------------------------ MODULE TextIndex -----------------------------
(***************************************************************************)
(* Positions in Texts (minyar_runtime.c).  A Text is UTF-8; programs name  *)
(* Characters by position.  The first question about positions counts the  *)
(* Characters and, unless all are ASCII, builds an index: the byte offset  *)
(* of every Stride-th Character, followed by a one-entry cursor (position  *)
(* and byte offset of the last access).  Slices are views of their root's  *)
(* bytes; a join whose left operand is owned by nobody else grows in       *)
(* place.                                                                  *)
(*                                                                         *)
(* A call is one step: nothing else runs during it.  Its result is         *)
(* answer.  Ownership is what handles hold and views keep; a Text that     *)
(* nobody owns is forgotten.                                               *)
(***************************************************************************)
EXTENDS Utf8, FiniteSetsExt, SequencesExt

CONSTANTS Handles,     \* owned references of the program
          Texts,       \* Text objects
          Literals,    \* byte sequences of literals and of files
          Alphabet,    \* the Characters of well-formed Texts
          Stride,      \* TEXT_INDEX_STRIDE
          NarrowMax,   \* UINT32_MAX: longer Texts have a wide index
          CopyAbove,   \* roots above this size may be copied from ...
          CopyShare,   \* ... when the slice is less than this share of them
          MixedJoins,  \* whether counted Texts with an index are joined in place
          MaxBytes,    \* bound: no longer Text is made
          None

BoundsAssumption ==
    /\ Stride \in Nat \ {0} /\ NarrowMax \in Nat
    /\ MixedJoins \in BOOLEAN
    /\ CopyAbove \in Nat /\ CopyShare \in Nat \ {0}

VARIABLES text,     \* the Text objects
          hold,     \* the Text each handle owns
          answer,   \* the last call: what it was asked and what it returned
          stopped   \* why the program was stopped, if it was

vars == <<text, hold, answer, stopped>>

(* character_length of a Text whose Characters were not counted yet. *)
Unknown == -1
Uninitialised == -1
-----------------------------------------------------------------------------
(***************************************************************************)
(* Text objects.  A root has its own bytes; a view lies in its backing,    *)
(* from byte at on.                                                        *)
(***************************************************************************)
NewText(bytes, length, mortal) ==
    [bytes |-> bytes, backing |-> None, at |-> 0, size |-> Len(bytes),
     length |-> length, offsets |-> None, mortal |-> mortal]

View(root, at, size, length) ==
    [bytes |-> <<>>, backing |-> root, at |-> at, size |-> size,
     length |-> length, offsets |-> None, mortal |-> TRUE]

Bytes(t) ==
    LET root == IF text[t].backing = None THEN t ELSE text[t].backing IN
    SubSeq(text[root].bytes, text[t].at + 1, text[t].at + text[t].size)

Count(t) == Cardinality({h \in Handles : hold[h] = t})
            + Cardinality({v \in Texts : text[v] # None /\ text[v].backing = t})

(* Mutant: the ownership word is not consulted. *)
UniqueAssumed(t) == text[t].mortal /\ text[t].backing = None

(* The ownership word says one owner, and the bytes are the Text's own. *)
Unique(t) == text[t].mortal /\ text[t].backing = None /\ Count(t) = 1

(* Forgets what nobody owns any more. *)
Swept(tx, h) ==
    LET held == Range(h) \ {None}
        kept == held \cup ({tx[t].backing : t \in held} \ {None})
    IN  [t \in Texts |-> IF t \in kept THEN tx[t] ELSE None]
-----------------------------------------------------------------------------
(***************************************************************************)
(* Scanning and the index.                                                 *)
(***************************************************************************)
(* Byte offsets reached from byte b of s after 0, 1, 2 ... Characters; a   *)
(* negative one where the program would have stopped.                      *)
Walk(s, b) ==
    LET w[k \in 0..Len(s)] ==
            IF k = 0 THEN b
            ELSE IF w[k - 1] \notin 0..(Len(s) - 1) THEN -1
            ELSE LET d == DecodeCharacter(SubSeq(s, w[k - 1] + 1, Len(s))) IN
                 IF d.width = 0 THEN -1 ELSE w[k - 1] + d.width
    IN  w

(* The length of the ASCII prefix, which is not decoded. *)
AsciiPrefix(s) == Min({i \in 0..Len(s) : i = Len(s) \/ s[i + 1] >= 128})

(* The number of Characters of s, if it is UTF-8. *)
Characters(s) ==
    LET start == AsciiPrefix(s)
        w == Walk(s, start)
        ends == {k \in 0..Len(s) : w[k] = Len(s)}
    IN  IF ends = {} THEN Unknown ELSE start + Min(ends)

(* Mutant: a Text just too long for it gets a narrow index. *)
StoredWide(size, value) == IF size <= NarrowMax + 1 THEN value % (NarrowMax + 1) ELSE value

(* What text_index_load finds after text_index_store. *)
Stored(size, value) == IF size <= NarrowMax THEN value % (NarrowMax + 1) ELSE value

Breadcrumbs(length) == length \div Stride + 1

(* The index build_text_index makes: one entry per Stride Characters and   *)
(* the cursor, at the start of the Text.                                   *)
Offsets(s, length) ==
    LET w == Walk(s, 0)
        n == Breadcrumbs(length)
    IN  [e \in 0..(n + 1) |->
            IF e >= n THEN 0 ELSE Stored(Len(s), w[e * Stride])]

(* A Text after ensure_text_index.  Its length stays unknown where the     *)
(* program would have stopped.                                             *)
Indexed(t) ==
    LET s == Bytes(t)
        n == Characters(s)
    IN  IF text[t].length # Unknown \/ n = Unknown THEN text[t]
        ELSE IF n = Len(s) THEN [text[t] EXCEPT !.length = n]
        ELSE [text[t] EXCEPT !.length = n, !.offsets = Offsets(s, n)]

WithCursor(x, position, byte) ==
    LET n == Breadcrumbs(x.length) IN
    [x EXCEPT !.offsets = [@ EXCEPT ![n] = Stored(x.size, position),
                                    ![n + 1] = Stored(x.size, byte)]]

(* Mutant: the cursor is never used. *)
ScanStartNoCursor(x, position) ==
    LET entry == position \div Stride IN
    [position |-> entry * Stride, byte |-> x.offsets[entry]]

(* Where the scan for a position starts: at the cursor if that lies        *)
(* between the breadcrumb and the position, else at the breadcrumb.        *)
ScanStart(x, position) ==
    LET n == Breadcrumbs(x.length)
        entry == position \div Stride
    IN  IF x.offsets[n] \in (entry * Stride)..position
        THEN [position |-> x.offsets[n], byte |-> x.offsets[n + 1]]
        ELSE [position |-> entry * Stride, byte |-> x.offsets[entry]]

(* indexed_byte_offset: the offset, the Text with its cursor moved, and    *)
(* the number of Characters scanned.                                       *)
ByteOffset(s, x, position) ==
    LET from == ScanStart(x, position)
        scanned == position - from.position
        byte == IF scanned > 0 THEN Walk(s, from.byte)[scanned] ELSE from.byte
    IN  [byte |-> byte, text |-> WithCursor(x, position, byte), scanned |-> scanned]
-----------------------------------------------------------------------------
(***************************************************************************)
(* Calls.                                                                  *)
(***************************************************************************)
NoAnswer == [do |-> "other"]

Init ==
    /\ text = [t \in Texts |-> None]
    /\ hold = [h \in Handles |-> None]
    /\ answer = NoAnswer
    /\ stopped = None

(* Texts that come from outside: literals are immortal, files are not. *)
OutsideText(h, t, s, mortal) ==
    /\ hold[h] = None /\ text[t] = None
    /\ text' = [text EXCEPT ![t] = NewText(s, Unknown, mortal)]
    /\ hold' = [hold EXCEPT ![h] = t]
    /\ answer' = NoAnswer
    /\ UNCHANGED stopped

(* minyar_character_text.  ASCII Characters and small Integers have Texts  *)
(* of known length that are kept for ever; a large Integer's is mortal.    *)
CharacterText(h, t, c, mortal) ==
    /\ hold[h] = None /\ text[t] = None
    /\ text' = [text EXCEPT ![t] =
                   IF c < 128 THEN NewText(<<c>>, 1, mortal)
                   ELSE NewText(EncodeCharacter(c), Unknown, TRUE)]
    /\ hold' = [hold EXCEPT ![h] = t]
    /\ answer' = NoAnswer
    /\ UNCHANGED stopped

Stop(why, h, first, last) ==
    /\ stopped' = [why |-> why, of |-> h, first |-> first, last |-> last]
    /\ answer' = NoAnswer
    /\ UNCHANGED <<text, hold>>

TextLength(h) ==
    LET t == hold[h]
        x == Indexed(t)
    IN  /\ t # None
        /\ \/ /\ x.length = Unknown
              /\ Stop("encoding", h, 0, 0)
           \/ /\ x.length # Unknown
              /\ text' = [text EXCEPT ![t] = x]
              /\ answer' = [do |-> "length", of |-> h, value |-> x.length]
              /\ UNCHANGED <<hold, stopped>>

(* indexed_character_at: the cursor moves behind the Character read. *)
ReadIndexed(s, x, position) ==
    LET found == ByteOffset(s, x, position)
        d == DecodeCharacter(SubSeq(s, found.byte + 1, Len(s)))
    IN  [character |-> d.character, scanned |-> found.scanned,
         text |-> WithCursor(found.text, position + 1, found.byte + d.width)]

(* Mutant: the position is taken for a byte offset in every Text. *)
ReadCharacterByte(s, x, position) ==
    [character |-> s[position + 1], scanned |-> 0, text |-> x]

ReadCharacter(s, x, position) ==
    IF x.offsets = None
    THEN [character |-> s[position + 1], scanned |-> 0, text |-> x]
    ELSE ReadIndexed(s, x, position)

CharacterAt(h, position) ==
    LET t == hold[h]
        x == Indexed(t)
        r == ReadCharacter(Bytes(t), x, position)
    IN  /\ t # None
        /\ \/ /\ position < 0
              /\ Stop("position", h, position, position + 1)
           \/ /\ position >= 0 /\ x.length = Unknown
              /\ Stop("encoding", h, position, position + 1)
           \/ /\ position >= 0 /\ x.length # Unknown /\ position >= x.length
              /\ Stop("position", h, position, position + 1)
           \/ /\ position >= 0 /\ position < x.length
              /\ text' = [text EXCEPT ![t] = r.text]
              /\ answer' = [do |-> "character", of |-> h, at |-> position,
                            value |-> r.character, scanned |-> r.scanned]
              /\ UNCHANGED <<hold, stopped>>

(* First and last byte of a slice, the Text with its cursor moved, and the *)
(* longer of the two scans.                                                *)
SliceBytes(s, x, first, last) ==
    IF x.offsets = None
    THEN [first |-> first, last |-> last, text |-> x, scanned |-> 0]
    ELSE LET f == ByteOffset(s, x, first)
             l == ByteOffset(s, f.text, last)
         IN  [first |-> f.byte, last |-> l.byte, text |-> l.text,
              scanned |-> Max({f.scanned, l.scanned})]

RootOf(t) == IF text[t].backing = None THEN t ELSE text[t].backing

(* The new Text of a proper slice: a copy if a small part of a large root, *)
(* else a view of the root.  As many bytes as Characters means ASCII.      *)
Sliced(t, b, characters) ==
    LET root == RootOf(t)
        size == b.last - b.first
        length == IF size = characters THEN characters ELSE Unknown
    IN  IF text[root].size > CopyAbove /\ size * CopyShare < text[root].size
        THEN NewText(SubSeq(Bytes(t), b.first + 1, b.last), length, TRUE)
        ELSE View(root, text[t].at + b.first, size, length)

Slice(h, first, last, into, v) ==
    LET t == hold[h]
        x == Indexed(t)
        within == 0 <= first /\ first <= last /\ last <= x.length
        b == SliceBytes(Bytes(t), x, first, last)
        whole == b.first = 0 /\ b.last = text[t].size
    IN  /\ t # None /\ hold[into] = None /\ text[v] = None
        /\ \/ /\ x.length = Unknown
              /\ Stop("encoding", h, first, last)
           \/ /\ x.length # Unknown /\ ~within
              /\ Stop("position", h, first, last)
           \/ /\ x.length # Unknown /\ within
              /\ text' = [text EXCEPT
                            ![t] = b.text,
                            ![v] = IF whole THEN None ELSE Sliced(t, b, last - first)]
              /\ hold' = [hold EXCEPT ![into] = IF whole THEN t ELSE v]
              /\ answer' = [do |-> "slice", of |-> h, into |-> into,
                            first |-> first, last |-> last, scanned |-> b.scanned]
              /\ UNCHANGED stopped

(* minyar_join_text and minyar_join_texts: a new Text with all the bytes. *)
JoinTexts(parts, into, t) ==
    LET s == FlattenSeq([i \in DOMAIN parts |-> Bytes(hold[parts[i]])]) IN
    /\ \A i \in DOMAIN parts : hold[parts[i]] # None
    /\ hold[into] = None /\ text[t] = None
    /\ Len(s) <= MaxBytes
    /\ text' = [text EXCEPT ![t] = NewText(s, Unknown, TRUE)]
    /\ hold' = [hold EXCEPT ![into] = t]
    /\ answer' = NoAnswer
    /\ UNCHANGED stopped

(* A Text that grows in place: the index goes, the length stays if known.  *)
Grown(l, r) ==
    LET s == Bytes(l) \o Bytes(r) IN
    [text[l] EXCEPT !.bytes = s, !.size = Len(s), !.offsets = None,
                    !.length = IF text[l].length >= 0 /\ text[r].length >= 0
                               THEN text[l].length + text[r].length ELSE Unknown]

(* minyar_join_text_take_left: the handle of the left operand gets the     *)
(* result.  If the left Text is not the handle's alone, it is copied and   *)
(* then released.                                                          *)
JoinTakeLeft(h, with, t) ==
    LET l == hold[h]
        r == hold[with]
    IN  /\ l # None /\ r # None
        /\ text[l].size + text[r].size <= MaxBytes
        /\ \/ /\ Unique(l)
              /\ text' = [text EXCEPT ![l] = Grown(l, r)]
              /\ UNCHANGED hold
           \/ /\ ~Unique(l) /\ text[t] = None
              /\ hold' = [hold EXCEPT ![h] = t]
              /\ text' = Swept([text EXCEPT ![t] =
                                   NewText(Bytes(l) \o Bytes(r), Unknown, TRUE)], hold')
        /\ answer' = [do |-> "take", of |-> h, with |-> with]
        /\ UNCHANGED stopped

(* The Characters of both operands are counted, and one is not ASCII. *)
Mixed(h, with) ==
    /\ hold[h] # None /\ hold[with] # None /\ Unique(hold[h])
    /\ text[hold[h]].length # Unknown /\ text[hold[with]].length # Unknown
    /\ text[hold[h]].offsets # None \/ text[hold[with]].offsets # None

Release(h) ==
    /\ hold[h] # None
    /\ hold' = [hold EXCEPT ![h] = None]
    /\ text' = Swept(text, hold')
    /\ answer' = NoAnswer
    /\ UNCHANGED stopped

(* The positions a program asks about: those of the Text and the ones next *)
(* to them.                                                                *)
Positions(h) == IF hold[h] = None THEN {} ELSE -1..(text[hold[h]].size + 1)

Calls ==
    \E h \in Handles :
        \/ \E t \in Texts, s \in Literals, mortal \in BOOLEAN : OutsideText(h, t, s, mortal)
        \/ \E t \in Texts, c \in Alphabet, mortal \in BOOLEAN : CharacterText(h, t, c, mortal)
        \/ TextLength(h)
        \/ \E p \in Positions(h) : CharacterAt(h, p)
        \/ \E first, last \in Positions(h), into \in Handles, v \in Texts :
              Slice(h, first, last, into, v)
        \/ \E parts \in BoundedSeq(Handles, 2), t \in Texts : JoinTexts(parts, h, t)
        \/ \E with \in Handles, t \in Texts :
              (MixedJoins \/ ~Mixed(h, with)) /\ JoinTakeLeft(h, with, t)
        \/ Release(h)

Stopped == stopped # None /\ UNCHANGED vars

Next == (stopped = None /\ Calls) \/ Stopped

Spec == Init /\ [][Next]_vars
-----------------------------------------------------------------------------
(***************************************************************************)
(* What the answers should be, said without decoding: a Character starts   *)
(* at every byte that is no continuation.                                  *)
(***************************************************************************)
Starts(s) == {i \in 1..Len(s) : ~Continuation(s[i])}
TrueLength(s) == Cardinality(Starts(s))
TrueOffset(s, p) ==
    IF p = TrueLength(s) THEN Len(s)
    ELSE (CHOOSE i \in Starts(s) : Cardinality({j \in Starts(s) : j < i}) = p) - 1
Piece(s, first, last) == SubSeq(s, TrueOffset(s, first) + 1, TrueOffset(s, last))

WellFormed(s) ==
    /\ s # <<>> => ~Continuation(s[1])
    /\ \A p \in 0..(TrueLength(s) - 1) :
          \E c \in Alphabet : Piece(s, p, p + 1) = EncodeCharacter(c)

Live == {t \in Texts : text[t] # None}

(* Lengths in range; a view lies within its root, which is there and is    *)
(* itself no view.                                                         *)
TypeOK ==
    /\ \A t \in Live :
          /\ text[t].backing # None =>
                LET root == text[text[t].backing] IN
                root # None /\ root.backing = None /\ text[t].at + text[t].size <= root.size
          /\ text[t].size \in 0..MaxBytes /\ text[t].length \in {Unknown} \cup 0..MaxBytes
    /\ hold \in [Handles -> Texts \cup {None}]

(* A length that is known is right, a Text without index is ASCII, every   *)
(* breadcrumb is the offset of its Character, and so is the cursor: the    *)
(* caches of a Text never go stale, whichever calls come in which order.   *)
IndexTrue ==
    \A t \in Live :
        LET s == Bytes(t)
            x == text[t]
            n == Breadcrumbs(x.length)
        IN  x.length # Unknown =>
            /\ WellFormed(s) /\ x.length = TrueLength(s)
            /\ x.offsets = None => x.length = Len(s)
            /\ x.offsets # None =>
                  /\ \A e \in 0..(n - 1) : x.offsets[e] = TrueOffset(s, e * Stride)
                  /\ x.offsets[n] \in 0..x.length
                  /\ x.offsets[n + 1] = TrueOffset(s, x.offsets[n])

(* The records of a Text and its caches are right. *)
IndexSound == TypeOK /\ IndexTrue

(* "length counts Unicode scalar values, and indexing produces a           *)
(* Character"; "positions count Unicode characters rather than UTF-8       *)
(* bytes" (docs/language.md 39-51).  minyar_text_length,                   *)
(* minyar_text_character_at and minyar_text_slice return the true answer,  *)
(* for positions within the Text only.                                     *)
ReturnsTrue ==
    answer.do \in {"length", "character", "slice"} =>
    LET s == Bytes(hold[answer.of]) IN
    /\ answer.do = "length" => answer.value = TrueLength(s)
    /\ answer.do = "character" =>
          /\ answer.at \in 0..(TrueLength(s) - 1)
          /\ EncodeCharacter(answer.value) = Piece(s, answer.at, answer.at + 1)
    /\ answer.do = "slice" =>
          /\ 0 <= answer.first /\ answer.first <= answer.last /\ answer.last <= TrueLength(s)
          /\ Bytes(hold[answer.into]) = Piece(s, answer.first, answer.last)

(* The program is stopped for its encoding only if the Text is malformed,  *)
(* and for a position only if that lies outside.                           *)
StopsAreJust ==
    stopped # None =>
        LET s == Bytes(hold[stopped.of]) IN
        IF stopped.why = "encoding" THEN ~WellFormed(s)
        ELSE ~(0 <= stopped.first /\ stopped.first <= stopped.last
               /\ stopped.last <= TrueLength(s))

(* Calls on Texts answer truly or stop justly (docs/language.md 39-51).    *)
AnswersTrue == ReturnsTrue /\ StopsAreJust

(* "Indexing scans at most 63 UTF-8 characters" from a breadcrumb          *)
(* (minyar_runtime.c 885): fewer than Stride.                              *)
ScansBounded ==
    answer.do \in {"character", "slice"} => answer.scanned \in 0..(Stride - 1)

(* Reading a Text forwards decodes each Character once: the Character      *)
(* after the one last read is found without a scan.                        *)
ForwardReadsAreCheap ==
    [][(answer.do = "character" /\ answer'.do = "character"
        /\ answer'.of = answer.of /\ answer'.at = answer.at + 1)
           => answer'.scanned = 0]_vars

(* No position is expensive to find: one scan is bounded, and a loop over   *)
(* the Characters of a Text scans nothing.                                 *)
ReadsAreCheap == []ScansBounded /\ ForwardReadsAreCheap

(* Texts are immutable: whatever call is made, every Text a handle holds   *)
(* keeps its bytes, except that the left operand of a taking join becomes  *)
(* the concatenation.                                                      *)
TextsImmutable ==
    [][\A h \in Handles :
          hold[h] # None /\ hold'[h] # None =>
              Bytes(hold[h])' =
                  IF answer'.do = "take" /\ answer'.of = h
                  THEN Bytes(hold[h]) \o Bytes(hold[answer'.with])
                  ELSE Bytes(hold[h])]_vars
=============================================================================
