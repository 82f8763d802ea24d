---------------------------- MODULE Stage0Lexer -----------------------------
(***************************************************************************)
(* The tokens of the bootstrap compiler (bootstrap/stage0.c, lines         *)
(* 193-368).  A source is a sequence of characters, written as strings of  *)
(* length one; the character behind its end is "".                         *)
(***************************************************************************)
EXTENDS Integers, SequencesExt, FiniteSetsExt

CONSTANTS Sources,   \* the sources read
          Largest    \* LLONG_MAX

VARIABLES source, cursor, line, column,
          found,   \* the tokens so far, each with the place it was found at
          ended    \* "no", "eof" or "failed" after fail_at

vars == <<source, cursor, line, column, found, ended>>

Letters == {"a", "n", "r", "t", "_"}
Digit == [d \in {"0", "1", "9"} |-> CASE d = "0" -> 0 [] d = "1" -> 1 [] d = "9" -> 9]
Digits == DOMAIN Digit
Space == {" ", "\t", "\r"}
Pairs == {<<"=", "=">>, <<"!", "=">>, <<"<", "=">>, <<">", "=">>, <<"&", "&">>, <<"|", "|">>}
Singles == {"(", ")", "{", "}", "[", "]", ":", ",", ".", ";", "+", "-", "*", "/", "%", "=", "!",
            "<", ">"}

(* What a backslash and one more character stand for. *)
Escapes == [e \in {"0", "n", "r", "t", "\\", "\"", "'"} |->
               CASE e = "0" -> "NUL" [] e = "n" -> "NEWLINE" [] e = "r" -> "RETURN"
                 [] e = "t" -> "TAB" [] OTHER -> e]

Init ==
    /\ source \in Sources
    /\ cursor = 1 /\ line = 1 /\ column = 1
    /\ found = <<>> /\ ended = "no"

Peek(i) == IF i <= Len(source) THEN source[i] ELSE ""
Pair(i) == <<Peek(i), Peek(i + 1)>>
-----------------------------------------------------------------------------
Place(n, c) == [line |-> n, column |-> c]

(* The place after the characters from..to-1 were taken, one by one. *)
RECURSIVE Taken(_, _, _)
Taken(place, from, to) ==
    IF from = to THEN place
    ELSE Taken(IF Peek(from) = "\n" THEN Place(place.line + 1, 1)
               ELSE Place(place.line, place.column + 1), from + 1, to)

Failed == 0

RECURSIVE LineEnd(_)
LineEnd(i) == IF Peek(i) \in {"", "\n"} THEN i ELSE LineEnd(i + 1)

RECURSIVE CommentEnd(_)
CommentEnd(i) ==
    IF Peek(i) = "" THEN Failed
    ELSE IF Pair(i) = <<"*", "/">> THEN i + 2 ELSE CommentEnd(i + 1)

(* Mutant: the star that opens a comment may close it. *)
ShortComment(i) == CommentEnd(i + 1)

BlockComment(i) == CommentEnd(i + 2)

(* skip_horizontal_space_and_comments *)
RECURSIVE Skip(_)
Skip(i) ==
    IF i = Failed THEN Failed
    ELSE IF Peek(i) \in Space THEN Skip(i + 1)
    ELSE IF Pair(i) = <<"/", "/">> THEN Skip(LineEnd(i))
    ELSE IF Pair(i) = <<"/", "*">> THEN Skip(BlockComment(i))
    ELSE i
-----------------------------------------------------------------------------
(* A token read: its kind, the place behind it and its value. *)
Lexed(kind, to, value) == [kind |-> kind, to |-> to, value |-> value]
Nothing == Lexed("failed", Failed, <<>>)

RECURSIVE NameEnd(_)
NameEnd(i) == IF Peek(i) \in Letters \cup Digits THEN NameEnd(i + 1) ELSE i

Fits(value, digit) == value <= (Largest - digit) \div 10

RECURSIVE IntegerAt(_, _)
IntegerAt(i, value) ==
    IF Peek(i) \notin Digits THEN Lexed("integer", i, <<value>>)
    ELSE IF ~Fits(value, Digit[Peek(i)]) THEN Nothing
    ELSE IntegerAt(i + 1, value * 10 + Digit[Peek(i)])

Escaped(i) == IF Peek(i) \in DOMAIN Escapes THEN Escapes[Peek(i)] ELSE ""

RECURSIVE TextAt(_, _)
TextAt(i, text) ==
    CASE Peek(i) = "\"" -> Lexed("text", i + 1, text)
      [] Peek(i) \in {"", "\n"} -> Nothing
      [] Peek(i) = "\\" ->
           IF Escaped(i + 1) = "" THEN Nothing ELSE TextAt(i + 2, Append(text, Escaped(i + 1)))
      [] OTHER -> TextAt(i + 1, Append(text, Peek(i)))

CharacterAt(i) ==
    LET character == IF Peek(i) = "\\" THEN Escaped(i + 1) ELSE Peek(i)
        close == IF Peek(i) = "\\" THEN i + 2 ELSE i + 1
    IN  IF Peek(i) \in {"", "\n", "'"} \/ character = "" \/ Peek(close) # "'" THEN Nothing
        ELSE Lexed("character", close + 1, <<character>>)

TokenAt(i) ==
    CASE Peek(i) = "" -> Lexed("eof", i, <<>>)
      [] Peek(i) = "\n" -> Lexed("newline", i + 1, <<>>)
      [] Peek(i) \in Letters -> Lexed("name", NameEnd(i), SubSeq(source, i, NameEnd(i) - 1))
      [] Peek(i) \in Digits -> IntegerAt(i, 0)
      [] Peek(i) = "\"" -> TextAt(i + 1, <<>>)
      [] Peek(i) = "'" -> CharacterAt(i + 1)
      [] Pair(i) \in Pairs -> Lexed("operator", i + 2, Pair(i))
      [] Peek(i) \in Singles /\ Pair(i) \notin Pairs -> Lexed("operator", i + 1, <<Peek(i)>>)
      [] OTHER -> Nothing

NextToken ==
    LET start == Skip(cursor)
        token == IF start = Failed THEN Nothing ELSE TokenAt(start)
        before == Taken(Place(line, column), cursor, start)
        after == Taken(before, start, token.to)
    IN  /\ ended = "no"
        /\ \/ /\ token.to = Failed
              /\ ended' = "failed" /\ UNCHANGED <<cursor, line, column, found>>
           \/ /\ token.to # Failed
              /\ found' = Append(found, [token |-> token, from |-> start, place |-> before])
              /\ cursor' = token.to /\ line' = after.line /\ column' = after.column
              /\ ended' = IF token.kind = "eof" THEN "eof" ELSE "no"
        /\ UNCHANGED source

Next == NextToken

Spec == Init /\ [][Next]_vars
-----------------------------------------------------------------------------
(***************************************************************************)
(* What a token is, said of the piece of source between two places.        *)
(***************************************************************************)
Piece(from, to) == SubSeq(source, from, to - 1)

IsComment(p) ==
    \/ IsPrefix(<<"/", "/">>, p) /\ "\n" \notin ToSet(p)
    \/ /\ Len(p) >= 4 /\ IsPrefix(<<"/", "*">>, p) /\ IsSuffix(<<"*", "/">>, p)
       /\ \A i \in 3..(Len(p) - 2) : SubSeq(p, i, i + 1) # <<"*", "/">>

(* A line comment goes to the end of its line. *)
Complete(from, to) ==
    IsPrefix(<<"/", "/">>, Piece(from, to)) => Peek(to) \in {"", "\n"}

(* Nothing but blanks and comments. *)
RECURSIVE Blank(_, _)
Blank(from, to) ==
    \/ from = to
    \/ \E k \in (from + 1)..to :
          /\ \/ \E s \in Space : Piece(from, k) = <<s>>
             \/ IsComment(Piece(from, k)) /\ Complete(from, k)
          /\ Blank(k, to)

ValueOf(p) ==
    LET value[i \in 0..Len(p)] == IF i = 0 THEN 0 ELSE 10 * value[i - 1] + Digit[p[i]]
    IN  value[Len(p)]

(* The characters between quotes: a backslash takes the next one with it. *)
RECURSIVE Quotable(_, _), Unescaped(_)
Quotable(p, quote) ==
    \/ p = <<>>
    \/ p[1] = "\\" /\ Len(p) > 1 /\ p[2] \in DOMAIN Escapes /\ Quotable(SubSeq(p, 3, Len(p)), quote)
    \/ p[1] \notin {quote, "\n", "\\"} /\ Quotable(Tail(p), quote)
Unescaped(p) ==
    IF p = <<>> THEN <<>>
    ELSE IF p[1] = "\\" THEN <<Escapes[p[2]]>> \o Unescaped(SubSeq(p, 3, Len(p)))
    ELSE <<p[1]>> \o Unescaped(Tail(p))
Inside(p) == SubSeq(p, 2, Len(p) - 1)
Quoted(p, quote) ==
    Len(p) >= 2 /\ p[1] = quote /\ Last(p) = quote /\ Quotable(Inside(p), quote)

(* A token that can stand between two places, as long as it can be. *)
Kinds == {"newline", "name", "integer", "text", "character", "operator"}
Stands(kind, from, to) ==
    LET p == Piece(from, to)
    IN  CASE kind = "newline" -> p = <<"\n">>
          [] kind = "name" ->
               /\ p[1] \in Letters /\ ToSet(p) \subseteq Letters \cup Digits
               /\ Peek(to) \notin Letters \cup Digits
          [] kind = "integer" ->
               ToSet(p) \subseteq Digits /\ Peek(to) \notin Digits /\ ValueOf(p) <= Largest
          [] kind = "text" -> Quoted(p, "\"")
          [] kind = "character" -> Quoted(p, "'") /\ Len(Unescaped(Inside(p))) = 1
          [] kind = "operator" ->
               \/ p \in Pairs
               \/ /\ Len(p) = 1 /\ p[1] \in Singles
                  /\ Pair(from) \notin Pairs \cup {<<"/", "/">>, <<"/", "*">>}

Spelled(kind, p) ==
    CASE kind = "newline" -> <<>>
      [] kind \in {"name", "operator"} -> p
      [] kind = "integer" -> <<ValueOf(p)>>
      [] kind \in {"text", "character"} -> Unescaped(Inside(p))

LineBreaks(to) == {i \in 1..(to - 1) : source[i] = "\n"}

(* Every character of the source belongs to one token, or to a blank or    *)
(* comment between tokens (next_token); tokens are as long as they can be, *)
(* have the value they spell and the line and column where they start; and *)
(* a source is refused only where no token can stand: at an open quote or  *)
(* comment, an unknown escape, or an Integer above the largest one.        *)
TokensExact ==
    /\ \A k \in DOMAIN found :
          LET t == found[k]
              breaks == LineBreaks(t.from)
          IN  /\ Blank(IF k = 1 THEN 1 ELSE found[k - 1].token.to, t.from)
              /\ IF t.token.kind = "eof" THEN t.from = Len(source) + 1
                 ELSE /\ Stands(t.token.kind, t.from, t.token.to)
                      /\ t.token.value = Spelled(t.token.kind, Piece(t.from, t.token.to))
              /\ t.place = Place(Cardinality(breaks) + 1, t.from - Max(breaks \cup {0}))
    /\ ended = "failed" =>
          \A from \in cursor..Len(source) :
              Blank(cursor, from) =>
                  \A to \in (from + 1)..(Len(source) + 1), kind \in Kinds : ~Stands(kind, from, to)
=============================================================================
