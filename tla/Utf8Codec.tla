----------------------------- MODULE Utf8Codec ------------------------------
(***************************************************************************)
(* Characters on their way into and out of Texts.  A program reads bytes   *)
(* from outside (a file, an argument, a literal) and indexes them, or      *)
(* turns a Character into a Text (minyar_character_text).                  *)
(***************************************************************************)
EXTENDS Utf8

CONSTANTS Inputs,      \* byte sequences that come from outside
          CodePoints   \* Characters a program makes Texts of

InputAssumption == Inputs \subseteq Seq(Byte) \ {<<>>}
CharacterAssumption == \A c \in CodePoints : Scalar(c)

VARIABLES bytes,       \* the Text at hand
          character    \* the Character at hand

vars == <<bytes, character>>

Init == bytes \in Inputs /\ character \in CodePoints

(* minyar_text_character_at(text, 0); invalid bytes stop the program. *)
CharacterAt ==
    LET d == DecodeCharacter(bytes) IN
    /\ d.width > 0
    /\ character' = d.character
    /\ UNCHANGED bytes

(* minyar_character_text; the Texts of ASCII Characters are kept for ever. *)
CharacterText ==
    /\ bytes' = EncodeCharacter(character)
    /\ UNCHANGED character

Next == CharacterAt \/ CharacterText

Spec == Init /\ [][Next]_vars
-----------------------------------------------------------------------------
TypeOK == bytes \in Seq(Byte) \ {<<>>} /\ Scalar(character)

(* Indexing the Text of a Character gives the Character back, and its      *)
(* width is the whole Text: encode_character and decode_character agree at *)
(* every width.                                                            *)
EncodingIsRead ==
    DecodeCharacter(EncodeCharacter(character)) =
        Decoded(Len(EncodeCharacter(character)), character)

(* decode_character accepts nothing but encodings: what it reads from      *)
(* arbitrary bytes is a scalar value, in range and no surrogate, and it    *)
(* has no second, longer spelling.  So texts_are_equal may compare bytes.  *)
DecodingIsStrict ==
    LET d == DecodeCharacter(bytes)
        e == EncodeCharacter(d.character) IN
    d.width > 0 => /\ Scalar(d.character)
                   /\ Len(e) = d.width
                   /\ d.width <= Len(bytes)
                   /\ \A i \in 1..d.width : e[i] = bytes[i]

(* Encoding and decoding are inverse to each other where decoding succeeds.*)
CodecExact == EncodingIsRead /\ DecodingIsStrict
=============================================================================
