-------------------------------- MODULE Utf8 --------------------------------
(***************************************************************************)
(* The two conversions between Characters and bytes (decode_character and  *)
(* encode_character of minyar_runtime.c).  A byte is a number below 256;   *)
(* masks and shifts are written as remainders and quotients.               *)
(***************************************************************************)
EXTENDS Integers, Sequences

Byte == 0..255

(* The bits of a byte 10xxxxxx. *)
Continuation(b) == b \div 64 = 2
Payload(b) == b % 64

(* The width and value of the Character that starts a sequence of bytes; a *)
(* width of zero means that the program stops because of invalid UTF-8.    *)
Decoded(w, c) == [width |-> w, character |-> c]
Invalid == Decoded(0, 0)

TwoBytes(s) ==
    /\ s[1] \in 194..223 /\ Len(s) >= 2
    /\ Continuation(s[2])

(* Mutant: overlong forms of three bytes are accepted. *)
ThreeBytesOverlong(s) ==
    /\ s[1] \div 16 = 14 /\ Len(s) >= 3
    /\ Continuation(s[2]) /\ Continuation(s[3])
    /\ s[1] = 237 => s[2] < 160

ThreeBytes(s) ==
    /\ s[1] \div 16 = 14 /\ Len(s) >= 3
    /\ Continuation(s[2]) /\ Continuation(s[3])
    /\ s[1] = 224 => s[2] >= 160
    /\ s[1] = 237 => s[2] < 160

FourBytes(s) ==
    /\ s[1] \in 240..244 /\ Len(s) >= 4
    /\ Continuation(s[2]) /\ Continuation(s[3]) /\ Continuation(s[4])
    /\ s[1] = 240 => s[2] >= 144
    /\ s[1] = 244 => s[2] < 144

(* The first Character of a non-empty sequence of bytes. *)
DecodeCharacter(s) ==
    IF s[1] < 128 THEN Decoded(1, s[1])
    ELSE IF TwoBytes(s) THEN Decoded(2, (s[1] % 32) * 64 + Payload(s[2]))
    ELSE IF ThreeBytes(s) THEN
        Decoded(3, (s[1] % 16) * 4096 + Payload(s[2]) * 64 + Payload(s[3]))
    ELSE IF FourBytes(s) THEN
        Decoded(4, (s[1] % 8) * 262144 + Payload(s[2]) * 4096
                   + Payload(s[3]) * 64 + Payload(s[4]))
    ELSE Invalid

(* What encode_character accepts: a code point that is no surrogate.       *)
(* Other Integers stop the program.                                        *)
Scalar(c) == c \in Nat /\ c <= 1114111 /\ ~(55296 <= c /\ c <= 57343)

(* Byte 10xxxxxx with six bits of c, those above unit. *)
Tail6(c, unit) == 128 + ((c \div unit) % 64)

EncodeCharacter(c) ==
    IF c < 128 THEN <<c>>
    ELSE IF c < 2048 THEN <<192 + (c \div 64), Tail6(c, 1)>>
    ELSE IF c < 65536 THEN <<224 + (c \div 4096), Tail6(c, 64), Tail6(c, 1)>>
    ELSE <<240 + (c \div 262144), Tail6(c, 4096), Tail6(c, 64), Tail6(c, 1)>>
=============================================================================
