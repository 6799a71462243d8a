-------------------------------- MODULE Utf8 --------------------------------
(***************************************************************************)
(* The character check of qrexec-lib/unicode.c on real byte values.  A C   *)
(* string is the sequence of its bytes before the terminating NUL.         *)
(***************************************************************************)
EXTENDS Integers, Sequences

CONSTANTS
    Inputs,          \* the C strings an instance considers
    SafeCodePoints   \* qubes_pure_code_point_safe_for_display() (generated)

ASSUME Utf8Assumption ==
    /\ \A s \in Inputs : s \in Seq(1..255)
    /\ \A cp \in SafeCodePoints :
          /\ cp \in Nat /\ 32 <= cp /\ cp <= 1114111
          /\ cp < 55296 \/ 57343 < cp

NUL == 0

(* str[i], counting from 1; reading past the NUL is what no caller may do. *)
At(str, i) == IF i \in 1..Len(str) THEN str[i] ELSE NUL

IsPrintableAscii(byte) == byte \in 32..126

IsTail(byte) == byte \in 128..191

(***************************************************************************)
(* validate_utf8_char_and_return_len(): the length of the character at i,  *)
(* or minus the number of bytes to skip when it is refused.  `first' is    *)
(* the position before the tails that the loop consumes, `bits' what the   *)
(* switch took of the code point.                                          *)
(***************************************************************************)
Decoded(str, first, tails, bits, size) ==
    LET Low6(k) == At(str, first + k) - 128
        code_point ==
            CASE tails = 1 -> bits * 64 + Low6(1)
              [] tails = 2 -> (bits * 64 + Low6(1)) * 64 + Low6(2)
              [] OTHER -> ((bits * 64 + Low6(1)) * 64 + Low6(2)) * 64 + Low6(3)
    IN  IF \E k \in 1..tails : ~IsTail(At(str, first + k)) THEN -1
        ELSE IF code_point \in SafeCodePoints THEN size ELSE -size

(* Mutant: the second byte of a character that starts with 0xE0 or 0xF0 is *)
(* checked only to be a tail, so overlong forms are decoded.               *)
CharLen_Overlong(str, i) ==
    LET c == At(str, i) IN
    CASE c \in 194..223 -> Decoded(str, i, 1, c % 32, 2)
      [] c \in 224..239 -> Decoded(str, i, 2, c % 16, 3)
      [] c \in 240..244 -> Decoded(str, i, 3, c % 8, 4)
      [] OTHER -> -1

CharLen(str, i) ==
    LET c == At(str, i)
        second == At(str, i + 1)
    IN  CASE c \in 194..223 -> Decoded(str, i, 1, c % 32, 2)
          [] c = 224 -> IF second \in 160..191
                        THEN Decoded(str, i + 1, 1, second % 64, 3) ELSE -1
          [] c \in 225..239 -> Decoded(str, i, 2, c % 16, 3)
          [] c = 240 -> IF second \in 144..191
                        THEN Decoded(str, i + 1, 2, second % 64, 4) ELSE -1
          [] c \in 241..244 -> Decoded(str, i, 3, c % 8, 4)
          [] OTHER -> -1

(* validate_utf8_char_safe_for_display()                                   *)
SafeCharLen(str, i) == IF CharLen(str, i) > 0 THEN CharLen(str, i) ELSE 0

(***************************************************************************)
(* qubes_pure_string_safe_for_display(): the loop body runs before the     *)
(* test for NUL, so the empty string is not safe.                          *)
(***************************************************************************)
string_safe_for_display(str) ==
    LET SafeFrom[i \in 1..(Len(str) + 1)] ==
            IF i = Len(str) + 1 THEN i > 1
            ELSE IF IsPrintableAscii(str[i]) THEN SafeFrom[i + 1]
            ELSE SafeCharLen(str, i) > 0 /\ SafeFrom[i + SafeCharLen(str, i)]
    IN  SafeFrom[1]

(***************************************************************************)
(* The reference: UTF-8 as RFC 3629 encodes it, from the code point to the *)
(* bytes.                                                                  *)
(***************************************************************************)
TailByte(bits) == 128 + (bits % 64)

Encode(cp) ==
    CASE cp < 128                  -> <<cp>>
      [] 128 <= cp /\ cp < 2048    -> <<192 + (cp \div 64), TailByte(cp)>>
      [] 2048 <= cp /\ cp < 65536  -> <<224 + (cp \div 4096),
                                        TailByte(cp \div 64), TailByte(cp)>>
      [] OTHER                     -> <<240 + (cp \div 262144),
                                        TailByte(cp \div 4096),
                                        TailByte(cp \div 64), TailByte(cp)>>

(* The safe characters outside ASCII, encoded.                             *)
SafeChars == {Encode(cp) : cp \in {c \in SafeCodePoints : c >= 128}}

IsSafeCharAt(str, i) ==
    \E ch \in SafeChars :
        /\ i + Len(ch) - 1 <= Len(str)
        /\ SubSeq(str, i, i + Len(ch) - 1) = ch
=============================================================================
