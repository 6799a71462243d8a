---------------------------- MODULE UnicodeProofs ----------------------------
(***************************************************************************)
(* Proofs about the two scanners of unicode.c, for every set of strings,   *)
(* safe code points and buffer sizes.                                      *)
(*                                                                         *)
(* The first part is about one character: what                             *)
(* validate_utf8_char_and_return_len() accepts is what RFC 3629 encodes    *)
(* for a safe code point, byte for byte (SafeCharacters).  The bytes are   *)
(* split into those of a well-formed character of two, three or four bytes *)
(* (Form) and what they decode to (Code).                                  *)
(*                                                                         *)
(* The second part is about the buffers: no scan passes the NUL, no write  *)
(* the end of the buffer (UnicodeOK).                                      *)
(*                                                                         *)
(* The third part is about the sanitized string: it always divides into    *)
(* safe characters (SafeText), and so the check of the same file accepts   *)
(* it.  The fourth: it is, character by character, what the reference      *)
(* decoder makes of the bytes that have been read (Trail).                 *)
(*                                                                         *)
(* The fifth part is about paths: the components are in the order of their *)
(* starts (InOrder), so that what the rules say of them can be said of the *)
(* places where they start (ErrorOf), which the scan follows (Progress).   *)
(*                                                                         *)
(* The checks are recursive functions over the places of a string; that    *)
(* they have a solution is proved by taking the least or the greatest      *)
(* place at which something fails.                                         *)
(***************************************************************************)
EXTENDS MCUnicode, SequenceTheorems, FiniteSetTheorems, WellFoundedInduction, TLAPS

(* The two modules have the same character check, ... *)
LEMMA SameDecoded ==
    ASSUME NEW s, NEW first, NEW tails, NEW bits, NEW size
    PROVE  Display!Decoded(s, first, tails, bits, size) = Decoded(s, first, tails, bits, size)
  BY DEF Decoded, Display!Decoded, At, Display!At, IsTail, Display!IsTail, NUL, Display!NUL

(* ... for the whole character, ... *)
LEMMA SameCharLen ==
    ASSUME NEW s, NEW k
    PROVE  Display!CharLen(s, k) = CharLen(s, k)
  BY SameDecoded DEF CharLen, Display!CharLen, At, Display!At, NUL, Display!NUL

(* ... and for the string. *)
LEMMA SameSafe ==
    ASSUME NEW s
    PROVE  Display!string_safe_for_display(s) = string_safe_for_display(s)
  BY SameCharLen DEF string_safe_for_display, Display!string_safe_for_display, SafeCharLen, Display!SafeCharLen,
     IsPrintableAscii, Display!IsPrintableAscii

(* The check of a string, with its recursion spelt out *)
LEMMA SafeRec ==
    ASSUME NEW s
    PROVE  string_safe_for_display(s) = (CHOOSE f : f = [k \in 1..(Len(s)+1) |->
            IF k = Len(s) + 1 THEN k > 1
            ELSE IF IsPrintableAscii(s[k]) THEN f[k + 1]
            ELSE SafeCharLen(s, k) > 0 /\ f[k + SafeCharLen(s, k)]])[1]
  BY DEF string_safe_for_display

-----------------------------------------------------------------------------
(* The bytes of a character *)

Bytes == 0..255

(* The bytes of a string are numbers. *)
LEMMA ByteFacts ==
    /\ \A s \in Seq(Bytes) : Len(s) \in Nat /\ \A k \in 1..Len(s) : s[k] \in Bytes
    /\ \A c \in Bytes : c \in 0..255
    /\ \A c \in 0..255 : c \in Bytes
<1>1. \A s \in Seq(Bytes) : Len(s) \in Nat /\ \A k \in 1..Len(s) : s[k] \in Bytes
  OBVIOUS
<1> QED
  BY <1>1 DEF Bytes

(* A tail byte of the string; what is made of a code point *)
TailAt(s, k) == k <= Len(s) /\ s[k] \in 128..191
Verdict(cp, size) == IF cp \in SafeCodePoints THEN size ELSE -size

(* The bytes at k are those of a character of n bytes, as far as the       *)
(* switch and the loop of validate_utf8_char_and_return_len() can tell.    *)
Form(s, k, n) ==
    \/ n = 2 /\ s[k] \in 194..223 /\ TailAt(s, k + 1)
    \/ n = 3 /\ s[k] \in 224..239 /\ TailAt(s, k + 1) /\ TailAt(s, k + 2)
             /\ (s[k] = 224 => s[k + 1] >= 160)
    \/ n = 4 /\ s[k] \in 240..244 /\ TailAt(s, k + 1) /\ TailAt(s, k + 2) /\ TailAt(s, k + 3)
             /\ (s[k] = 240 => s[k + 1] >= 144)

Code(s, k, n) ==
    IF n = 2 THEN (s[k] - 192) * 64 + (s[k + 1] - 128)
    ELSE IF n = 3 THEN ((s[k] - 224) * 64 + (s[k + 1] - 128)) * 64 + (s[k + 2] - 128)
    ELSE (((s[k] - 240) * 64 + (s[k + 1] - 128)) * 64 + (s[k + 2] - 128)) * 64 + (s[k + 3] - 128)

(* What the loop over the tails computes *)
LEMMA Decoded1 ==
    ASSUME NEW s \in Seq(Bytes), NEW first \in 0..Len(s), NEW bits \in Nat, NEW size
    PROVE  /\ TailAt(s, first + 1) =>
                Decoded(s, first, 1, bits, size) = Verdict(bits * 64 + (s[first + 1] - 128), size)
           /\ ~TailAt(s, first + 1) => Decoded(s, first, 1, bits, size) = -1
<1>1. \A k \in 1..1 : IsTail(At(s, first + k)) <=> TailAt(s, first + k)
  BY DEF IsTail, At, NUL, TailAt
<1> QED
  BY <1>1 DEF Decoded, At, TailAt, Verdict

(* Likewise for two tails, ... *)
LEMMA Decoded2 ==
    ASSUME NEW s \in Seq(Bytes), NEW first \in 0..Len(s), NEW bits \in Nat, NEW size
    PROVE  /\ TailAt(s, first + 1) /\ TailAt(s, first + 2) =>
                Decoded(s, first, 2, bits, size) =
                    Verdict((bits * 64 + (s[first + 1] - 128)) * 64 + (s[first + 2] - 128), size)
           /\ ~TailAt(s, first + 1) \/ ~TailAt(s, first + 2) => Decoded(s, first, 2, bits, size) = -1
<1>1. \A k \in 1..2 : IsTail(At(s, first + k)) <=> TailAt(s, first + k)
  BY DEF IsTail, At, NUL, TailAt
<1> QED
  BY <1>1 DEF Decoded, At, TailAt, Verdict

(* ... and for three *)
LEMMA Decoded3 ==
    ASSUME NEW s \in Seq(Bytes), NEW first \in 0..Len(s), NEW bits \in Nat, NEW size
    PROVE  /\ TailAt(s, first + 1) /\ TailAt(s, first + 2) /\ TailAt(s, first + 3) =>
                Decoded(s, first, 3, bits, size) =
                    Verdict(((bits * 64 + (s[first + 1] - 128)) * 64 + (s[first + 2] - 128)) * 64
                            + (s[first + 3] - 128), size)
           /\ ~TailAt(s, first + 1) \/ ~TailAt(s, first + 2) \/ ~TailAt(s, first + 3) =>
                Decoded(s, first, 3, bits, size) = -1
<1>1. \A k \in 1..3 : IsTail(At(s, first + k)) <=> TailAt(s, first + k)
  BY DEF IsTail, At, NUL, TailAt
<1> QED
  BY <1>1 DEF Decoded, At, TailAt, Verdict

(* What a lead byte contributes *)
LEMMA LeadBits ==
    ASSUME NEW c \in 0..255
    PROVE  /\ c \in 194..223 => c % 32 = c - 192
           /\ c \in 224..239 => c % 16 = c - 224
           /\ c \in 240..244 => c % 8 = c - 240
           /\ c \in 128..191 => c % 64 = c - 128
  OBVIOUS

(* The lengths of characters are different. *)
LEMMA FourIsNot == 3 # 2 /\ 4 # 2 /\ 4 # 3
  OBVIOUS

(* What validate_utf8_char_and_return_len() returns: the length of a       *)
(* well-formed character that is safe, minus the length of one that is     *)
(* not, and -1 for anything else.                                          *)
LEMMA CharLenFacts ==
    ASSUME NEW s \in Seq(Bytes), NEW k \in 1..Len(s)
    PROVE  /\ \A n \in 2..4 : Form(s, k, n) =>
                CharLen(s, k) = Verdict(Code(s, k, n), n)
           /\ (\A n \in 2..4 : ~Form(s, k, n)) => CharLen(s, k) = -1
<1> DEFINE c == At(s, k)
           d == At(s, k + 1)
<1>e. /\ c = s[k]
      /\ k + 1 <= Len(s) => d = s[k + 1]
      /\ ~(k + 1 <= Len(s)) => d = 0
  BY DEF At, NUL
<1>0. Len(s) \in Nat /\ k \in Nat /\ k >= 1 /\ k <= Len(s) /\ (k + 1 <= Len(s) => k + 1 \in 1..Len(s))
      /\ k \in 0..Len(s)
  BY ByteFacts
<1>1. c \in 0..255 /\ d \in 0..255
  <2>1. s[k] \in Bytes /\ (k + 1 <= Len(s) => s[k + 1] \in Bytes)
    BY <1>0
  <2>2. c \in 0..255
    BY <1>e, <2>1, ByteFacts, Zenon
  <2>3. CASE k + 1 <= Len(s)
    <3>1. d \in Bytes
      BY <1>e, <2>1, <2>3, Zenon
    <3> QED
      BY <2>2, <3>1, ByteFacts, Zenon
  <2>4. CASE ~(k + 1 <= Len(s))
    BY <1>e, <2>2, <2>4
  <2> QED
    BY <2>3, <2>4
<1> DEFINE v1 == Decoded(s, k, 1, c % 32, 2)
           v2 == IF d \in 160..191 THEN Decoded(s, k + 1, 1, d % 64, 3) ELSE -1
           v3 == Decoded(s, k, 2, c % 16, 3)
           v4 == IF d \in 144..191 THEN Decoded(s, k + 1, 2, d % 64, 4) ELSE -1
           v5 == Decoded(s, k, 3, c % 8, 4)
<1>2. CharLen(s, k) =
        CASE c \in 194..223 -> v1 [] c = 224 -> v2 [] c \in 225..239 -> v3
          [] c = 240 -> v4 [] c \in 241..244 -> v5 [] OTHER -> -1
  BY Zenon DEF CharLen
<1> DEFINE p1 == c \in 194..223
           p2 == c = 224
           p3 == c \in 225..239
           p4 == c = 240
           p5 == c \in 241..244
<1> HIDE DEF c, d, v1, v2, v3, v4, v5
<1>a. /\ p1 => ~p2 /\ ~p3 /\ ~p4 /\ ~p5
      /\ p2 => ~p1 /\ ~p3 /\ ~p4 /\ ~p5
      /\ p3 => ~p1 /\ ~p2 /\ ~p4 /\ ~p5
      /\ p4 => ~p1 /\ ~p2 /\ ~p3 /\ ~p5
      /\ p5 => ~p1 /\ ~p2 /\ ~p3 /\ ~p4
      /\ ~(c \in 194..244) => ~p1 /\ ~p2 /\ ~p3 /\ ~p4 /\ ~p5
  BY <1>1
<1>f. CharLen(s, k) =
        CASE p1 -> v1 [] p2 -> v2 [] p3 -> v3 [] p4 -> v4 [] p5 -> v5 [] OTHER -> -1
  BY <1>2, Zenon
<1> HIDE DEF p1, p2, p3, p4, p5
<1>g. /\ p1 => CharLen(s, k) = v1
      /\ p2 => CharLen(s, k) = v2
      /\ p3 => CharLen(s, k) = v3
      /\ p4 => CharLen(s, k) = v4
      /\ p5 => CharLen(s, k) = v5
      /\ ~(c \in 194..244) => CharLen(s, k) = -1
  BY <1>a, <1>f
<1>b. /\ c \in 194..223 => CharLen(s, k) = v1
      /\ c = 224 => CharLen(s, k) = v2
      /\ c \in 225..239 => CharLen(s, k) = v3
      /\ c = 240 => CharLen(s, k) = v4
      /\ c \in 241..244 => CharLen(s, k) = v5
      /\ ~(c \in 194..244) => CharLen(s, k) = -1
  BY <1>g, Zenon DEF p1, p2, p3, p4, p5
<1>d. TailAt(s, k + 1) <=> d \in 128..191
  <2>1. ~(0 \in 128..191)
    OBVIOUS
  <2> QED
    BY <1>e, <2>1, Zenon DEF TailAt
<1>t. \A n : Form(s, k, n) <=>
        \/ n = 2 /\ c \in 194..223 /\ TailAt(s, k + 1)
        \/ n = 3 /\ c \in 224..239 /\ TailAt(s, k + 1) /\ TailAt(s, k + 2) /\ (c = 224 => d >= 160)
        \/ n = 4 /\ c \in 240..244 /\ TailAt(s, k + 1) /\ TailAt(s, k + 2) /\ TailAt(s, k + 3)
           /\ (c = 240 => d >= 144)
  <2>1. TailAt(s, k + 1) => d = s[k + 1]
    BY <1>e, Zenon DEF TailAt
  <2> QED
    BY <1>e, <2>1 DEF Form
<1>3. CASE c \in 194..223
  <2>1. CharLen(s, k) = Decoded(s, k, 1, c - 192, 2)
    BY <1>1, <1>b, <1>3, LeadBits DEF v1
  <2>2. c - 192 \in Nat /\ k \in 0..Len(s)
    BY <1>0, <1>1, <1>3
  <2>3. \A n \in 2..4 : Form(s, k, n) <=> n = 2 /\ TailAt(s, k + 1)
    BY <1>1, <1>3, <1>t
  <2>4. /\ TailAt(s, k + 1) => CharLen(s, k) = Verdict((c - 192) * 64 + (s[k + 1] - 128), 2)
        /\ ~TailAt(s, k + 1) => CharLen(s, k) = -1
    BY <2>1, <2>2, Decoded1
  <2>5. Code(s, k, 2) = (c - 192) * 64 + (s[k + 1] - 128)
    BY <1>e, Zenon DEF Code
  <2> QED
    BY <2>3, <2>4, <2>5
<1>4. CASE c \in 224..239
  <2>1. \A n \in 2..4 : Form(s, k, n) <=>
          n = 3 /\ TailAt(s, k + 1) /\ TailAt(s, k + 2) /\ (c = 224 => d >= 160)
    BY <1>1, <1>4, <1>t
  <2>2. CASE c = 224
    <3>1. TailAt(s, k + 1) /\ d >= 160 <=> d \in 160..191
      BY <1>1, <1>d
    <3>2. CASE ~(d \in 160..191)
      BY <1>b, <2>1, <2>2, <3>1, <3>2 DEF v2
    <3>3. CASE d \in 160..191
      <4>1. d = s[k + 1] /\ d - 128 \in Nat /\ k + 1 \in 0..Len(s) /\ (k + 1) + 1 = k + 2
        BY <1>0, <1>d, <1>e, <3>1, <3>3 DEF TailAt
      <4>2. CharLen(s, k) = Decoded(s, k + 1, 1, d - 128, 3)
        BY <1>1, <1>b, <2>2, <3>3, LeadBits DEF v2
      <4>3. /\ TailAt(s, k + 2) => CharLen(s, k) = Verdict((d - 128) * 64 + (s[k + 2] - 128), 3)
            /\ ~TailAt(s, k + 2) => CharLen(s, k) = -1
        BY <4>1, <4>2, Decoded1
      <4>4. Code(s, k, 3) = (d - 128) * 64 + (s[k + 2] - 128)
        <5>1. (s[k] - 224) * 64 + (s[k + 1] - 128) = d - 128
          BY <1>e, <2>2, <4>1
        <5> QED
          BY <5>1, FourIsNot, Zenon DEF Code
      <4> QED
        BY <2>1, <2>2, <3>1, <3>3, <4>3, <4>4
    <3> QED
      BY <3>2, <3>3
  <2>3. CASE c # 224
    <3>1. CharLen(s, k) = Decoded(s, k, 2, c - 224, 3)
      BY <1>1, <1>b, <1>4, <2>3, LeadBits DEF v3
    <3>2. c - 224 \in Nat /\ k \in 0..Len(s)
      BY <1>0, <1>1, <1>4
    <3>3. /\ TailAt(s, k + 1) /\ TailAt(s, k + 2) =>
                CharLen(s, k) = Verdict(((c - 224) * 64 + (s[k + 1] - 128)) * 64 + (s[k + 2] - 128), 3)
          /\ ~TailAt(s, k + 1) \/ ~TailAt(s, k + 2) => CharLen(s, k) = -1
      BY <3>1, <3>2, Decoded2
    <3>4. Code(s, k, 3) = ((c - 224) * 64 + (s[k + 1] - 128)) * 64 + (s[k + 2] - 128)
      BY <1>e, FourIsNot, Zenon DEF Code
    <3> QED
      BY <2>1, <2>3, <3>3, <3>4
  <2> QED
    BY <2>2, <2>3
<1>5. CASE c \in 240..244
  <2>1. \A n \in 2..4 : Form(s, k, n) <=>
          n = 4 /\ TailAt(s, k + 1) /\ TailAt(s, k + 2) /\ TailAt(s, k + 3) /\ (c = 240 => d >= 144)
    BY <1>1, <1>5, <1>t
  <2>2. CASE c = 240
    <3>1. TailAt(s, k + 1) /\ d >= 144 <=> d \in 144..191
      BY <1>1, <1>d
    <3>2. CASE ~(d \in 144..191)
      BY <1>b, <2>1, <2>2, <3>1, <3>2 DEF v4
    <3>3. CASE d \in 144..191
      <4>1. d = s[k + 1] /\ d - 128 \in Nat /\ k + 1 \in 0..Len(s) /\ (k + 1) + 1 = k + 2 /\ (k + 1) + 2 = k + 3
        BY <1>0, <1>d, <1>e, <3>1, <3>3 DEF TailAt
      <4>2. CharLen(s, k) = Decoded(s, k + 1, 2, d - 128, 4)
        BY <1>1, <1>b, <2>2, <3>3, LeadBits DEF v4
      <4>3. /\ TailAt(s, k + 2) /\ TailAt(s, k + 3) =>
                CharLen(s, k) = Verdict(((d - 128) * 64 + (s[k + 2] - 128)) * 64 + (s[k + 3] - 128), 4)
            /\ ~TailAt(s, k + 2) \/ ~TailAt(s, k + 3) => CharLen(s, k) = -1
        BY <4>1, <4>2, Decoded2
      <4>4. Code(s, k, 4) = ((d - 128) * 64 + (s[k + 2] - 128)) * 64 + (s[k + 3] - 128)
        <5>1. (s[k] - 240) * 64 + (s[k + 1] - 128) = d - 128
          BY <1>e, <2>2, <4>1
        <5> QED
          BY <5>1, FourIsNot, Zenon DEF Code
      <4> QED
        BY <2>1, <2>2, <3>1, <3>3, <4>3, <4>4
    <3> QED
      BY <3>2, <3>3
  <2>3. CASE c # 240
    <3>1. CharLen(s, k) = Decoded(s, k, 3, c - 240, 4)
      BY <1>1, <1>b, <1>5, <2>3, LeadBits DEF v5
    <3>2. c - 240 \in Nat /\ k \in 0..Len(s)
      BY <1>0, <1>1, <1>5
    <3>3. /\ TailAt(s, k + 1) /\ TailAt(s, k + 2) /\ TailAt(s, k + 3) =>
                CharLen(s, k) =
                    Verdict((((c - 240) * 64 + (s[k + 1] - 128)) * 64 + (s[k + 2] - 128)) * 64
                            + (s[k + 3] - 128), 4)
          /\ ~TailAt(s, k + 1) \/ ~TailAt(s, k + 2) \/ ~TailAt(s, k + 3) => CharLen(s, k) = -1
      BY <3>1, <3>2, Decoded3
    <3>4. Code(s, k, 4) = (((c - 240) * 64 + (s[k + 1] - 128)) * 64 + (s[k + 2] - 128)) * 64
                            + (s[k + 3] - 128)
      BY <1>e, FourIsNot, Zenon DEF Code
    <3> QED
      BY <2>1, <2>3, <3>3, <3>4
  <2> QED
    BY <2>2, <2>3
<1>6. CASE ~(c \in 194..244)
  <2>1. CharLen(s, k) = -1
    BY <1>b, <1>6
  <2>2. \A n \in 2..4 : ~Form(s, k, n)
    BY <1>1, <1>6, <1>t
  <2> QED
    BY <2>1, <2>2
<1> QED
  BY <1>1, <1>3, <1>4, <1>5, <1>6

(* A character lies within the string, and so do the bytes to skip. *)
LEMMA CharLenRange ==
    ASSUME NEW s \in Seq(Bytes), NEW k \in 1..Len(s)
    PROVE  /\ CharLen(s, k) \in Int /\ CharLen(s, k) # 0
           /\ CharLen(s, k) > 0 =>
                /\ CharLen(s, k) \in 2..4 /\ k + CharLen(s, k) <= Len(s) + 1
                /\ Form(s, k, CharLen(s, k)) /\ Code(s, k, CharLen(s, k)) \in SafeCodePoints
           /\ CharLen(s, k) < 0 => CharLen(s, k) >= -4 /\ k - CharLen(s, k) <= Len(s) + 1
<1>0. Len(s) \in Nat /\ k \in Nat /\ k >= 1 /\ k <= Len(s)
  OBVIOUS
<1>1. CASE \A n \in 2..4 : ~Form(s, k, n)
  BY <1>0, <1>1, CharLenFacts
<1>2. CASE \E n \in 2..4 : Form(s, k, n)
  <2>1. PICK n \in 2..4 : Form(s, k, n)
    BY <1>2
  <2>2. k + n <= Len(s) + 1
    BY <1>0, <2>1 DEF Form, TailAt
  <2>3. CharLen(s, k) = Verdict(Code(s, k, n), n)
    BY <2>1, CharLenFacts
  <2>4. CASE Code(s, k, n) \in SafeCodePoints
    <3>1. CharLen(s, k) = n
      BY <2>3, <2>4 DEF Verdict
    <3> QED
      BY <2>1, <2>2, <2>4, <3>1
  <2>5. CASE ~(Code(s, k, n) \in SafeCodePoints)
    <3>1. CharLen(s, k) = -n
      BY <2>3, <2>5 DEF Verdict
    <3> QED
      BY <1>0, <2>2, <3>1
  <2> QED
    BY <2>4, <2>5
<1> QED
  BY <1>1, <1>2

(* Whether a character is safe depends on its own bytes only. *)
LEMMA SameCharacter ==
    ASSUME NEW s \in Seq(Bytes), NEW j \in 1..Len(s), CharLen(s, j) > 0,
           NEW t \in Seq(Bytes), NEW k \in 1..Len(t),
           NEW n, n = CharLen(s, j), k + n - 1 <= Len(t),
           \A m \in 0..(n - 1) : t[k + m] = s[j + m]
    PROVE  CharLen(t, k) = n
<1>1. n \in 2..4 /\ Form(s, j, n) /\ Code(s, j, n) \in SafeCodePoints
  BY CharLenRange
<1>2. Len(t) \in Nat /\ k \in Nat /\ k >= 1 /\ Len(s) \in Nat /\ j \in Nat
  OBVIOUS
<1>3. ASSUME NEW m \in 1..(n - 1), TailAt(s, j + m) PROVE TailAt(t, k + m)
  <2>1. k + m <= Len(t) /\ m \in 0..(n - 1)
    BY <1>1, <1>2
  <2>2. t[k + m] = s[j + m]
    BY <2>1
  <2> QED
    BY <1>3, <2>1, <2>2, Zenon DEF TailAt
<1>4. t[k] = s[j]
  BY <1>1, <1>2
<1>5. t[k + 1] = s[j + 1] /\ (n > 2 => t[k + 2] = s[j + 2]) /\ (n > 3 => t[k + 3] = s[j + 3])
  BY <1>1
<1>6. /\ TailAt(s, j + 1) => TailAt(t, k + 1)
      /\ n > 2 /\ TailAt(s, j + 2) => TailAt(t, k + 2)
      /\ n > 3 /\ TailAt(s, j + 3) => TailAt(t, k + 3)
  BY <1>1, <1>3
<1>7. n = 2 \/ n = 3 \/ n = 4
  BY <1>1
<1>8. (n = 3 => n > 2) /\ (n = 4 => n > 2 /\ n > 3)
  OBVIOUS
<1>9. Form(t, k, n)
  BY <1>1, <1>4, <1>5, <1>6, <1>8, FourIsNot DEF Form
<1>10. Code(t, k, n) = Code(s, j, n)
  <2>1. CASE n = 2
    BY <1>4, <1>5, <2>1, Zenon DEF Code
  <2>2. CASE n = 3
    BY <1>4, <1>5, <1>8, <2>2, FourIsNot, Zenon DEF Code
  <2>3. CASE n = 4
    BY <1>4, <1>5, <1>8, <2>3, FourIsNot, Zenon DEF Code
  <2> QED
    BY <1>7, <2>1, <2>2, <2>3
<1> QED
  BY <1>1, <1>9, <1>10, CharLenFacts DEF Verdict

-----------------------------------------------------------------------------
(* The reference encoding *)

(* The last digit in base 64, and the others *)
LEMMA Digit ==
    ASSUME NEW x \in Nat
    PROVE  /\ x \div 64 \in Nat /\ x = (x \div 64) * 64 + (TailByte(x) - 128)
           /\ TailByte(x) \in 128..191
           /\ x % 64 = TailByte(x) - 128
<1> DEFINE q == x \div 64
           r == x - 64 * q
<1>1. q \in Nat
  BY SMT
<1>2. r \in Nat /\ r < 64
  BY SMT
<1>3. x = q * 64 + r
  BY <1>1
<1> HIDE DEF q, r
<1>4. r = x % 64
  BY <1>1, <1>2, <1>3
<1>5. TailByte(x) = 128 + r
  BY <1>4 DEF TailByte
<1>6. r = TailByte(x) - 128 /\ TailByte(x) \in 128..191
  BY <1>2, <1>5
<1>7. q = x \div 64
  BY DEF q
<1> QED
  BY <1>1, <1>3, <1>4, <1>6, <1>7, Zenon

(* The digits of a code point *)
DigitsOf(cp, a, b, e, y, z, w) ==
    /\ cp \div 64 = a /\ cp \div 4096 = b /\ cp \div 262144 = e
    /\ TailByte(cp) = w /\ TailByte(a) = z /\ TailByte(b) = y
    /\ a * 64 + (w - 128) = cp /\ b * 64 + (z - 128) = a /\ e * 64 + (y - 128) = b

(* A code point has digits. *)
LEMMA Digits ==
    ASSUME NEW cp \in Nat
    PROVE  \E a, b, e \in Nat, y, z, w \in 128..191 : DigitsOf(cp, a, b, e, y, z, w)
<1> DEFINE a == cp \div 64
           b == cp \div 4096
           e == cp \div 262144
           w == TailByte(cp)
           z == TailByte(a)
           y == TailByte(b)
<1>1. a \div 64 = b
  BY SMT
<1>2. b \div 64 = e
  BY SMT
<1>3. a \in Nat /\ w \in 128..191 /\ cp = a * 64 + (w - 128)
  BY Digit, Zenon
<1>6. /\ cp \div 64 = a /\ cp \div 4096 = b /\ cp \div 262144 = e
      /\ TailByte(cp) = w /\ TailByte(a) = z /\ TailByte(b) = y
  BY SMT
<1> HIDE DEF a, b, e
<1>4. b \in Nat /\ z \in 128..191 /\ a = b * 64 + (z - 128)
  <2>1. a \div 64 \in Nat /\ z \in 128..191 /\ a = (a \div 64) * 64 + (z - 128)
    BY <1>3, Digit, Zenon
  <2> QED
    BY <1>1, <2>1, Zenon
<1>5. e \in Nat /\ y \in 128..191 /\ b = e * 64 + (y - 128)
  <2>1. b \div 64 \in Nat /\ y \in 128..191 /\ b = (b \div 64) * 64 + (y - 128)
    BY <1>4, Digit, Zenon
  <2> QED
    BY <1>2, <2>1, Zenon
<1> HIDE DEF w, z, y
<1>7. a \in Nat /\ b \in Nat /\ e \in Nat /\ y \in 128..191 /\ z \in 128..191 /\ w \in 128..191
  BY <1>3, <1>4, <1>5, Zenon
<1>8. a * 64 + (w - 128) = cp /\ b * 64 + (z - 128) = a /\ e * 64 + (y - 128) = b
  BY <1>3, <1>4, <1>5, Zenon
<1>9. DigitsOf(cp, a, b, e, y, z, w)
  BY <1>6, <1>8, SMT DEF DigitsOf
<1> QED
  BY <1>7, <1>9, Zenon

(* The code points that are encoded in two, three and four bytes, and how *)
Two(cp) == 128 <= cp /\ cp < 2048
Three(cp) == 2048 <= cp /\ cp < 65536
Four(cp) == 65536 <= cp /\ cp <= 1114111
Big(cp) == 65536 <= cp

TwoOf(cp, x, y) ==
    192 + (cp \div 64) = x /\ TailByte(cp) = y /\ (x - 192) * 64 + (y - 128) = cp
ThreeOf(cp, x, y, z) ==
    /\ 224 + (cp \div 4096) = x /\ TailByte(cp \div 64) = y /\ TailByte(cp) = z
    /\ x = 224 => y >= 160
    /\ ((x - 224) * 64 + (y - 128)) * 64 + (z - 128) = cp
FourOf(cp, x, y, z, w) ==
    /\ 240 + (cp \div 262144) = x /\ TailByte(cp \div 4096) = y
    /\ TailByte(cp \div 64) = z /\ TailByte(cp) = w
    /\ x = 240 => y >= 144
    /\ (((x - 240) * 64 + (y - 128)) * 64 + (z - 128)) * 64 + (w - 128) = cp

(* Two bytes hold the code points from 128 to 2047. *)
LEMMA TwoBytes ==
    ASSUME NEW x \in 194..223, NEW y \in 128..191, NEW cp \in Nat, cp = (x - 192) * 64 + (y - 128)
    PROVE  Two(cp) /\ TwoOf(cp, x, y)
<1>1. Two(cp)
  BY SMT DEF Two
<1>2. cp \div 64 = x - 192
  BY SMT
<1>3. cp % 64 = y - 128
  BY SMT
<1> QED
  BY <1>1, <1>2, <1>3, SMT DEF TailByte, TwoOf

(* Every such code point has such bytes. *)
LEMMA TwoBytesOf ==
    ASSUME NEW cp \in Nat, Two(cp)
    PROVE  \E x \in 194..223, y \in 128..191 : TwoOf(cp, x, y)
<1>d. PICK a, b, e \in Nat, y, z, w \in 128..191 : DigitsOf(cp, a, b, e, y, z, w)
  BY Digits, Zenon
<1>1. /\ cp \div 64 = a /\ cp \div 4096 = b /\ cp \div 262144 = e
      /\ TailByte(cp) = w /\ TailByte(a) = z /\ TailByte(b) = y
      /\ a * 64 + (w - 128) = cp /\ b * 64 + (z - 128) = a /\ e * 64 + (y - 128) = b
  BY <1>d, SMT DEF DigitsOf
<1>2. 2 <= a /\ a <= 31
  BY <1>1, SMT DEF Two
<1>3. 192 + a \in 194..223 /\ (192 + a) - 192 = a
  BY <1>2, SMT
<1>4. ((192 + a) - 192) * 64 + (w - 128) = cp
  BY <1>1, <1>3, SMT
<1>5. 192 + (cp \div 64) = 192 + a
  BY <1>1, SMT
<1>6. TwoOf(cp, 192 + a, w)
  BY <1>1, <1>4, <1>5, SMT DEF TwoOf
<1> QED
  BY <1>3, <1>6, Zenon

(* Three bytes hold those from 2048 to 65535. *)
LEMMA ThreeBytes ==
    ASSUME NEW x \in 224..239, NEW y \in 128..191, NEW z \in 128..191, x = 224 => y >= 160,
           NEW cp \in Nat, cp = ((x - 224) * 64 + (y - 128)) * 64 + (z - 128)
    PROVE  Three(cp) /\ ThreeOf(cp, x, y, z)
<1>1. Three(cp)
  BY SMT DEF Three
<1>2. cp \div 4096 = x - 224
  BY SMT
<1>3. cp \div 64 = (x - 224) * 64 + (y - 128)
  BY SMT
<1>4. ((x - 224) * 64 + (y - 128)) % 64 = y - 128
  BY SMT
<1>5. cp % 64 = z - 128
  BY SMT
<1>6. 128 + (y - 128) = y /\ 128 + (z - 128) = z /\ 224 + (x - 224) = x
  BY SMT
<1>7. TailByte(cp \div 64) = y /\ TailByte(cp) = z
  BY <1>3, <1>4, <1>5, <1>6, Zenon DEF TailByte
<1>8. 224 + (cp \div 4096) = x
  BY <1>2, <1>6, SMT
<1> QED
  BY <1>1, <1>7, <1>8, SMT DEF ThreeOf

(* Every such code point has such bytes. *)
LEMMA ThreeBytesOf ==
    ASSUME NEW cp \in Nat, Three(cp)
    PROVE  \E x \in 224..239, y, z \in 128..191 : ThreeOf(cp, x, y, z)
<1>d. PICK a, b, e \in Nat, y, z, w \in 128..191 : DigitsOf(cp, a, b, e, y, z, w)
  BY Digits, Zenon
<1>1. /\ cp \div 64 = a /\ cp \div 4096 = b /\ cp \div 262144 = e
      /\ TailByte(cp) = w /\ TailByte(a) = z /\ TailByte(b) = y
      /\ a * 64 + (w - 128) = cp /\ b * 64 + (z - 128) = a /\ e * 64 + (y - 128) = b
  BY <1>d, SMT DEF DigitsOf
<1>2. 32 <= a /\ a < 1024
  BY <1>1, SMT DEF Three
<1>3. b <= 15 /\ (b = 0 => z >= 160)
  BY <1>1, <1>2, SMT
<1>4. (224 + b) - 224 = b /\ 224 + b \in 224..239 /\ (224 + b = 224 => b = 0)
  BY <1>3, SMT
<1>5. (((224 + b) - 224) * 64 + (z - 128)) * 64 + (w - 128) = cp
  <2>1. ((224 + b) - 224) * 64 + (z - 128) = a
    BY <1>1, <1>4, SMT
  <2> QED
    BY <1>1, <2>1, SMT
<1>6. TailByte(cp \div 64) = z /\ 224 + (cp \div 4096) = 224 + b /\ (224 + b = 224 => z >= 160)
  BY <1>1, <1>3, <1>4, SMT
<1>7. ThreeOf(cp, 224 + b, z, w)
  BY <1>1, <1>5, <1>6, SMT DEF ThreeOf
<1> QED
  BY <1>4, <1>7, Zenon

(* Four bytes hold the rest. *)
LEMMA FourBytes ==
    ASSUME NEW x \in 240..244, NEW y \in 128..191, NEW z \in 128..191, NEW w \in 128..191,
           x = 240 => y >= 144,
           NEW cp \in Nat, cp = (((x - 240) * 64 + (y - 128)) * 64 + (z - 128)) * 64 + (w - 128)
    PROVE  Big(cp) /\ FourOf(cp, x, y, z, w)
<1> DEFINE a == cp \div 64
           b == cp \div 4096
           e == cp \div 262144
<1>1. 65536 <= cp
  BY SMT
<1>2. e = x - 240
  BY SMT
<1>3. b = (x - 240) * 64 + (y - 128)
  BY SMT
<1>4. a = ((x - 240) * 64 + (y - 128)) * 64 + (z - 128)
  BY SMT
<1>5. /\ ((x - 240) * 64 + (y - 128)) % 64 = y - 128
      /\ (((x - 240) * 64 + (y - 128)) * 64 + (z - 128)) % 64 = z - 128
  BY SMT
<1>6. cp % 64 = w - 128
  BY SMT
<1>7. 128 + (y - 128) = y /\ 128 + (z - 128) = z /\ 128 + (w - 128) = w /\ 240 + (x - 240) = x
  BY SMT
<1> HIDE DEF a, b, e
<1>8. TailByte(b) = y /\ TailByte(a) = z /\ TailByte(cp) = w /\ 240 + e = x
  BY <1>2, <1>3, <1>4, <1>5, <1>6, <1>7, Zenon DEF TailByte
<1> QED
  BY <1>1, <1>8, SMT DEF Big, FourOf, a, b, e

(* Every such code point has such bytes. *)
LEMMA FourBytesOf ==
    ASSUME NEW cp \in Nat, Four(cp)
    PROVE  \E x \in 240..244, y, z, w \in 128..191 : FourOf(cp, x, y, z, w)
<1>d. PICK a, b, e \in Nat, y, z, w \in 128..191 : DigitsOf(cp, a, b, e, y, z, w)
  BY Digits, Zenon
<1>1. /\ cp \div 64 = a /\ cp \div 4096 = b /\ cp \div 262144 = e
      /\ TailByte(cp) = w /\ TailByte(a) = z /\ TailByte(b) = y
      /\ a * 64 + (w - 128) = cp /\ b * 64 + (z - 128) = a /\ e * 64 + (y - 128) = b
  BY <1>d, SMT DEF DigitsOf
<1>2. 1024 <= a /\ a < 17408
  BY <1>1, SMT DEF Four
<1>3. 16 <= b /\ b < 272
  BY <1>1, <1>2, SMT
<1>4. e <= 4 /\ (e = 0 => y >= 144)
  BY <1>1, <1>3, SMT
<1>5. (240 + e) - 240 = e /\ 240 + e \in 240..244 /\ (240 + e = 240 => e = 0)
  BY <1>1, <1>4, SMT
<1>6. ((((240 + e) - 240) * 64 + (y - 128)) * 64 + (z - 128)) * 64 + (w - 128) = cp
  <2>1. ((240 + e) - 240) * 64 + (y - 128) = b
    BY <1>1, <1>5, SMT
  <2>2. (((240 + e) - 240) * 64 + (y - 128)) * 64 + (z - 128) = a
    BY <1>1, <2>1, SMT
  <2> QED
    BY <1>1, <2>2, SMT
<1>7. /\ TailByte(cp \div 4096) = y /\ TailByte(cp \div 64) = z
      /\ 240 + (cp \div 262144) = 240 + e /\ (240 + e = 240 => y >= 144)
  BY <1>1, <1>4, <1>5, SMT
<1>8. FourOf(cp, 240 + e, y, z, w)
  BY <1>1, <1>6, <1>7, SMT DEF FourOf
<1> QED
  BY <1>5, <1>8, Zenon

(* What Encode() makes of a code point *)
LEMMA EncodeFacts ==
    ASSUME NEW cp \in Nat
    PROVE  /\ \A x, y : Two(cp) /\ TwoOf(cp, x, y) => Encode(cp) = <<x, y>>
           /\ \A x, y, z : Three(cp) /\ ThreeOf(cp, x, y, z) => Encode(cp) = <<x, y, z>>
           /\ \A x, y, z, w : Big(cp) /\ FourOf(cp, x, y, z, w) => Encode(cp) = <<x, y, z, w>>
<1> DEFINE p1 == cp < 128
           p2 == 128 <= cp /\ cp < 2048
           p3 == 2048 <= cp /\ cp < 65536
           v1 == <<cp>>
           v2 == <<192 + (cp \div 64), TailByte(cp)>>
           v3 == <<224 + (cp \div 4096), TailByte(cp \div 64), TailByte(cp)>>
           v4 == <<240 + (cp \div 262144), TailByte(cp \div 4096), TailByte(cp \div 64), TailByte(cp)>>
<1>1. Encode(cp) = CASE p1 -> v1 [] p2 -> v2 [] p3 -> v3 [] OTHER -> v4
  BY SMT DEF Encode
<1>2. /\ p2 => ~p1 /\ ~p3
      /\ p3 => ~p1 /\ ~p2
      /\ Big(cp) => ~p1 /\ ~p2 /\ ~p3
  BY SMT DEF Big
<1>3. (p2 <=> Two(cp)) /\ (p3 <=> Three(cp))
  BY SMT DEF Two, Three
<1> HIDE DEF p1, p2, p3, v1, v2, v3, v4
<1>4. (p2 => Encode(cp) = v2) /\ (p3 => Encode(cp) = v3) /\ (Big(cp) => Encode(cp) = v4)
  BY <1>1, <1>2, SMT
<1>5. ASSUME NEW x, NEW y, TwoOf(cp, x, y) PROVE v2 = <<x, y>>
  BY <1>5, SMT DEF TwoOf, v2
<1>6. ASSUME NEW x, NEW y, NEW z, ThreeOf(cp, x, y, z) PROVE v3 = <<x, y, z>>
  BY <1>6, SMT DEF ThreeOf, v3
<1>7. ASSUME NEW x, NEW y, NEW z, NEW w, FourOf(cp, x, y, z, w) PROVE v4 = <<x, y, z, w>>
  BY <1>7, SMT DEF FourOf, v4
<1> QED
  BY <1>3, <1>4, <1>5, <1>6, <1>7, Zenon

(* Short sequences, element by element *)
LEMMA Tuples ==
    ASSUME NEW S, NEW q \in Seq(S), NEW x, NEW y, NEW z, NEW w
    PROVE  /\ Len(q) = 2 => (q = <<x, y>> <=> q[1] = x /\ q[2] = y)
           /\ Len(q) = 3 => (q = <<x, y, z>> <=> q[1] = x /\ q[2] = y /\ q[3] = z)
           /\ Len(q) = 4 => (q = <<x, y, z, w>> <=> q[1] = x /\ q[2] = y /\ q[3] = z /\ q[4] = w)
<1>1. ASSUME Len(q) = 2 PROVE q = <<x, y>> <=> q[1] = x /\ q[2] = y
  BY <1>1
<1>2. ASSUME Len(q) = 3 PROVE q = <<x, y, z>> <=> q[1] = x /\ q[2] = y /\ q[3] = z
  BY <1>2
<1>3. ASSUME Len(q) = 4 PROVE q = <<x, y, z, w>> <=> q[1] = x /\ q[2] = y /\ q[3] = z /\ q[4] = w
  BY <1>3
<1> QED
  BY <1>1, <1>2, <1>3

(* A piece of a string, byte by byte *)
LEMMA Piece ==
    ASSUME NEW s \in Seq(Bytes), NEW k \in 1..Len(s), NEW n \in 1..3, k + n <= Len(s)
    PROVE  /\ SubSeq(s, k, k + n) \in Seq(Bytes) /\ Len(SubSeq(s, k, k + n)) = n + 1
           /\ \A j \in 0..n : SubSeq(s, k, k + n)[j + 1] = s[k + j]
<1>0. k \in Nat /\ k >= 1 /\ Len(s) \in Nat /\ k <= Len(s)
  OBVIOUS
<1>1. /\ SubSeq(s, k, k + n) \in Seq(Bytes) /\ Len(SubSeq(s, k, k + n)) = n + 1
      /\ \A j \in 1..(n + 1) : SubSeq(s, k, k + n)[j] = s[k + j - 1]
  BY <1>0
<1>2. \A j \in 0..n : j + 1 \in 1..(n + 1) /\ k + (j + 1) - 1 = k + j
  BY <1>0
<1> QED
  BY <1>1, <1>2

(* A piece of two bytes, ... *)
LEMMA Piece2 ==
    ASSUME NEW s \in Seq(Bytes), NEW k \in 1..Len(s), k + 1 <= Len(s)
    PROVE  \A x, y : SubSeq(s, k, k + 1) = <<x, y>> <=> s[k] = x /\ s[k + 1] = y
<1> TAKE x, y
<1> DEFINE q == SubSeq(s, k, k + 1)
<1>0. 1 \in 1..3 /\ k \in Nat
  OBVIOUS
<1>1. q \in Seq(Bytes) /\ Len(q) = 1 + 1 /\ \A j \in 0..1 : q[j + 1] = s[k + j]
  BY <1>0, Piece
<1> HIDE DEF q
<1>2. Len(q) = 2 /\ q[1] = s[k] /\ q[2] = s[k + 1]
  BY <1>0, <1>1
<1>3. q = <<x, y>> <=> q[1] = x /\ q[2] = y
  BY <1>1, <1>2, Tuples
<1> QED
  BY <1>2, <1>3, Zenon DEF q

(* ... of three, ... *)
LEMMA Piece3 ==
    ASSUME NEW s \in Seq(Bytes), NEW k \in 1..Len(s), k + 2 <= Len(s)
    PROVE  \A x, y, z : SubSeq(s, k, k + 2) = <<x, y, z>> <=> s[k] = x /\ s[k + 1] = y /\ s[k + 2] = z
<1> TAKE x, y, z
<1> DEFINE q == SubSeq(s, k, k + 2)
<1>0. 2 \in 1..3 /\ k \in Nat
  OBVIOUS
<1>1. q \in Seq(Bytes) /\ Len(q) = 2 + 1 /\ \A j \in 0..2 : q[j + 1] = s[k + j]
  BY <1>0, Piece
<1> HIDE DEF q
<1>2. Len(q) = 3 /\ q[1] = s[k] /\ q[2] = s[k + 1] /\ q[3] = s[k + 2]
  BY <1>0, <1>1
<1>3. q = <<x, y, z>> <=> q[1] = x /\ q[2] = y /\ q[3] = z
  BY <1>1, <1>2, Tuples
<1> QED
  BY <1>2, <1>3, Zenon DEF q

(* ... and of four *)
LEMMA Piece4 ==
    ASSUME NEW s \in Seq(Bytes), NEW k \in 1..Len(s), k + 3 <= Len(s)
    PROVE  \A x, y, z, w : SubSeq(s, k, k + 3) = <<x, y, z, w>> <=>
                              s[k] = x /\ s[k + 1] = y /\ s[k + 2] = z /\ s[k + 3] = w
<1> TAKE x, y, z, w
<1> DEFINE q == SubSeq(s, k, k + 3)
<1>0. 3 \in 1..3 /\ k \in Nat
  OBVIOUS
<1>1. q \in Seq(Bytes) /\ Len(q) = 3 + 1 /\ \A j \in 0..3 : q[j + 1] = s[k + j]
  BY <1>0, Piece
<1> HIDE DEF q
<1>2. Len(q) = 4 /\ q[1] = s[k] /\ q[2] = s[k + 1] /\ q[3] = s[k + 2] /\ q[4] = s[k + 3]
  BY <1>0, <1>1
<1>3. q = <<x, y, z, w>> <=> q[1] = x /\ q[2] = y /\ q[3] = z /\ q[4] = w
  BY <1>1, <1>2, Tuples
<1> QED
  BY <1>2, <1>3, Zenon DEF q

(* What is decoded is what was encoded. *)
LEMMA FormEncodes ==
    ASSUME NEW s \in Seq(Bytes), NEW k \in 1..Len(s), NEW n, Form(s, k, n), NEW cp, cp = Code(s, k, n)
    PROVE  /\ n \in 2..4 /\ cp \in Nat /\ 128 <= cp
           /\ k + n - 1 <= Len(s)
           /\ Encode(cp) = SubSeq(s, k, k + n - 1) /\ Len(Encode(cp)) = n
<1>0. k \in Nat /\ k >= 1 /\ Len(s) \in Nat /\ k <= Len(s)
  OBVIOUS
<1>1. CASE n = 2
  <2>1. s[k] \in 194..223 /\ s[k + 1] \in 128..191 /\ k + 1 <= Len(s)
    BY <1>1, FourIsNot, Zenon DEF Form, TailAt
  <2>2. PICK x \in 194..223, y \in 128..191 : x = s[k] /\ y = s[k + 1]
    BY <2>1, Zenon
  <2>3. cp = (x - 192) * 64 + (y - 128)
    BY <1>1, <2>2, Zenon DEF Code
  <2>4. cp \in Nat /\ 128 <= cp
    BY <2>3, SMT
  <2>5. Two(cp) /\ TwoOf(cp, x, y)
    BY <2>3, <2>4, TwoBytes
  <2>6. Encode(cp) = <<x, y>>
    BY <2>4, <2>5, EncodeFacts, Zenon
  <2>7. SubSeq(s, k, k + 1) = <<x, y>>
    <3>1. k + 1 <= Len(s)
      BY <2>1, Zenon
    <3>2. \A u, v : SubSeq(s, k, k + 1) = <<u, v>> <=> s[k] = u /\ s[k + 1] = v
      BY <3>1, Piece2
    <3> QED
      BY <2>2, <3>2, Zenon
  <2>8. k + n - 1 = k + 1 /\ Len(<<x, y>>) = 2 /\ n \in 2..4
    BY <1>0, <1>1
  <2> QED
    BY <1>1, <2>1, <2>4, <2>6, <2>7, <2>8, Zenon
<1>2. CASE n = 3
  <2>1. s[k] \in 224..239 /\ s[k + 1] \in 128..191 /\ s[k + 2] \in 128..191 /\ k + 2 <= Len(s)
        /\ (s[k] = 224 => s[k + 1] >= 160)
    BY <1>2, FourIsNot, Zenon DEF Form, TailAt
  <2>2. PICK x \in 224..239, y \in 128..191, z \in 128..191 : x = s[k] /\ y = s[k + 1] /\ z = s[k + 2]
    BY <2>1, Zenon
  <2>3. cp = ((x - 224) * 64 + (y - 128)) * 64 + (z - 128)
    BY <1>2, <2>2, FourIsNot, Zenon DEF Code
  <2>4. x = 224 => y >= 160
    BY <2>1, <2>2, Zenon
  <2>5. cp \in Nat /\ 128 <= cp
    BY <2>3, <2>4, SMT
  <2>6. Three(cp) /\ ThreeOf(cp, x, y, z)
    BY <2>3, <2>4, <2>5, ThreeBytes
  <2>7. Encode(cp) = <<x, y, z>>
    BY <2>5, <2>6, EncodeFacts, Zenon
  <2>8. SubSeq(s, k, k + 2) = <<x, y, z>>
    <3>1. k + 2 <= Len(s)
      BY <2>1, Zenon
    <3>2. \A u, v, r : SubSeq(s, k, k + 2) = <<u, v, r>> <=> s[k] = u /\ s[k + 1] = v /\ s[k + 2] = r
      BY <3>1, Piece3
    <3> QED
      BY <2>2, <3>2, Zenon
  <2>9. k + n - 1 = k + 2 /\ Len(<<x, y, z>>) = 3 /\ n \in 2..4
    BY <1>0, <1>2
  <2> QED
    BY <1>2, <2>1, <2>5, <2>7, <2>8, <2>9, Zenon
<1>3. CASE n = 4
  <2>1. s[k] \in 240..244 /\ s[k + 1] \in 128..191 /\ s[k + 2] \in 128..191 /\ s[k + 3] \in 128..191
        /\ k + 3 <= Len(s) /\ (s[k] = 240 => s[k + 1] >= 144)
    BY <1>3, FourIsNot, Zenon DEF Form, TailAt
  <2>2. PICK x \in 240..244, y \in 128..191, z \in 128..191, w \in 128..191 :
            x = s[k] /\ y = s[k + 1] /\ z = s[k + 2] /\ w = s[k + 3]
    BY <2>1, Zenon
  <2>3. cp = (((x - 240) * 64 + (y - 128)) * 64 + (z - 128)) * 64 + (w - 128)
    BY <1>3, <2>2, FourIsNot, Zenon DEF Code
  <2>4. x = 240 => y >= 144
    BY <2>1, <2>2, Zenon
  <2>5. cp \in Nat /\ 128 <= cp
    BY <2>3, <2>4, SMT
  <2>6. Big(cp) /\ FourOf(cp, x, y, z, w)
    BY <2>3, <2>4, <2>5, FourBytes, Zenon
  <2>7. Encode(cp) = <<x, y, z, w>>
    BY <2>5, <2>6, EncodeFacts, Zenon
  <2>8. SubSeq(s, k, k + 3) = <<x, y, z, w>>
    <3>1. k + 3 <= Len(s)
      BY <2>1, Zenon
    <3>2. \A u, v, r, t : SubSeq(s, k, k + 3) = <<u, v, r, t>> <=> s[k] = u /\ s[k + 1] = v /\ s[k + 2] = r /\ s[k + 3] = t
      BY <3>1, Piece4
    <3> QED
      BY <2>2, <3>2, Zenon
  <2>9. k + n - 1 = k + 3 /\ Len(<<x, y, z, w>>) = 4 /\ n \in 2..4
    BY <1>0, <1>3
  <2> QED
    BY <1>3, <2>1, <2>5, <2>7, <2>8, <2>9, Zenon
<1> QED
  BY <1>1, <1>2, <1>3 DEF Form

(* What was encoded is what is decoded. *)
LEMMA EncodeForms ==
    ASSUME NEW s \in Seq(Bytes), NEW k \in 1..Len(s), NEW cp \in SafeCodePoints, 128 <= cp,
           NEW n, n = Len(Encode(cp)), k + n - 1 <= Len(s), SubSeq(s, k, k + n - 1) = Encode(cp)
    PROVE  n \in 2..4 /\ Form(s, k, n) /\ Code(s, k, n) = cp
<1>0. k \in Nat /\ k >= 1 /\ Len(s) \in Nat /\ k <= Len(s)
  OBVIOUS
<1>1. cp \in Nat /\ (Two(cp) \/ Three(cp) \/ Four(cp)) /\ (Four(cp) => Big(cp))
  BY Utf8Assumption, SMT DEF Two, Three, Four, Big
<1>2. CASE Two(cp)
  <2>1. PICK x \in 194..223, y \in 128..191 : TwoOf(cp, x, y)
    BY <1>1, <1>2, TwoBytesOf, Zenon
  <2>2. Encode(cp) = <<x, y>>
    BY <1>1, <1>2, <2>1, EncodeFacts, Zenon
  <2>3. Len(<<x, y>>) = 2
    OBVIOUS
  <2>4. n = 2
    BY <2>2, <2>3, Zenon
  <2>5. k + n - 1 = k + 1 /\ n \in 2..4
    BY <1>0, <2>4
  <2>6. k + 1 <= Len(s) /\ SubSeq(s, k, k + 1) = <<x, y>>
    BY <2>2, <2>5, Zenon
  <2>7. s[k] = x /\ s[k + 1] = y
    <3>1. k + 1 <= Len(s)
      BY <2>6, Zenon
    <3>2. \A u, v : SubSeq(s, k, k + 1) = <<u, v>> <=> s[k] = u /\ s[k + 1] = v
      BY <3>1, Piece2
    <3> QED
      BY <2>6, <3>2, Zenon
  <2>8. Form(s, k, n)
    BY <2>4, <2>6, <2>7, Zenon DEF Form, TailAt
  <2>9. (x - 192) * 64 + (y - 128) = cp
    BY <2>1, SMT DEF TwoOf
  <2>10. Code(s, k, n) = (x - 192) * 64 + (y - 128)
    BY <2>4, <2>7, Zenon DEF Code
  <2> QED
    BY <2>5, <2>8, <2>9, <2>10, Zenon
<1>3. CASE Three(cp)
  <2>1. PICK x \in 224..239, y \in 128..191, z \in 128..191 : ThreeOf(cp, x, y, z)
    BY <1>1, <1>3, ThreeBytesOf, Zenon
  <2>2. Encode(cp) = <<x, y, z>>
    BY <1>1, <1>3, <2>1, EncodeFacts, Zenon
  <2>3. Len(<<x, y, z>>) = 3
    OBVIOUS
  <2>4. n = 3
    BY <2>2, <2>3, Zenon
  <2>5. k + n - 1 = k + 2 /\ n \in 2..4
    BY <1>0, <2>4
  <2>6. k + 2 <= Len(s) /\ k + 1 <= Len(s) /\ SubSeq(s, k, k + 2) = <<x, y, z>>
    <3>1. k + 2 <= Len(s) /\ SubSeq(s, k, k + 2) = <<x, y, z>>
      BY <2>2, <2>5, Zenon
    <3> QED
      BY <1>0, <3>1
  <2>7. s[k] = x /\ s[k + 1] = y /\ s[k + 2] = z
    <3>1. k + 2 <= Len(s)
      BY <2>6, Zenon
    <3>2. \A u, v, r : SubSeq(s, k, k + 2) = <<u, v, r>> <=> s[k] = u /\ s[k + 1] = v /\ s[k + 2] = r
      BY <3>1, Piece3
    <3> QED
      BY <2>6, <3>2, Zenon
  <2>8. (x = 224 => y >= 160) /\ ((x - 224) * 64 + (y - 128)) * 64 + (z - 128) = cp
    BY <2>1, SMT DEF ThreeOf
  <2>9. Form(s, k, n)
    BY <2>4, <2>6, <2>7, <2>8, Zenon DEF Form, TailAt
  <2>10. Code(s, k, n) = ((x - 224) * 64 + (y - 128)) * 64 + (z - 128)
    BY <2>4, <2>7, FourIsNot, Zenon DEF Code
  <2> QED
    BY <2>5, <2>8, <2>9, <2>10, Zenon
<1>4. CASE Four(cp)
  <2>1. PICK x \in 240..244, y \in 128..191, z \in 128..191, w \in 128..191 : FourOf(cp, x, y, z, w)
    BY <1>1, <1>4, FourBytesOf, Zenon
  <2>2. Encode(cp) = <<x, y, z, w>>
    BY <1>1, <1>4, <2>1, EncodeFacts, Zenon
  <2>3. Len(<<x, y, z, w>>) = 4
    OBVIOUS
  <2>4. n = 4
    BY <2>2, <2>3, Zenon
  <2>5. k + n - 1 = k + 3 /\ n \in 2..4
    BY <1>0, <2>4
  <2>6. k + 3 <= Len(s) /\ k + 2 <= Len(s) /\ k + 1 <= Len(s) /\ SubSeq(s, k, k + 3) = <<x, y, z, w>>
    <3>1. k + 3 <= Len(s) /\ SubSeq(s, k, k + 3) = <<x, y, z, w>>
      BY <2>2, <2>5, Zenon
    <3> QED
      BY <1>0, <3>1
  <2>7. s[k] = x /\ s[k + 1] = y /\ s[k + 2] = z /\ s[k + 3] = w
    <3>1. k + 3 <= Len(s)
      BY <2>6, Zenon
    <3>2. \A u, v, r, t : SubSeq(s, k, k + 3) = <<u, v, r, t>> <=> s[k] = u /\ s[k + 1] = v /\ s[k + 2] = r /\ s[k + 3] = t
      BY <3>1, Piece4
    <3> QED
      BY <2>6, <3>2, Zenon
  <2>8. (x = 240 => y >= 144) /\ (((x - 240) * 64 + (y - 128)) * 64 + (z - 128)) * 64 + (w - 128) = cp
    BY <2>1, SMT DEF FourOf
  <2>9. Form(s, k, n)
    <3>1. TailAt(s, k + 1) /\ TailAt(s, k + 2) /\ TailAt(s, k + 3)
      BY <2>6, <2>7, Zenon DEF TailAt
    <3> QED
      BY <2>4, <2>7, <2>8, <3>1, Zenon DEF Form
  <2>10. Code(s, k, n) = (((x - 240) * 64 + (y - 128)) * 64 + (z - 128)) * 64 + (w - 128)
    BY <2>4, <2>7, FourIsNot, Zenon DEF Code
  <2> QED
    BY <2>5, <2>8, <2>9, <2>10, Zenon
<1> QED
  BY <1>1, <1>2, <1>3, <1>4

(* validate_utf8_char_and_return_len() accepts exactly the safe characters *)
(* of the reference, and returns their length.                             *)
LEMMA SafeCharacters ==
    ASSUME NEW s \in Seq(Bytes), NEW k \in 1..Len(s)
    PROVE  /\ IsSafeCharAt(s, k) <=> CharLen(s, k) > 0
           /\ \A ch \in SafeChars :
                k + Len(ch) - 1 <= Len(s) /\ SubSeq(s, k, k + Len(ch) - 1) = ch =>
                    CharLen(s, k) = Len(ch)
<1>1. ASSUME NEW ch \in SafeChars, k + Len(ch) - 1 <= Len(s), SubSeq(s, k, k + Len(ch) - 1) = ch
      PROVE  CharLen(s, k) = Len(ch) /\ Len(ch) \in 2..4
  <2>1. PICK cp \in SafeCodePoints : cp >= 128 /\ ch = Encode(cp)
    BY DEF SafeChars
  <2>2. 128 <= cp
    BY <2>1, Utf8Assumption, SMT
  <2>3. Len(ch) \in 2..4 /\ Form(s, k, Len(ch)) /\ Code(s, k, Len(ch)) = cp
    BY <1>1, <2>1, <2>2, EncodeForms
  <2>4. CharLen(s, k) = Verdict(cp, Len(ch))
    BY <2>3, CharLenFacts
  <2> QED
    BY <2>3, <2>4 DEF Verdict
<1>2. ASSUME CharLen(s, k) > 0 PROVE IsSafeCharAt(s, k)
  <2> DEFINE n == CharLen(s, k)
             cp == Code(s, k, n)
  <2>1. Form(s, k, n) /\ cp \in SafeCodePoints
    BY <1>2, CharLenRange
  <2>2. 128 <= cp /\ cp \in Nat /\ k + n - 1 <= Len(s) /\ Encode(cp) = SubSeq(s, k, k + n - 1) /\ Len(Encode(cp)) = n
    BY <2>1, FormEncodes
  <2> HIDE DEF n, cp
  <2>3. cp >= 128
    BY <2>2
  <2>4. Encode(cp) \in SafeChars
    BY <2>1, <2>3 DEF SafeChars
  <2> QED
    BY <2>2, <2>4 DEF IsSafeCharAt
<1>3. ASSUME IsSafeCharAt(s, k) PROVE CharLen(s, k) > 0
  <2>1. PICK ch \in SafeChars : k + Len(ch) - 1 <= Len(s) /\ SubSeq(s, k, k + Len(ch) - 1) = ch
    BY <1>3 DEF IsSafeCharAt
  <2>2. CharLen(s, k) = Len(ch) /\ Len(ch) \in 2..4
    BY <1>1, <2>1
  <2> QED
    BY <2>2
<1> QED
  BY <1>1, <1>2, <1>3

-----------------------------------------------------------------------------
(* The buffers *)

(* The sanitizer's steps in terms of the scanner's definitions. *)
LEMMA SameHelpers ==
    /\ \A s, k : Display!At(s, k) = At(s, k)
    /\ \A c : Display!IsPrintableAscii(c) <=> IsPrintableAscii(c)
    /\ Display!NUL = 0 /\ NUL = 0 /\ Display!Underscore = 95
  BY DEF At, Display!At, IsPrintableAscii, Display!IsPrintableAscii, NUL, Display!NUL, Display!Underscore

(* The state of a scan and that of a sanitizer, with its buffer *)
ScanOK == /\ depth # Idle => depth \in Nat /\ pc \in {"scan", "done"}
          /\ depth = Idle => pc \in {"loop", "done"}

DisplayOK == depth = Idle =>
    /\ max \in Nat /\ result \in Seq(Bytes)
    /\ Len(result) <= max
    /\ pc = "loop" => Len(result) < max

StringOK == /\ name \in Seq(Bytes)
            /\ \A k \in 1..Len(name) : name[k] # 0
            /\ i \in Nat /\ 1 <= i /\ i <= Len(name) + 1

UnicodeOK == StringOK /\ ScanOK /\ DisplayOK

(* The strings of an instance are strings of bytes. *)
LEMMA InputBytes ==
    /\ \A s \in Inputs \cup Texts : s \in Seq(Bytes) /\ \A k \in 1..Len(s) : s[k] # 0
<1> SUFFICES ASSUME NEW s \in Inputs \cup Texts
             PROVE  s \in Seq(Bytes) /\ \A k \in 1..Len(s) : s[k] # 0
  OBVIOUS
<1>1. s \in Seq(1..255)
  BY Utf8Assumption, MCUnicodeAssumption
<1>2. \A k \in 1..Len(s) : s[k] \in 1..255
  BY <1>1, ElementOfSeq, Zenon
<1>3. \A c \in 1..255 : c \in Bytes /\ c # 0
  BY DEF Bytes
<1>4. s \in Seq(Bytes)
  <2>1. Len(s) \in Nat /\ s = [k \in 1..Len(s) |-> s[k]]
    BY <1>1
  <2>2. s \in [1..Len(s) -> Bytes]
    BY <1>2, <1>3, <2>1
  <2> QED
    BY <2>1, <2>2
<1> QED
  BY <1>2, <1>3, <1>4

(* The first state is sound. *)
LEMMA InitOK == UnicodeInit => UnicodeOK
<1> SUFFICES ASSUME UnicodeInit PROVE UnicodeOK
  OBVIOUS
<1>1. name \in Inputs \cup Texts /\ i = 1
  BY DEF UnicodeInit, Init, Display!Init
<1>2. name \in Seq(Bytes) /\ \A k \in 1..Len(name) : name[k] # 0
  BY <1>1, InputBytes
<1>3. StringOK
  BY <1>1, <1>2 DEF StringOK
<1>4. CASE Init /\ max = 0 /\ result = <<>>
  BY <1>3, <1>4 DEF Init, UnicodeOK, ScanOK, DisplayOK, Idle
<1>5. CASE Display!Init /\ flags = {} /\ budget = 0 /\ allowed = 0 /\ depth = Idle /\ res = 0
  <2>1. max \in Nat /\ result = <<>> /\ pc = IF max = 0 THEN "done" ELSE "loop"
    BY <1>5, MCUnicodeAssumption DEF Display!Init
  <2> QED
    BY <1>3, <1>5, <2>1 DEF UnicodeOK, ScanOK, DisplayOK, Idle
<1> QED
  BY <1>4, <1>5 DEF UnicodeInit

(* The test of the sanitizer's loop (unicode.c:342) *)
LEMMA InLoopFacts ==
    ASSUME UnicodeOK, depth = Idle, Display!InLoop
    PROVE  /\ pc = "loop" /\ i \in 1..Len(name) /\ name[i] \in Bytes /\ name[i] # 0
           /\ Len(result) \in Nat /\ Len(result) + 1 < max
<1>1. name \in Seq(Bytes) /\ i \in Nat /\ Len(name) \in Nat /\ result \in Seq(Bytes) /\ max \in Nat /\ Len(result) \in Nat
  BY DEF UnicodeOK, StringOK, DisplayOK
<1>2. pc = "loop" /\ At(name, i) # 0 /\ Len(result) < max - 1
  BY SameHelpers, Zenon DEF Display!InLoop, Display!max_text_line_length
<1>3. i \in 1..Len(name) /\ name[i] # 0
  BY <1>2, SameHelpers DEF At
<1>4. name[i] \in Bytes
  BY <1>1, <1>3, ElementOfSeq, Zenon
<1>5. Len(result) + 1 < max
  BY <1>1, <1>2
<1> QED
  BY <1>1, <1>2, <1>3, <1>4, <1>5, Zenon

(* What the sanitizer's steps do: to the characters it keeps, ... *)
LEMMA KeepAsciiFacts ==
    ASSUME UnicodeOK, depth = Idle, Display!KeepAscii
    PROVE  /\ i \in 1..Len(name) /\ name[i] \in Bytes /\ IsPrintableAscii(name[i])
           /\ pc = "loop" /\ pc' = "loop" /\ name' = name /\ max' = max /\ i' = i + 1
           /\ result' = Append(result, name[i]) /\ Len(result) + 1 < max
<1>1. Display!InLoop
  BY DEF Display!KeepAscii
<1>2. IsPrintableAscii(name[i])
  BY SameHelpers DEF Display!KeepAscii
<1> QED
  BY <1>1, <1>2, InLoopFacts DEF Display!KeepAscii

(* ... to those it refuses, ... *)
LEMMA ReplaceFacts ==
    ASSUME UnicodeOK, depth = Idle, Display!Replace
    PROVE  /\ i \in 1..Len(name) /\ ~IsPrintableAscii(name[i]) /\ CharLen(name, i) < 0
           /\ pc = "loop" /\ pc' = "loop" /\ name' = name /\ max' = max /\ i' = i - CharLen(name, i)
           /\ result' = Append(result, 95) /\ Len(result) + 1 < max
<1>1. Display!InLoop
  BY DEF Display!Replace
<1>2. ~IsPrintableAscii(name[i]) /\ CharLen(name, i) < 0 /\ i' = i - CharLen(name, i)
  BY SameHelpers, SameCharLen DEF Display!Replace
<1>3. result' = Append(result, 95)
  BY SameHelpers DEF Display!Replace
<1> QED
  BY <1>1, <1>2, <1>3, InLoopFacts DEF Display!Replace

(* ... and to those of several bytes, kept whole or cut. *)
LEMMA KeepUtf8Facts ==
    ASSUME UnicodeOK, depth = Idle, Display!KeepUtf8
    PROVE  /\ i \in 1..Len(name) /\ ~IsPrintableAscii(name[i]) /\ CharLen(name, i) > 0
           /\ pc = "loop" /\ name' = name /\ max' = max /\ Len(result) + 1 < max
           /\ \/ pc' = "done" /\ i' = i /\ result' = Append(result, 0)
              \/ /\ pc' = "loop" /\ i' = i + CharLen(name, i)
                 /\ result' = result \o SubSeq(name, i, i + CharLen(name, i) - 1)
                 /\ CharLen(name, i) + Len(result) < max - 1
<1>1. Display!InLoop
  BY DEF Display!KeepUtf8
<1>2. ~IsPrintableAscii(name[i]) /\ CharLen(name, i) > 0
  BY SameHelpers, SameCharLen DEF Display!KeepUtf8
<1>3. pc = "loop" /\ i \in 1..Len(name) /\ Len(result) \in Nat /\ Len(result) + 1 < max
  BY <1>1, InLoopFacts
<1>4. CharLen(name, i) \in Int /\ max \in Nat
  BY <1>3, CharLenRange DEF UnicodeOK, StringOK, DisplayOK
<1>5. CASE Display!NoSpaceFor(Display!CharLen(name, i))
  BY <1>2, <1>3, <1>5, SameHelpers DEF Display!KeepUtf8
<1>6. CASE ~Display!NoSpaceFor(Display!CharLen(name, i))
  <2>1. CharLen(name, i) + Len(result) < max - 1
    <3>1. ~(CharLen(name, i) >= max - 1 - Len(result))
      BY <1>6, SameCharLen, Zenon DEF Display!NoSpaceFor, Display!max_text_line_length
    <3> QED
      BY <1>3, <1>4, <3>1
  <2>2. i' = i + CharLen(name, i) /\ result' = result \o SubSeq(name, i, i + CharLen(name, i) - 1)
    BY <1>6, SameCharLen, Zenon DEF Display!KeepUtf8
  <2>3. name' = name /\ max' = max /\ pc' = pc
    BY <1>6 DEF Display!KeepUtf8
  <2> QED
    BY <1>2, <1>3, <2>1, <2>2, <2>3
<1> QED
  BY <1>5, <1>6

(* The last step terminates the string. *)
LEMMA TerminateFacts ==
    ASSUME UnicodeOK, depth = Idle, Display!Terminate
    PROVE  /\ pc = "loop" /\ pc' = "done" /\ name' = name /\ max' = max /\ i' = i
           /\ result' = Append(result, 0)
  BY SameHelpers DEF Display!Terminate

(* A kept character is part of the string. *)
LEMMA KeptPiece ==
    ASSUME NEW s \in Seq(Bytes), NEW k \in 1..Len(s), NEW n \in 2..4, k + n <= Len(s) + 1
    PROVE  /\ SubSeq(s, k, k + n - 1) \in Seq(Bytes) /\ Len(SubSeq(s, k, k + n - 1)) = n
           /\ \A j \in 1..n : SubSeq(s, k, k + n - 1)[j] = s[k + j - 1]
<1>1. k \in Nat /\ k >= 1 /\ Len(s) \in Nat /\ k + n - 1 <= Len(s) /\ k + n - 1 \in Nat
  OBVIOUS
<1> QED
  BY <1>1

(* The string is the one the call was given. *)
LEMMA KeepsString ==
    ASSUME UnicodeOK, name' = name, i' \in Nat, 1 <= i', i' <= Len(name) + 1
    PROVE  StringOK'
  BY DEF UnicodeOK, StringOK

(* The sanitizer keeps to its buffer. *)
LEMMA DisplayStep ==
    ASSUME UnicodeOK, Display!Next, UNCHANGED pathVars
    PROVE  UnicodeOK'
<1>0. depth' = depth
  BY DEF pathVars
<1>1. depth = Idle /\ pc = "loop"
  <2>1. pc = "loop"
    BY DEF Display!Next, Display!KeepAscii, Display!Replace, Display!KeepUtf8, Display!Terminate, Display!InLoop
  <2> QED
    BY <2>1 DEF UnicodeOK, ScanOK
<1>2. name \in Seq(Bytes) /\ Len(name) \in Nat /\ result \in Seq(Bytes) /\ Len(result) \in Nat /\ max \in Nat /\ i \in Nat /\ i >= 1
      /\ i <= Len(name) + 1
  BY <1>1 DEF UnicodeOK, StringOK, DisplayOK
<1>3. CASE Display!KeepAscii
  <2>1. /\ i \in 1..Len(name) /\ name[i] \in Bytes
        /\ pc' = "loop" /\ name' = name /\ max' = max /\ i' = i + 1
        /\ result' = Append(result, name[i]) /\ Len(result) + 1 < max
    BY <1>1, <1>3, KeepAsciiFacts
  <2>2. StringOK'
    BY <1>2, <2>1, KeepsString
  <2>3. result' \in Seq(Bytes) /\ Len(result') = Len(result) + 1
    BY <1>2, <2>1
  <2> QED
    BY <1>0, <1>1, <1>2, <2>1, <2>2, <2>3 DEF UnicodeOK, ScanOK, DisplayOK
<1>4. CASE Display!Replace
  <2>1. /\ i \in 1..Len(name) /\ CharLen(name, i) < 0
        /\ pc' = "loop" /\ name' = name /\ max' = max /\ i' = i - CharLen(name, i)
        /\ result' = Append(result, 95) /\ Len(result) + 1 < max
    BY <1>1, <1>4, ReplaceFacts
  <2>2. CharLen(name, i) \in Int /\ i - CharLen(name, i) <= Len(name) + 1
    BY <1>2, <2>1, CharLenRange
  <2>3. i' \in Nat /\ 1 <= i' /\ i' <= Len(name) + 1
    BY <1>2, <2>1, <2>2
  <2>4. StringOK'
    BY <2>1, <2>3, KeepsString
  <2>5. 95 \in Bytes
    BY DEF Bytes
  <2>6. result' \in Seq(Bytes) /\ Len(result') = Len(result) + 1
    BY <1>2, <2>1, <2>5
  <2> QED
    BY <1>0, <1>1, <1>2, <2>1, <2>4, <2>6 DEF UnicodeOK, ScanOK, DisplayOK
<1>5. CASE Display!KeepUtf8
  <2>1. /\ i \in 1..Len(name) /\ CharLen(name, i) > 0
        /\ name' = name /\ max' = max /\ Len(result) + 1 < max
        /\ \/ pc' = "done" /\ i' = i /\ result' = Append(result, 0)
           \/ /\ pc' = "loop" /\ i' = i + CharLen(name, i)
              /\ result' = result \o SubSeq(name, i, i + CharLen(name, i) - 1)
              /\ CharLen(name, i) + Len(result) < max - 1
    BY <1>1, <1>5, KeepUtf8Facts
  <2>2. CharLen(name, i) \in 2..4 /\ i + CharLen(name, i) <= Len(name) + 1
    BY <1>2, <2>1, CharLenRange
  <2>3. CASE pc' = "done" /\ i' = i /\ result' = Append(result, 0)
    <3>1. StringOK'
      BY <1>2, <2>1, <2>3, KeepsString
    <3>2. 0 \in Bytes
      BY DEF Bytes
    <3>3. result' \in Seq(Bytes) /\ Len(result') = Len(result) + 1
      BY <1>2, <2>3, <3>2
    <3> QED
      BY <1>0, <1>1, <1>2, <2>1, <2>3, <3>1, <3>3 DEF UnicodeOK, ScanOK, DisplayOK
  <2>4. CASE /\ pc' = "loop" /\ i' = i + CharLen(name, i)
             /\ result' = result \o SubSeq(name, i, i + CharLen(name, i) - 1)
             /\ CharLen(name, i) + Len(result) < max - 1
    <3>1. i' \in Nat /\ 1 <= i' /\ i' <= Len(name) + 1
      BY <1>2, <2>2, <2>4
    <3>2. StringOK'
      BY <2>1, <3>1, KeepsString
    <3>3. SubSeq(name, i, i + CharLen(name, i) - 1) \in Seq(Bytes)
          /\ Len(SubSeq(name, i, i + CharLen(name, i) - 1)) = CharLen(name, i)
      BY <1>2, <2>1, <2>2, KeptPiece
    <3>4. result' \in Seq(Bytes) /\ Len(result') = Len(result) + CharLen(name, i)
      BY <1>2, <2>4, <3>3
    <3>5. Len(result') < max
      <4>1. Len(result) \in Nat /\ CharLen(name, i) \in Int /\ max \in Int
        BY <1>1, <1>2, <2>2 DEF UnicodeOK, DisplayOK
      <4>2. Len(result) + CharLen(name, i) < max
        BY <2>4, <4>1
      <4> QED
        BY <3>4, <4>2
    <3> QED
      BY <1>0, <1>1, <1>2, <2>1, <2>4, <3>2, <3>4, <3>5 DEF UnicodeOK, ScanOK, DisplayOK
  <2> QED
    BY <2>1, <2>3, <2>4
<1>6. CASE Display!Terminate
  <2>1. pc' = "done" /\ name' = name /\ max' = max /\ i' = i /\ result' = Append(result, 0)
    BY <1>1, <1>6, TerminateFacts
  <2>2. StringOK'
    BY <1>2, <2>1, KeepsString
  <2>3. 0 \in Bytes
    BY DEF Bytes
  <2>4. result' \in Seq(Bytes) /\ Len(result') = Len(result) + 1
    BY <1>2, <2>1, <2>3
  <2>5. Len(result) < max
    BY <1>1 DEF UnicodeOK, DisplayOK
  <2> QED
    BY <1>0, <1>1, <1>2, <2>1, <2>2, <2>4, <2>5 DEF UnicodeOK, ScanOK, DisplayOK
<1> QED
  BY <1>3, <1>4, <1>5, <1>6 DEF Display!Next

(* The scan goes on by whole characters, and stops at the NUL. *)
LEMMA ScanStep ==
    ASSUME UnicodeOK, Next, UNCHANGED displayVars
    PROVE  UnicodeOK'
<1>1. depth # Idle /\ pc = "scan" /\ depth \in Nat
  <2>1. pc = "scan"
    BY DEF Next, EmptyOrAbsolute, ScanDot, ScanDotDot, ScanChar, ScanEnd, Scanning
  <2> QED
    BY <2>1 DEF UnicodeOK, ScanOK
<1>2. name \in Seq(Bytes) /\ Len(name) \in Nat /\ i \in Nat /\ i >= 1 /\ i <= Len(name) + 1
  BY DEF UnicodeOK, StringOK
<1>3. ASSUME NEW v, Return(v) PROVE UnicodeOK'
  BY <1>1, <1>3 DEF Return, UnicodeOK, StringOK, ScanOK, DisplayOK
<1>4. ASSUME NEW n \in Nat, Advance(n), i + n <= Len(name) + 1, depth' \in Nat PROVE UnicodeOK'
  <2>1. StringOK'
    BY <1>2, <1>4, KeepsString DEF Advance
  <2> QED
    BY <1>1, <1>4, <2>1 DEF Advance, UnicodeOK, ScanOK, DisplayOK, Idle
<1>5. CASE EmptyOrAbsolute
  BY <1>3, <1>5 DEF EmptyOrAbsolute
<1>6. CASE ScanDot
  BY <1>1, <1>2, <1>3, <1>4, <1>6 DEF ScanDot, Scanning
<1>7. CASE ScanDotDot
  <2>1. i <= Len(name) /\ At(name, i + 1) = DotByte
    BY <1>7 DEF ScanDotDot, Scanning, AtDotDot
  <2>2. i + 2 <= Len(name) + 1
    BY <1>2, <2>1 DEF At, NUL, DotByte
  <2> QED
    BY <1>1, <1>2, <1>3, <1>4, <1>7, <2>2 DEF ScanDotDot
<1>8. CASE ScanChar
  <2>1. i \in 1..Len(name)
    BY <1>2, <1>8 DEF ScanChar, Scanning
  <2>2. CharWidth \in 0..4 /\ i + CharWidth <= Len(name) + 1
    BY <1>2, <2>1, CharLenRange DEF CharWidth, SafeCharLen
  <2>3. CASE CharWidth = 0
    BY <1>3, <1>8, <2>3 DEF ScanChar
  <2>4. CASE CharWidth # 0
    <3>1. Advance(CharWidth) /\ depth' \in Nat
      BY <1>1, <1>8, <2>4 DEF ScanChar
    <3> QED
      BY <1>4, <2>2, <3>1
  <2> QED
    BY <2>3, <2>4
<1>9. CASE ScanEnd
  BY <1>3, <1>9 DEF ScanEnd
<1> QED
  BY <1>5, <1>6, <1>7, <1>8, <1>9 DEF Next

(* The invariant of both calls *)
THEOREM UnicodeInvariant == UnicodeSpec => []UnicodeOK
<1>1. UnicodeOK /\ [UnicodeNext]_<<vars, displayVars>> => UnicodeOK'
  <2>1. ASSUME UnicodeOK, UNCHANGED <<vars, displayVars>> PROVE UnicodeOK'
    BY <2>1 DEF vars, displayVars, UnicodeOK, StringOK, ScanOK, DisplayOK
  <2> QED
    BY <2>1, DisplayStep, ScanStep DEF UnicodeNext
<1> QED
  BY <1>1, InitOK, PTL DEF UnicodeSpec

(* No scan steps over the NUL, and the sanitizer does not overrun its      *)
(* buffer, for strings and buffers of any length (unicode.c:205, 222-227,  *)
(* 338-367).                                                               *)
THEOREM InBuffers_Safe == UnicodeSpec => []InBuffers
<1>1. UnicodeOK => InBuffers
  BY DEF UnicodeOK, StringOK, DisplayOK, InBuffers, NoOverread, Display!InBuffers
<1> QED
  BY <1>1, UnicodeInvariant, PTL

-----------------------------------------------------------------------------
(* The sanitized string is safe *)

(* Every set of natural numbers with an element has a least one; one with  *)
(* a bound has a greatest one.                                             *)
LEMMA LeastNat ==
    ASSUME NEW S \in SUBSET Nat, S # {}
    PROVE  \E x \in S : \A y \in S : x <= y
<1> DEFINE R == {ss \in Nat \X Nat : ss[1] < ss[2]}
<1>1. IsWellFoundedOn(R, Nat)
  BY NatLessThanWellFounded DEF OpToRel
<1>2. \A y, x \in Nat : <<y, x>> \in R <=> y < x
  OBVIOUS
<1> HIDE DEF R
<1>3. PICK x \in S : \A y \in S : ~(<<y, x>> \in R)
  BY <1>1, WFMin
<1>4. ASSUME NEW y \in S PROVE x <= y
  <2>1. x \in Nat /\ y \in Nat /\ ~(<<y, x>> \in R)
    BY <1>3, <1>4
  <2>2. ~(y < x)
    BY <1>2, <2>1, Zenon
  <2> QED
    BY <2>1, <2>2
<1> QED
  BY <1>4

(* A bounded set of numbers has a greatest element. *)
LEMMA GreatestNat ==
    ASSUME NEW S \in SUBSET Nat, S # {}, NEW b \in Nat, \A y \in S : y <= b
    PROVE  \E x \in S : \A y \in S : x >= y
<1> DEFINE T == {z \in Nat : b - z \in S}
<1>1. T \in SUBSET Nat /\ T # {}
  <2>1. PICK y \in S : TRUE
    OBVIOUS
  <2>2. b - y \in Nat /\ b - (b - y) = y
    BY <2>1
  <2> QED
    BY <2>1, <2>2
<1>2. \A y \in S : b - y \in T
  OBVIOUS
<1>3. \A z \in T : b - z \in S /\ z \in Nat
  OBVIOUS
<1> HIDE DEF T
<1>4. PICK z \in T : \A w \in T : z <= w
  BY <1>1, LeastNat
<1>5. b - z \in S /\ z \in Nat
  BY <1>3, <1>4
<1>6. ASSUME NEW y \in S PROVE b - z >= y
  BY <1>2, <1>4, <1>5, <1>6
<1> QED
  BY <1>5, <1>6

(* The bytes that qubes_pure_string_safe_for_display() goes on by, 0 when  *)
(* it refuses the string, and the places where its characters start: P has *)
(* with each of them the next one, up to the end.                          *)
StepAt(s, k) == IF IsPrintableAscii(s[k]) THEN 1 ELSE SafeCharLen(s, k)

Marks(s, P) ==
    /\ P \subseteq 1..(Len(s) + 1) /\ Len(s) + 1 \in P
    /\ \A k \in P : k # Len(s) + 1 => StepAt(s, k) > 0 /\ k + StepAt(s, k) \in P

SafeText(s) == \E P \in SUBSET (1..(Len(s) + 1)) : 1 \in P /\ Marks(s, P)

(* A step stays within the string. *)
LEMMA StepRange ==
    ASSUME NEW s \in Seq(Bytes), NEW k \in 1..Len(s)
    PROVE  StepAt(s, k) \in 0..4 /\ k + StepAt(s, k) <= Len(s) + 1
<1>1. k \in Nat /\ k >= 1 /\ k <= Len(s) /\ Len(s) \in Nat
  OBVIOUS
<1>2. CASE IsPrintableAscii(s[k])
  BY <1>1, <1>2 DEF StepAt
<1>3. CASE ~IsPrintableAscii(s[k])
  <2>1. StepAt(s, k) = IF CharLen(s, k) > 0 THEN CharLen(s, k) ELSE 0
    BY <1>3 DEF StepAt, SafeCharLen
  <2>2. CharLen(s, k) > 0 => CharLen(s, k) \in 2..4 /\ k + CharLen(s, k) <= Len(s) + 1
    BY CharLenRange
  <2> QED
    BY <1>1, <2>1, <2>2
<1> QED
  BY <1>2, <1>3

(* The step at k of s is taken at m of t when the bytes are the same. *)
LEMMA SameStep ==
    ASSUME NEW s \in Seq(Bytes), NEW k \in 1..Len(s), StepAt(s, k) > 0,
           NEW t \in Seq(Bytes), NEW m \in 1..Len(t), m + StepAt(s, k) <= Len(t) + 1,
           \A j \in 0..(StepAt(s, k) - 1) : t[m + j] = s[k + j]
    PROVE  StepAt(t, m) = StepAt(s, k)
<1>0. StepAt(s, k) \in 1..4
  BY StepRange
<1>1. t[m] = s[k]
  <2>1. 0 \in 0..(StepAt(s, k) - 1) /\ m + 0 = m /\ k + 0 = k
    BY <1>0
  <2> QED
    BY <2>1
<1>2. CASE IsPrintableAscii(s[k])
  BY <1>1, <1>2 DEF StepAt
<1>3. CASE ~IsPrintableAscii(s[k])
  <2>1. CharLen(s, k) \in Int
    BY CharLenRange
  <2>2. StepAt(s, k) = CharLen(s, k) /\ CharLen(s, k) > 0
    BY <1>0, <1>3, <2>1 DEF StepAt, SafeCharLen
  <2>3. m + CharLen(s, k) - 1 <= Len(t)
    BY <2>1, <2>2
  <2>4. CharLen(t, m) = CharLen(s, k)
    BY <2>2, <2>3, SameCharacter
  <2> QED
    BY <1>1, <1>3, <2>2, <2>4 DEF StepAt, SafeCharLen
<1> QED
  BY <1>2, <1>3

(* A safe string is safe with another safe character after it. *)
LEMMA AppendMarks ==
    ASSUME NEW s \in Seq(Bytes), SafeText(s), NEW t \in Seq(Bytes), NEW n \in 1..4,
           Len(t) = Len(s) + n, \A k \in 1..Len(s) : t[k] = s[k],
           StepAt(t, Len(s) + 1) = n
    PROVE  SafeText(t)
<1>0. Len(s) \in Nat /\ Len(t) \in Nat
  OBVIOUS
<1>1. PICK P \in SUBSET (1..(Len(s) + 1)) : 1 \in P /\ Marks(s, P)
  BY DEF SafeText
<1> DEFINE Q == P \cup {Len(t) + 1}
<1>2. Q \in SUBSET (1..(Len(t) + 1)) /\ 1 \in Q /\ Len(t) + 1 \in Q
  <2>1. \A k \in 1..(Len(s) + 1) : k \in 1..(Len(t) + 1)
    BY <1>0
  <2>2. Len(t) + 1 \in 1..(Len(t) + 1)
    BY <1>0
  <2> QED
    BY <1>1, <2>1, <2>2, Zenon
<1>3. ASSUME NEW k \in Q, k # Len(t) + 1
      PROVE  StepAt(t, k) > 0 /\ k + StepAt(t, k) \in Q
  <2>1. CASE k = Len(s) + 1
    BY <1>0, <2>1
  <2>2. CASE k # Len(s) + 1
    <3>1. k \in P /\ k \in 1..Len(s)
      BY <1>0, <1>1, <1>3, <2>2
    <3>2. StepAt(s, k) > 0 /\ k + StepAt(s, k) \in P
      BY <1>1, <2>2, <3>1 DEF Marks
    <3>3. StepAt(s, k) \in 0..4 /\ k + StepAt(s, k) <= Len(s) + 1
      BY <3>1, StepRange
    <3>4. k \in 1..Len(t) /\ k + StepAt(s, k) <= Len(t) + 1
      BY <1>0, <3>1, <3>3
    <3>5. \A j \in 0..(StepAt(s, k) - 1) : k + j \in 1..Len(s)
      BY <1>0, <3>1, <3>3
    <3>6. \A j \in 0..(StepAt(s, k) - 1) : t[k + j] = s[k + j]
      BY <3>5, Zenon
    <3>7. StepAt(t, k) = StepAt(s, k)
      BY <3>1, <3>2, <3>4, <3>6, SameStep
    <3> QED
      BY <3>2, <3>7
  <2> QED
    BY <2>1, <2>2
<1> HIDE DEF Q
<1>4. Marks(t, Q)
  BY <1>2, <1>3 DEF Marks
<1> QED
  BY <1>2, <1>4 DEF SafeText

(* The scan of a string, as the recursion of                               *)
(* qubes_pure_string_safe_for_display() defines it                         *)
Scan(s, f) == f = [k \in 1..(Len(s) + 1) |->
    IF k = Len(s) + 1 THEN k > 1
    ELSE IF IsPrintableAscii(s[k]) THEN f[k + 1]
    ELSE SafeCharLen(s, k) > 0 /\ f[k + SafeCharLen(s, k)]]

(* There is such a function. *)
LEMMA ScanExists ==
    ASSUME NEW s \in Seq(Bytes)
    PROVE  \E f : Scan(s, f)
<1> DEFINE Good(k) == Len(s) > 0 /\ \E P \in SUBSET (1..(Len(s) + 1)) : k \in P /\ Marks(s, P)
           g == [k \in 1..(Len(s) + 1) |-> Good(k)]
<1>0. Len(s) \in Nat
  OBVIOUS
<1>1. ASSUME NEW k \in 1..(Len(s) + 1), k = Len(s) + 1 PROVE Good(k) <=> k > 1
  <2>1. Marks(s, {k}) /\ {k} \in SUBSET (1..(Len(s) + 1))
    BY <1>1 DEF Marks
  <2> QED
    BY <1>0, <1>1, <2>1
<1>2. ASSUME NEW k \in 1..Len(s), StepAt(s, k) > 0
      PROVE  k + StepAt(s, k) \in 1..(Len(s) + 1) /\ (Good(k) <=> Good(k + StepAt(s, k)))
  <2>1. StepAt(s, k) \in 0..4 /\ k + StepAt(s, k) <= Len(s) + 1 /\ k # Len(s) + 1
    BY StepRange
  <2>2. k + StepAt(s, k) \in 1..(Len(s) + 1) /\ k \in 1..(Len(s) + 1)
    BY <2>1
  <2>3. ASSUME Good(k) PROVE Good(k + StepAt(s, k))
    <3>1. PICK P \in SUBSET (1..(Len(s) + 1)) : k \in P /\ Marks(s, P)
      BY <2>3
    <3>2. k + StepAt(s, k) \in P
      BY <2>1, <3>1, Zenon DEF Marks
    <3> QED
      BY <2>3, <3>1, <3>2
  <2>4. ASSUME Good(k + StepAt(s, k)) PROVE Good(k)
    <3>1. PICK P \in SUBSET (1..(Len(s) + 1)) : k + StepAt(s, k) \in P /\ Marks(s, P)
      BY <2>4
    <3>2. P \cup {k} \in SUBSET (1..(Len(s) + 1)) /\ k \in P \cup {k}
      BY <2>2
    <3>3. Marks(s, P \cup {k})
      BY <1>2, <3>1, <3>2, Zenon DEF Marks
    <3> QED
      BY <2>4, <3>2, <3>3
  <2> QED
    BY <2>2, <2>3, <2>4
<1>3. ASSUME NEW k \in 1..Len(s), ~(StepAt(s, k) > 0)
      PROVE  ~Good(k)
  <2>1. k # Len(s) + 1
    BY <1>0
  <2> QED
    BY <1>3, <2>1, Zenon DEF Marks
<1>4. \A k \in 1..(Len(s) + 1) : Good(k) \in BOOLEAN
  OBVIOUS
<1> HIDE DEF Good
<1>5. ASSUME NEW k \in 1..(Len(s) + 1)
      PROVE  Good(k) = IF k = Len(s) + 1 THEN k > 1
                       ELSE IF IsPrintableAscii(s[k]) THEN g[k + 1]
                       ELSE SafeCharLen(s, k) > 0 /\ g[k + SafeCharLen(s, k)]
  <2>1. CASE k = Len(s) + 1
    BY <1>1, <1>4, <2>1
  <2>2. CASE k # Len(s) + 1 /\ IsPrintableAscii(s[k])
    <3>1. k \in 1..Len(s) /\ StepAt(s, k) = 1
      BY <1>0, <2>2 DEF StepAt
    <3>2. k + 1 \in 1..(Len(s) + 1) /\ (Good(k) <=> Good(k + 1))
      BY <1>2, <3>1
    <3> QED
      BY <1>4, <2>2, <3>2
  <2>3. CASE k # Len(s) + 1 /\ ~IsPrintableAscii(s[k]) /\ SafeCharLen(s, k) > 0
    <3>1. k \in 1..Len(s) /\ StepAt(s, k) = SafeCharLen(s, k)
      BY <1>0, <2>3 DEF StepAt
    <3>2. k + SafeCharLen(s, k) \in 1..(Len(s) + 1) /\ (Good(k) <=> Good(k + SafeCharLen(s, k)))
      BY <1>2, <2>3, <3>1
    <3> QED
      BY <1>4, <2>3, <3>2
  <2>4. CASE k # Len(s) + 1 /\ ~IsPrintableAscii(s[k]) /\ ~(SafeCharLen(s, k) > 0)
    <3>1. k \in 1..Len(s) /\ StepAt(s, k) = SafeCharLen(s, k)
      BY <1>0, <2>4 DEF StepAt
    <3>2. ~Good(k)
      BY <1>3, <2>4, <3>1
    <3> QED
      BY <1>4, <2>4, <3>2
  <2> QED
    BY <2>1, <2>2, <2>3, <2>4
<1>6. Scan(s, g)
  BY <1>5, Zenon DEF Scan
<1> QED
  BY <1>6

(* qubes_pure_string_safe_for_display() accepts a string that the marks    *)
(* divide into safe characters.                                            *)
LEMMA MarkedIsSafe ==
    ASSUME NEW s \in Seq(Bytes), SafeText(s), s # <<>>
    PROVE  string_safe_for_display(s)
<1>0. Len(s) \in Nat /\ Len(s) > 0
  OBVIOUS
<1> DEFINE f == CHOOSE h : Scan(s, h)
<1>1. Scan(s, f)
  BY ScanExists, Zenon
<1>2. string_safe_for_display(s) = f[1]
  BY SafeRec, Zenon DEF Scan
<1> HIDE DEF f
<1>3. PICK P \in SUBSET (1..(Len(s) + 1)) : 1 \in P /\ Marks(s, P)
  BY DEF SafeText
<1>4. ASSUME NEW k \in P
      PROVE  /\ k = Len(s) + 1 => f[k]
             /\ k # Len(s) + 1 /\ f[k + StepAt(s, k)] => f[k]
  <2>1. k \in 1..(Len(s) + 1)
    BY <1>3
  <2>2. f[k] = IF k = Len(s) + 1 THEN k > 1
               ELSE IF IsPrintableAscii(s[k]) THEN f[k + 1]
               ELSE SafeCharLen(s, k) > 0 /\ f[k + SafeCharLen(s, k)]
    BY <1>1, <2>1, Zenon DEF Scan
  <2>3. k # Len(s) + 1 => StepAt(s, k) > 0
    BY <1>3 DEF Marks
  <2>4. CASE k = Len(s) + 1
    <3>1. k > 1
      BY <1>0, <2>4
    <3>2. f[k] = (k > 1)
      BY <2>2, <2>4, Zenon
    <3> QED
      BY <2>4, <3>1, <3>2, Zenon
  <2>5. CASE k # Len(s) + 1 /\ IsPrintableAscii(s[k])
    <3>1. f[k] = f[k + StepAt(s, k)]
      BY <2>2, <2>5, Zenon DEF StepAt
    <3> QED
      BY <2>5, <3>1, Zenon
  <2>6. CASE k # Len(s) + 1 /\ ~IsPrintableAscii(s[k])
    <3>1. SafeCharLen(s, k) > 0 /\ StepAt(s, k) = SafeCharLen(s, k)
      BY <2>3, <2>6, Zenon DEF StepAt
    <3>2. f[k] = (SafeCharLen(s, k) > 0 /\ f[k + StepAt(s, k)])
      BY <2>2, <2>6, <3>1, Zenon
    <3> QED
      BY <2>6, <3>1, <3>2, Zenon
  <2> QED
    BY <2>4, <2>5, <2>6, Zenon
<1>5. SUFFICES ASSUME ~f[1] PROVE FALSE
  BY <1>2, Zenon
<1> DEFINE S == {k \in P : ~f[k]}
<1>6. \A k \in P : k \in Nat /\ k <= Len(s) + 1
  BY <1>0, <1>3
<1>7. S \in SUBSET Nat /\ S # {} /\ \A y \in S : y <= Len(s) + 1
  BY <1>3, <1>5, <1>6, Zenon
<1>8. \A k \in S : k \in P /\ ~f[k]
  BY Zenon
<1>9. \A k \in P : ~f[k] => k \in S
  BY Zenon
<1> HIDE DEF S
<1>10. Len(s) + 1 \in Nat
  BY <1>0
<1>11. PICK k \in S : \A y \in S : k >= y
  BY <1>7, <1>10, GreatestNat
<1>12. k \in P /\ k # Len(s) + 1
  BY <1>4, <1>8, <1>11, Zenon
<1>13. StepAt(s, k) > 0 /\ k + StepAt(s, k) \in P
  BY <1>3, <1>12, Zenon DEF Marks
<1>14. k \in 1..Len(s)
  BY <1>0, <1>3, <1>12
<1>15. StepAt(s, k) \in 1..4
  BY <1>13, <1>14, StepRange
<1>16. k + StepAt(s, k) \in S
  BY <1>4, <1>8, <1>9, <1>11, <1>12, <1>13, Zenon
<1> QED
  BY <1>11, <1>14, <1>15, <1>16

(* What has been written before the NUL *)
SafeInv == depth = Idle =>
    IF pc = "done" /\ result # <<>>
    THEN \E r \in Seq(Bytes) : result = Append(r, 0) /\ SafeText(r)
    ELSE SafeText(result)

(* Nothing is safe text, *)
LEMMA EmptyText == SafeText(<<>>)
<1>1. Len(<<>>) = 0
  OBVIOUS
<1>2. {1} \in SUBSET (1..(0 + 1)) /\ 0 + 1 = 1
  OBVIOUS
<1>3. Marks(<<>>, {1})
  BY <1>1, <1>2 DEF Marks
<1> QED
  BY <1>1, <1>2, <1>3 DEF SafeText

(* and so it is with a printable byte after it. *)
LEMMA AppendAscii ==
    ASSUME NEW s \in Seq(Bytes), SafeText(s), NEW c \in Bytes, IsPrintableAscii(c)
    PROVE  SafeText(Append(s, c))
<1> DEFINE t == Append(s, c)
<1>1. t \in Seq(Bytes) /\ Len(t) = Len(s) + 1 /\ (\A k \in 1..Len(s) : t[k] = s[k]) /\ t[Len(s) + 1] = c
  OBVIOUS
<1> HIDE DEF t
<1>2. StepAt(t, Len(s) + 1) = 1
  BY <1>1 DEF StepAt
<1>3. SafeText(t)
  BY <1>1, <1>2, AppendMarks
<1> QED
  BY <1>3 DEF t

(* So it is with a character of several bytes. *)
LEMMA AppendUtf8 ==
    ASSUME NEW s \in Seq(Bytes), SafeText(s), NEW u \in Seq(Bytes), NEW k \in 1..Len(u),
           ~IsPrintableAscii(u[k]), CharLen(u, k) > 0
    PROVE  SafeText(s \o SubSeq(u, k, k + CharLen(u, k) - 1))
<1> DEFINE n == CharLen(u, k)
           p == SubSeq(u, k, k + n - 1)
           t == s \o p
<1>1. n \in 2..4 /\ k + n <= Len(u) + 1
  BY CharLenRange
<1>2. StepAt(u, k) = n
  BY <1>1 DEF StepAt, SafeCharLen
<1> HIDE DEF n
<1>3. p \in Seq(Bytes) /\ Len(p) = n /\ \A j \in 1..n : p[j] = u[k + j - 1]
  BY <1>1, KeptPiece
<1> HIDE DEF p
<1>4. /\ t \in Seq(Bytes) /\ Len(t) = Len(s) + n /\ (\A m \in 1..Len(s) : t[m] = s[m])
      /\ \A j \in 1..n : t[Len(s) + j] = p[j]
  BY <1>1, <1>3
<1> HIDE DEF t
<1>5. \A j \in 0..(n - 1) : t[(Len(s) + 1) + j] = u[k + j]
  <2> SUFFICES ASSUME NEW j \in 0..(n - 1) PROVE t[(Len(s) + 1) + j] = u[k + j]
    OBVIOUS
  <2>1. j + 1 \in 1..n /\ Len(s) + (j + 1) = (Len(s) + 1) + j /\ k + (j + 1) - 1 = k + j
    BY <1>1
  <2> QED
    BY <1>3, <1>4, <2>1
<1>6. Len(s) + 1 \in 1..Len(t) /\ (Len(s) + 1) + n <= Len(t) + 1 /\ n > 0 /\ n \in 1..4
  BY <1>1, <1>4
<1>7. StepAt(t, Len(s) + 1) = n
  BY <1>2, <1>4, <1>5, <1>6, SameStep
<1>8. SafeText(t)
  BY <1>4, <1>6, <1>7, AppendMarks
<1> QED
  BY <1>8 DEF t, p, n

(* Every step of the sanitizer keeps it so. *)
LEMMA SafeStep ==
    ASSUME UnicodeOK, SafeInv, Display!Next, UNCHANGED pathVars
    PROVE  SafeInv'
<1>0. depth' = depth
  BY DEF pathVars
<1>1. depth = Idle /\ pc = "loop"
  <2>1. pc = "loop"
    BY DEF Display!Next, Display!KeepAscii, Display!Replace, Display!KeepUtf8, Display!Terminate, Display!InLoop
  <2> QED
    BY <2>1 DEF UnicodeOK, ScanOK
<1>2. name \in Seq(Bytes) /\ result \in Seq(Bytes) /\ SafeText(result)
  BY <1>1 DEF UnicodeOK, StringOK, DisplayOK, SafeInv
<1>3. ASSUME pc' = "loop", SafeText(result') PROVE SafeInv'
  BY <1>3 DEF SafeInv
<1>4. ASSUME pc' = "done", result' = Append(result, 0) PROVE SafeInv'
  <2>1. result' # <<>>
    BY <1>2, <1>4
  <2> QED
    BY <1>2, <1>4, <2>1 DEF SafeInv
<1>5. CASE Display!KeepAscii
  <2>1. pc' = "loop" /\ name[i] \in Bytes /\ IsPrintableAscii(name[i]) /\ result' = Append(result, name[i])
    BY <1>1, <1>5, KeepAsciiFacts
  <2>2. SafeText(Append(result, name[i]))
    BY <1>2, <2>1, AppendAscii
  <2> QED
    BY <1>3, <2>1, <2>2
<1>6. CASE Display!Replace
  <2>1. pc' = "loop" /\ result' = Append(result, 95)
    BY <1>1, <1>6, ReplaceFacts
  <2>2. 95 \in Bytes /\ IsPrintableAscii(95)
    BY DEF Bytes, IsPrintableAscii
  <2>3. SafeText(Append(result, 95))
    BY <1>2, <2>2, AppendAscii
  <2> QED
    BY <1>3, <2>1, <2>3
<1>7. CASE Display!KeepUtf8
  <2>1. /\ i \in 1..Len(name) /\ ~IsPrintableAscii(name[i]) /\ CharLen(name, i) > 0
        /\ \/ pc' = "done" /\ result' = Append(result, 0)
           \/ pc' = "loop" /\ result' = result \o SubSeq(name, i, i + CharLen(name, i) - 1)
    BY <1>1, <1>7, KeepUtf8Facts
  <2>2. SafeText(result \o SubSeq(name, i, i + CharLen(name, i) - 1))
    BY <1>2, <2>1, AppendUtf8
  <2> QED
    BY <1>3, <1>4, <2>1, <2>2
<1>8. CASE Display!Terminate
  BY <1>1, <1>4, <1>8, TerminateFacts
<1> QED
  BY <1>5, <1>6, <1>7, <1>8 DEF Display!Next

(* The bytes before the NUL are what the caller sees. *)
LEMMA ShownFacts ==
    ASSUME NEW r \in Seq(Bytes), result = Append(r, 0)
    PROVE  Display!Shown = r
<1>1. result # <<>> /\ Len(result) = Len(r) + 1 /\ result[Len(result)] = 0 /\ SubSeq(result, 1, Len(result) - 1) = r
  OBVIOUS
<1> QED
  BY <1>1, SameHelpers DEF Display!Shown, Display!Last, Display!Front

(* qubes_pure_string_safe_for_display() accepts whatever the sanitizer     *)
(* returns, for every text, buffer and set of safe code points             *)
(* (unicode.c:331-368).                                                    *)
THEOREM Result_Safe == UnicodeSpec => []ResultIsSafe
<1>1. UnicodeInit => SafeInv
  BY EmptyText DEF UnicodeInit, Display!Init, Init, SafeInv, Idle
<1>2. UnicodeOK /\ SafeInv /\ [UnicodeNext]_<<vars, displayVars>> => SafeInv'
  <2>1. ASSUME UnicodeOK, SafeInv, Next, UNCHANGED displayVars PROVE SafeInv'
    <3>1. pc = "scan"
      BY <2>1 DEF Next, EmptyOrAbsolute, ScanDot, ScanDotDot, ScanChar, ScanEnd, Scanning
    <3>2. depth \in Nat
      BY <2>1, <3>1 DEF UnicodeOK, ScanOK
    <3>3. depth' \in Nat
      BY <2>1, <3>2 DEF Next, EmptyOrAbsolute, ScanDot, ScanDotDot, ScanChar, ScanEnd, Return, Advance
    <3> QED
      BY <3>3 DEF SafeInv, Idle
  <2>2. ASSUME SafeInv, UNCHANGED <<vars, displayVars>> PROVE SafeInv'
    BY <2>2 DEF vars, displayVars, SafeInv
  <2> QED
    BY <2>1, <2>2, SafeStep DEF UnicodeNext
<1>3. UnicodeOK /\ SafeInv => ResultIsSafe
  <2> SUFFICES ASSUME UnicodeOK, SafeInv, depth = Idle, pc = "done", Display!Shown # <<>>
               PROVE  Display!string_safe_for_display(Display!Shown)
    BY DEF ResultIsSafe, Display!ResultIsSafe
  <2>1. result # <<>>
    BY DEF Display!Shown
  <2>2. PICK r \in Seq(Bytes) : result = Append(r, 0) /\ SafeText(r)
    BY <2>1 DEF SafeInv
  <2>3. Display!Shown = r
    BY <2>2, ShownFacts
  <2> QED
    BY <2>2, <2>3, MarkedIsSafe, SameSafe
<1> QED
  BY <1>1, <1>2, <1>3, UnicodeInvariant, PTL DEF UnicodeSpec

-----------------------------------------------------------------------------
(* Nothing is lost *)

(* The bytes that are read at k, what is written for them, and the text    *)
(* expected from each place on when the bytes before n have been read, as  *)
(* Sanitize!Faithful defines them.                                         *)
WidthOf(s, k) == IF IsPrintableAscii(s[k]) THEN 1
                 ELSE IF CharLen(s, k) < 0 THEN -CharLen(s, k)
                 ELSE CharLen(s, k)

KeptOf(s, k) == IF IsPrintableAscii(s[k]) THEN <<s[k]>>
                ELSE IF IsSafeCharAt(s, k) THEN SubSeq(s, k, k + WidthOf(s, k) - 1)
                ELSE <<95>>

TextFrom(s, n, f, k) == IF k >= n \/ k = Len(s) + 1 THEN <<>>
                        ELSE KeptOf(s, k) \o f[k + WidthOf(s, k)]

ExpectedBy(s, n, f) == f = [k \in 1..(Len(s) + 1) |-> TextFrom(s, n, f, k)]

(* The reference characters of the two modules are the same. *)
LEMMA SameReference ==
    ASSUME NEW s, NEW k
    PROVE  Display!IsSafeCharAt(s, k) <=> IsSafeCharAt(s, k)
<1>1. ASSUME NEW cp PROVE Display!Encode(cp) = Encode(cp)
  BY SMT DEF Encode, Display!Encode, TailByte, Display!TailByte
<1>2. Display!SafeChars = SafeChars
  BY <1>1, Zenon DEF SafeChars, Display!SafeChars
<1> QED
  BY <1>2, Zenon DEF IsSafeCharAt, Display!IsSafeCharAt

(* Sanitize!Faithful, with its recursion spelt out *)
LEMMA FaithfulFacts ==
    Display!Faithful <=> Display!Shown = (CHOOSE f : ExpectedBy(name, i, f))[1]
<1> DEFINE Width(k) == IF Display!IsPrintableAscii(name[k]) THEN 1
                       ELSE IF Display!CharLen(name, k) < 0 THEN -Display!CharLen(name, k)
                       ELSE Display!CharLen(name, k)
           Kept(k) == IF Display!IsPrintableAscii(name[k]) THEN <<name[k]>>
                      ELSE IF Display!IsSafeCharAt(name, k) THEN SubSeq(name, k, k + Width(k) - 1)
                      ELSE <<Display!Underscore>>
           From(f, k) == IF k >= i \/ k = Len(name) + 1 THEN <<>>
                         ELSE Kept(k) \o f[k + Width(k)]
           By(f) == f = [k \in 1..(Len(name) + 1) |-> From(f, k)]
<1>1. Display!Faithful <=> Display!Shown = (CHOOSE f : By(f))[1]
  BY DEF Display!Faithful
<1>2. ASSUME NEW k PROVE Width(k) = WidthOf(name, k)
  BY SameHelpers, SameCharLen, Zenon DEF WidthOf
<1> HIDE DEF Width
<1>3. ASSUME NEW k PROVE Kept(k) = KeptOf(name, k)
  BY <1>2, SameHelpers, SameReference, Zenon DEF KeptOf
<1> HIDE DEF Kept
<1>4. ASSUME NEW f, NEW k PROVE From(f, k) = TextFrom(name, i, f, k)
  BY <1>2, <1>3, Zenon DEF TextFrom
<1> HIDE DEF From
<1>5. ASSUME NEW f PROVE By(f) <=> ExpectedBy(name, i, f)
  BY <1>4, Zenon DEF ExpectedBy
<1> HIDE DEF By
<1>6. (CHOOSE f : By(f)) = (CHOOSE f : ExpectedBy(name, i, f))
  BY <1>5, Zenon
<1> QED
  BY <1>1, <1>6, Zenon

(* A character is read whole and lies within the string. *)
LEMMA WidthRange ==
    ASSUME NEW s \in Seq(Bytes), NEW k \in 1..Len(s)
    PROVE  WidthOf(s, k) \in 1..4 /\ k + WidthOf(s, k) <= Len(s) + 1
<1>1. k \in Nat /\ Len(s) \in Nat /\ k <= Len(s)
  OBVIOUS
<1>2. CASE IsPrintableAscii(s[k])
  BY <1>1, <1>2 DEF WidthOf
<1>3. CASE ~IsPrintableAscii(s[k])
  <2>1. WidthOf(s, k) = IF CharLen(s, k) < 0 THEN -CharLen(s, k) ELSE CharLen(s, k)
    BY <1>3 DEF WidthOf
  <2>2. /\ CharLen(s, k) \in Int /\ CharLen(s, k) # 0
        /\ CharLen(s, k) > 0 => CharLen(s, k) \in 2..4 /\ k + CharLen(s, k) <= Len(s) + 1
        /\ CharLen(s, k) < 0 => CharLen(s, k) >= -4 /\ k - CharLen(s, k) <= Len(s) + 1
    BY CharLenRange
  <2> QED
    BY <1>1, <2>1, <2>2
<1> QED
  BY <1>2, <1>3

(* What is written for a character *)
LEMMA KeptFacts ==
    ASSUME NEW s \in Seq(Bytes), NEW k \in 1..Len(s)
    PROVE  /\ KeptOf(s, k) \in Seq(Bytes)
           /\ IsPrintableAscii(s[k]) => KeptOf(s, k) = <<s[k]>> /\ WidthOf(s, k) = 1
           /\ ~IsPrintableAscii(s[k]) /\ CharLen(s, k) < 0 =>
                KeptOf(s, k) = <<95>> /\ WidthOf(s, k) = -CharLen(s, k)
           /\ ~IsPrintableAscii(s[k]) /\ CharLen(s, k) > 0 =>
                /\ KeptOf(s, k) = SubSeq(s, k, k + CharLen(s, k) - 1)
                /\ WidthOf(s, k) = CharLen(s, k)
<1>1. IsSafeCharAt(s, k) <=> CharLen(s, k) > 0
  BY SafeCharacters
<1>2. CharLen(s, k) \in Int /\ CharLen(s, k) # 0
  BY CharLenRange
<1>3. s[k] \in Bytes /\ 95 \in Bytes
  <2>1. 95 \in Bytes
    BY DEF Bytes
  <2> QED
    BY <2>1, ElementOfSeq
<1>4. CASE IsPrintableAscii(s[k])
  BY <1>3, <1>4 DEF KeptOf, WidthOf
<1>5. CASE ~IsPrintableAscii(s[k]) /\ CharLen(s, k) < 0
  <2>1. KeptOf(s, k) = <<95>> /\ WidthOf(s, k) = -CharLen(s, k) /\ ~(CharLen(s, k) > 0)
    BY <1>1, <1>2, <1>5 DEF KeptOf, WidthOf
  <2> QED
    BY <1>3, <1>5, <2>1
<1>6. CASE ~IsPrintableAscii(s[k]) /\ CharLen(s, k) > 0
  <2>1. WidthOf(s, k) = CharLen(s, k) /\ ~(CharLen(s, k) < 0)
    BY <1>2, <1>6 DEF WidthOf
  <2>2. KeptOf(s, k) = SubSeq(s, k, k + CharLen(s, k) - 1)
    BY <1>1, <1>6, <2>1 DEF KeptOf
  <2>3. CharLen(s, k) \in 2..4 /\ k + CharLen(s, k) <= Len(s) + 1
    BY <1>6, CharLenRange
  <2>4. SubSeq(s, k, k + CharLen(s, k) - 1) \in Seq(Bytes)
    BY <2>3, KeptPiece
  <2> QED
    BY <1>6, <2>1, <2>2, <2>4
<1> QED
  BY <1>2, <1>4, <1>5, <1>6

(* The recursion has a solution. *)
LEMMA ExpectedExists ==
    ASSUME NEW s \in Seq(Bytes), NEW n \in Nat
    PROVE  \E f : ExpectedBy(s, n, f)
<1> DEFINE e == Len(s) + 1
           Part(m, f) == f = [k \in m..e |-> TextFrom(s, n, f, k)]
           T == {m \in 1..e : \E f : Part(m, f)}
<1>0. Len(s) \in Nat /\ e \in Nat /\ e >= 1
  OBVIOUS
<1>1. e \in T
  <2> DEFINE f == [k \in e..e |-> <<>>]
  <2>1. \A k \in e..e : k = Len(s) + 1
    OBVIOUS
  <2>2. \A k \in e..e : TextFrom(s, n, f, k) = <<>>
    BY <2>1, Zenon DEF TextFrom
  <2>3. f = [k \in e..e |-> TextFrom(s, n, f, k)]
    BY <2>2, Zenon
  <2> HIDE DEF f
  <2>4. e \in 1..e
    BY <1>0
  <2> QED
    BY <2>3, <2>4
<1>2. ASSUME NEW m \in T, m # 1 PROVE m - 1 \in T
  <2>1. PICK f : Part(m, f)
    OBVIOUS
  <2>2. m \in 2..e /\ m - 1 \in 1..Len(s)
    BY <1>0, <1>2
  <2> DEFINE g == [k \in (m - 1)..e |-> IF k = m - 1 THEN TextFrom(s, n, f, k) ELSE f[k]]
  <2>3. ASSUME NEW k \in (m - 1)..e, k # e PROVE k + WidthOf(s, k) \in m..e
    <3>1. k \in 1..Len(s)
      BY <1>0, <2>2, <2>3
    <3>2. WidthOf(s, k) \in 1..4 /\ k + WidthOf(s, k) <= Len(s) + 1
      BY <3>1, WidthRange
    <3> QED
      BY <1>0, <2>2, <2>3, <3>2
  <2>4. ASSUME NEW k \in m..e PROVE g[k] = f[k]
    <3>1. k \in (m - 1)..e /\ k # m - 1
      BY <1>0, <2>2
    <3> QED
      BY <3>1, Zenon
  <2>5. m - 1 \in (m - 1)..e /\ g[m - 1] = TextFrom(s, n, f, m - 1)
    BY <1>0, <2>2
  <2>6. ASSUME NEW k \in (m - 1)..e PROVE g[k] = TextFrom(s, n, f, k)
    <3>1. CASE k = m - 1
      BY <2>5, <3>1, Zenon
    <3>2. CASE k # m - 1
      <4>1. k \in m..e
        BY <2>2, <3>2
      <4> QED
        BY <2>1, <2>4, <4>1, Zenon
    <3> QED
      BY <3>1, <3>2
  <2>7. \A k : k \in (m - 1)..e <=> k \in DOMAIN g
    OBVIOUS
  <2>8. g = [k \in (m - 1)..e |-> g[k]]
    OBVIOUS
  <2> HIDE DEF g
  <2>9. ASSUME NEW k \in (m - 1)..e PROVE TextFrom(s, n, f, k) = TextFrom(s, n, g, k)
    <3>1. CASE k >= n \/ k = Len(s) + 1
      BY <3>1, Zenon DEF TextFrom
    <3>2. CASE ~(k >= n \/ k = Len(s) + 1)
      <4>1. f[k + WidthOf(s, k)] = g[k + WidthOf(s, k)]
        BY <2>3, <2>4, <3>2, Zenon
      <4> QED
        BY <4>1, Zenon DEF TextFrom
    <3> QED
      BY <3>1, <3>2
  <2>10. \A k \in (m - 1)..e : g[k] = TextFrom(s, n, g, k)
    BY <2>6, <2>9, Zenon
  <2>11. Part(m - 1, g)
    BY <2>8, <2>10, Zenon
  <2>12. m - 1 \in 1..e
    BY <1>0, <2>2
  <2> HIDE DEF Part
  <2> QED
    BY <2>11, <2>12
<1>3. \A m \in T : m \in 1..e /\ \E f : Part(m, f)
  OBVIOUS
<1> HIDE DEF Part, T
<1>4. T \in SUBSET Nat /\ T # {}
  BY <1>0, <1>1, <1>3
<1>5. PICK m \in T : \A y \in T : m <= y
  BY <1>4, LeastNat
<1>6. m = 1
  BY <1>2, <1>3, <1>5
<1>7. PICK f : Part(1, f)
  BY <1>3, <1>5, <1>6
<1> QED
  BY <1>7 DEF ExpectedBy, Part

(* The places P where the characters before n start, and what is shown for *)
(* them from each place on                                                 *)
Trail(s, n, P, g) ==
    /\ P \subseteq 1..n /\ 1 \in P /\ n \in P
    /\ g[n] = <<>>
    /\ \A k \in P : g[k] \in Seq(Bytes)
    /\ \A k \in P : k # n => /\ k + WidthOf(s, k) \in P
                             /\ g[k] = KeptOf(s, k) \o g[k + WidthOf(s, k)]

(* What is shown on a trail is what is expected. *)
LEMMA TrailIsExpected ==
    ASSUME NEW s \in Seq(Bytes), NEW n \in 1..(Len(s) + 1), NEW P, NEW g, Trail(s, n, P, g),
           NEW f, ExpectedBy(s, n, f)
    PROVE  f[1] = g[1]
<1>0. Len(s) \in Nat /\ n \in Nat /\ n >= 1 /\ n <= Len(s) + 1
  OBVIOUS
<1>1. \A k \in P : k \in 1..n /\ k \in 1..(Len(s) + 1) /\ k <= n
  BY <1>0 DEF Trail
<1>2. ASSUME NEW k \in P PROVE f[k] = TextFrom(s, n, f, k)
  BY <1>1, Zenon DEF ExpectedBy
<1>3. f[n] = <<>> /\ g[n] = <<>> /\ n \in P
  <2>1. n \in P /\ g[n] = <<>>
    BY DEF Trail
  <2>2. n >= n
    BY <1>0
  <2> QED
    BY <1>2, <2>1, <2>2, Zenon DEF TextFrom
<1>4. ASSUME NEW k \in P, k # n PROVE f[k] = KeptOf(s, k) \o f[k + WidthOf(s, k)]
  <2>1. ~(k >= n) /\ k # Len(s) + 1
    BY <1>0, <1>1, <1>4
  <2> QED
    BY <1>2, <2>1, Zenon DEF TextFrom
<1>5. SUFFICES ASSUME f[1] # g[1] PROVE FALSE
  OBVIOUS
<1> DEFINE T == {k \in P : f[k] # g[k]}
<1>6. T \in SUBSET Nat /\ (\A y \in T : y <= n)
  BY <1>1
<1>7. 1 \in T
  BY <1>5 DEF Trail
<1>8. \A k \in T : k \in P /\ f[k] # g[k]
  OBVIOUS
<1>9. \A k \in P : f[k] # g[k] => k \in T
  OBVIOUS
<1> HIDE DEF T
<1>10. PICK k \in T : \A y \in T : k >= y
  BY <1>0, <1>6, <1>7, GreatestNat
<1>11. k \in P /\ k # n
  BY <1>3, <1>8, <1>10
<1>12. k + WidthOf(s, k) \in P /\ g[k] = KeptOf(s, k) \o g[k + WidthOf(s, k)]
  BY <1>11 DEF Trail
<1>13. f[k + WidthOf(s, k)] # g[k + WidthOf(s, k)]
  BY <1>4, <1>8, <1>10, <1>11, <1>12, Zenon
<1>14. k + WidthOf(s, k) \in T
  BY <1>9, <1>12, <1>13
<1>15. k \in 1..Len(s)
  BY <1>0, <1>1, <1>11
<1>16. WidthOf(s, k) \in 1..4
  BY <1>15, WidthRange
<1> QED
  BY <1>10, <1>14, <1>15, <1>16

(* Three pieces are put together in either order. *)
LEMMA ConcatThree ==
    \A a, b, c \in Seq(Bytes) : (a \o b) \o c = a \o (b \o c)
<1>1. ASSUME NEW a \in Seq(Bytes), NEW b \in Seq(Bytes), NEW c \in Seq(Bytes)
      PROVE  (a \o b) \o c = a \o (b \o c)
  BY ConcatAssociative
<1> QED
  BY <1>1

(* The trail goes on over the next character. *)
LEMMA TrailStep ==
    ASSUME NEW s \in Seq(Bytes), NEW n \in 1..Len(s), NEW P, NEW g, Trail(s, n, P, g),
           NEW m, m = n + WidthOf(s, n)
    PROVE  \E Q, h : Trail(s, m, Q, h) /\ h[1] = g[1] \o KeptOf(s, n)
<1> DEFINE K == KeptOf(s, n)
           Q == P \cup {m}
           h == [k \in Q |-> IF k = m THEN <<>> ELSE g[k] \o K]
<1>0. n \in Nat /\ n >= 1 /\ m \in Nat /\ n < m
  <2>1. WidthOf(s, n) \in 1..4
    BY WidthRange
  <2> QED
    BY <2>1
<1>1. K \in Seq(Bytes)
  BY KeptFacts
<1> HIDE DEF K
<1>2. \A k \in P : k \in 1..n /\ k # m
  BY <1>0 DEF Trail
<1>3. ASSUME NEW k \in P
      PROVE  /\ g[k] \in Seq(Bytes)
             /\ k # n => k + WidthOf(s, k) \in P /\ g[k] = KeptOf(s, k) \o g[k + WidthOf(s, k)]
  BY DEF Trail
<1>4. n \in P /\ 1 \in P /\ g[n] = <<>>
  BY DEF Trail
<1>5. m \in Q /\ h[m] = <<>> /\ \A k \in P : k \in Q /\ h[k] = g[k] \o K
  <2>1. m \in Q /\ h[m] = <<>>
    BY Zenon
  <2>2. \A k \in P : k \in Q /\ h[k] = g[k] \o K
    BY <1>2, Zenon
  <2> QED
    BY <2>1, <2>2
<1>6. \A k \in Q : k \in P \/ k = m
  BY Zenon
<1>7. Q \subseteq 1..m
  BY <1>0, <1>2
<1> HIDE DEF Q, h
<1>8. \A k \in Q : h[k] \in Seq(Bytes)
  <2>1. \A k \in P : g[k] \o K \in Seq(Bytes)
    BY <1>1, <1>3, ConcatProperties, Zenon
  <2>2. <<>> \in Seq(Bytes)
    OBVIOUS
  <2> QED
    BY <1>5, <1>6, <2>1, <2>2, Zenon
<1>9. ASSUME NEW k \in Q, k # m
      PROVE  k + WidthOf(s, k) \in Q /\ h[k] = KeptOf(s, k) \o h[k + WidthOf(s, k)]
  <2>1. k \in P
    BY <1>6, <1>9
  <2>2. CASE k = n
    <3>1. h[k] = K /\ K \o <<>> = K
      <4>1. h[k] = <<>> \o K
        BY <1>4, <1>5, <2>1, <2>2, Zenon
      <4> QED
        BY <1>1, <4>1, ConcatEmptySeq, Zenon
    <3>2. KeptOf(s, k) = K /\ k + WidthOf(s, k) = m
      BY <2>2 DEF K
    <3> QED
      BY <1>5, <3>1, <3>2, Zenon
  <2>3. CASE k # n
    <3>1. k + WidthOf(s, k) \in P /\ g[k] = KeptOf(s, k) \o g[k + WidthOf(s, k)]
      BY <1>3, <2>1, <2>3
    <3> DEFINE j == k + WidthOf(s, k)
    <3> HIDE DEF j
    <3>2. j \in P /\ g[k] = KeptOf(s, k) \o g[j] /\ j = k + WidthOf(s, k)
      BY <3>1 DEF j
    <3>3. k \in 1..Len(s)
      BY <1>2, <2>1
    <3>4. KeptOf(s, k) \in Seq(Bytes) /\ g[j] \in Seq(Bytes)
      BY <1>3, <3>2, <3>3, KeptFacts
    <3>5. (KeptOf(s, k) \o g[j]) \o K = KeptOf(s, k) \o (g[j] \o K)
      BY <1>1, <3>4, ConcatThree, Zenon
    <3>6. h[k] = g[k] \o K /\ h[j] = g[j] \o K /\ j \in Q
      BY <1>5, <2>1, <3>2, Zenon
    <3>7. h[k] = KeptOf(s, k) \o h[j]
      BY <3>2, <3>5, <3>6, Zenon
    <3> QED
      BY <3>2, <3>6, <3>7, Zenon
  <2> QED
    BY <2>2, <2>3
<1>10. 1 \in Q
  BY <1>4, <1>5
<1>11. Trail(s, m, Q, h)
  BY <1>5, <1>7, <1>8, <1>9, <1>10, Zenon DEF Trail
<1>12. h[1] = g[1] \o KeptOf(s, n)
  BY <1>4, <1>5 DEF K
<1> QED
  BY <1>11, <1>12, Zenon

(* What has been written is what the trail of the characters read shows,   *)
(* and there is no NUL in it.                                              *)
Written(r) ==
    /\ r \in Seq(Bytes) /\ \A k \in 1..Len(r) : r[k] # 0
    /\ \E P, g : Trail(name, i, P, g) /\ g[1] = r

FaithInv == depth = Idle =>
    IF pc = "done" /\ result # <<>>
    THEN \E r : result = Append(r, 0) /\ Written(r)
    ELSE Written(result)

(* A step writes what it should for the next character. *)
LEMMA WrittenStep ==
    ASSUME StringOK, Written(result), i \in 1..Len(name), name' = name,
           i' = i + WidthOf(name, i), result' = result \o KeptOf(name, i),
           \A k \in 1..Len(KeptOf(name, i)) : KeptOf(name, i)[k] # 0
    PROVE  Written(result)'
<1>1. name \in Seq(Bytes) /\ result \in Seq(Bytes) /\ (\A k \in 1..Len(result) : result[k] # 0)
  BY DEF StringOK, Written
<1>2. PICK P, g : Trail(name, i, P, g) /\ g[1] = result
  BY DEF Written
<1>3. \E Q, h : Trail(name, i', Q, h) /\ h[1] = g[1] \o KeptOf(name, i)
  <2>1. ASSUME NEW m, m = i + WidthOf(name, i)
        PROVE  \E Q, h : Trail(name, m, Q, h) /\ h[1] = g[1] \o KeptOf(name, i)
    <3>1. name \in Seq(Bytes) /\ Trail(name, i, P, g)
      BY <1>1, <1>2
    <3> QED
      BY <2>1, <3>1, TrailStep
  <2> QED
    BY <2>1, Zenon
<1>4. PICK Q, h : Trail(name', i', Q, h) /\ h[1] = result'
  BY <1>2, <1>3, Zenon
<1> DEFINE K == KeptOf(name, i)
<1>5. K \in Seq(Bytes)
  BY <1>1, KeptFacts
<1>6. (\A k \in 1..Len(K) : K[k] # 0) /\ result' = result \o K
  OBVIOUS
<1> HIDE DEF K
<1>7. result' \in Seq(Bytes) /\ \A k \in 1..Len(result') : result'[k] # 0
  <2>1. /\ result' \in Seq(Bytes) /\ Len(result') = Len(result) + Len(K)
        /\ \A k \in 1..(Len(result) + Len(K)) :
               result'[k] = IF k <= Len(result) THEN result[k] ELSE K[k - Len(result)]
    BY <1>1, <1>5, <1>6, ConcatProperties
  <2>2. Len(result) \in Nat /\ Len(K) \in Nat
    BY <1>1, <1>5
  <2> SUFFICES ASSUME NEW k \in 1..(Len(result) + Len(K)) PROVE result'[k] # 0
    BY <2>1
  <2>3. CASE k <= Len(result)
    <3>1. k \in 1..Len(result)
      BY <2>2, <2>3
    <3> QED
      BY <1>1, <2>1, <2>3, <3>1, Zenon
  <2>4. CASE ~(k <= Len(result))
    <3>1. k - Len(result) \in 1..Len(K)
      BY <2>2, <2>4
    <3> QED
      BY <1>6, <2>1, <2>4, <3>1, Zenon
  <2> QED
    BY <2>3, <2>4
<1> QED
  BY <1>4, <1>7 DEF Written

(* Every step of the sanitizer is such a step, or writes the NUL. *)
LEMMA FaithStep ==
    ASSUME UnicodeOK, FaithInv, Display!Next, UNCHANGED pathVars
    PROVE  FaithInv'
<1>0. depth' = depth
  BY DEF pathVars
<1>1. depth = Idle /\ pc = "loop"
  <2>1. pc = "loop"
    BY DEF Display!Next, Display!KeepAscii, Display!Replace, Display!KeepUtf8, Display!Terminate, Display!InLoop
  <2> QED
    BY <2>1 DEF UnicodeOK, ScanOK
<1>2. StringOK /\ Written(result) /\ name \in Seq(Bytes) /\ result \in Seq(Bytes)
  BY <1>1 DEF UnicodeOK, StringOK, DisplayOK, FaithInv
<1>3. ASSUME pc' = "loop", Written(result)' PROVE FaithInv'
  BY <1>3 DEF FaithInv
<1>4. ASSUME pc' = "done", name' = name, i' = i, result' = Append(result, 0) PROVE FaithInv'
  <2>1. result' # <<>>
    BY <1>2, <1>4
  <2>2. PICK r : r = result
    OBVIOUS
  <2>3. Written(r)'
    BY <1>2, <1>4, <2>2 DEF Written
  <2> QED
    BY <1>4, <2>1, <2>2, <2>3 DEF FaithInv
<1>5. ASSUME NEW c, NEW r \in Seq(Bytes) PROVE Append(r, c) = r \o <<c>>
  OBVIOUS
<1>6. ASSUME NEW c, c # 0 PROVE \A k \in 1..Len(<<c>>) : <<c>>[k] # 0
  BY <1>6
<1>7. CASE Display!KeepAscii
  <2>1. /\ i \in 1..Len(name) /\ IsPrintableAscii(name[i])
        /\ pc' = "loop" /\ name' = name /\ i' = i + 1 /\ result' = Append(result, name[i])
    BY <1>1, <1>7, KeepAsciiFacts
  <2>2. KeptOf(name, i) = <<name[i]>> /\ WidthOf(name, i) = 1
    BY <1>2, <2>1, KeptFacts
  <2>3. name[i] # 0
    BY <1>2, <2>1 DEF StringOK
  <2>4. \A k \in 1..Len(KeptOf(name, i)) : KeptOf(name, i)[k] # 0
    BY <1>6, <2>2, <2>3
  <2>5. result' = result \o KeptOf(name, i)
    BY <1>2, <1>5, <2>1, <2>2, Zenon
  <2>6. Written(result)'
    BY <1>2, <2>1, <2>2, <2>4, <2>5, WrittenStep
  <2> QED
    BY <1>3, <2>1, <2>6
<1>8. CASE Display!Replace
  <2>1. /\ i \in 1..Len(name) /\ ~IsPrintableAscii(name[i]) /\ CharLen(name, i) < 0
        /\ pc' = "loop" /\ name' = name /\ i' = i - CharLen(name, i) /\ result' = Append(result, 95)
    BY <1>1, <1>8, ReplaceFacts
  <2>2. KeptOf(name, i) = <<95>> /\ WidthOf(name, i) = -CharLen(name, i)
    BY <1>2, <2>1, KeptFacts
  <2>3. \A k \in 1..Len(KeptOf(name, i)) : KeptOf(name, i)[k] # 0
    BY <1>6, <2>2
  <2>4. result' = result \o KeptOf(name, i)
    BY <1>2, <1>5, <2>1, <2>2, Zenon
  <2>5. CharLen(name, i) \in Int /\ i \in Nat
    BY <1>2, <2>1, CharLenRange
  <2>6. i' = i + WidthOf(name, i)
    BY <2>1, <2>2, <2>5
  <2>7. Written(result)'
    BY <1>2, <2>1, <2>3, <2>4, <2>6, WrittenStep
  <2> QED
    BY <1>3, <2>1, <2>7
<1>9. CASE Display!KeepUtf8
  <2>1. /\ i \in 1..Len(name) /\ ~IsPrintableAscii(name[i]) /\ CharLen(name, i) > 0 /\ name' = name
        /\ \/ pc' = "done" /\ i' = i /\ result' = Append(result, 0)
           \/ /\ pc' = "loop" /\ i' = i + CharLen(name, i)
              /\ result' = result \o SubSeq(name, i, i + CharLen(name, i) - 1)
    BY <1>1, <1>9, KeepUtf8Facts
  <2>2. KeptOf(name, i) = SubSeq(name, i, i + CharLen(name, i) - 1) /\ WidthOf(name, i) = CharLen(name, i)
    BY <1>2, <2>1, KeptFacts
  <2>3. CharLen(name, i) \in 2..4 /\ i + CharLen(name, i) <= Len(name) + 1
    BY <1>2, <2>1, CharLenRange
  <2>4. /\ Len(KeptOf(name, i)) = CharLen(name, i)
        /\ \A k \in 1..CharLen(name, i) : KeptOf(name, i)[k] = name[i + k - 1]
    <3>1. /\ Len(SubSeq(name, i, i + CharLen(name, i) - 1)) = CharLen(name, i)
          /\ \A k \in 1..CharLen(name, i) :
                 SubSeq(name, i, i + CharLen(name, i) - 1)[k] = name[i + k - 1]
      BY <1>2, <2>1, <2>3, KeptPiece
    <3> QED
      BY <2>2, <3>1, Zenon
  <2>5. \A k \in 1..CharLen(name, i) : i + k - 1 \in 1..Len(name)
    BY <1>2, <2>1, <2>3
  <2>6. \A k \in 1..Len(KeptOf(name, i)) : KeptOf(name, i)[k] # 0
    BY <1>2, <2>4, <2>5 DEF StringOK
  <2>7. CASE pc' = "done" /\ i' = i /\ result' = Append(result, 0)
    BY <1>4, <2>1, <2>7
  <2>8. CASE /\ pc' = "loop" /\ i' = i + CharLen(name, i)
             /\ result' = result \o SubSeq(name, i, i + CharLen(name, i) - 1)
    <3>1. i' = i + WidthOf(name, i) /\ result' = result \o KeptOf(name, i)
      BY <2>2, <2>8, Zenon
    <3>2. Written(result)'
      BY <1>2, <2>1, <2>6, <3>1, WrittenStep
    <3> QED
      BY <1>3, <2>8, <3>2
  <2> QED
    BY <2>1, <2>7, <2>8
<1>10. CASE Display!Terminate
  BY <1>1, <1>4, <1>10, TerminateFacts
<1> QED
  BY <1>7, <1>8, <1>9, <1>10 DEF Display!Next

(* The characters that are kept are those of the reference: nothing is     *)
(* lost before the cut, for every text, buffer and set of safe code points *)
(* (unicode.c:342-363).                                                    *)
THEOREM Faithful_Safe == UnicodeSpec => []Faithful
<1>1. UnicodeOK /\ UnicodeInit => FaithInv
  <2> SUFFICES ASSUME UnicodeOK, UnicodeInit, depth = Idle PROVE FaithInv
    BY DEF FaithInv
  <2>1. result = <<>> /\ i = 1
    BY DEF UnicodeInit, Init, Display!Init
  <2> DEFINE g == [k \in {1} |-> <<>>]
  <2>2. g[1] = <<>> /\ <<>> \in Seq(Bytes) /\ Len(<<>>) = 0
    OBVIOUS
  <2> HIDE DEF g
  <2>3. {1} \subseteq 1..1
    OBVIOUS
  <2>4. Trail(name, 1, {1}, g)
    BY <2>2, <2>3 DEF Trail
  <2>5. Written(<<>>)
    BY <2>1, <2>2, <2>4 DEF Written
  <2> QED
    BY <2>1, <2>5 DEF FaithInv
<1>2. UnicodeOK /\ FaithInv /\ [UnicodeNext]_<<vars, displayVars>> => FaithInv'
  <2>1. ASSUME UnicodeOK, FaithInv, Next, UNCHANGED displayVars PROVE FaithInv'
    <3>1. pc = "scan"
      BY <2>1 DEF Next, EmptyOrAbsolute, ScanDot, ScanDotDot, ScanChar, ScanEnd, Scanning
    <3>2. depth \in Nat
      BY <2>1, <3>1 DEF UnicodeOK, ScanOK
    <3>3. depth' \in Nat
      BY <2>1, <3>2 DEF Next, EmptyOrAbsolute, ScanDot, ScanDotDot, ScanChar, ScanEnd, Return, Advance
    <3> QED
      BY <3>3 DEF FaithInv, Idle
  <2>2. ASSUME FaithInv, UNCHANGED <<vars, displayVars>> PROVE FaithInv'
    BY <2>2 DEF vars, displayVars, FaithInv, Written
  <2> QED
    BY <2>1, <2>2, FaithStep DEF UnicodeNext
<1>3. UnicodeOK /\ FaithInv => Faithful
  <2> SUFFICES ASSUME UnicodeOK, FaithInv, depth = Idle PROVE Display!Faithful
    BY DEF Faithful
  <2>1. Written(Display!Shown)
    <3>1. CASE pc = "done" /\ result # <<>>
      <4>1. PICK r : result = Append(r, 0) /\ Written(r)
        BY <3>1 DEF FaithInv
      <4>2. r \in Seq(Bytes)
        BY <4>1 DEF Written
      <4> QED
        BY <4>1, <4>2, ShownFacts
    <3>2. CASE ~(pc = "done" /\ result # <<>>)
      <4>1. Written(result)
        BY <3>2 DEF FaithInv
      <4>2. result \in Seq(Bytes) /\ \A k \in 1..Len(result) : result[k] # 0
        BY <4>1 DEF Written
      <4>3. Display!Shown = result
        <5>1. CASE result = <<>>
          BY <5>1 DEF Display!Shown
        <5>2. CASE result # <<>>
          <6>1. Len(result) \in 1..Len(result)
            BY <4>2, <5>2
          <6>2. Display!Last(result) # Display!NUL
            BY <4>2, <6>1, SameHelpers DEF Display!Last
          <6> QED
            BY <6>2 DEF Display!Shown
        <5> QED
          BY <5>1, <5>2
      <4> QED
        BY <4>1, <4>3
    <3> QED
      BY <3>1, <3>2
  <2>2. name \in Seq(Bytes) /\ i \in Nat /\ i \in 1..(Len(name) + 1)
    BY DEF UnicodeOK, StringOK
  <2>3. PICK P, g : Trail(name, i, P, g) /\ g[1] = Display!Shown
    BY <2>1 DEF Written
  <2> DEFINE f == CHOOSE h : ExpectedBy(name, i, h)
  <2>4. ExpectedBy(name, i, f)
    BY <2>2, ExpectedExists, Zenon
  <2>5. Display!Faithful <=> Display!Shown = f[1]
    BY FaithfulFacts
  <2> HIDE DEF f
  <2>6. f[1] = g[1]
    BY <2>2, <2>3, <2>4, TrailIsExpected
  <2> QED
    BY <2>3, <2>5, <2>6
<1>4. UnicodeSpec => [](UnicodeOK /\ FaithInv)
  <2>1. UnicodeInit => UnicodeOK /\ FaithInv
    BY <1>1, InitOK
  <2>2. UnicodeOK /\ FaithInv /\ [UnicodeNext]_<<vars, displayVars>> => FaithInv'
    BY <1>2
  <2> QED
    BY <2>1, <2>2, UnicodeInvariant, PTL DEF UnicodeSpec
<1> QED
  BY <1>3, <1>4, PTL

-----------------------------------------------------------------------------
(* The components of a path *)

(* The place of a number among those of a set                              *)
Rank(S, k) == Cardinality({m \in S : m <= k})

(* The numbers of a finite set are numbered without gaps, in their order.  *)
LEMMA Numbering ==
    ASSUME NEW S \in SUBSET Nat, IsFiniteSet(S)
    PROVE  /\ Cardinality(S) \in Nat
           /\ \A k \in S : Rank(S, k) \in 1..Cardinality(S)
           /\ \A m, k \in S : m < k => Rank(S, m) < Rank(S, k)
           /\ \A n \in 1..Cardinality(S) : \E k \in S : Rank(S, k) = n
<1> DEFINE U(k) == {m \in S : m <= k}
           N == Cardinality(S)
<1>1. N \in Nat
  BY FS_CardinalityType
<1>2. ASSUME NEW k \in S
      PROVE  Rank(S, k) \in 1..N /\ IsFiniteSet(U(k)) /\ Cardinality(U(k)) = Rank(S, k)
  <2>1. U(k) \in SUBSET S /\ k \in U(k)
    OBVIOUS
  <2>2. IsFiniteSet(U(k)) /\ Cardinality(U(k)) <= N
    BY <2>1, FS_Subset
  <2>3. Cardinality(U(k)) \in Nat
    BY <2>2, FS_CardinalityType
  <2>4. Cardinality(U(k)) # 0
    BY <2>1, <2>2, FS_EmptySet
  <2> QED
    BY <1>1, <2>2, <2>3, <2>4 DEF Rank
<1>3. ASSUME NEW m \in S, NEW k \in S, m < k
      PROVE  Rank(S, m) < Rank(S, k)
  <2>1. U(m) \in SUBSET U(k) /\ k \in U(k) /\ k \notin U(m)
    <3>1. m \in Nat /\ k \in Nat /\ ~(k <= m) /\ k <= k /\ \A x \in S : x <= m => x <= k
      BY <1>3
    <3> QED
      BY <3>1
  <2>2. Cardinality(U(m)) <= Cardinality(U(k)) /\ Cardinality(U(m)) # Cardinality(U(k))
    BY <1>2, <2>1, FS_Subset
  <2> HIDE DEF U, N
  <2> QED
    BY <1>2, <2>2
<1>4. \A n \in 1..N : \E k \in S : Rank(S, k) = n
  <2> DEFINE f == [k \in S |-> Rank(S, k)]
  <2>1. f \in [S -> 1..N]
    BY <1>2
  <2>2. ASSUME NEW m \in S, NEW k \in S, f[m] = f[k] PROVE m = k
    <3>1. Rank(S, m) = Rank(S, k) /\ Rank(S, m) \in Int
      <4>1. Rank(S, m) = Rank(S, k)
        BY <2>2
      <4>2. Rank(S, m) \in 1..N
        BY <1>2
      <4> QED
        BY <1>1, <4>1, <4>2
    <3>2. ~(m < k) /\ ~(k < m)
      BY <1>2, <1>3, <3>1
    <3> QED
      BY <3>2
  <2>3. f \in Injection(S, 1..N)
    BY <2>1, <2>2 DEF Injection, IsInjective
  <2>4. IsFiniteSet(1..N) /\ Cardinality(1..N) = N
    BY <1>1, FS_Interval
  <2>5. f \in Surjection(S, 1..N)
    BY <2>3, <2>4, FS_Injection
  <2> QED
    BY <2>5 DEF Surjection
<1> QED
  BY <1>1, <1>2, <1>3, <1>4

(* As many numbers as ranks                                                *)
LEMMA CountRanks ==
    ASSUME NEW S \in SUBSET Nat, IsFiniteSet(S), NEW A \in SUBSET S, NEW B,
           \A j : j \in B <=> \E m \in A : Rank(S, m) = j
    PROVE  Cardinality(B) = Cardinality(A)
<1> DEFINE f == [m \in A |-> Rank(S, m)]
<1>1. IsFiniteSet(A)
  BY FS_Subset
<1>2. f \in [A -> B]
  OBVIOUS
<1>3. ASSUME NEW m \in A, NEW k \in A, f[m] = f[k] PROVE m = k
  <2>1. Rank(S, m) = Rank(S, k) /\ m \in S /\ k \in S
    BY <1>3
  <2>2. Rank(S, m) \in Int
    BY <2>1, Numbering
  <2>3. ~(m < k) /\ ~(k < m)
    BY <2>1, <2>2, Numbering
  <2> QED
    BY <2>1, <2>3
<1>4. \A j \in B : \E m \in A : f[m] = j
  OBVIOUS
<1>5. f \in Bijection(A, B)
  BY <1>2, <1>3, <1>4 DEF Bijection, Injection, Surjection, IsInjective
<1> QED
  BY <1>1, <1>5, FS_Bijection DEF ExistsBijection

(* Where components start: at the start, and after every slash             *)
LEMMA StartFacts ==
    ASSUME NEW s \in Seq(Bytes)
    PROVE  /\ Starts(s) \in SUBSET Nat /\ IsFiniteSet(Starts(s))
           /\ \A k : k \in Starts(s) <=> k \in 1..Len(s) /\ (k = 1 \/ s[k - 1] = SlashByte)
<1>0. Len(s) \in Nat
  OBVIOUS
<1>1. ASSUME NEW k
      PROVE  k \in Starts(s) <=> k \in 1..Len(s) /\ (k = 1 \/ s[k - 1] = SlashByte)
  <2>1. ASSUME k \in Starts(s)
        PROVE  k \in 1..Len(s) /\ (k = 1 \/ s[k - 1] = SlashByte)
    BY <2>1, <1>0 DEF Starts, Slashes
  <2>2. ASSUME k \in 1..Len(s), k = 1 \/ s[k - 1] = SlashByte
        PROVE  k \in Starts(s)
    <3>1. CASE k = 1
      BY <2>2, <3>1 DEF Starts
    <3>2. CASE k # 1
      <4>1. k - 1 \in Slashes(s) /\ k = (k - 1) + 1
        BY <1>0, <2>2, <3>2 DEF Slashes
      <4> QED
        BY <2>2, <4>1 DEF Starts
    <3> QED
      BY <3>1, <3>2
  <2> QED
    BY <2>1, <2>2
<1>2. Starts(s) \in SUBSET (1..Len(s)) /\ IsFiniteSet(1..Len(s))
  BY <1>0, <1>1, FS_Interval
<1>3. IsFiniteSet(Starts(s))
  BY <1>2, FS_Subset
<1> QED
  BY <1>0, <1>1, <1>2, <1>3

(* A component ends before the next slash, or with the path.               *)
LEMMA EndFacts ==
    ASSUME NEW s \in Seq(Bytes), NEW k \in Starts(s)
    PROVE  /\ End(s, k) \in (k - 1)..Len(s)
           /\ End(s, k) = Len(s) \/ s[End(s, k) + 1] = SlashByte
           /\ \A m \in k..End(s, k) : s[m] # SlashByte
<1>0. Len(s) \in Nat /\ k \in Nat /\ k >= 1 /\ k <= Len(s)
  BY StartFacts
<1> DEFINE Ends(e) == /\ e = Len(s) \/ s[e + 1] = SlashByte
                      /\ \A m \in k..e : s[m] # SlashByte
<1>1. \E e \in (k - 1)..Len(s) : Ends(e)
  <2> DEFINE T == {m \in k..Len(s) : s[m] = SlashByte}
  <2>1. CASE T = {}
    <3>1. Len(s) \in (k - 1)..Len(s) /\ Ends(Len(s))
      BY <1>0, <2>1
    <3> QED
      BY <3>1
  <2>2. CASE T # {}
    <3>1. T \in SUBSET Nat
      BY <1>0
    <3>2. PICK x \in T : \A y \in T : x <= y
      BY <2>2, <3>1, LeastNat
    <3>3. x \in k..Len(s) /\ s[x] = SlashByte
      OBVIOUS
    <3>4. \A m \in k..(x - 1) : s[m] # SlashByte
      <4> SUFFICES ASSUME NEW m \in k..(x - 1), s[m] = SlashByte
                   PROVE  FALSE
        OBVIOUS
      <4>1. m \in T /\ m < x
        BY <1>0, <3>3
      <4> QED
        BY <1>0, <3>2, <3>3, <4>1
    <3>5. x - 1 \in (k - 1)..Len(s) /\ (x - 1) + 1 = x
      BY <1>0, <3>3
    <3>6. Ends(x - 1)
      BY <3>3, <3>4, <3>5
    <3> QED
      BY <3>5, <3>6
  <2> QED
    BY <2>1, <2>2
<1>2. End(s, k) = CHOOSE e \in (k - 1)..Len(s) : Ends(e)
  BY DEF End
<1> HIDE DEF Ends
<1>3. End(s, k) \in (k - 1)..Len(s) /\ Ends(End(s, k))
  BY <1>1, <1>2
<1> QED
  BY <1>3 DEF Ends

(* The next component starts after the end and its slash.                  *)
LEMMA StartsApart ==
    ASSUME NEW s \in Seq(Bytes), NEW k \in Starts(s), NEW m \in Starts(s), k < m
    PROVE  End(s, k) < m - 1
<1>1. /\ Len(s) \in Nat /\ k \in Nat /\ m \in Nat /\ m <= Len(s) /\ s[m - 1] = SlashByte
      /\ k >= 1
  BY StartFacts
<1>2. End(s, k) \in (k - 1)..Len(s) /\ \A j \in k..End(s, k) : s[j] # SlashByte
  BY EndFacts
<1> QED
  BY <1>1, <1>2

(* "." or an empty component, and ".."; neither depends on what follows    *)
(* the slash.                                                              *)
DotAt(s, k) == s[k] = SlashByte \/ (s[k] = DotByte /\ (k = Len(s) \/ s[k + 1] = SlashByte))
DotDotAt(s, k) == /\ k < Len(s) /\ s[k] = DotByte /\ s[k + 1] = DotByte
                  /\ k + 1 = Len(s) \/ s[k + 2] = SlashByte

(* These are the components that the rules take for "." and "..".          *)
LEMMA ComponentFacts ==
    ASSUME NEW s \in Seq(Bytes), NEW k \in Starts(s)
    PROVE  /\ Component(s, k) \in {Dot, DotDot, "plain", "odd"}
           /\ Component(s, k) = Dot <=> DotAt(s, k)
           /\ Component(s, k) = DotDot <=> ~DotAt(s, k) /\ DotDotAt(s, k)
           /\ DotAt(s, k) => End(s, k) \in {k - 1, k} /\ (End(s, k) = k => s[k] = DotByte)
           /\ Component(s, k) = DotDot => End(s, k) = k + 1
           /\ IsName(Component(s, k)) =>
                 (Component(s, k) = "odd" <=>
                     \E j \in 1..Len(SubSeq(s, k, End(s, k))) :
                        ~Covered(SubSeq(s, k, End(s, k)), j))
<1>1. /\ Len(s) \in Nat /\ k \in Nat /\ k >= 1 /\ k <= Len(s)
  BY StartFacts
<1>2. PICK e : e = End(s, k)
  OBVIOUS
<1>3. /\ e \in (k - 1)..Len(s)
      /\ e = Len(s) \/ s[e + 1] = SlashByte
      /\ \A m \in k..e : s[m] # SlashByte
  BY <1>2, EndFacts
<1>4. PICK c : c = SubSeq(s, k, e)
  OBVIOUS
<1>5. c \in Seq(Bytes) /\ Len(c) = e - k + 1 /\ \A j \in 1..Len(c) : c[j] = s[k + j - 1]
  BY <1>1, <1>3, <1>4
<1>6. Component(s, k) = Class(c)
  BY <1>2, <1>4 DEF Component
<1>7. SlashByte # DotByte
  BY DEF SlashByte, DotByte
<1>8. c \in {<<>>, <<DotByte>>} <=> DotAt(s, k)
  <2>1. c = <<>> <=> e = k - 1
    BY <1>1, <1>3, <1>5
  <2>2. e = k - 1 <=> s[k] = SlashByte
    BY <1>1, <1>3
  <2>3. c = <<DotByte>> <=> e = k /\ s[k] = DotByte
    <3>1. ASSUME c = <<DotByte>> PROVE e = k /\ s[k] = DotByte
      <4>1. Len(c) = 1 /\ c[1] = DotByte
        BY <3>1
      <4>2. e = k /\ c[1] = s[k]
        <5>1. e - k + 1 = 1
          BY <1>5, <4>1
        <5>2. e = k
          BY <1>1, <1>3, <5>1
        <5>3. 1 \in 1..Len(c) /\ k + 1 - 1 = k
          BY <1>1, <4>1
        <5> QED
          BY <1>5, <5>2, <5>3
      <4> QED
        BY <4>1, <4>2
    <3>2. ASSUME e = k, s[k] = DotByte PROVE c = <<DotByte>>
      BY <1>1, <1>3, <1>5, <3>2
    <3> QED
      BY <3>1, <3>2
  <2>4. s[k] = DotByte => (e = k <=> k = Len(s) \/ s[k + 1] = SlashByte)
    <3>1. ASSUME s[k] = DotByte, e = k PROVE k = Len(s) \/ s[k + 1] = SlashByte
      BY <1>1, <1>3, <3>1
    <3>2. ASSUME s[k] = DotByte, k = Len(s) \/ s[k + 1] = SlashByte PROVE e = k
      <4>1. e # k - 1
        BY <1>1, <1>3, <1>7, <3>2
      <4>2. ~(k + 1 <= e)
        BY <1>1, <1>3, <3>2
      <4> QED
        BY <1>1, <1>3, <4>1, <4>2
    <3> QED
      BY <3>1, <3>2
  <2> QED
    BY <2>1, <2>2, <2>3, <2>4 DEF DotAt
<1>9. c = <<DotByte, DotByte>> <=> ~DotAt(s, k) /\ DotDotAt(s, k)
  <2>1. ASSUME c = <<DotByte, DotByte>> PROVE ~DotAt(s, k) /\ DotDotAt(s, k)
    <3>1. Len(c) = 2 /\ c[1] = DotByte /\ c[2] = DotByte
      BY <2>1
    <3>2. e - k + 1 = 2
      BY <1>5, <3>1
    <3>3. e = k + 1
      BY <1>1, <1>3, <3>2
    <3>4. 1 \in 1..Len(c) /\ k + 1 - 1 = k /\ 2 \in 1..Len(c) /\ k + 2 - 1 = k + 1
      BY <1>1, <3>1
    <3>5. s[k] = DotByte /\ s[k + 1] = DotByte
      BY <1>5, <3>1, <3>4
    <3> QED
      BY <1>1, <1>3, <1>7, <3>3, <3>5 DEF DotAt, DotDotAt
  <2>2. ASSUME DotDotAt(s, k) PROVE c = <<DotByte, DotByte>>
    <3>1. e # k - 1 /\ e # k
      BY <1>1, <1>3, <1>7, <2>2 DEF DotDotAt
    <3>2. ~(k + 2 <= e)
      BY <1>1, <1>3, <2>2 DEF DotDotAt
    <3>3. e = k + 1
      BY <1>1, <1>3, <3>1, <3>2
    <3>4. Len(c) = 2 /\ c[1] = DotByte /\ c[2] = DotByte
      BY <1>1, <1>5, <2>2, <3>3 DEF DotDotAt
    <3>5. c \in Seq(Bytes)
      BY <1>5
    <3> QED
      BY ONLY <3>4, <3>5
  <2> QED
    BY <2>1, <2>2
<1>10. /\ DotAt(s, k) => e \in {k - 1, k} /\ (e = k => s[k] = DotByte)
       /\ c = <<DotByte, DotByte>> => e = k + 1
  <2>1. ASSUME DotAt(s, k) PROVE e \in {k - 1, k} /\ (e = k => s[k] = DotByte)
    <3>1. c = <<>> \/ c = <<DotByte>>
      BY <1>8, <2>1
    <3>2. Len(c) = 0 \/ (Len(c) = 1 /\ c[1] = DotByte)
      BY <3>1
    <3>3. e - k + 1 = 0 \/ (e - k + 1 = 1 /\ 1 \in 1..Len(c) /\ k + 1 - 1 = k)
      BY <1>1, <1>5, <3>2
    <3>4. e = k - 1 \/ e = k
      BY <1>1, <1>3, <3>3
    <3>5. e = k => s[k] = DotByte
      BY <1>1, <1>5, <3>2, <3>3, <3>4
    <3> QED
      BY <3>4, <3>5
  <2>2. ASSUME c = <<DotByte, DotByte>> PROVE e = k + 1
    <3>1. e - k + 1 = 2
      BY <1>5, <2>2
    <3> QED
      BY <1>1, <1>3, <3>1
  <2> QED
    BY <2>1, <2>2
<1>11. Class(c) = IF DotAt(s, k) THEN Dot
                  ELSE IF c = <<DotByte, DotByte>> THEN DotDot
                  ELSE IF \A j \in 1..Len(c) : Covered(c, j) THEN "plain" ELSE "odd"
  BY <1>8 DEF Class
<1>12. /\ Dot # DotDot /\ Dot \notin {"plain", "odd"} /\ DotDot \notin {"plain", "odd"}
       /\ Root \notin {"plain", "odd"} /\ "plain" # "odd" /\ Root # Dot /\ Root # DotDot
  BY DEF Dot, DotDot, Root
<1>13. /\ Class(c) \in {Dot, DotDot, "plain", "odd"}
       /\ Class(c) = Dot <=> DotAt(s, k)
       /\ Class(c) = DotDot <=> ~DotAt(s, k) /\ DotDotAt(s, k)
       /\ IsName(Class(c)) => (Class(c) = "odd" <=> \E j \in 1..Len(c) : ~Covered(c, j))
  <2> HIDE DEF Dot, DotDot, Root
  <2> QED
    BY <1>9, <1>11, <1>12 DEF IsName
<1> QED
  BY <1>2, <1>4, <1>6, <1>9, <1>10, <1>13


-----------------------------------------------------------------------------
(* Characters and components *)

(* Leads, tails and the slash are told apart.                              *)
LEMMA ByteClasses ==
    /\ \A b : b \in 194..244 \/ b \in 128..191 => b # SlashByte
    /\ \A b \in 194..244 : ~(b \in 128..191)
  BY DEF SlashByte

(* No lead is printable ASCII. *)
LEMMA LeadNotAscii ==
    ASSUME NEW s, NEW g, s[g] \in 194..244
    PROVE  ~IsPrintableAscii(s[g])
  BY DEF IsPrintableAscii

(* A character starts with a byte that no other byte of it, no ASCII byte  *)
(* and no slash looks like.                                                *)
LEMMA CharBytes ==
    ASSUME NEW s \in Seq(Bytes), NEW g \in 1..Len(s), CharLen(s, g) > 0
    PROVE  /\ CharLen(s, g) \in 2..4 /\ g + CharLen(s, g) <= Len(s) + 1
           /\ s[g] \in 194..244
           /\ \A m \in (g + 1)..(g + CharLen(s, g) - 1) : s[m] \in 128..191
<1>1. /\ CharLen(s, g) \in 2..4 /\ g + CharLen(s, g) <= Len(s) + 1 /\ Form(s, g, CharLen(s, g))
  BY CharLenRange
<1>2. PICK n : n = CharLen(s, g)
  OBVIOUS
<1>3. n \in 2..4 /\ Form(s, g, n) /\ g \in Nat
  BY <1>1, <1>2
<1>4. s[g] \in 194..244
  BY <1>3, SMT DEF Form
<1>5. ASSUME NEW m \in (g + 1)..(g + n - 1) PROVE s[m] \in 128..191
  <2>1. m = g + 1 \/ (m = g + 2 /\ n > 2) \/ (m = g + 3 /\ n > 3)
    BY <1>3
  <2>2. /\ s[g + 1] \in 128..191
        /\ n > 2 => s[g + 2] \in 128..191
        /\ n > 3 => s[g + 3] \in 128..191
    BY <1>3 DEF Form, TailAt
  <2> QED
    BY <2>1, <2>2
<1> QED
  BY <1>1, <1>2, <1>4, <1>5

(* What covers a byte: itself, or a character that starts before it.       *)
LEMMA CoveredFacts ==
    ASSUME NEW c \in Seq(Bytes), NEW q \in 1..Len(c)
    PROVE  Covered(c, q) <=> \/ IsPrintableAscii(c[q])
                             \/ \E g \in 1..q : CharLen(c, g) > 0 /\ q < g + CharLen(c, g)
<1>0. Len(c) \in Nat /\ q \in Nat /\ q >= 1 /\ q <= Len(c)
  OBVIOUS
<1>1. ASSUME NEW g \in 1..q, NEW ch \in SafeChars, g + Len(ch) - 1 \in q..Len(c),
             SubSeq(c, g, g + Len(ch) - 1) = ch
      PROVE  CharLen(c, g) > 0 /\ q < g + CharLen(c, g)
  <2>1. g \in 1..Len(c) /\ g + Len(ch) - 1 <= Len(c)
    BY <1>0, <1>1
  <2>2. CharLen(c, g) = Len(ch)
    BY <1>1, <2>1, SafeCharacters
  <2>3. IsSafeCharAt(c, g)
    BY <1>1, <2>1 DEF IsSafeCharAt
  <2>4. CharLen(c, g) > 0 /\ CharLen(c, g) \in Int
    BY <2>1, <2>3, SafeCharacters, CharLenRange
  <2> QED
    BY <1>0, <1>1, <2>2, <2>4
<1>2. ASSUME NEW g \in 1..q, CharLen(c, g) > 0, q < g + CharLen(c, g)
      PROVE  \E ch \in SafeChars : /\ g + Len(ch) - 1 \in q..Len(c)
                                   /\ SubSeq(c, g, g + Len(ch) - 1) = ch
  <2>1. g \in 1..Len(c)
    BY <1>0
  <2>2. IsSafeCharAt(c, g)
    BY <1>2, <2>1, SafeCharacters
  <2>3. PICK ch \in SafeChars : g + Len(ch) - 1 <= Len(c) /\ SubSeq(c, g, g + Len(ch) - 1) = ch
    BY <2>2 DEF IsSafeCharAt
  <2>4. CharLen(c, g) = Len(ch)
    BY <2>1, <2>3, SafeCharacters
  <2>5. CharLen(c, g) \in Int
    BY <2>1, CharLenRange
  <2>6. g + Len(ch) - 1 \in q..Len(c)
    BY <1>0, <1>2, <2>3, <2>4, <2>5
  <2> QED
    BY <2>3, <2>6
<1> QED
  BY <1>1, <1>2 DEF Covered

(* A byte of the scanned path: printable, or part of a character that has  *)
(* been scanned as a whole                                                 *)
TiledBy(s, p, g, j) == /\ CharLen(s, g) > 0
                       /\ p < g + CharLen(s, g)
                       /\ g + CharLen(s, g) <= j
Tiled(s, p, j) == IsPrintableAscii(s[p]) \/ \E g \in 1..p : TiledBy(s, p, g, j)

(* A character of the path that has a byte of a component lies in it.      *)
LEMMA WithinComponent ==
    ASSUME NEW s \in Seq(Bytes), NEW k \in Starts(s), NEW p \in k..End(s, k),
           NEW g \in 1..p, CharLen(s, g) > 0, p < g + CharLen(s, g)
    PROVE  k <= g /\ g + CharLen(s, g) - 1 <= End(s, k)
<1>1. /\ Len(s) \in Nat /\ k \in Nat /\ k >= 1 /\ k <= Len(s) /\ (k = 1 \/ s[k - 1] = SlashByte)
  BY StartFacts
<1>2. PICK e : e = End(s, k)
  OBVIOUS
<1>3. /\ e \in (k - 1)..Len(s) /\ (e = Len(s) \/ s[e + 1] = SlashByte) /\ p \in k..e
  BY <1>2, EndFacts
<1>4. PICK n : n = CharLen(s, g)
  OBVIOUS
<1>5. g \in 1..Len(s)
  BY <1>1, <1>3
<1>6. /\ n \in 2..4 /\ g + n <= Len(s) + 1 /\ s[g] \in 194..244
      /\ \A m \in (g + 1)..(g + n - 1) : s[m] \in 128..191
  BY <1>4, <1>5, CharBytes
<1>8. \A m \in g..(g + n - 1) : s[m] # SlashByte
  <2> SUFFICES ASSUME NEW m \in g..(g + n - 1) PROVE s[m] # SlashByte
    OBVIOUS
  <2>1. m = g \/ m \in (g + 1)..(g + n - 1)
    BY <1>5, <1>6
  <2>2. s[m] \in 194..244 \/ s[m] \in 128..191
    BY <1>6, <2>1, Zenon
  <2> QED
    BY <2>2, ByteClasses, Zenon
<1>9. k <= g
  <2> SUFFICES ASSUME g < k PROVE FALSE
    BY <1>1, <1>5
  <2>1. k - 1 \in g..(g + n - 1) /\ k # 1
    BY <1>1, <1>3, <1>4, <1>5, <1>6
  <2> QED
    BY <1>1, <1>8, <2>1
<1>10. g + n - 1 <= e
  <2> SUFFICES ASSUME e < g + n - 1 PROVE FALSE
    BY <1>1, <1>3, <1>5, <1>6
  <2>1. e + 1 \in g..(g + n - 1) /\ e # Len(s)
    BY <1>1, <1>3, <1>5, <1>6
  <2> QED
    BY <1>3, <1>8, <2>1
<1> QED
  BY <1>2, <1>4, <1>9, <1>10

(* The bytes of a component, at their places in the path                   *)
BytesAt(s, k, e, c) ==
    /\ c \in Seq(Bytes) /\ Len(c) = e - k + 1
    /\ \A q \in 1..Len(c) : c[q] = s[k + q - 1] /\ k + q - 1 \in k..e
    /\ \A p \in k..e : p - k + 1 \in 1..Len(c) /\ c[p - k + 1] = s[p]

(* The component that starts at k has these bytes.                         *)
LEMMA ComponentBytes ==
    ASSUME NEW s \in Seq(Bytes), NEW k \in Starts(s), NEW e, e = End(s, k), NEW c, c = SubSeq(s, k, e)
    PROVE  BytesAt(s, k, e, c)
<1>1. Len(s) \in Nat /\ k \in Nat /\ k >= 1 /\ k <= Len(s)
  BY StartFacts
<1>3. e \in (k - 1)..Len(s)
  BY EndFacts
<1>5. c \in Seq(Bytes) /\ Len(c) = e - k + 1 /\ \A q \in 1..Len(c) : c[q] = s[k + q - 1]
  BY <1>1, <1>3
<1>6. \A q \in 1..Len(c) : k + q - 1 \in k..e
  BY <1>1, <1>3, <1>5
<1>7. ASSUME NEW p \in k..e PROVE p - k + 1 \in 1..Len(c) /\ c[p - k + 1] = s[p]
  <2>1. p - k + 1 \in 1..Len(c) /\ k + (p - k + 1) - 1 = p
    BY <1>1, <1>3, <1>5
  <2> QED
    BY <1>5, <2>1
<1> QED
  BY <1>5, <1>6, <1>7 DEF BytesAt

(* A byte of a component is covered in it when a character of the path     *)
(* covers it.                                                              *)
LEMMA CoveredInPath ==
    ASSUME NEW s \in Seq(Bytes), NEW k \in Starts(s), NEW p \in k..End(s, k)
    PROVE  Covered(SubSeq(s, k, End(s, k)), p - k + 1) <=>
               \/ IsPrintableAscii(s[p])
               \/ \E g \in 1..p : CharLen(s, g) > 0 /\ p < g + CharLen(s, g)
<1>1. Len(s) \in Nat /\ k \in Nat /\ k >= 1 /\ k <= Len(s)
  BY StartFacts
<1>2. PICK e : e = End(s, k)
  OBVIOUS
<1>3. e \in (k - 1)..Len(s) /\ p \in k..e
  BY <1>2, EndFacts
<1>4. PICK c : c = SubSeq(s, k, e)
  OBVIOUS
<1>5. /\ c \in Seq(Bytes) /\ Len(c) = e - k + 1
      /\ \A m \in 1..Len(c) : c[m] = s[k + m - 1] /\ k + m - 1 \in k..e
      /\ \A x \in k..e : x - k + 1 \in 1..Len(c) /\ c[x - k + 1] = s[x]
  <2>1. BytesAt(s, k, e, c)
    BY <1>2, <1>4, ComponentBytes
  <2> QED
    BY <2>1 DEF BytesAt
<1>6. PICK q : q = p - k + 1
  OBVIOUS
<1>7. q \in 1..Len(c) /\ c[q] = s[p] /\ p = k + q - 1
  BY <1>1, <1>3, <1>5, <1>6
<1>8. ASSUME NEW g \in 1..q, CharLen(c, g) > 0, q < g + CharLen(c, g)
      PROVE  \E f \in 1..p : CharLen(s, f) > 0 /\ p < f + CharLen(s, f)
  <2>1. g \in 1..Len(c)
    BY <1>7, <1>5, <1>1, <1>3
  <2>2. PICK n : n = CharLen(c, g)
    OBVIOUS
  <2>3. n \in 2..4 /\ g + n <= Len(c) + 1
    BY <1>5, <1>8, <2>1, <2>2, CharBytes
  <2>4. PICK f : f = k + g - 1
    OBVIOUS
  <2>5. f \in 1..p /\ f \in 1..Len(s) /\ f + n - 1 <= Len(s) /\ p < f + n
    <3>1. g \in Int /\ g >= 1 /\ g <= q /\ q \in Int /\ q < g + n /\ n \in Int /\ n >= 2
      <4>1. q \in Int
        BY <1>1, <1>3, <1>6
      <4>2. q < g + n
        BY <1>8, <2>2
      <4> QED
        BY <2>3, <4>1, <4>2
    <3>2. e \in Int /\ e <= Len(s) /\ Len(c) = e - k + 1 /\ g + n <= Len(c) + 1
      BY <1>1, <1>3, <1>5, <2>3
    <3>3. f \in Int /\ p \in Int /\ f = k + g - 1 /\ p = k + q - 1
      BY <1>1, <1>7, <2>4, <3>1
    <3>4. f >= 1 /\ f <= p /\ p < f + n /\ f + n - 1 <= Len(s) /\ f <= Len(s)
      BY ONLY <1>1, <3>1, <3>2, <3>3
    <3> QED
      BY <3>3, <3>4
  <2>6. \A m \in 0..(n - 1) : s[f + m] = c[g + m]
    <3> SUFFICES ASSUME NEW m \in 0..(n - 1) PROVE s[f + m] = c[g + m]
      OBVIOUS
    <3>1. g + m \in 1..Len(c) /\ k + (g + m) - 1 = f + m
      BY <1>1, <1>3, <1>5, <2>1, <2>3, <2>4
    <3> QED
      BY <1>5, <3>1
  <2>7. CharLen(s, f) = n
    <3>1. c \in Seq(Bytes) /\ f \in 1..Len(s) /\ f + n - 1 <= Len(s) /\ CharLen(c, g) > 0
      BY <1>5, <1>8, <2>5
    <3> QED
      BY <2>1, <2>2, <2>6, <3>1, SameCharacter
  <2> QED
    BY <2>3, <2>5, <2>7
<1>9. ASSUME NEW f \in 1..p, CharLen(s, f) > 0, p < f + CharLen(s, f)
      PROVE  \E g \in 1..q : CharLen(c, g) > 0 /\ q < g + CharLen(c, g)
  <2>1. f \in 1..Len(s)
    BY <1>1, <1>3
  <2>2. PICK n : n = CharLen(s, f)
    OBVIOUS
  <2>3. n \in 2..4 /\ f + n <= Len(s) + 1
    BY <1>9, <2>1, <2>2, CharBytes
  <2>4. k <= f /\ f + n - 1 <= e
    BY <1>2, <1>9, <2>2, WithinComponent
  <2>5. PICK g : g = f - k + 1
    OBVIOUS
  <2>6. g \in 1..q /\ g \in 1..Len(c) /\ g + n - 1 <= Len(c) /\ q < g + n
    <3>1. f \in Int /\ f >= k /\ f <= p /\ p < f + n /\ n \in Int /\ n >= 2 /\ f + n - 1 <= e
      BY <1>3, <1>9, <2>1, <2>2, <2>3, <2>4
    <3>2. e \in Int /\ p \in Int /\ Len(c) = e - k + 1 /\ g = f - k + 1 /\ q = p - k + 1
      BY <1>1, <1>3, <1>5, <1>6, <2>5
    <3>3. g \in Int /\ g >= 1 /\ g <= q /\ q < g + n /\ g + n - 1 <= Len(c) /\ g <= Len(c) /\ q \in Int
          /\ Len(c) \in Int
      BY ONLY <1>1, <3>1, <3>2
    <3> QED
      BY ONLY <3>3
  <2>7. \A m \in 0..(n - 1) : c[g + m] = s[f + m]
    <3> SUFFICES ASSUME NEW m \in 0..(n - 1) PROVE c[g + m] = s[f + m]
      OBVIOUS
    <3>1. PICK x : x = f + m
      OBVIOUS
    <3>2. x \in k..e /\ x - k + 1 = g + m
      BY <1>1, <1>3, <2>1, <2>3, <2>4, <2>5, <3>1
    <3>3. c[x - k + 1] = s[x]
      BY <1>5, <3>2
    <3> QED
      BY <3>1, <3>2, <3>3, Zenon
  <2>8. CharLen(c, g) = n
    <3>1. c \in Seq(Bytes) /\ g \in 1..Len(c) /\ g + n - 1 <= Len(c) /\ CharLen(s, f) > 0
      BY <1>5, <1>9, <2>6
    <3> QED
      BY <2>1, <2>2, <2>7, <3>1, SameCharacter
  <2> QED
    BY <2>3, <2>6, <2>8
<1>10. Covered(c, q) <=> \/ IsPrintableAscii(c[q])
                         \/ \E g \in 1..q : CharLen(c, g) > 0 /\ q < g + CharLen(c, g)
  BY <1>5, <1>7, CoveredFacts
<1>11. (\E g \in 1..q : CharLen(c, g) > 0 /\ q < g + CharLen(c, g)) <=>
       (\E g \in 1..p : CharLen(s, g) > 0 /\ p < g + CharLen(s, g))
  BY <1>8, <1>9, Zenon
<1> QED
  BY <1>2, <1>4, <1>6, <1>7, <1>10, <1>11, Zenon

(* A component of tiled bytes is not refused for its characters.           *)
LEMMA TiledIsPlain ==
    ASSUME NEW s \in Seq(Bytes), NEW k \in Starts(s), NEW j,
           \A p \in k..End(s, k) : Tiled(s, p, j)
    PROVE  Component(s, k) # "odd"
<1> SUFFICES ASSUME Component(s, k) = "odd" PROVE FALSE
  OBVIOUS
<1>0. Len(s) \in Nat /\ k \in Nat /\ k >= 1 /\ k <= Len(s) /\ End(s, k) \in (k - 1)..Len(s)
  BY StartFacts, EndFacts
<1>1. PICK c : c = SubSeq(s, k, End(s, k))
  OBVIOUS
<1>2. IsName(Component(s, k))
  BY DEF IsName, Dot, DotDot, Root
<1>3. PICK q \in 1..Len(c) : ~Covered(c, q)
  BY <1>1, <1>2, ComponentFacts
<1>4. k + q - 1 \in k..End(s, k) /\ Len(c) = End(s, k) - k + 1
  <2>1. BytesAt(s, k, End(s, k), c)
    BY <1>1, ComponentBytes
  <2> QED
    BY <2>1 DEF BytesAt
<1>5. (k + q - 1) - k + 1 = q
  BY <1>0, <1>4
<1>6. Tiled(s, k + q - 1, j)
  BY <1>4
<1>7. Covered(c, (k + q - 1) - k + 1)
  BY <1>1, <1>4, <1>6, CoveredInPath DEF Tiled, TiledBy
<1> QED
  BY <1>3, <1>5, <1>7

(* A byte that is neither printable nor the first of a safe character, and *)
(* to which no character before it reaches, makes its component odd.       *)
LEMMA RefusedIsOdd ==
    ASSUME NEW s \in Seq(Bytes), NEW k \in Starts(s), NEW j \in k..End(s, k),
           ~IsPrintableAscii(s[j]), ~(CharLen(s, j) > 0),
           \A p \in 1..(j - 1) : Tiled(s, p, j), IsName(Component(s, k))
    PROVE  Component(s, k) = "odd"
<1>0. Len(s) \in Nat /\ k \in Nat /\ k >= 1 /\ k <= Len(s) /\ End(s, k) \in (k - 1)..Len(s)
  BY StartFacts, EndFacts
<1>1. ASSUME NEW g \in 1..j, CharLen(s, g) > 0, j < g + CharLen(s, g) PROVE FALSE
  <2>1. g \in 1..Len(s) /\ g # j /\ g \in 1..(j - 1)
    BY <1>0, <1>1
  <2>2. CharLen(s, g) \in 2..4 /\ s[g] \in 194..244
    BY <1>1, <2>1, CharBytes
  <2>3. ~IsPrintableAscii(s[g])
    <3>1. s[g] \in 194..244
      BY <2>2
    <3> QED
      BY <3>1, LeadNotAscii, Zenon
  <2>4. PICK f \in 1..g : TiledBy(s, g, f, j)
    BY <2>1, <2>3 DEF Tiled
  <2>5. f \in 1..Len(s) /\ CharLen(s, f) > 0 /\ g < f + CharLen(s, f) /\ f + CharLen(s, f) <= j
    BY <2>1, <2>4 DEF TiledBy
  <2>6. CharLen(s, f) \in 2..4 /\ \A m \in (f + 1)..(f + CharLen(s, f) - 1) : s[m] \in 128..191
    BY <2>5, CharBytes
  <2>7. CASE f = g
    BY <1>0, <1>1, <2>2, <2>5, <2>7
  <2>8. CASE f # g
    <3>1. g \in (f + 1)..(f + CharLen(s, f) - 1)
      BY <2>1, <2>5, <2>6, <2>8
    <3>2. s[g] \in 128..191
      BY <2>6, <3>1, Zenon
    <3> QED
      BY <2>2, <3>2, ByteClasses, Zenon
  <2> QED
    BY <2>7, <2>8
<1>2. ~Covered(SubSeq(s, k, End(s, k)), j - k + 1)
  BY <1>1, CoveredInPath
<1>3. j - k + 1 \in 1..Len(SubSeq(s, k, End(s, k)))
  BY ComponentBytes DEF BytesAt
<1> QED
  BY <1>2, <1>3, ComponentFacts

-----------------------------------------------------------------------------
(* What the rules say of a path, in terms of where its components start *)

(* The names, and the "..", that start before j                            *)
NamesTo(s, j) == {m \in Starts(s) : m < j /\ IsName(Component(s, m))}
DotDotsTo(s, j) == {m \in Starts(s) : m < j /\ Component(s, m) = DotDot}

ErrAt(s, k, b, f) ==
    IF Component(s, k) = DotDot
    THEN IF NamesTo(s, k) # {} \/ Cardinality(DotDotsTo(s, k + 1)) > b THEN -ENOLINK ELSE 0
    ELSE IF Component(s, k) = Dot
    THEN IF "NON_CANONICAL_PATHS" \in f THEN 0 ELSE -EILSEQ
    ELSE IF Component(s, k) = "odd" /\ "UNSAFE_CHARACTERS" \notin f THEN -EILSEQ ELSE 0

(* The components are those that start somewhere, in the order of their    *)
(* starts.                                                                 *)
InOrder(s, path) ==
    /\ Len(path) = Cardinality(Starts(s)) /\ Len(path) \in Nat /\ Len(path) >= 1
    /\ \A k \in Starts(s) : Rank(Starts(s), k) \in 1..Len(path)
                            /\ path[Rank(Starts(s), k)] = Component(s, k)
    /\ \A n \in 1..Len(path) : \E k \in Starts(s) : Rank(Starts(s), k) = n
    /\ \A m, k \in Starts(s) : m < k => Rank(Starts(s), m) < Rank(Starts(s), k)

(* The path of PathRules.tla is in this order. *)
LEMMA PathInOrder ==
    ASSUME NEW s \in Seq(Bytes), s # <<>>, s[1] # SlashByte
    PROVE  InOrder(s, ComponentsOf(s)) /\ ComponentsOf(s) # <<>> /\ ComponentsOf(s)[1] # Root
<1>1. PICK S : S = Starts(s)
  OBVIOUS
<1>2. PICK N : N = Cardinality(S)
  OBVIOUS
<1>3. S \in SUBSET Nat /\ IsFiniteSet(S)
  BY <1>1, StartFacts
<1>4. /\ N \in Nat
      /\ \A k \in S : Rank(S, k) \in 1..N
      /\ \A m, k \in S : m < k => Rank(S, m) < Rank(S, k)
      /\ \A n \in 1..N : \E k \in S : Rank(S, k) = n
  BY <1>2, <1>3, Numbering
<1>5. PICK path : path = [n \in 1..N |-> Component(s, Nth(s, n))]
  OBVIOUS
<1>6. ComponentsOf(s) = path
  BY <1>1, <1>2, <1>5 DEF ComponentsOf
<1>7. Len(path) = N /\ \A n \in 1..N : path[n] = Component(s, Nth(s, n))
  BY <1>4, <1>5
<1>8. ASSUME NEW k \in S PROVE Nth(s, Rank(S, k)) = k
  <2>1. PICK n : n = Rank(S, k)
    OBVIOUS
  <2>2. Nth(s, n) = CHOOSE m \in S : Rank(S, m) = n
    BY <1>1 DEF Nth, Rank
  <2>3. PICK x : x = CHOOSE m \in S : Rank(S, m) = n
    OBVIOUS
  <2>4. x \in S /\ Rank(S, x) = n
    BY <2>1, <2>3
  <2>5. ~(x < k) /\ ~(k < x)
    <3>1. Rank(S, x) = Rank(S, k) /\ Rank(S, k) \in Int
      BY <1>4, <2>1, <2>4
    <3> QED
      BY <1>4, <2>4, <3>1
  <2>6. x = k
    BY <1>3, <2>4, <2>5
  <2> QED
    BY <2>1, <2>2, <2>3, <2>6
<1>9. 1 \in S
  <2>1. Len(s) \in Nat /\ Len(s) # 0
    OBVIOUS
  <2> QED
    BY <1>1, <2>1, StartFacts
<1>10. N >= 1
  BY <1>4, <1>9
<1>11. \A k \in S : path[Rank(S, k)] = Component(s, k)
  BY <1>4, <1>7, <1>8
<1>12. InOrder(s, path)
  BY <1>1, <1>2, <1>4, <1>7, <1>10, <1>11 DEF InOrder
<1>13. path # <<>>
  BY <1>7, <1>10
<1>14. path[1] # Root
  <2>1. PICK k \in S : Rank(S, k) = 1
    BY <1>4, <1>10
  <2>2. path[1] = Component(s, k)
    BY <1>11, <2>1
  <2>3. Component(s, k) \in {Dot, DotDot, "plain", "odd"}
    BY <1>1, ComponentFacts
  <2> QED
    BY <2>2, <2>3 DEF Dot, DotDot, Root
<1> QED
  BY <1>6, <1>12, <1>13, <1>14

(* Ranks keep the order. *)
LEMMA RankOrder ==
    ASSUME NEW s \in Seq(Bytes), NEW path, InOrder(s, path),
           NEW m \in Starts(s), NEW k \in Starts(s)
    PROVE  /\ Rank(Starts(s), m) \in Nat
           /\ Rank(Starts(s), m) < Rank(Starts(s), k) <=> m < k
           /\ Rank(Starts(s), m) <= Rank(Starts(s), k) <=> m < k + 1
<1>1. m \in Nat /\ k \in Nat
  BY StartFacts
<1>2. PICK x : x = Rank(Starts(s), m)
  OBVIOUS
<1>3. PICK y : y = Rank(Starts(s), k)
  OBVIOUS
<1>4. Len(path) \in Nat /\ x \in 1..Len(path) /\ y \in 1..Len(path)
  BY <1>2, <1>3 DEF InOrder
<1>5. (m < k => x < y) /\ (k < m => y < x) /\ (m = k => x = y)
  BY <1>2, <1>3 DEF InOrder
<1> QED
  BY <1>1, <1>2, <1>3, <1>4, <1>5

(* As many ".." up to a component as up to its place                       *)
LEMMA CountDotDots ==
    ASSUME NEW s \in Seq(Bytes), NEW path, InOrder(s, path), NEW k \in Starts(s)
    PROVE  Cardinality({j \in 1..Rank(Starts(s), k) : path[j] = DotDot}) =
               Cardinality(DotDotsTo(s, k + 1))
<1>1. PICK S : S = Starts(s)
  OBVIOUS
<1>2. PICK r : r = Rank(S, k)
  OBVIOUS
<1>3. PICK A : A = DotDotsTo(s, k + 1)
  OBVIOUS
<1>4. PICK B : B = {j \in 1..r : path[j] = DotDot}
  OBVIOUS
<1>5. S \in SUBSET Nat /\ IsFiniteSet(S) /\ r \in 1..Len(path) /\ Len(path) \in Nat
  BY <1>1, <1>2, StartFacts DEF InOrder
<1>6. \A m : m \in A <=> m \in S /\ m < k + 1 /\ Component(s, m) = DotDot
  BY <1>1, <1>3 DEF DotDotsTo
<1>7. ASSUME NEW j \in B PROVE \E m \in A : Rank(S, m) = j
  <2>1. j \in 1..Len(path) /\ j <= r /\ path[j] = DotDot
    BY <1>4, <1>5
  <2>2. PICK m \in S : Rank(S, m) = j
    BY <1>1, <2>1 DEF InOrder
  <2>3. path[j] = Component(s, m)
    BY <1>1, <2>2 DEF InOrder
  <2>4. m < k + 1
    BY <1>1, <1>2, <2>1, <2>2, RankOrder
  <2> QED
    BY <1>6, <2>1, <2>2, <2>3, <2>4
<1>8. ASSUME NEW m \in A PROVE Rank(S, m) \in B
  <2>1. m \in S /\ m < k + 1 /\ Component(s, m) = DotDot
    BY <1>6
  <2>2. Rank(S, m) \in 1..Len(path) /\ path[Rank(S, m)] = Component(s, m)
    BY <1>1, <2>1 DEF InOrder
  <2>3. Rank(S, m) <= r
    BY <1>1, <1>2, <2>1, RankOrder
  <2>4. Rank(S, m) \in 1..r
    BY <1>5, <2>2, <2>3
  <2> QED
    BY <1>4, <2>1, <2>2, <2>4
<1>9. \A j : j \in B <=> \E m \in A : Rank(S, m) = j
  BY <1>7, <1>8
<1>10. A \in SUBSET S
  BY <1>6
<1>11. Cardinality(B) = Cardinality(A)
  BY <1>5, <1>9, <1>10, CountRanks
<1> QED
  BY <1>1, <1>2, <1>3, <1>4, <1>11

(* As many names as components that are names                              *)
LEMMA CountNames ==
    ASSUME NEW s \in Seq(Bytes), NEW path, InOrder(s, path)
    PROVE  Cardinality({j \in 1..Len(path) : IsName(path[j])}) = Cardinality(NamesTo(s, Len(s) + 1))
<1>1. PICK S : S = Starts(s)
  OBVIOUS
<1>2. PICK A : A = NamesTo(s, Len(s) + 1)
  OBVIOUS
<1>3. PICK B : B = {j \in 1..Len(path) : IsName(path[j])}
  OBVIOUS
<1>4. S \in SUBSET Nat /\ IsFiniteSet(S) /\ Len(s) \in Nat /\ \A m \in S : m < Len(s) + 1
  BY <1>1, StartFacts
<1>5. \A m : m \in A <=> m \in S /\ IsName(Component(s, m))
  BY <1>1, <1>2, <1>4 DEF NamesTo
<1>6. ASSUME NEW j \in B PROVE \E m \in A : Rank(S, m) = j
  <2>1. j \in 1..Len(path) /\ IsName(path[j])
    BY <1>3
  <2>2. PICK m \in S : Rank(S, m) = j
    BY <1>1, <2>1 DEF InOrder
  <2>3. path[j] = Component(s, m)
    BY <1>1, <2>2 DEF InOrder
  <2> QED
    BY <1>5, <2>1, <2>2, <2>3
<1>7. ASSUME NEW m \in A PROVE Rank(S, m) \in B
  <2>1. m \in S /\ IsName(Component(s, m))
    BY <1>5
  <2>2. Rank(S, m) \in 1..Len(path) /\ path[Rank(S, m)] = Component(s, m)
    BY <1>1, <2>1 DEF InOrder
  <2> QED
    BY <1>3, <2>1, <2>2
<1>8. \A j : j \in B <=> \E m \in A : Rank(S, m) = j
  BY <1>6, <1>7
<1>9. A \in SUBSET S
  BY <1>5
<1>10. Cardinality(B) = Cardinality(A)
  BY <1>4, <1>8, <1>9, CountRanks
<1> QED
  BY <1>2, <1>3, <1>10

(* The verdict on a component, in terms of its start                       *)
LEMMA ErrorOf ==
    ASSUME NEW s \in Seq(Bytes), NEW path, InOrder(s, path), NEW k \in Starts(s), NEW b, NEW f
    PROVE  ComponentError(path, Rank(Starts(s), k), b, f, UnsafeNames) = ErrAt(s, k, b, f)
<1>1. PICK S : S = Starts(s)
  OBVIOUS
<1>2. PICK r : r = Rank(S, k)
  OBVIOUS
<1>3. path[r] = Component(s, k) /\ r \in 1..Len(path) /\ Len(path) \in Nat
  BY <1>1, <1>2 DEF InOrder
<1>4. Cardinality({j \in 1..r : path[j] = DotDot}) = Cardinality(DotDotsTo(s, k + 1))
  BY <1>1, <1>2, CountDotDots
<1>5. (\E j \in 1..(r - 1) : IsName(path[j])) <=> NamesTo(s, k) # {}
  <2>1. ASSUME NEW j \in 1..(r - 1), IsName(path[j]) PROVE NamesTo(s, k) # {}
    <3>1. j \in 1..Len(path) /\ j < r
      BY <1>3
    <3>2. PICK m \in S : Rank(S, m) = j
      BY <1>1, <3>1 DEF InOrder
    <3>3. path[j] = Component(s, m)
      BY <1>1, <3>2 DEF InOrder
    <3>4. m < k
      BY <1>1, <1>2, <3>1, <3>2, RankOrder
    <3> QED
      BY <1>1, <2>1, <3>3, <3>4 DEF NamesTo
  <2>2. ASSUME NamesTo(s, k) # {} PROVE \E j \in 1..(r - 1) : IsName(path[j])
    <3>1. PICK m \in S : m < k /\ IsName(Component(s, m))
      BY <1>1, <2>2 DEF NamesTo
    <3>2. Rank(S, m) \in 1..Len(path) /\ path[Rank(S, m)] = Component(s, m)
      BY <1>1 DEF InOrder
    <3>3. Rank(S, m) < r
      BY <1>1, <1>2, <3>1, RankOrder
    <3>4. Rank(S, m) \in 1..(r - 1)
      BY <1>3, <3>2, <3>3
    <3> QED
      BY <3>1, <3>2, <3>4
  <2> QED
    BY <2>1, <2>2
<1>6. path[r] \in UnsafeNames <=> Component(s, k) = "odd"
  BY <1>3, PathValidateAssumption
<1>7. ComponentError(path, r, b, f, UnsafeNames) =
        IF path[r] = DotDot
        THEN IF (\E j \in 1..(r - 1) : IsName(path[j])) \/ Cardinality({j \in 1..r : path[j] = DotDot}) > b
             THEN -ENOLINK ELSE 0
        ELSE IF path[r] = Dot
        THEN IF "NON_CANONICAL_PATHS" \in f THEN 0 ELSE -EILSEQ
        ELSE IF path[r] \in UnsafeNames /\ "UNSAFE_CHARACTERS" \notin f THEN -EILSEQ ELSE 0
  BY DEF ComponentError
<1>8. ComponentError(path, r, b, f, UnsafeNames) = ErrAt(s, k, b, f)
  BY <1>3, <1>4, <1>5, <1>6, <1>7, Zenon DEF ErrAt
<1> QED
  BY <1>1, <1>2, <1>8

(* The error of the first component refused is the verdict on the path.    *)
LEMMA FirstRefused ==
    ASSUME NEW s \in Seq(Bytes), s # <<>>, s[1] # SlashByte, NEW sl, NEW b, NEW f,
           NEW k \in Starts(s), ErrAt(s, k, b, f) # 0,
           \A m \in Starts(s) : m < k => ErrAt(s, m, b, f) = 0
    PROVE  ValidatePath(ComponentsOf(s), sl, b, f, UnsafeNames) = ErrAt(s, k, b, f)
<1>1. PICK path : path = ComponentsOf(s)
  OBVIOUS
<1>2. InOrder(s, path) /\ path # <<>> /\ path[1] # Root
  BY <1>1, PathInOrder
<1> DEFINE Error(n) == ComponentError(path, n, b, f, UnsafeNames)
           Refused == {n \in 1..Len(path) : Error(n) # 0}
<1>3. PICK r : r = Rank(Starts(s), k)
  OBVIOUS
<1>4. Error(r) = ErrAt(s, k, b, f)
  BY <1>2, <1>3, ErrorOf
<1>5. r \in Refused
  <2>1. r \in 1..Len(path)
    BY <1>2, <1>3 DEF InOrder
  <2> QED
    BY <1>4, <2>1
<1>6. ASSUME NEW n \in Refused PROVE r <= n
  <2>1. PICK m \in Starts(s) : Rank(Starts(s), m) = n
    BY <1>2 DEF InOrder
  <2>2. Error(n) = ErrAt(s, m, b, f)
    BY <1>2, <2>1, ErrorOf
  <2>3. ~(m < k)
    BY <2>2
  <2>4. ~(n < r) /\ n \in Nat /\ r \in Nat
    BY <1>2, <1>3, <2>1, <2>3, RankOrder
  <2> QED
    BY <2>4
<1>7. ErrAt(s, k, b, f) \in {-ENOLINK, -EILSEQ} /\ -ENOLINK # -EILSEQ
  BY DEF ErrAt, ENOLINK, EILSEQ
<1>8. r \in Nat /\ \A n \in Refused : n \in Nat
  BY <1>2, <1>5 DEF InOrder
<1>9. (\E n \in Refused : Error(n) = -ENOLINK /\ \A j \in Refused : n <= j)
        <=> ErrAt(s, k, b, f) = -ENOLINK
  <2> HIDE DEF Error, Refused
  <2>1. ASSUME NEW n \in Refused, Error(n) = -ENOLINK, \A j \in Refused : n <= j
        PROVE  ErrAt(s, k, b, f) = -ENOLINK
    <3>1. n <= r /\ r <= n
      BY <1>5, <1>6, <2>1
    <3>2. n = r
      BY <1>8, <3>1
    <3> QED
      BY <1>4, <2>1, <3>2
  <2>2. ASSUME ErrAt(s, k, b, f) = -ENOLINK
        PROVE  \E n \in Refused : Error(n) = -ENOLINK /\ \A j \in Refused : n <= j
    BY <1>4, <1>5, <1>6, <2>2
  <2> QED
    BY <2>1, <2>2
<1>10. ValidatePath(path, sl, b, f, UnsafeNames) =
          IF path = <<>>
          THEN IF "NON_CANONICAL_PATHS" \in f THEN 0 ELSE -ENOLINK
          ELSE IF path[1] = Root THEN -ENOLINK
          ELSE IF Refused # {}
          THEN IF \E n \in Refused : Error(n) = -ENOLINK /\ \A j \in Refused : n <= j
               THEN -ENOLINK ELSE -EILSEQ
          ELSE IF sl /\ "TRAILING_SLASH" \notin f THEN -EILSEQ
          ELSE Cardinality({n \in 1..Len(path) : IsName(path[n])})
  BY DEF ValidatePath
<1> HIDE DEF Error, Refused
<1>11. ValidatePath(path, sl, b, f, UnsafeNames) =
          IF ErrAt(s, k, b, f) = -ENOLINK THEN -ENOLINK ELSE -EILSEQ
  BY <1>2, <1>5, <1>9, <1>10
<1> QED
  BY <1>1, <1>7, <1>11, Zenon

(* Without one, it is the number of names.                                 *)
LEMMA NoneRefused ==
    ASSUME NEW s \in Seq(Bytes), s # <<>>, s[1] # SlashByte, NEW sl, NEW b, NEW f,
           \A m \in Starts(s) : ErrAt(s, m, b, f) = 0
    PROVE  ValidatePath(ComponentsOf(s), sl, b, f, UnsafeNames) =
               IF sl /\ "TRAILING_SLASH" \notin f THEN -EILSEQ
               ELSE Cardinality(NamesTo(s, Len(s) + 1))
<1>1. PICK path : path = ComponentsOf(s)
  OBVIOUS
<1>2. InOrder(s, path) /\ path # <<>> /\ path[1] # Root
  BY <1>1, PathInOrder
<1> DEFINE Error(n) == ComponentError(path, n, b, f, UnsafeNames)
           Refused == {n \in 1..Len(path) : Error(n) # 0}
<1>3. Refused = {}
  <2> SUFFICES ASSUME NEW n \in Refused PROVE FALSE
    OBVIOUS
  <2>1. PICK m \in Starts(s) : Rank(Starts(s), m) = n
    BY <1>2 DEF InOrder
  <2>2. Error(n) = ErrAt(s, m, b, f)
    BY <1>2, <2>1, ErrorOf
  <2> QED
    BY <2>2
<1>4. ValidatePath(path, sl, b, f, UnsafeNames) =
          IF path = <<>>
          THEN IF "NON_CANONICAL_PATHS" \in f THEN 0 ELSE -ENOLINK
          ELSE IF path[1] = Root THEN -ENOLINK
          ELSE IF Refused # {}
          THEN IF \E n \in Refused : Error(n) = -ENOLINK /\ \A j \in Refused : n <= j
               THEN -ENOLINK ELSE -EILSEQ
          ELSE IF sl /\ "TRAILING_SLASH" \notin f THEN -EILSEQ
          ELSE Cardinality({n \in 1..Len(path) : IsName(path[n])})
  BY DEF ValidatePath
<1> HIDE DEF Error, Refused
<1> QED
  BY <1>1, <1>2, <1>3, <1>4, CountNames

-----------------------------------------------------------------------------
(* The scan *)

(* Where the scan of s has come to j without an error                      *)
AllTiled(s, f, j) == "UNSAFE_CHARACTERS" \notin f => \A p \in 1..(j - 1) : Tiled(s, p, j)

Passed(s, k, b, f) == IsName(Component(s, k)) \/ ErrAt(s, k, b, f) = 0

Progress(s, f, b, j, a, d) ==
    /\ AllTiled(s, f, j)
    /\ \A k \in Starts(s) : k < j =>
          Passed(s, k, b, f) /\ (Component(s, k) = DotDot => k + 2 <= j)
    /\ a = IF NamesTo(s, j) # {} THEN 0 ELSE b - Cardinality(DotDotsTo(s, j))
    /\ Cardinality(DotDotsTo(s, j)) <= b
    /\ d = Cardinality(NamesTo(s, j))

(* The sets of starts are finite. *)
LEMMA CountTypes ==
    ASSUME NEW s \in Seq(Bytes), NEW j
    PROVE  /\ IsFiniteSet(NamesTo(s, j)) /\ Cardinality(NamesTo(s, j)) \in Nat
           /\ IsFiniteSet(DotDotsTo(s, j)) /\ Cardinality(DotDotsTo(s, j)) \in Nat
<1>1. IsFiniteSet(Starts(s))
  BY StartFacts
<1>2. NamesTo(s, j) \in SUBSET Starts(s) /\ DotDotsTo(s, j) \in SUBSET Starts(s)
  BY DEF NamesTo, DotDotsTo
<1>3. IsFiniteSet(NamesTo(s, j)) /\ IsFiniteSet(DotDotsTo(s, j))
  BY <1>1, <1>2, FS_Subset
<1> QED
  BY <1>3, FS_CardinalityType

(* At the first byte nothing has been passed. *)
LEMMA ProgressAtFirst ==
    ASSUME NEW s \in Seq(Bytes), NEW f, NEW b \in Nat
    PROVE  Progress(s, f, b, 1, b, 0)
<1>1. \A k \in Starts(s) : ~(k < 1)
  <2> SUFFICES ASSUME NEW k \in Starts(s) PROVE ~(k < 1)
    OBVIOUS
  <2>1. k \in Nat /\ k >= 1
    BY StartFacts
  <2> QED
    BY <2>1
<1>2. NamesTo(s, 1) = {} /\ DotDotsTo(s, 1) = {}
  BY <1>1 DEF NamesTo, DotDotsTo
<1>3. Cardinality(NamesTo(s, 1)) = 0 /\ Cardinality(DotDotsTo(s, 1)) = 0
  BY <1>2, FS_EmptySet
<1>4. AllTiled(s, f, 1)
  BY DEF AllTiled
<1> QED
  BY <1>1, <1>2, <1>3, <1>4 DEF Progress

(* A component that the scan has passed is one the rules do not refuse.    *)
LEMMA PassedIsRight ==
    ASSUME NEW s \in Seq(Bytes), NEW f, NEW b \in Nat, NEW j \in Nat, NEW a, NEW d,
           Progress(s, f, b, j, a, d), NEW m \in Starts(s), End(s, m) < j, m < j
    PROVE  ErrAt(s, m, b, f) = 0
<1>1. Passed(s, m, b, f)
  BY DEF Progress
<1>2. CASE ErrAt(s, m, b, f) = 0
  BY <1>2
<1>3. CASE IsName(Component(s, m))
  <2>1. Component(s, m) # Dot /\ Component(s, m) # DotDot
    BY <1>3 DEF IsName
  <2>2. CASE "UNSAFE_CHARACTERS" \in f
    BY <2>1, <2>2 DEF ErrAt
  <2>3. CASE "UNSAFE_CHARACTERS" \notin f
    <3>1. \A p \in 1..(j - 1) : Tiled(s, p, j)
      BY <2>3 DEF Progress, AllTiled
    <3>2. m \in Nat /\ m >= 1 /\ Len(s) \in Nat /\ End(s, m) \in (m - 1)..Len(s)
      BY StartFacts, EndFacts
    <3>3. \A p \in m..End(s, m) : p \in 1..(j - 1)
      BY <3>2
    <3>4. Component(s, m) # "odd"
      BY <3>1, <3>3, TiledIsPlain
    <3> QED
      BY <2>1, <3>4 DEF ErrAt
  <2> QED
    BY <2>2, <2>3
<1> QED
  BY <1>1, <1>2, <1>3 DEF Passed

(* An error at a start that the scan has come to is the first one.         *)
LEMMA ErrorIsFirst ==
    ASSUME NEW s \in Seq(Bytes), s # <<>>, s[1] # SlashByte, NEW sl,
           NEW f, NEW b \in Nat, NEW j \in Nat, NEW a, NEW d,
           Progress(s, f, b, j, a, d), NEW k \in Starts(s), k <= j, ErrAt(s, k, b, f) # 0
    PROVE  ValidatePath(ComponentsOf(s), sl, b, f, UnsafeNames) = ErrAt(s, k, b, f)
<1>1. ASSUME NEW m \in Starts(s), m < k PROVE ErrAt(s, m, b, f) = 0
  <2>1. m \in Nat /\ k \in Nat /\ Len(s) \in Nat /\ End(s, m) \in (m - 1)..Len(s) /\ End(s, m) < k - 1
    BY <1>1, StartFacts, EndFacts, StartsApart
  <2>2. m < j /\ End(s, m) < j
    BY <1>1, <2>1
  <2> QED
    BY <2>2, PassedIsRight
<1> QED
  BY <1>1, FirstRefused

(* When the scan has come to the end, it has passed every component.       *)
LEMMA EndIsRight ==
    ASSUME NEW s \in Seq(Bytes), s # <<>>, s[1] # SlashByte, NEW sl,
           NEW f, NEW b \in Nat, NEW a, NEW d, Progress(s, f, b, Len(s) + 1, a, d)
    PROVE  ValidatePath(ComponentsOf(s), sl, b, f, UnsafeNames) =
               IF sl /\ "TRAILING_SLASH" \notin f THEN -EILSEQ ELSE d
<1>1. ASSUME NEW m \in Starts(s) PROVE ErrAt(s, m, b, f) = 0
  <2>1. m \in Nat /\ Len(s) \in Nat /\ m <= Len(s) /\ End(s, m) \in (m - 1)..Len(s)
    BY StartFacts, EndFacts
  <2>2. m < Len(s) + 1 /\ End(s, m) < Len(s) + 1 /\ Len(s) + 1 \in Nat
    BY <2>1
  <2> QED
    BY <2>2, PassedIsRight
<1>2. d = Cardinality(NamesTo(s, Len(s) + 1))
  BY DEF Progress
<1> QED
  BY <1>1, <1>2, NoneRefused

(* The starts that the scan comes past by going on                         *)
LEMMA StartsPassed ==
    ASSUME NEW s \in Seq(Bytes), NEW j \in 1..Len(s), NEW n \in Nat, n >= 1,
           \A m \in j..(j + n - 2) : s[m] # SlashByte
    PROVE  \A k \in Starts(s) : k < j + n <=> k < j \/ k = j
<1> SUFFICES ASSUME NEW k \in Starts(s) PROVE k < j + n <=> k < j \/ k = j
  OBVIOUS
<1>1. k \in Nat /\ k >= 1 /\ Len(s) \in Nat /\ j \in Nat /\ (k = 1 \/ s[k - 1] = SlashByte)
  BY StartFacts
<1>2. ASSUME j < k, k < j + n PROVE FALSE
  <2>1. k - 1 \in j..(j + n - 2) /\ k # 1
    BY <1>1, <1>2
  <2> QED
    BY <1>1, <2>1
<1> QED
  BY <1>1, <1>2

(* What the scan has tiled stays tiled; what it goes on by is added.       *)
LEMMA TilesGrow ==
    ASSUME NEW s \in Seq(Bytes), NEW f, NEW j \in 1..Len(s), NEW n \in Nat, AllTiled(s, f, j),
           "UNSAFE_CHARACTERS" \notin f => \A p \in j..(j + n - 1) : Tiled(s, p, j + n)
    PROVE  AllTiled(s, f, j + n)
<1> SUFFICES ASSUME "UNSAFE_CHARACTERS" \notin f, NEW p \in 1..(j + n - 1)
             PROVE  Tiled(s, p, j + n)
  BY DEF AllTiled
<1>1. CASE p \in j..(j + n - 1)
  BY <1>1
<1>2. CASE ~(p \in j..(j + n - 1))
  <2>1. p \in 1..(j - 1)
    BY <1>2
  <2>2. Tiled(s, p, j)
    BY <2>1 DEF AllTiled
  <2>3. CASE IsPrintableAscii(s[p])
    BY <2>3 DEF Tiled
  <2>4. CASE ~IsPrintableAscii(s[p])
    <3>1. PICK g \in 1..p : TiledBy(s, p, g, j)
      BY <2>2, <2>4 DEF Tiled
    <3>2. PICK e : e = g + CharLen(s, g)
      OBVIOUS
    <3>3. CharLen(s, g) > 0 /\ p < e /\ e <= j
      BY <3>1, <3>2 DEF TiledBy
    <3>4. g \in 1..Len(s)
      BY <2>1
    <3>5. e \in Int
      BY <3>2, <3>4, CharLenRange
    <3>6. e <= j + n
      BY <3>3, <3>5
    <3>7. TiledBy(s, p, g, j + n)
      BY <3>2, <3>3, <3>6 DEF TiledBy
    <3> QED
      BY <3>7 DEF Tiled
  <2> QED
    BY <2>3, <2>4
<1> QED
  BY <1>1, <1>2

(* Going on within a component changes neither count.                      *)
LEMMA GoOnWithin ==
    ASSUME NEW s \in Seq(Bytes), NEW f, NEW b \in Nat, NEW j \in 1..Len(s), NEW a, NEW d, NEW n \in Nat, n >= 1,
           Progress(s, f, b, j, a, d), j \notin Starts(s),
           \A m \in j..(j + n - 2) : s[m] # SlashByte, AllTiled(s, f, j + n)
    PROVE  Progress(s, f, b, j + n, a, d)
<1>1. \A k \in Starts(s) : k \in Nat /\ (k < j + n <=> k < j)
  BY StartsPassed, StartFacts
<1>2. NamesTo(s, j + n) = NamesTo(s, j) /\ DotDotsTo(s, j + n) = DotDotsTo(s, j)
  BY <1>1 DEF NamesTo, DotDotsTo
<1>3. ASSUME NEW k \in Starts(s), k < j + n
      PROVE  Passed(s, k, b, f) /\ (Component(s, k) = DotDot => k + 2 <= j + n)
  <2>1. k < j /\ k \in Nat
    BY <1>1, <1>3
  <2>2. Passed(s, k, b, f) /\ (Component(s, k) = DotDot => k + 2 <= j)
    BY <2>1 DEF Progress
  <2> QED
    BY <2>1, <2>2
<1> QED
  BY <1>2, <1>3 DEF Progress

(* A start that is passed counts as a name, as a "..", or not at all.      *)
LEMMA CountsGrow ==
    ASSUME NEW s \in Seq(Bytes), NEW j \in Starts(s), NEW n \in Nat, n >= 1,
           \A m \in j..(j + n - 2) : s[m] # SlashByte
    PROVE  /\ Component(s, j) = Dot =>
                NamesTo(s, j + n) = NamesTo(s, j) /\ DotDotsTo(s, j + n) = DotDotsTo(s, j)
           /\ Component(s, j) = DotDot =>
                NamesTo(s, j + n) = NamesTo(s, j)
                /\ Cardinality(DotDotsTo(s, j + n)) = Cardinality(DotDotsTo(s, j)) + 1
           /\ IsName(Component(s, j)) =>
                DotDotsTo(s, j + n) = DotDotsTo(s, j) /\ NamesTo(s, j + n) # {}
                /\ Cardinality(NamesTo(s, j + n)) = Cardinality(NamesTo(s, j)) + 1
<1>1. j \in 1..Len(s) /\ \A k \in Starts(s) : k \in Nat
  BY StartFacts
<1>2. \A k \in Starts(s) : k < j + n <=> k < j \/ k = j
  BY <1>1, StartsPassed
<1>3. \A k \in Starts(s) : k < j => k # j
  BY <1>1
<1>4. Dot # DotDot /\ (IsName(Component(s, j)) => Component(s, j) # Dot /\ Component(s, j) # DotDot)
      /\ ~IsName(Dot) /\ ~IsName(DotDot)
  BY DEF IsName, Dot, DotDot
<1>5. /\ Component(s, j) = Dot =>
           NamesTo(s, j + n) = NamesTo(s, j) /\ DotDotsTo(s, j + n) = DotDotsTo(s, j)
      /\ Component(s, j) = DotDot =>
           NamesTo(s, j + n) = NamesTo(s, j) /\ DotDotsTo(s, j + n) = DotDotsTo(s, j) \cup {j}
      /\ IsName(Component(s, j)) =>
           DotDotsTo(s, j + n) = DotDotsTo(s, j) /\ NamesTo(s, j + n) = NamesTo(s, j) \cup {j}
  BY <1>2, <1>4 DEF NamesTo, DotDotsTo
<1>6. j \notin NamesTo(s, j) /\ j \notin DotDotsTo(s, j)
  BY <1>1, <1>3 DEF NamesTo, DotDotsTo
<1>7. IsFiniteSet(NamesTo(s, j)) /\ IsFiniteSet(DotDotsTo(s, j))
  BY CountTypes
<1>8. /\ Cardinality(NamesTo(s, j) \cup {j}) = Cardinality(NamesTo(s, j)) + 1
      /\ Cardinality(DotDotsTo(s, j) \cup {j}) = Cardinality(DotDotsTo(s, j)) + 1
  BY <1>6, <1>7, FS_AddElement
<1> QED
  BY <1>5, <1>8

(* Past a "." or an empty component, ...                                   *)
LEMMA GoOnDot ==
    ASSUME NEW s \in Seq(Bytes), NEW f, NEW b \in Nat, NEW j \in Starts(s), NEW a, NEW d,
           Progress(s, f, b, j, a, d), Component(s, j) = Dot, "NON_CANONICAL_PATHS" \in f
    PROVE  Progress(s, f, b, j + 1, a, d)
<1>1. j \in Nat /\ j >= 1 /\ j \in 1..Len(s) /\ \A k \in Starts(s) : k \in Nat
  BY StartFacts
<1>2. \A m \in j..(j + 1 - 2) : s[m] # SlashByte
  BY <1>1
<1>3. NamesTo(s, j + 1) = NamesTo(s, j) /\ DotDotsTo(s, j + 1) = DotDotsTo(s, j)
  BY <1>2, CountsGrow
<1>4. s[j] = SlashByte \/ s[j] = DotByte
  BY ComponentFacts DEF DotAt
<1>5. Tiled(s, j, j + 1)
  BY <1>4 DEF Tiled, IsPrintableAscii, SlashByte, DotByte
<1>6. AllTiled(s, f, j + 1)
  <2>1. \A p \in j..(j + 1 - 1) : p = j
    BY <1>1
  <2>2. AllTiled(s, f, j)
    BY DEF Progress
  <2> QED
    BY <1>1, <1>5, <2>1, <2>2, TilesGrow
<1>7. ErrAt(s, j, b, f) = 0
  BY DEF ErrAt, Dot, DotDot
<1>8. ASSUME NEW k \in Starts(s), k < j + 1
      PROVE  Passed(s, k, b, f) /\ (Component(s, k) = DotDot => k + 2 <= j + 1)
  <2>1. CASE k = j
    BY <1>7, <2>1 DEF Passed, Dot, DotDot
  <2>2. CASE k # j
    <3>1. k < j /\ k \in Nat
      BY <1>1, <1>8, <2>2
    <3>2. Passed(s, k, b, f) /\ (Component(s, k) = DotDot => k + 2 <= j)
      BY <3>1 DEF Progress
    <3> QED
      BY <1>1, <3>1, <3>2
  <2> QED
    BY <2>1, <2>2
<1> QED
  BY <1>3, <1>6, <1>8 DEF Progress

(* ... past a ".." that the budget allows, ...                             *)
LEMMA GoOnDotDot ==
    ASSUME NEW s \in Seq(Bytes), NEW f, NEW b \in Nat, NEW j \in Starts(s), NEW a, NEW d,
           Progress(s, f, b, j, a, d), Component(s, j) = DotDot, ~(a < 1)
    PROVE  Progress(s, f, b, j + 2, a - 1, d)
<1>1. j \in Nat /\ j >= 1 /\ j \in 1..Len(s) /\ \A k \in Starts(s) : k \in Nat
  BY StartFacts
<1>2. j < Len(s) /\ s[j] = DotByte /\ s[j + 1] = DotByte
  BY ComponentFacts DEF DotDotAt
<1>3. \A m \in j..(j + 2 - 2) : s[m] # SlashByte
  <2>1. \A m \in j..(j + 2 - 2) : m = j
    BY <1>1
  <2> QED
    BY <1>2, <2>1 DEF SlashByte, DotByte
<1>4. \A m \in j..(j + 1 - 2) : s[m] # SlashByte
  BY <1>1
<1>5. PICK c : c = Cardinality(DotDotsTo(s, j))
  OBVIOUS
<1>6. c \in Nat
  BY <1>5, CountTypes
<1>7. /\ NamesTo(s, j + 2) = NamesTo(s, j) /\ Cardinality(DotDotsTo(s, j + 2)) = c + 1
      /\ Cardinality(DotDotsTo(s, j + 1)) = c + 1
  BY <1>3, <1>4, <1>5, CountsGrow
<1>8. NamesTo(s, j) = {} /\ a = b - c /\ d = Cardinality(NamesTo(s, j))
  BY <1>5 DEF Progress
<1>9. c + 1 <= b
  BY <1>6, <1>8
<1>10. ErrAt(s, j, b, f) = 0
  <2>1. ~(Cardinality(DotDotsTo(s, j + 1)) > b)
    BY <1>6, <1>7, <1>9
  <2> QED
    BY <1>8, <2>1 DEF ErrAt
<1>11. AllTiled(s, f, j + 2)
  <2>1. \A p \in j..(j + 2 - 1) : p = j \/ p = j + 1
    BY <1>1
  <2>2. AllTiled(s, f, j)
    BY DEF Progress
  <2>3. Tiled(s, j, j + 2) /\ Tiled(s, j + 1, j + 2)
    BY <1>2 DEF Tiled, IsPrintableAscii, DotByte
  <2> QED
    BY <1>1, <2>1, <2>2, <2>3, TilesGrow
<1>12. ASSUME NEW k \in Starts(s), k < j + 2
       PROVE  Passed(s, k, b, f) /\ (Component(s, k) = DotDot => k + 2 <= j + 2)
  <2>1. CASE k = j
    BY <1>1, <1>10, <2>1 DEF Passed
  <2>2. CASE k # j
    <3>1. j \in 1..Len(s)
      BY <1>1
    <3>4. \A x \in Starts(s) : x < j + 2 <=> x < j \/ x = j
      <4>1. 2 \in Nat /\ 2 >= 1
        OBVIOUS
      <4> QED
        BY <1>3, <3>1, <4>1, StartsPassed, Zenon
    <3>2. k < j /\ k \in Nat
      BY <1>1, <1>12, <2>2, <3>4
    <3>3. Passed(s, k, b, f) /\ (Component(s, k) = DotDot => k + 2 <= j)
      BY <3>2 DEF Progress
    <3> QED
      BY <1>1, <3>2, <3>3
  <2> QED
    BY <2>1, <2>2
<1>13. a - 1 = b - (c + 1)
  BY <1>6, <1>8
<1>14. a - 1 = b - Cardinality(DotDotsTo(s, j + 2)) /\ Cardinality(DotDotsTo(s, j + 2)) <= b
  BY <1>7, <1>9, <1>13
<1> QED
  BY <1>7, <1>8, <1>11, <1>12, <1>14, Zenon DEF Progress

(* ... and into a name, which ends the leading "..".                       *)
LEMMA GoOnName ==
    ASSUME NEW s \in Seq(Bytes), NEW f, NEW b \in Nat, NEW j \in Starts(s), NEW a, NEW d, NEW n \in Nat, n >= 1,
           Progress(s, f, b, j, a, d), IsName(Component(s, j)),
           \A m \in j..(j + n - 2) : s[m] # SlashByte, AllTiled(s, f, j + n)
    PROVE  Progress(s, f, b, j + n, 0, d + 1)
<1>1. j \in Nat /\ j >= 1 /\ j \in 1..Len(s) /\ \A k \in Starts(s) : k \in Nat
  BY StartFacts
<1>2. /\ DotDotsTo(s, j + n) = DotDotsTo(s, j) /\ NamesTo(s, j + n) # {}
      /\ Cardinality(NamesTo(s, j + n)) = Cardinality(NamesTo(s, j)) + 1
  BY CountsGrow
<1>3. d = Cardinality(NamesTo(s, j)) /\ Cardinality(DotDotsTo(s, j)) <= b
  BY DEF Progress
<1>4. ASSUME NEW k \in Starts(s), k < j + n
      PROVE  Passed(s, k, b, f) /\ (Component(s, k) = DotDot => k + 2 <= j + n)
  <2>1. CASE k = j
    BY <2>1 DEF Passed, IsName
  <2>2. CASE k # j
    <3>1. k < j /\ k \in Nat
      BY <1>1, <1>4, <2>2, StartsPassed
    <3>2. Passed(s, k, b, f) /\ (Component(s, k) = DotDot => k + 2 <= j)
      BY <3>1 DEF Progress
    <3> QED
      BY <1>1, <3>1, <3>2
  <2> QED
    BY <2>1, <2>2
<1> QED
  BY <1>2, <1>3, <1>4 DEF Progress

(* A ".." is refused after a name or when the budget is used up.           *)
LEMMA StopAtDotDot ==
    ASSUME NEW s \in Seq(Bytes), NEW f, NEW b \in Nat, NEW j \in Starts(s), NEW a, NEW d,
           Progress(s, f, b, j, a, d), Component(s, j) = DotDot, a < 1
    PROVE  ErrAt(s, j, b, f) = -ENOLINK
<1>1. j \in Nat
  BY StartFacts
<1>2. PICK c : c = Cardinality(DotDotsTo(s, j))
  OBVIOUS
<1>3. c \in Nat
  BY <1>2, CountTypes
<1>4. \A m \in j..(j + 1 - 2) : s[m] # SlashByte
  BY <1>1
<1>5. Cardinality(DotDotsTo(s, j + 1)) = c + 1
  BY <1>2, <1>4, CountsGrow
<1>6. CASE NamesTo(s, j) # {}
  BY <1>6 DEF ErrAt
<1>7. CASE NamesTo(s, j) = {}
  <2>1. a = b - c
    BY <1>2, <1>7 DEF Progress
  <2>2. Cardinality(DotDotsTo(s, j + 1)) > b
    BY <1>3, <1>5, <2>1
  <2> QED
    BY <2>2 DEF ErrAt
<1> QED
  BY <1>6, <1>7

(* Every byte that is not a slash is in the component that starts last.    *)
LEMMA InComponent ==
    ASSUME NEW s \in Seq(Bytes), NEW j \in 1..Len(s), s[j] # SlashByte
    PROVE  \E k \in Starts(s) : k <= j /\ j <= End(s, k)
<1> DEFINE T == {k \in Starts(s) : k <= j}
<1>1. Len(s) \in Nat /\ j \in Nat /\ j >= 1 /\ j <= Len(s)
  OBVIOUS
<1>2. 1 \in T /\ T \in SUBSET Nat
  BY <1>1, StartFacts
<1>3. \A k \in T : k <= j
  OBVIOUS
<1>4. PICK k \in T : \A x \in T : k >= x
  <2>1. T # {} /\ T \in SUBSET Nat /\ j \in Nat
    BY <1>1, <1>2
  <2> HIDE DEF T
  <2> QED
    BY <1>3, <2>1, GreatestNat
<1>5. PICK e : e = End(s, k)
  OBVIOUS
<1>6. k \in Starts(s) /\ k <= j /\ k \in Nat /\ k >= 1
  BY <1>2, StartFacts
<1>7. e \in (k - 1)..Len(s) /\ (e = Len(s) \/ s[e + 1] = SlashByte)
  BY <1>5, <1>6, EndFacts
<1>8. j <= e
  <2> SUFFICES ASSUME ~(j <= e) PROVE FALSE
    OBVIOUS
  <2>1. e + 1 <= j /\ e # Len(s) /\ e + 1 # j
    BY <1>1, <1>6, <1>7
  <2>2. e + 2 \in 1..Len(s) /\ e + 2 <= j /\ (e + 2) - 1 = e + 1
    BY <1>1, <1>6, <1>7, <2>1
  <2>3. s[(e + 2) - 1] = SlashByte
    BY <1>7, <2>1, <2>2
  <2>4. e + 2 \in Starts(s)
    BY <2>2, <2>3, StartFacts
  <2>5. e + 2 \in T
    BY <2>2, <2>4
  <2>6. k >= e + 2
    BY <1>4, <2>5
  <2> QED
    BY <1>6, <1>7, <2>6
<1> QED
  BY <1>5, <1>6, <1>8

(* A slash is printable ASCII. *)
LEMMA SlashPrintable == IsPrintableAscii(SlashByte)
  BY DEF IsPrintableAscii, SlashByte

(* A refused character makes the component that it is in the first one     *)
(* that the rules refuse.                                                  *)
LEMMA StopAtChar ==
    ASSUME NEW s \in Seq(Bytes), NEW f, NEW b \in Nat, NEW j \in 1..Len(s), NEW a, NEW d,
           Progress(s, f, b, j, a, d), "UNSAFE_CHARACTERS" \notin f,
           ~IsPrintableAscii(s[j]), ~(CharLen(s, j) > 0),
           j \in Starts(s) => IsName(Component(s, j))
    PROVE  \E k \in Starts(s) : k <= j /\ ErrAt(s, k, b, f) = -EILSEQ
<1>1. s[j] # SlashByte
  BY SlashPrintable, Zenon
<1>2. PICK k \in Starts(s) : k <= j /\ j <= End(s, k)
  BY <1>1, InComponent
<1>3. k \in Nat /\ End(s, k) \in (k - 1)..Len(s) /\ Len(s) \in Nat
  BY StartFacts, EndFacts
<1>4. \A p \in 1..(j - 1) : Tiled(s, p, j)
  BY DEF Progress, AllTiled
<1>5. IsName(Component(s, k))
  <2>1. CASE k = j
    BY <2>1
  <2>2. CASE k # j
    <3>1. k < j
      BY <1>2, <1>3, <2>2
    <3>2. Component(s, k) # Dot
      <4> SUFFICES ASSUME Component(s, k) = Dot PROVE FALSE
        OBVIOUS
      <4>1. End(s, k) = k - 1 \/ End(s, k) = k
        BY ComponentFacts
      <4> QED
        BY <1>2, <1>3, <3>1, <4>1
    <3>3. Component(s, k) # DotDot
      <4> SUFFICES ASSUME Component(s, k) = DotDot PROVE FALSE
        OBVIOUS
      <4>1. End(s, k) = k + 1
        BY ComponentFacts
      <4>2. k + 2 <= j
        BY <3>1 DEF Progress
      <4> QED
        BY <1>2, <1>3, <4>1, <4>2
    <3>4. Component(s, k) # Root
      BY ComponentFacts DEF Root, Dot, DotDot
    <3> QED
      BY <3>2, <3>3, <3>4 DEF IsName
  <2> QED
    BY <2>1, <2>2
<1>6. j \in k..End(s, k)
  BY <1>2, <1>3
<1>7. Component(s, k) = "odd"
  BY <1>4, <1>5, <1>6, RefusedIsOdd
<1>8. ErrAt(s, k, b, f) = -EILSEQ
  BY <1>7 DEF ErrAt, Dot, DotDot
<1> QED
  BY <1>2, <1>8

(* The tests of the scan at i are those of the components.                 *)
LEMMA StartTests ==
    ASSUME StringOK, i \in 1..Len(name)
    PROVE  /\ ComponentStart <=> i \in Starts(name)
           /\ i \in Starts(name) =>
                /\ AtDot <=> Component(name, i) = Dot
                /\ ~AtDot /\ AtDotDot <=> Component(name, i) = DotDot
                /\ ~AtDot /\ ~AtDotDot => IsName(Component(name, i))
<1>1. name \in Seq(Bytes) /\ Len(name) \in Nat /\ i \in Nat /\ i >= 1 /\ i <= Len(name)
      /\ \A k \in 1..Len(name) : name[k] # 0
  BY DEF StringOK
<1>2. At(name, i) = name[i]
  BY DEF At
<1>3. ComponentStart <=> i \in Starts(name)
  <2>1. CASE i = 1
    BY <1>1, <2>1, StartFacts DEF ComponentStart
  <2>2. CASE i # 1
    <3>1. At(name, i - 1) = name[i - 1]
      BY <1>1, <2>2 DEF At
    <3>2. i \in Starts(name) <=> name[i - 1] = SlashByte
      BY <1>1, <2>2, StartFacts
    <3> QED
      BY <2>2, <3>1, <3>2 DEF ComponentStart
  <2> QED
    BY <2>1, <2>2
<1>4. ASSUME NEW k \in Nat, k >= 1
      PROVE  EndsComponent(k) <=> k > Len(name) \/ name[k] = SlashByte
  <2>1. CASE k <= Len(name)
    <3>1. At(name, k) = name[k] /\ name[k] # 0 /\ ~(k > Len(name))
      BY <1>1, <1>4, <2>1 DEF At
    <3> QED
      BY <3>1 DEF EndsComponent, NUL
  <2>2. CASE ~(k <= Len(name))
    <3>1. At(name, k) = NUL /\ k > Len(name)
      BY <1>1, <1>4, <2>2 DEF At
    <3> QED
      BY <3>1 DEF EndsComponent
  <2> QED
    BY <2>1, <2>2
<1>5. AtDot <=> DotAt(name, i)
  <2>1. EndsComponent(i + 1) <=> i + 1 > Len(name) \/ name[i + 1] = SlashByte
    BY <1>1, <1>4
  <2>2. i + 1 > Len(name) <=> i = Len(name)
    BY <1>1
  <2> QED
    BY <1>2, <2>1, <2>2 DEF AtDot, DotAt
<1>6. AtDotDot <=> DotDotAt(name, i)
  <2>1. At(name, i + 1) = DotByte <=> i < Len(name) /\ name[i + 1] = DotByte
    <3>1. CASE i < Len(name)
      BY <1>1, <3>1 DEF At
    <3>2. CASE ~(i < Len(name))
      BY <1>1, <3>2 DEF At, NUL, DotByte
    <3> QED
      BY <3>1, <3>2
  <2>2. EndsComponent(i + 2) <=> i + 2 > Len(name) \/ name[i + 2] = SlashByte
    BY <1>1, <1>4
  <2>3. i < Len(name) => (i + 2 > Len(name) <=> i + 1 = Len(name))
    BY <1>1
  <2> QED
    BY <1>2, <2>1, <2>2, <2>3 DEF AtDotDot, DotDotAt
<1>7. ASSUME i \in Starts(name)
      PROVE  /\ AtDot <=> Component(name, i) = Dot
             /\ ~AtDot /\ AtDotDot <=> Component(name, i) = DotDot
             /\ ~AtDot /\ ~AtDotDot => IsName(Component(name, i))
  <2>1. /\ Component(name, i) \in {Dot, DotDot, "plain", "odd"}
        /\ Component(name, i) = Dot <=> DotAt(name, i)
        /\ Component(name, i) = DotDot <=> ~DotAt(name, i) /\ DotDotAt(name, i)
    BY <1>1, <1>7, ComponentFacts
  <2>2. ~AtDot /\ ~AtDotDot => IsName(Component(name, i))
    BY <1>5, <1>6, <2>1 DEF IsName, Root
  <2> QED
    BY <1>5, <1>6, <2>1, <2>2
<1> QED
  BY <1>3, <1>7

(* The scan of a path: what has been passed, and the verdict once given    *)
PathInv == depth # Idle =>
    /\ budget \in Nat
    /\ pc = "scan" => /\ Progress(name, flags, budget, i, allowed, depth)
                      /\ (name # <<>> /\ name[1] = SlashByte => i = 1)
    /\ ScanMatchesRules

(* A verdict that is the one of the rules *)
LEMMA ReturnStep ==
    ASSUME PathInv, depth # Idle, NEW v, Return(v),
           v = ValidatePath(ComponentsOf(name), SlashAtEnd(name), budget, flags, UnsafeNames)
    PROVE  PathInv'
<1>1. budget \in Nat
  BY DEF PathInv
<1>2. /\ pc' = "done" /\ res' = v /\ name' = name /\ flags' = flags /\ budget' = budget
      /\ i' = i /\ allowed' = allowed /\ depth' = depth
  BY DEF Return
<1>3. ScanMatchesRules'
  BY <1>2 DEF ScanMatchesRules
<1> QED
  BY <1>1, <1>2, <1>3 DEF PathInv

(* Going on to a place up to which the scan has made progress              *)
LEMMA AdvanceStep ==
    ASSUME PathInv, depth # Idle, pc = "scan", NEW n, Advance(n), name[1] # SlashByte,
           Progress(name, flags, budget, i + n, allowed', depth')
    PROVE  PathInv'
<1>1. budget \in Nat
  BY DEF PathInv
<1>2. i' = i + n /\ name' = name /\ flags' = flags /\ budget' = budget /\ pc' = pc
  BY DEF Advance
<1>3. Progress(name', flags', budget', i', allowed', depth')
  BY <1>2
<1>4. ScanMatchesRules'
  BY <1>2 DEF ScanMatchesRules
<1> QED
  BY <1>1, <1>2, <1>3, <1>4 DEF PathInv

(* The loop keeps the invariant: past the start of a component, ...        *)
LEMMA StartStep ==
    ASSUME UnicodeOK, PathInv, depth # Idle, ScanDot \/ ScanDotDot
    PROVE  PathInv'
<1>1. pc = "scan" /\ name # <<>> /\ name[1] # SlashByte /\ i <= Len(name) /\ ComponentStart
  BY DEF ScanDot, ScanDotDot, Scanning
<1>2. name \in Seq(Bytes) /\ i \in Nat /\ i \in 1..Len(name) /\ StringOK
  BY <1>1 DEF UnicodeOK, StringOK
<1>3. budget \in Nat /\ Progress(name, flags, budget, i, allowed, depth)
  BY <1>1 DEF PathInv
<1>4. i \in Starts(name) /\ i <= i
  BY <1>1, <1>2, StartTests
<1>5. ASSUME NEW v, Return(v), v = ErrAt(name, i, budget, flags), v # 0 PROVE PathInv'
  <2>1. v = ValidatePath(ComponentsOf(name), SlashAtEnd(name), budget, flags, UnsafeNames)
    BY <1>1, <1>2, <1>3, <1>4, <1>5, ErrorIsFirst
  <2> QED
    BY <1>5, <2>1, ReturnStep
<1>6. CASE ScanDot
  <2>1. Component(name, i) = Dot
    BY <1>2, <1>4, <1>6, StartTests DEF ScanDot
  <2>2. CASE allow_non_canonical
    <3>1. Advance(1) /\ allowed' = allowed /\ depth' = depth
      BY <1>6, <2>2 DEF ScanDot
    <3>2. Progress(name, flags, budget, i + 1, allowed, depth)
      BY <1>2, <1>3, <1>4, <2>1, <2>2, GoOnDot DEF allow_non_canonical
    <3> QED
      BY <1>1, <3>1, <3>2, AdvanceStep
  <2>3. CASE ~allow_non_canonical
    <3>1. Return(-EILSEQ)
      BY <1>6, <2>3 DEF ScanDot
    <3>2. -EILSEQ = ErrAt(name, i, budget, flags) /\ -EILSEQ # 0
      BY <2>1, <2>3 DEF ErrAt, allow_non_canonical, Dot, DotDot, EILSEQ
    <3> QED
      BY <1>5, <3>1, <3>2
  <2> QED
    BY <2>2, <2>3
<1>7. CASE ScanDotDot
  <2>1. Component(name, i) = DotDot
    BY <1>2, <1>4, <1>7, StartTests DEF ScanDotDot
  <2>2. CASE ~(allowed < 1)
    <3>1. Advance(2) /\ allowed' = allowed - 1 /\ depth' = depth
      BY <1>7, <2>2 DEF ScanDotDot
    <3>2. Progress(name, flags, budget, i + 2, allowed - 1, depth)
      BY <1>2, <1>3, <1>4, <2>1, <2>2, GoOnDotDot
    <3> QED
      BY <1>1, <3>1, <3>2, AdvanceStep
  <2>3. CASE allowed < 1
    <3>1. Return(-ENOLINK)
      BY <1>7, <2>3 DEF ScanDotDot
    <3>2. -ENOLINK = ErrAt(name, i, budget, flags)
      BY <1>2, <1>3, <1>4, <2>1, <2>3, StopAtDotDot
    <3>3. -ENOLINK # 0
      BY DEF ENOLINK
    <3> QED
      BY <1>5, <3>1, <3>2, <3>3
  <2> QED
    BY <2>2, <2>3
<1> QED
  BY <1>6, <1>7

(* ... past a character or stopping at it, ...                             *)
LEMMA CharStep ==
    ASSUME UnicodeOK, PathInv, depth # Idle, ScanChar
    PROVE  PathInv'
<1>1. /\ pc = "scan" /\ name # <<>> /\ name[1] # SlashByte /\ i <= Len(name)
      /\ ComponentStart => ~AtDot /\ ~AtDotDot
  BY DEF ScanChar, Scanning
<1>2. name \in Seq(Bytes) /\ i \in Nat /\ i \in 1..Len(name) /\ StringOK /\ Len(name) \in Nat
  BY <1>1 DEF UnicodeOK, StringOK
<1>3. budget \in Nat /\ Progress(name, flags, budget, i, allowed, depth)
  BY <1>1 DEF PathInv
<1>4. i \in Starts(name) => IsName(Component(name, i))
  BY <1>1, <1>2, StartTests
<1>5. PICK n : n = CharWidth
  OBVIOUS
<1>6. CharLen(name, i) \in Int
  BY <1>2, CharLenRange
<1>7. n = IF IsPrintableAscii(name[i]) \/ "UNSAFE_CHARACTERS" \in flags
          THEN 1 ELSE IF CharLen(name, i) > 0 THEN CharLen(name, i) ELSE 0
  BY <1>5 DEF CharWidth, SafeCharLen
<1>8. CASE n = 0
  <2>1. /\ "UNSAFE_CHARACTERS" \notin flags /\ ~IsPrintableAscii(name[i])
        /\ ~(CharLen(name, i) > 0)
    BY <1>6, <1>7, <1>8
  <2>2. PICK k \in Starts(name) : k <= i /\ ErrAt(name, k, budget, flags) = -EILSEQ
    BY <1>2, <1>3, <1>4, <2>1, StopAtChar
  <2>3. -EILSEQ # 0
    BY DEF EILSEQ
  <2>4. ErrAt(name, k, budget, flags) # 0
    BY <2>2, <2>3
  <2>5. ValidatePath(ComponentsOf(name), SlashAtEnd(name), budget, flags, UnsafeNames) =
            ErrAt(name, k, budget, flags)
    BY <1>1, <1>2, <1>3, <2>2, <2>4, ErrorIsFirst
  <2>6. Return(-EILSEQ)
    BY <1>5, <1>8 DEF ScanChar
  <2> QED
    BY <2>2, <2>5, <2>6, ReturnStep
<1>9. CASE n # 0
  <2>1. /\ Advance(n)
        /\ allowed' = IF ComponentStart THEN 0 ELSE allowed
        /\ depth' = IF ComponentStart THEN depth + 1 ELSE depth
    BY <1>5, <1>9 DEF ScanChar
  <2>3. /\ n \in Nat /\ n >= 1
        /\ \A m \in i..(i + n - 2) : name[m] # SlashByte
        /\ AllTiled(name, flags, i + n)
    <3>1. CASE IsPrintableAscii(name[i]) \/ "UNSAFE_CHARACTERS" \in flags
      <4>1. n = 1
        BY <1>7, <3>1
      <4>2. \A m \in i..(i + n - 2) : name[m] # SlashByte
        BY <1>2, <4>1
      <4>3. \A p \in i..(i + n - 1) : p = i
        BY <1>2, <4>1
      <4>4. "UNSAFE_CHARACTERS" \notin flags => Tiled(name, i, i + n)
        BY <3>1 DEF Tiled
      <4>5. AllTiled(name, flags, i) /\ n \in Nat
        BY <1>3, <4>1 DEF Progress
      <4>6. AllTiled(name, flags, i + n)
        BY <1>2, <4>3, <4>4, <4>5, TilesGrow
      <4> QED
        BY <4>1, <4>2, <4>6
    <3>2. CASE ~(IsPrintableAscii(name[i]) \/ "UNSAFE_CHARACTERS" \in flags)
      <4>1. CharLen(name, i) > 0 /\ n = CharLen(name, i)
        BY <1>7, <1>9, <3>2
      <4>2. n \in 2..4 /\ i + n <= Len(name) + 1
        BY <1>2, <4>1, CharBytes
      <4>3. ASSUME NEW p \in i..(i + n - 1) PROVE Tiled(name, p, i + n) /\ name[p] # SlashByte
        <5>1. i \in 1..p /\ p < i + n /\ i + n <= i + n
          BY <1>2, <4>2
        <5>2. TiledBy(name, p, i, i + n)
          BY <4>1, <5>1 DEF TiledBy
        <5>3. name[p] # SlashByte
          <6>1. name[i] \in 194..244 /\ \A m \in (i + 1)..(i + n - 1) : name[m] \in 128..191
            BY <1>2, <4>1, CharBytes
          <6>2. p = i \/ p \in (i + 1)..(i + n - 1)
            BY <1>2, <4>2
          <6>3. name[p] \in 194..244 \/ name[p] \in 128..191
            BY <6>1, <6>2, Zenon
          <6> QED
            BY <6>3, ByteClasses, Zenon
        <5> QED
          BY <5>1, <5>2, <5>3 DEF Tiled
      <4>4. AllTiled(name, flags, i) /\ n \in Nat
        BY <1>3, <4>2 DEF Progress
      <4>5. AllTiled(name, flags, i + n)
        BY <1>2, <4>3, <4>4, TilesGrow
      <4>6. \A m \in i..(i + n - 2) : name[m] # SlashByte
        <5>1. \A m \in i..(i + n - 2) : m \in i..(i + n - 1)
          BY <1>2, <4>2
        <5> QED
          BY <4>3, <5>1
      <4> QED
        BY <4>2, <4>5, <4>6
    <3> QED
      BY <3>1, <3>2
  <2>4. CASE i \in Starts(name)
    <3>1. Progress(name, flags, budget, i + n, 0, depth + 1)
      BY <1>2, <1>3, <1>4, <2>3, <2>4, GoOnName
    <3>2. allowed' = 0 /\ depth' = depth + 1
      BY <1>2, <2>1, <2>4, StartTests
    <3> QED
      BY <1>1, <2>1, <3>1, <3>2, AdvanceStep
  <2>5. CASE i \notin Starts(name)
    <3>1. Progress(name, flags, budget, i + n, allowed, depth)
      BY <1>2, <1>3, <2>3, <2>5, GoOnWithin
    <3>2. allowed' = allowed /\ depth' = depth
      BY <1>2, <2>1, <2>5, StartTests
    <3> QED
      BY <1>1, <2>1, <3>1, <3>2, AdvanceStep
  <2> QED
    BY <2>4, <2>5
<1> QED
  BY <1>8, <1>9

(* ... and at both ends.                                                   *)
LEMMA EndStep ==
    ASSUME UnicodeOK, PathInv, depth # Idle, EmptyOrAbsolute \/ ScanEnd
    PROVE  PathInv'
<1>1. name \in Seq(Bytes) /\ Len(name) \in Nat /\ \A k \in 1..Len(name) : name[k] # 0
  BY DEF UnicodeOK, StringOK
<1>2. pc = "scan"
  BY DEF EmptyOrAbsolute, ScanEnd
<1>3. CASE EmptyOrAbsolute
  <2>1. At(name, 1) \in {NUL, SlashByte}
        /\ Return(IF name = <<>> /\ allow_non_canonical THEN 0 ELSE -ENOLINK)
    BY <1>3 DEF EmptyOrAbsolute
  <2>2. CASE name = <<>>
    <3>1. ComponentsOf(name) = <<>>
      BY <2>2 DEF ComponentsOf
    <3>2. ValidatePath(ComponentsOf(name), SlashAtEnd(name), budget, flags, UnsafeNames) =
            IF "NON_CANONICAL_PATHS" \in flags THEN 0 ELSE -ENOLINK
      BY <3>1 DEF ValidatePath
    <3> QED
      BY <2>1, <2>2, <3>2, ReturnStep DEF allow_non_canonical
  <2>3. CASE name # <<>>
    <3>1. 1 \in 1..Len(name)
      BY <1>1, <2>3
    <3>2. name[1] = SlashByte
      BY <1>1, <2>1, <3>1 DEF At, NUL
    <3>3. ComponentsOf(name) = <<Root>>
      BY <2>3, <3>2 DEF ComponentsOf
    <3>4. ComponentsOf(name) # <<>> /\ ComponentsOf(name)[1] = Root
      BY <3>3
    <3>5. ValidatePath(ComponentsOf(name), SlashAtEnd(name), budget, flags, UnsafeNames) = -ENOLINK
      BY <3>4 DEF ValidatePath
    <3> QED
      BY <2>1, <2>3, <3>5, ReturnStep
  <2> QED
    BY <2>2, <2>3
<1>4. CASE ScanEnd
  <2>1. /\ name # <<>> /\ i = Len(name) + 1
        /\ Return(IF "TRAILING_SLASH" \notin flags /\ At(name, i - 1) = SlashByte
                  THEN -EILSEQ ELSE depth)
    BY <1>4 DEF ScanEnd
  <2>2. Len(name) # 0
    BY <1>1, <2>1
  <2>3. /\ budget \in Nat /\ Progress(name, flags, budget, i, allowed, depth)
        /\ (name # <<>> /\ name[1] = SlashByte => i = 1)
    BY <1>2 DEF PathInv
  <2>4. name[1] # SlashByte
    BY <1>1, <2>1, <2>2, <2>3
  <2>5. At(name, i - 1) = name[Len(name)]
    BY <1>1, <2>1, <2>2 DEF At
  <2>6. At(name, i - 1) = SlashByte <=> SlashAtEnd(name)
    BY <2>1, <2>5 DEF SlashAtEnd
  <2>7. Progress(name, flags, budget, Len(name) + 1, allowed, depth)
    BY <2>1, <2>3
  <2>8. ValidatePath(ComponentsOf(name), SlashAtEnd(name), budget, flags, UnsafeNames) =
            IF SlashAtEnd(name) /\ "TRAILING_SLASH" \notin flags THEN -EILSEQ ELSE depth
    BY <1>1, <2>1, <2>3, <2>4, <2>7, EndIsRight
  <2>9. PICK v : v = IF "TRAILING_SLASH" \notin flags /\ At(name, i - 1) = SlashByte
                     THEN -EILSEQ ELSE depth
    OBVIOUS
  <2>10. Return(v)
    BY <2>1, <2>9
  <2>11. v = ValidatePath(ComponentsOf(name), SlashAtEnd(name), budget, flags, UnsafeNames)
    BY <2>6, <2>8, <2>9
  <2> QED
    BY <2>10, <2>11, ReturnStep
<1> QED
  BY <1>3, <1>4

(* validate_path() decides by components, for every path, budget and set   *)
(* of flags: it returns the number of names, or the error of the first     *)
(* component that the rules refuse (unicode.c:166-239).                    *)
THEOREM PathMatchesRules_Safe == UnicodeSpec => []PathMatchesRules
<1>1. UnicodeInit => PathInv
  <2> SUFFICES ASSUME UnicodeInit, depth # Idle PROVE PathInv
    BY DEF PathInv
  <2>1. Init
    BY DEF UnicodeInit
  <2>2. /\ i = 1 /\ allowed = budget /\ depth = 0 /\ pc = "scan" /\ budget \in Nat
        /\ name \in Inputs
    BY <2>1, PathValidateAssumption DEF Init
  <2>3. name \in Seq(Bytes)
    BY <2>2, InputBytes
  <2>4. Progress(name, flags, budget, 1, budget, 0)
    BY <2>2, <2>3, ProgressAtFirst
  <2> QED
    BY <2>2, <2>4 DEF PathInv, ScanMatchesRules
<1>2. UnicodeOK /\ PathInv /\ [UnicodeNext]_<<vars, displayVars>> => PathInv'
  <2> SUFFICES ASSUME UnicodeOK, PathInv, [UnicodeNext]_<<vars, displayVars>>, depth' # Idle
               PROVE  PathInv'
    BY DEF PathInv
  <2>1. CASE UNCHANGED <<vars, displayVars>>
    BY <2>1 DEF vars, PathInv, ScanMatchesRules
  <2>2. CASE Next
    <3>1. pc = "scan" => depth # Idle
      BY DEF UnicodeOK, ScanOK
    <3>2. pc = "scan"
      BY <2>2 DEF Next, EmptyOrAbsolute, ScanDot, ScanDotDot, ScanChar, ScanEnd, Scanning
    <3> QED
      BY <2>2, <3>1, <3>2, StartStep, CharStep, EndStep DEF Next
  <2>3. CASE Display!Next /\ UNCHANGED pathVars
    <3>1. pc = "loop"
      BY <2>3 DEF Display!Next, Display!KeepAscii, Display!Replace, Display!KeepUtf8, Display!Terminate,
                  Display!InLoop
    <3>2. depth = Idle
      BY <3>1 DEF UnicodeOK, ScanOK
    <3> QED
      BY <2>3, <3>2 DEF pathVars
  <2> QED
    BY <2>1, <2>2, <2>3 DEF UnicodeNext
<1>3. PathInv => PathMatchesRules
  BY DEF PathInv, PathMatchesRules
<1> QED
  BY <1>1, <1>2, <1>3, UnicodeInvariant, PTL DEF UnicodeSpec

=============================================================================
