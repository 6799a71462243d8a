------------------------------ MODULE Sanitize ------------------------------
(***************************************************************************)
(* qubes_pure_sanitize_string_safe_for_display(), one step per iteration   *)
(* of its loop.                                                            *)
(***************************************************************************)
EXTENDS Utf8, SequencesExt

CONSTANT MaxLine     \* the largest buffer an instance considers

VARIABLES
    str,      \* untrusted_str
    max,      \* max_line_length
    i,        \* next byte to read
    result,   \* bytes written; j is its length
    pc        \* "loop" or "done"

vars == <<str, max, i, result, pc>>

Underscore == 95

Init ==
    /\ str \in Inputs
    /\ max \in 0..MaxLine
    /\ i = 1
    /\ result = <<>>
    /\ pc = IF max = 0 THEN "done" ELSE "loop"

max_text_line_length == max - 1

InLoop ==
    /\ pc = "loop"
    /\ At(str, i) # NUL
    /\ Len(result) < max_text_line_length

KeepAscii ==
    /\ InLoop
    /\ IsPrintableAscii(str[i])
    /\ result' = Append(result, str[i])
    /\ i' = i + 1
    /\ UNCHANGED <<str, max, pc>>

Replace ==
    /\ InLoop
    /\ ~IsPrintableAscii(str[i])
    /\ CharLen(str, i) < 0
    /\ result' = Append(result, Underscore)
    /\ i' = i - CharLen(str, i)
    /\ UNCHANGED <<str, max, pc>>

(* Mutant: the space already used is not subtracted.                       *)
NoSpaceFor_Total(len) == len >= max_text_line_length

(* Not enough space for the whole character: truncate here.                *)
NoSpaceFor(len) == len >= max_text_line_length - Len(result)

(* Mutant: the part of the character that fits is copied.                  *)
KeepUtf8_Partial ==
    /\ InLoop
    /\ ~IsPrintableAscii(str[i])
    /\ CharLen(str, i) > 0
    /\ LET space == max_text_line_length - Len(result)
           n == IF space < CharLen(str, i) THEN space ELSE CharLen(str, i)
       IN  /\ result' = result \o SubSeq(str, i, i + n - 1)
           /\ i' = i + n
    /\ UNCHANGED <<str, max, pc>>

KeepUtf8 ==
    /\ InLoop
    /\ ~IsPrintableAscii(str[i])
    /\ CharLen(str, i) > 0
    /\ IF NoSpaceFor(CharLen(str, i))
       THEN /\ result' = Append(result, NUL)
            /\ pc' = "done"
            /\ UNCHANGED i
       ELSE /\ result' = result \o SubSeq(str, i, i + CharLen(str, i) - 1)
            /\ i' = i + CharLen(str, i)
            /\ UNCHANGED pc
    /\ UNCHANGED <<str, max>>

(* The loop ends and the result is terminated.                             *)
Terminate ==
    /\ pc = "loop"
    /\ ~InLoop
    /\ result' = Append(result, NUL)
    /\ pc' = "done"
    /\ UNCHANGED <<str, max, i>>

Next == KeepAscii \/ Replace \/ KeepUtf8 \/ Terminate

Spec == Init /\ [][Next]_vars

-----------------------------------------------------------------------------

(* What the caller sees: the bytes before the NUL.                         *)
Shown == IF result # <<>> /\ Last(result) = NUL THEN Front(result) ELSE result

(***************************************************************************)
(* The sanitized string is safe: qubes_pure_string_safe_for_display() of   *)
(* the same file accepts whatever the sanitizer returns, for every input   *)
(* and every buffer, wherever it was cut (unicode.c:331-368).              *)
(***************************************************************************)
ResultIsSafe == pc = "done" /\ Shown # <<>> => string_safe_for_display(Shown)

(***************************************************************************)
(* The buffer of max_line_length bytes is never overrun, not even by the   *)
(* terminating NUL, and the input is never read past its own               *)
(* (unicode.c:338-367).                                                    *)
(***************************************************************************)
InBuffers ==
    /\ Len(result) <= max
    /\ i <= Len(str) + 1
    /\ pc = "loop" => Len(result) < max

(***************************************************************************)
(* Nothing is lost before the cut: what is shown is, character by          *)
(* character of the RFC 3629 reference, the input with each refused byte   *)
(* or character replaced by '_'; so every safe character read so far is in *)
(* the result unchanged, and the underscores account for the rest          *)
(* (unicode.c:342-363).                                                    *)
(***************************************************************************)
Faithful ==
    LET Width(k) == IF IsPrintableAscii(str[k]) THEN 1
                    ELSE IF CharLen(str, k) < 0 THEN -CharLen(str, k)
                    ELSE CharLen(str, k)
        Kept(k)  == IF IsPrintableAscii(str[k]) THEN <<str[k]>>
                    ELSE IF IsSafeCharAt(str, k)
                    THEN SubSeq(str, k, k + Width(k) - 1)
                    ELSE <<Underscore>>
        Expected[k \in 1..(Len(str) + 1)] ==
            IF k >= i \/ k = Len(str) + 1 THEN <<>>
            ELSE Kept(k) \o Expected[k + Width(k)]
    IN  Shown = Expected[1]
=============================================================================
