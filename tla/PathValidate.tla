---------------------------- MODULE PathValidate ----------------------------
(***************************************************************************)
(* validate_path() of qrexec-lib/unicode.c on the bytes of the path, one   *)
(* step per iteration of its loop, and its agreement with PathRules.tla,   *)
(* which says what it accepts in terms of path components and which the    *)
(* models of the file copy use.                                            *)
(***************************************************************************)
EXTENDS PathRules, Utf8

CONSTANT MaxAllowed     \* largest allowed_leading_dotdot considered

ASSUME PathValidateAssumption ==
    /\ {"plain", "odd"} \subseteq Names
    /\ UnsafeNames = {"odd"}
    /\ MaxAllowed \in Nat

VARIABLES
    name,     \* untrusted_name
    flags,    \* those of ValidateFlags that validate_path() looks at
    budget,   \* allowed_leading_dotdot as passed
    i,        \* position in name, counting from 1
    allowed,  \* allowed_leading_dotdot as it is counted down
    depth,    \* non_dotdot_components
    pc,       \* "scan" or "done"
    res       \* the return value, once done

vars == <<name, flags, budget, i, allowed, depth, pc, res>>

DotByte == 46
SlashByte == 47

Init ==
    /\ name \in Inputs
    /\ flags \in SUBSET {"UNSAFE_CHARACTERS", "NON_CANONICAL_PATHS",
                         "TRAILING_SLASH"}
    /\ budget \in 0..MaxAllowed
    /\ i = 1
    /\ allowed = budget
    /\ depth = 0
    /\ pc = "scan"
    /\ res = 0

allow_non_canonical == "NON_CANONICAL_PATHS" \in flags

Return(value) ==
    /\ pc' = "done"
    /\ res' = value
    /\ UNCHANGED <<name, flags, budget, i, allowed, depth>>

Advance(n) ==
    /\ i' = i + n
    /\ UNCHANGED <<name, flags, budget, pc, res>>

ComponentStart == i = 1 \/ At(name, i - 1) = SlashByte

EndsComponent(k) == At(name, k) \in {NUL, SlashByte}

(* The component that starts at i is "." or empty; or it is "..".          *)
AtDot == \/ At(name, i) = SlashByte
         \/ At(name, i) = DotByte /\ EndsComponent(i + 1)
AtDotDot == /\ At(name, i) = DotByte
            /\ At(name, i + 1) = DotByte
            /\ EndsComponent(i + 2)

Scanning ==
    /\ pc = "scan"
    /\ name # <<>>
    /\ name[1] # SlashByte
    /\ i <= Len(name)

EmptyOrAbsolute ==
    /\ pc = "scan"
    /\ At(name, 1) \in {NUL, SlashByte}
    /\ Return(IF name = <<>> /\ allow_non_canonical THEN 0 ELSE -ENOLINK)

ScanDot ==
    /\ Scanning /\ ComponentStart /\ AtDot
    /\ IF allow_non_canonical
       THEN Advance(1) /\ UNCHANGED <<allowed, depth>>
       ELSE Return(-EILSEQ)

(* The loop advances past the second dot.                                  *)
ScanDotDot ==
    /\ Scanning /\ ComponentStart /\ ~AtDot /\ AtDotDot
    /\ IF allowed < 1
       THEN Return(-ENOLINK)
       ELSE /\ allowed' = allowed - 1
            /\ Advance(2)
            /\ UNCHANGED depth

(* The character checks, after what the start of a component does.         *)
CharWidth ==
    IF IsPrintableAscii(name[i]) \/ "UNSAFE_CHARACTERS" \in flags
    THEN 1 ELSE SafeCharLen(name, i)

(* Mutant: ".." is still allowed after a name.                             *)
ScanChar_KeepsBudget ==
    /\ Scanning
    /\ ComponentStart => ~AtDot /\ ~AtDotDot
    /\ IF CharWidth = 0
       THEN Return(-EILSEQ)
       ELSE /\ depth' = IF ComponentStart THEN depth + 1 ELSE depth
            /\ Advance(CharWidth)
            /\ UNCHANGED allowed

ScanChar ==
    /\ Scanning
    /\ ComponentStart => ~AtDot /\ ~AtDotDot
    /\ IF CharWidth = 0
       THEN Return(-EILSEQ)
       ELSE /\ allowed' = IF ComponentStart THEN 0 ELSE allowed
            /\ depth' = IF ComponentStart THEN depth + 1 ELSE depth
            /\ Advance(CharWidth)

(* The loop has met the NUL.                                               *)
ScanEnd ==
    /\ pc = "scan"
    /\ name # <<>>
    /\ i = Len(name) + 1
    /\ Return(IF "TRAILING_SLASH" \notin flags /\ At(name, i - 1) = SlashByte
              THEN -EILSEQ ELSE depth)

Next == EmptyOrAbsolute \/ ScanDot \/ ScanDotDot \/ ScanChar \/ ScanEnd

Spec == Init /\ [][Next]_vars

-----------------------------------------------------------------------------

(***************************************************************************)
(* The path as PathRules.tla sees it: its components from slash to slash,  *)
(* each classified.  A component is "odd" when it has a byte that is       *)
(* neither printable ASCII nor part of a safe character of the RFC 3629    *)
(* reference.                                                              *)
(***************************************************************************)
Slashes(s) == {k \in 1..Len(s) : s[k] = SlashByte}

Covered(c, k) ==
    \/ IsPrintableAscii(c[k])
    \/ \E first \in 1..k : \E ch \in SafeChars :
          /\ first + Len(ch) - 1 \in k..Len(c)
          /\ SubSeq(c, first, first + Len(ch) - 1) = ch

Class(c) ==
    IF c \in {<<>>, <<DotByte>>} THEN Dot
    ELSE IF c = <<DotByte, DotByte>> THEN DotDot
    ELSE IF \A k \in 1..Len(c) : Covered(c, k) THEN "plain" ELSE "odd"

SlashAtEnd(s) == s # <<>> /\ s[Len(s)] = SlashByte

(* Where the components of s start; after a trailing slash none does.      *)
Starts(s) == ({1} \cup {k + 1 : k \in Slashes(s)}) \cap (1..Len(s))

Nth(s, n) == CHOOSE k \in Starts(s) : Cardinality({m \in Starts(s) : m <= k}) = n

(* Where the component that starts at k ends                               *)
End(s, k) == CHOOSE e \in (k - 1)..Len(s) :
                 /\ e = Len(s) \/ s[e + 1] = SlashByte
                 /\ \A m \in k..e : s[m] # SlashByte

Component(s, k) == Class(SubSeq(s, k, End(s, k)))

ComponentsOf(s) ==
    IF s = <<>> THEN <<>>
    ELSE IF s[1] = SlashByte THEN <<Root>>
    ELSE [n \in 1..Cardinality(Starts(s)) |-> Component(s, Nth(s, n))]

(***************************************************************************)
(* The scanner decides by components: for every path, flag and budget,     *)
(* validate_path() returns what PathRules!ValidatePath says of the path's  *)
(* components, the error of the first refused one included                 *)
(* (unicode.c:166-239).                                                    *)
(***************************************************************************)
ScanMatchesRules ==
    pc = "done" =>
        res = ValidatePath(ComponentsOf(name), SlashAtEnd(name), budget,
                           flags, UnsafeNames)

(***************************************************************************)
(* The scan never steps over the terminating NUL, whatever ".." or         *)
(* multi-byte character it skips (unicode.c:205, 222-227).                 *)
(***************************************************************************)
NoOverread == i <= Len(name) + 1
=============================================================================
