----------------------------- MODULE MCUnicode -----------------------------
(***************************************************************************)
(* The two scanners of qrexec-lib/unicode.c on byte strings: each          *)
(* behaviour is one call of validate_path() or one of                      *)
(* qubes_pure_sanitize_string_safe_for_display().                          *)
(*                                                                         *)
(* Paths of up to seven bytes of 'a', '.' and '/' (long enough for two     *)
(* leading ".." and a name after them), and of up to five with the lead    *)
(* and the tail of a two-byte character as well.                           *)
(*                                                                         *)
(* Text of up to five bytes of each alphabet: ASCII, leads of two- and     *)
(* three-byte characters and tails that make safe, unsafe, overlong and    *)
(* cut characters with them; and a control character with the lead and     *)
(* the tails of a four-byte character.                                     *)
(***************************************************************************)
EXTENDS PathValidate

CONSTANTS Texts, MaxLine

ASSUME MCUnicodeAssumption ==
    /\ \A s \in Texts : s \in Seq(1..255)
    /\ MaxLine \in Nat

VARIABLES max, result     \* of the sanitizer

Display == INSTANCE Sanitize WITH str <- name, Inputs <- Texts

Strings(bytes, n) == UNION {[1..k -> bytes] : k \in 0..n}

MCInputs == Strings({DotByte, SlashByte, 97}, 7)
                \cup Strings({DotByte, SlashByte, 97, 169, 195}, 5)

MCTexts == Strings({65, 131, 169, 194, 195, 224}, 5)
                \cup Strings({31, 128, 144, 240}, 5)

MCSafeCodePoints == (32..126) \cup {169, 195, 233, 2665, 65536}

pathVars == <<flags, budget, allowed, depth, res>>
displayVars == <<max, result>>

(* No path is validated with a depth of -1.                                *)
Idle == -1

UnicodeInit ==
    \/ Init /\ max = 0 /\ result = <<>>
    \/ /\ Display!Init
       /\ flags = {} /\ budget = 0 /\ allowed = 0 /\ depth = Idle /\ res = 0

UnicodeNext ==
    \/ Next /\ UNCHANGED displayVars
    \/ Display!Next /\ UNCHANGED pathVars

UnicodeSpec == UnicodeInit /\ [][UnicodeNext]_<<vars, displayVars>>

(* validate_path() decides by components: PathValidate!ScanMatchesRules    *)
(* for the behaviours that validate a path (unicode.c:166-239).            *)
PathMatchesRules == depth # Idle => ScanMatchesRules

(* The sanitized string is safe: Sanitize!ResultIsSafe for the behaviours  *)
(* that sanitize text (unicode.c:331-368).                                 *)
ResultIsSafe == depth = Idle => Display!ResultIsSafe

(* No scan steps over the NUL, and the sanitizer does not overrun its      *)
(* buffer: PathValidate!NoOverread (unicode.c:205, 222-227) and            *)
(* Sanitize!InBuffers (unicode.c:338-367).                                 *)
InBuffers == NoOverread /\ (depth = Idle => Display!InBuffers)

(* Nothing is lost before the cut: Sanitize!Faithful (unicode.c:342-363).  *)
Faithful == depth = Idle => Display!Faithful
=============================================================================
