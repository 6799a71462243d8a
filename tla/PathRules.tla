----------------------------- MODULE PathRules -----------------------------
(***************************************************************************)
(* What qrexec-lib/unicode.c accepts as a file name and as a symbolic      *)
(* link, stated on path components.  A path is the sequence of its         *)
(* components: a name, ".." , "." (which also stands for the empty         *)
(* component of a doubled slash) or, in first place, "/" for an absolute   *)
(* path.  The characters of a name are abstracted to whether all of them   *)
(* pass the UTF-8 and display checks; PathValidate.tla runs the scanner    *)
(* character by character and compares it with this module.                *)
(***************************************************************************)
EXTENDS Integers, Sequences, FiniteSets

CONSTANTS
    Names,        \* path components that are neither "." nor ".."
    UnsafeNames,  \* those with a byte the character checks refuse
    MaxDepth      \* longest path, in components, that an instance considers

ASSUME PathRulesAssumption ==
    /\ UnsafeNames \subseteq Names
    /\ {"..", ".", "/"} \cap Names = {}
    /\ MaxDepth \in Nat \ {0}

DotDot == ".."
Dot    == "."
Root   == "/"

Components == Names \cup {DotDot, Dot, Root}

(* Paths of stored objects: relative, canonical, at most MaxDepth long.    *)
Paths == UNION {[1..n -> Names] : n \in 1..MaxDepth}

(***************************************************************************)
(* errno values and the protocol's own code.                               *)
(***************************************************************************)
ENOENT == 2
EIO == 5
EEXIST == 17
ENOTDIR == 20
EINVAL == 22
ENOSPC == 28
ENAMETOOLONG == 36
ELOOP == 40
ENOLINK == 67
EILSEQ == 84
EREMOTEIO == 121
EDQUOT == 122
LEGAL_EOF == 31415926

(***************************************************************************)
(* Flags of the validation functions (pure.h), as a set.                   *)
(***************************************************************************)
ValidateFlags ==
    {"UNSAFE_CHARACTERS", "NON_CANONICAL_SYMLINKS", "UNSAFE_SYMLINKS",
     "NON_CANONICAL_PATHS", "TRAILING_SLASH"}

IsName(c) == c \notin {DotDot, Dot, Root}

(***************************************************************************)
(* The verdict of the scan on the component at position i: 0, or the       *)
(* negative errno it makes validate_path return.  A ".." is accepted only  *)
(* before the first name and only while the budget lasts.                  *)
(***************************************************************************)
ComponentError(path, i, allowed, flags, unsafe) ==
    IF path[i] = DotDot
    THEN IF \/ \E j \in 1..(i-1) : IsName(path[j])
            \/ Cardinality({j \in 1..i : path[j] = DotDot}) > allowed
         THEN -ENOLINK ELSE 0
    ELSE IF path[i] = Dot
    THEN IF "NON_CANONICAL_PATHS" \in flags THEN 0 ELSE -EILSEQ
    ELSE IF path[i] \in unsafe /\ "UNSAFE_CHARACTERS" \notin flags
         THEN -EILSEQ ELSE 0

(***************************************************************************)
(* validate_path(): the number of names, or the error of the first         *)
(* component refused.  `slash' says that the path ends in a slash.         *)
(***************************************************************************)
ValidatePath(path, slash, allowed, flags, unsafe) ==
    LET Error(i) == ComponentError(path, i, allowed, flags, unsafe)
        Refused  == {i \in 1..Len(path) : Error(i) # 0}
    IN  IF path = <<>>
        THEN IF "NON_CANONICAL_PATHS" \in flags THEN 0 ELSE -ENOLINK
        ELSE IF path[1] = Root THEN -ENOLINK
        ELSE IF Refused # {}
        THEN IF \E i \in Refused : Error(i) = -ENOLINK /\ \A j \in Refused : i <= j
             THEN -ENOLINK ELSE -EILSEQ
        ELSE IF slash /\ "TRAILING_SLASH" \notin flags THEN -EILSEQ
        ELSE Cardinality({i \in 1..Len(path) : IsName(path[i])})

(***************************************************************************)
(* qubes_pure_validate_file_name_v2() and                                  *)
(* qubes_pure_validate_symbolic_link_v2(): 0 or a negative errno.  Paths   *)
(* carry no trailing slash here; a target may, which never matters because *)
(* the link check always allows it.                                        *)
(***************************************************************************)
ValidateFileName(path, flags) ==
    IF ValidatePath(path, FALSE, 0, flags, UnsafeNames) > 0 THEN 0 ELSE -EILSEQ

(* Mutant: a link may climb to the directory above its top-level entry.    *)
ValidateSymbolicLink_OneTooHigh(path, target, flags) ==
    LET depth == ValidatePath(path, FALSE, 0, flags, UnsafeNames)
        tflags == flags \cup {"NON_CANONICAL_PATHS", "TRAILING_SLASH"}
        res == ValidatePath(target, FALSE, depth - 1, tflags, UnsafeNames)
    IN  IF depth < 0 THEN -EILSEQ
        ELSE IF depth < 2 THEN -ENOLINK
        ELSE IF res \in {-ENOLINK, -EILSEQ} THEN res ELSE 0

ValidateSymbolicLink(path, target, flags) ==
    LET depth == ValidatePath(path, FALSE, 0, flags, UnsafeNames)
        tflags == IF "NON_CANONICAL_SYMLINKS" \in flags
                  THEN flags \cup {"NON_CANONICAL_PATHS", "TRAILING_SLASH"}
                  ELSE flags \cup {"TRAILING_SLASH"}
        res == ValidatePath(target, FALSE, depth - 2, tflags, UnsafeNames)
    IN  IF depth < 0 THEN -EILSEQ
        ELSE IF "UNSAFE_SYMLINKS" \in flags
        THEN IF depth > 0 THEN 0 ELSE -ENOLINK
        ELSE IF depth < 2 THEN -ENOLINK
        ELSE IF res \in {-ENOLINK, -EILSEQ} THEN res ELSE 0
=============================================================================
