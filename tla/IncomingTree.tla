---------------------------- MODULE IncomingTree ----------------------------
(***************************************************************************)
(* The receiving directory (~/QubesIncoming/VMNAME) as unpack.c sees it: a *)
(* function from paths to nodes, and the file system calls the unpacker    *)
(* makes on it.  The calls themselves are the kernel's; what is modelled   *)
(* is the outcome the flags in unpack.c select (O_EXCL, O_NOFOLLOW,        *)
(* O_DIRECTORY, O_TMPFILE + linkat, mkdirat, symlinkat).                   *)
(***************************************************************************)
EXTENDS PathRules

CONSTANT Chunks   \* pieces of file content (one read of copy_file each)

(* perm: "none" is mode 0000, "rwx" is 0700, "final" the mode of the       *)
(* header.  size is the length announced by the header the node came from. *)
Node == [kind : {"none", "dir", "reg", "link"},
         perm : {"none", "rwx", "final"},
         size : Nat,
         content : Seq(Chunks),
         target : Seq(Components)]

MkNode(kind, perm, size, content, target) ==
    [kind |-> kind, perm |-> perm, size |-> size,
     content |-> content, target |-> target]

(* Only a file has content and only a link has a target; the size is that  *)
(* of either, except for a file that is being written.                     *)
WellFormed(node) ==
    /\ node.kind # "reg" => node.content = <<>>
    /\ node.kind # "link" => node.target = <<>>
    /\ node.kind = "dir" => node.size = 0
    /\ node.kind = "link" => node.size = Len(node.target) /\ node.perm = "final"
    /\ node.kind = "reg" /\ node.perm # "none" => node.size = Len(node.content)

Absent == MkNode("none", "none", 0, <<>>, <<>>)

EmptyTree == [p \in Paths |-> Absent]

Exists(tree, p) == tree[p].kind # "none"

(* Mutant: no O_NOFOLLOW, a link is as good as a directory. *)
OpendirSafe_Follow(tree, p) ==
    IF \E n \in 1..(Len(p)-1) : ~Exists(tree, SubSeq(p, 1, n)) THEN ENOENT
    ELSE IF \E n \in 1..(Len(p)-1) : tree[SubSeq(p, 1, n)].kind = "reg"
    THEN ENOTDIR ELSE 0

(***************************************************************************)
(* opendir_safe(): every proper prefix is opened with O_DIRECTORY and      *)
(* O_NOFOLLOW, so each must be a directory itself and not a link to one.   *)
(* 0, or the errno of the first component that is not.                     *)
(***************************************************************************)
OpendirSafe(tree, p) ==
    LET Blocked == {n \in 1..(Len(p)-1) : tree[SubSeq(p, 1, n)].kind # "dir"}
        Missing(n) == ~Exists(tree, SubSeq(p, 1, n))
    IN  IF Blocked = {} THEN 0
        ELSE IF \E n \in Blocked : Missing(n) /\ \A m \in Blocked : n <= m
        THEN ENOENT ELSE ENOTDIR

(* Mutant: no O_EXCL. *)
CreateError_Replace(tree, p) == 0

(***************************************************************************)
(* openat(O_CREAT|O_EXCL|O_NOFOLLOW), linkat(), mkdirat() and symlinkat()  *)
(* all fail with EEXIST when the name is taken, whatever it names.         *)
(***************************************************************************)
CreateError(tree, p) == IF Exists(tree, p) THEN EEXIST ELSE 0

Put(tree, p, node) == [tree EXCEPT ![p] = node]

(***************************************************************************)
(* What process_one_file_reg(), _dir() and _link() check before they       *)
(* create anything: 0, or the code they give to do_exit().  A file created *)
(* with O_EXCL or linkat() is checked against CreateError on top of it; a  *)
(* directory that exists is opened with O_NOFOLLOW|O_DIRECTORY instead.    *)
(* The directory case passes the validator's negative result on as it is.  *)
(***************************************************************************)
RegError(tree, p, flags) ==
    LET rc == ValidateFileName(p, flags)
    IN  IF rc # 0 THEN -rc ELSE OpendirSafe(tree, p)

DirError(tree, p, flags) ==
    LET rc == ValidateFileName(p, flags)
    IN  IF rc # 0 THEN rc
        ELSE IF OpendirSafe(tree, p) # 0 THEN OpendirSafe(tree, p)
        ELSE IF tree[p].kind \in {"none", "dir"} THEN 0 ELSE ENOTDIR

LinkError(tree, p, target, flags) ==
    LET rc == ValidateSymbolicLink(p, target, flags)
    IN  IF rc # 0 THEN -rc
        ELSE IF OpendirSafe(tree, p) # 0 THEN OpendirSafe(tree, p)
        ELSE IF target = <<>> THEN ENOENT
        ELSE CreateError(tree, p)
=============================================================================
