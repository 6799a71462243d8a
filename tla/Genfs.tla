------------------------------- MODULE Genfs -------------------------------
(***************************************************************************)
(* kernel-modules/genfs.c: a pass over the inodes of a modules image that  *)
(* normalises them, and a walk from the root that gives some of them       *)
(* another SELinux label and makes some of them mutable again.  A file may *)
(* have several names, and a directory lists its names in any order.       *)
(*                                                                         *)
(* Owners, times, modes and the superblock, which the first pass sets to   *)
(* the same values everywhere, are left out.                               *)
(***************************************************************************)
EXTENDS Naturals, FiniteSets, Sequences

CONSTANTS
    Inodes,      \* Root and Lpf (lost+found) among them
    Root, Lpf,
    Trees,       \* images: [kind, entries], see GenfsAssumption
    uname,       \* the version of the kernel
    Modules,     \* the names that begin with "modules."
    Prefixes     \* names that are a proper prefix of a name the root may have,
                 \* as pairs

Kinds == {"dir", "reg", "lnk", "other", "badmode", "deleted"}
Dots == {".", ".."}

(* strncmp() with the length of the entry's name accepts a prefix; a name  *)
(* with a NUL is refused with the unexpected ones.                         *)
Matches(name, expected) == name = expected \/ <<name, expected>> \in Prefixes

(* Only directories have entries.  A directory has one name besides the    *)
(* dots: the root has none, and that of lost+found is in the root.  A      *)
(* version begins with a digit.                                            *)
ASSUME GenfsAssumption ==
    /\ Inodes \subseteq Nat
    /\ Root \in Inodes /\ Lpf \in Inodes /\ Root # Lpf
    /\ "build" \notin Modules
    /\ \A t \in Trees :
          /\ t.kind \in [Inodes -> Kinds]
          /\ t.kind[Root] = "dir" /\ t.kind[Lpf] = "dir"
          /\ \A e \in t.entries :
                /\ e.dir \in Inodes /\ e.to \in Inodes /\ t.kind[e.dir] = "dir"
                /\ \A f \in t.entries :
                      e.to = f.to /\ {e.name, f.name} \cap Dots = {} /\ t.kind[e.to] = "dir"
                          => e = f
                /\ e.name \notin Dots => e.to # Root /\ (e.to = Lpf => e.dir = Root)
                /\ ~(Matches(e.name, "firmware") /\ Matches(e.name, uname))

VARIABLES
    tree, mark_immutable,   \* the arguments
    label, immutable,       \* of each inode
    scan,                   \* inodes that the first pass has yet to see
    stack,                  \* running ext2fs_dir_iterate2() calls, innermost first
    status                  \* "scan", "walk", "ok" or "error"

vars == <<tree, mark_immutable, label, immutable, scan, stack, status>>

Kind(i) == tree.kind[i]
Entries(d) == {e \in tree.entries : e.dir = d}

Init ==
    /\ tree \in Trees
    /\ mark_immutable \in BOOLEAN
    /\ label = [i \in Inodes |-> "none"]
    /\ immutable = [i \in Inodes |-> FALSE]
    /\ scan = Inodes
    /\ stack = <<>>
    /\ status = "scan"

errx ==
    /\ status' = "error"
    /\ UNCHANGED <<label, immutable, scan, stack>>

-----------------------------------------------------------------------------
(* The first pass *)

ScanInode(i) ==
    /\ status = "scan"
    /\ i \in scan /\ \A j \in scan : i <= j
    /\ IF Kind(i) \in {"other", "badmode"} THEN errx
       ELSE /\ scan' = scan \ {i}
            /\ IF Kind(i) = "deleted" THEN UNCHANGED <<label, immutable>>
               ELSE /\ label' = [label EXCEPT ![i] = "modules_object"]
                    /\ immutable' = [immutable EXCEPT
                         ![i] = mark_immutable /\ (Kind(i) = "reg" \/ i = Lpf)]
            /\ UNCHANGED <<stack, status>>
    /\ UNCHANGED <<tree, mark_immutable>>

-----------------------------------------------------------------------------
(* The walk *)

(* Mutant: the inode that was read before is written. *)
process_dirent_Stale(i, l, force_mutable) ==
    /\ label' = [label EXCEPT ![i] = l]
    /\ UNCHANGED immutable

process_dirent(i, l, force_mutable) ==
    /\ label' = [label EXCEPT ![i] = l]
    /\ immutable' = [immutable EXCEPT ![i] = @ /\ ~force_mutable]

NoDirent == UNCHANGED <<label, immutable>>

(* A call of ext2fs_dir_iterate2() with a callback; after it the directory *)
(* itself may get a label.                                                 *)
Iterate(d, callback, l, after) ==
    [dir |-> d, callback |-> callback, label |-> l, after |-> after, left |-> Entries(d)]

Top == Head(stack)
Done(e) == <<[Top EXCEPT !.left = @ \ {e}]>> \o Tail(stack)

ScanEnds ==
    /\ status = "scan" /\ scan = {}
    /\ process_dirent(Root, "modules_object", TRUE)
    /\ stack' = <<Iterate(Root, "root", "", "none")>>
    /\ status' = "walk"
    /\ UNCHANGED <<tree, mark_immutable, scan>>

InCallback(name, e) == status = "walk" /\ stack # <<>> /\ Top.callback = name /\ e \in Top.left

(* Mutant: firmware is labelled like the rest. *)
RootLabel_Below(name) == "modules_object"

RootLabel(name) == IF Matches(name, "firmware") THEN "lib" ELSE "modules_object"

(* An entry that should be a directory and is not makes the iteration      *)
(* fail.                                                                   *)
root_iterate_callback(e) ==
    /\ InCallback("root", e)
    /\ \/ /\ e.name \in Dots
          /\ stack' = Done(e) /\ NoDirent /\ UNCHANGED <<scan, status>>
       \/ /\ e.name \notin Dots
          /\ Matches(e.name, "firmware") \/ Matches(e.name, uname)
          /\ IF Kind(e.to) # "dir" THEN errx
             ELSE /\ stack' = <<Iterate(e.to,
                                    IF Matches(e.name, "firmware") THEN "relabel" ELSE "dir",
                                    RootLabel(e.name), RootLabel(e.name))>> \o Done(e)
                  /\ NoDirent /\ UNCHANGED <<scan, status>>
       \/ /\ e.name \notin Dots
          /\ ~Matches(e.name, "firmware") /\ ~Matches(e.name, uname)
          /\ IF \E n \in {"vmlinuz", "lost+found", "initramfs"} : Matches(e.name, n)
             THEN /\ process_dirent(e.to, "modules_object", FALSE)
                  /\ stack' = Done(e) /\ UNCHANGED <<scan, status>>
             ELSE errx
    /\ UNCHANGED <<tree, mark_immutable>>

(* In the directory of the kernel only build and modules.* are special. *)
dir_iterate_callback(e) ==
    /\ InCallback("dir", e)
    /\ IF e.name = "build" /\ Kind(e.to) = "dir"
       THEN /\ process_dirent(e.to, "usr", TRUE)
            /\ stack' = <<Iterate(e.to, "relabel", "usr", "none")>> \o Done(e)
            /\ UNCHANGED <<scan, status>>
       ELSE IF e.name \in Modules /\ Kind(e.to) = "reg"
       THEN /\ process_dirent(e.to, "modules_dep", TRUE)
            /\ stack' = Done(e) /\ UNCHANGED <<scan, status>>
       ELSE IF e.name \in Modules \cup {"build"} THEN errx
       ELSE stack' = Done(e) /\ NoDirent /\ UNCHANGED <<scan, status>>
    /\ UNCHANGED <<tree, mark_immutable>>

Followed(e) == e.name \notin Dots

recursive_relabel(e) ==
    /\ InCallback("relabel", e)
    /\ IF ~Followed(e) THEN stack' = Done(e) /\ NoDirent
       ELSE /\ process_dirent(e.to, Top.label, FALSE)
            /\ stack' = IF Kind(e.to) # "dir" THEN Done(e)
                        ELSE <<Iterate(e.to, "relabel", Top.label, "none")>> \o Done(e)
    /\ UNCHANGED <<tree, mark_immutable, scan, status>>

(* The iteration over a directory ends.  firmware and the directory of the *)
(* kernel are labelled after what is below them.                           *)
IterateEnds ==
    /\ status = "walk"
    /\ stack # <<>> /\ Top.left = {}
    /\ IF Top.after = "none" THEN NoDirent ELSE process_dirent(Top.dir, Top.after, FALSE)
    /\ stack' = Tail(stack)
    /\ status' = IF Len(stack) = 1 THEN "ok" ELSE "walk"
    /\ UNCHANGED <<tree, mark_immutable, scan>>

(* A call of the library fails. *)
genfs_err ==
    /\ status \in {"scan", "walk"}
    /\ errx
    /\ UNCHANGED <<tree, mark_immutable>>

Next ==
    \/ \E i \in Inodes : ScanInode(i)
    \/ ScanEnds
    \/ \E e \in tree.entries :
          root_iterate_callback(e) \/ dir_iterate_callback(e) \/ recursive_relabel(e)
    \/ IterateEnds
    \/ genfs_err

Spec == Init /\ [][Next]_vars

-----------------------------------------------------------------------------

(* The inodes below a directory, itself included: those in every set that  *)
(* has the directory and, with a directory, what is in it                  *)
Closed(s) == \A e \in tree.entries : e.dir \in s /\ e.name \notin Dots => e.to \in s
Below(d) ==
    LET sets == {s \in SUBSET Inodes : d \in s /\ Closed(s)}
    IN  {i \in Inodes : \A s \in sets : i \in s}

RootNamed(n) == {e.to : e \in {x \in Entries(Root) : Matches(x.name, n) /\ x.name \notin Dots}}
InKernel(ns) == UNION {{e.to : e \in {x \in Entries(d) : x.name \in ns}} : d \in RootNamed(uname)}
Firmware == UNION {Below(d) : d \in RootNamed("firmware")}
Build == UNION {Below(d) : d \in InKernel({"build"})}
ModulesFiles == InKernel(Modules)
(* The kernel's directory, vmlinuz, initramfs and lost+found *)
RootOthers == {e.to : e \in {x \in Entries(Root) : /\ x.name \notin Dots
                                                   /\ ~Matches(x.name, "firmware")}}

(* Every inode of a finished image has the label of one of the places that *)
(* have a name for it, whatever the order of the directories, and although *)
(* the walk goes through some inodes more than once: those below firmware  *)
(* and build theirs, modules.* theirs, all others that of the modules,     *)
(* which also a file below firmware may have that the root has a name for  *)
(* (genfs.c:114-195, 339).                                                 *)
LabelsAreRight ==
    status = "ok" => \A i \in Inodes :
        \/ Kind(i) = "deleted"
        \/ label[i] = "lib" /\ i \in Firmware
        \/ label[i] = "usr" /\ i \in Build
        \/ label[i] = "modules_dep" /\ i \in ModulesFiles
        \/ /\ label[i] = "modules_object"
           /\ i \in Firmware \cup Build \cup ModulesFiles => i \in RootOthers

(* genfs.c:333 "mark regular files and /lost+found immutable", and mutable *)
(* what depmod writes: a finished image has exactly these inodes           *)
(* immutable, also when a modules.* file has another name that is walked   *)
(* before or after (genfs.c:169, 211).                                     *)
ImmutableIsRight ==
    status = "ok" => \A i \in Inodes :
        immutable[i] = /\ mark_immutable
                       /\ Kind(i) = "reg" \/ i = Lpf
                       /\ i \notin ModulesFiles
=============================================================================
