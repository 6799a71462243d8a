---------------------------- MODULE GenfsProofs ----------------------------
(***************************************************************************)
(* Proofs about Genfs: which inodes of a finished image are immutable, and *)
(* which label each has.                                                   *)
(*                                                                         *)
(* The walk may meet the names of a file in any order and more than once.  *)
(* It only ever takes the flag away, which gives one half; for the other   *)
(* every name of a modules.* file that has not been dealt with is still in *)
(* front of a running iteration, or behind a name of the root that is.     *)
(*                                                                         *)
(* A label that replaces another fits the inode as well, and only what the *)
(* root has a name for gets back that of the modules.  With a directory    *)
(* that was reached all that is in it was, or is in front of the iteration *)
(* over it, so that at the end the inodes that were reached are closed.    *)
(***************************************************************************)
EXTENDS Genfs, TLAPS

-----------------------------------------------------------------------------
(* The inductive invariant *)

(* What the first pass makes immutable *)
Wanted(i) == mark_immutable /\ (Kind(i) = "reg" \/ i = Lpf)

(* The labels that an iteration gives; "" and "none" stand for no label. *)
Labels == {"", "none", "lib", "usr", "modules_object"}
Frames == [dir : Inodes, callback : {"root", "dir", "relabel"}, label : Labels,
           after : Labels, left : SUBSET tree.entries]

TypeInv ==
    /\ tree \in Trees /\ mark_immutable \in BOOLEAN
    /\ immutable \in [Inodes -> BOOLEAN]
    /\ stack \in Seq(Frames)
    /\ status \in {"scan", "walk", "ok", "error"}
    /\ status = "ok" => stack = <<>>

ScanInv ==
    status = "scan" => \A i \in Inodes : immutable[i] = (i \notin scan /\ Wanted(i))

(* Each iteration is over the directory that its callback is for. *)
StackOk(st) ==
    \A k \in 1..Len(st) :
        /\ \A e \in st[k].left : e.dir = st[k].dir
        /\ st[k].callback = "root" => st[k].dir = Root
        /\ st[k].callback = "dir" => st[k].dir \in RootNamed(uname)
StackInv == StackOk(stack)

WalkInv ==
    status \in {"walk", "ok"} => \A i \in Inodes :
        /\ immutable[i] => Wanted(i)
        /\ ~immutable[i] => ~Wanted(i) \/ i \in ModulesFiles

(* The names of the kernel's directory and of its modules.* files *)
KernelEntries == {e \in Entries(Root) : Matches(e.name, uname) /\ e.name \notin Dots}
ModulesEntries(d) == {x \in Entries(d) : x.name \in Modules}

Waiting(st, callback, e) ==
    \E k \in 1..Len(st) : st[k].callback = callback /\ e \in st[k].left

PendingInv ==
    status \in {"walk", "ok"} =>
        \A e \in KernelEntries : \A x \in ModulesEntries(e.to) :
            \/ ~immutable[x.to]
            \/ Waiting(stack, "root", e)
            \/ Waiting(stack, "dir", x)

GenfsInv == TypeInv /\ ScanInv /\ StackInv /\ WalkInv /\ PendingInv

-----------------------------------------------------------------------------
(* The stack of iterations *)

(* What GenfsAssumption says of the image at hand *)
LEMMA TreeFacts ==
    ASSUME TypeInv
    PROVE  /\ tree.kind \in [Inodes -> Kinds]
           /\ tree.kind[Root] = "dir" /\ tree.kind[Lpf] = "dir"
           /\ Root \in Inodes /\ Lpf \in Inodes /\ Root # Lpf
           /\ \A e \in tree.entries :
                 /\ e.dir \in Inodes /\ e.to \in Inodes /\ Kind(e.dir) = "dir"
                 /\ \A f \in tree.entries :
                       e.to = f.to /\ {e.name, f.name} \cap Dots = {} /\ Kind(e.to) = "dir"
                           => e = f
                 /\ e.name \notin Dots => e.to # Root /\ (e.to = Lpf => e.dir = Root)
                 /\ ~(Matches(e.name, "firmware") /\ Matches(e.name, uname))
  BY GenfsAssumption DEF TypeInv, Kind

(* The innermost iteration is one of the running ones. *)
LEMMA TopFrame ==
    ASSUME TypeInv, stack # <<>>
    PROVE  Top \in Frames
  BY DEF TypeInv, Top

(* An entry of the running iteration was dealt with: it is gone from that  *)
(* iteration and nothing else changes.                                     *)
LEMMA DoneFacts ==
    ASSUME TypeInv, stack # <<>>, NEW e, NEW st, st = Done(e)
    PROVE  /\ st \in Seq(Frames) /\ Len(st) = Len(stack) /\ Len(st) \in Nat /\ Len(st) >= 1
           /\ st[1].dir = stack[1].dir /\ st[1].callback = stack[1].callback
           /\ st[1].left = stack[1].left \ {e}
           /\ st[1].label = stack[1].label /\ st[1].after = stack[1].after
           /\ \A k \in 2..Len(stack) : st[k] = stack[k]
           /\ Top = stack[1] /\ stack[1] \in Frames
<1> DEFINE f == stack[1]
           g == [f EXCEPT !.left = @ \ {e}]
<1>1. stack \in Seq(Frames) /\ Len(stack) \in Nat /\ Len(stack) >= 1
  BY DEF TypeInv
<1>2. Top = f /\ f \in Frames
  BY <1>1 DEF Top
<1>3. g \in Frames /\ g.dir = f.dir /\ g.callback = f.callback /\ g.left = f.left \ {e}
      /\ g.label = f.label /\ g.after = f.after
  BY <1>2 DEF Frames
<1>4. st = <<g>> \o Tail(stack)
  BY <1>2 DEF Done
<1> HIDE DEF g, f
<1>5. Tail(stack) \in Seq(Frames) /\ Len(Tail(stack)) = Len(stack) - 1
      /\ \A k \in 1..(Len(stack) - 1) : Tail(stack)[k] = stack[k + 1]
  BY <1>1
<1>6. st \in Seq(Frames) /\ Len(st) = Len(stack) /\ st[1] = g
      /\ \A k \in 2..Len(stack) : st[k] = stack[k]
  BY <1>1, <1>3, <1>4, <1>5
<1> QED
  BY <1>1, <1>2, <1>3, <1>6 DEF f

(* What still waits after an entry was dealt with: everything but that     *)
(* entry, in the iteration whose turn it was.                              *)
LEMMA DoneKeeps ==
    ASSUME TypeInv, StackInv, stack # <<>>, NEW e, NEW st, st = Done(e)
    PROVE  /\ st \in Seq(Frames) /\ StackOk(st)
           /\ \A c, x : Waiting(stack, c, x) =>
                           Waiting(st, c, x) \/ (x = e /\ c = Top.callback)
<1>1. /\ st \in Seq(Frames) /\ Len(st) = Len(stack) /\ Len(st) \in Nat /\ Len(st) >= 1
      /\ st[1].dir = stack[1].dir /\ st[1].callback = stack[1].callback
      /\ st[1].left = stack[1].left \ {e}
      /\ \A k \in 2..Len(stack) : st[k] = stack[k]
      /\ Top = stack[1] /\ stack[1] \in Frames
  BY DoneFacts
<1>2. ASSUME NEW k \in 1..Len(st)
      PROVE  /\ \A x \in st[k].left : x.dir = st[k].dir
             /\ st[k].callback = "root" => st[k].dir = Root
             /\ st[k].callback = "dir" => st[k].dir \in RootNamed(uname)
  <2>1. CASE k = 1
    BY <1>1, <2>1 DEF StackInv, StackOk
  <2>2. CASE k # 1
    BY <1>1, <2>2 DEF StackInv, StackOk
  <2> QED
    BY <2>1, <2>2
<1>3. ASSUME NEW c, NEW x, Waiting(stack, c, x), ~(x = e /\ c = Top.callback)
      PROVE  Waiting(st, c, x)
  <2>1. PICK k \in 1..Len(stack) : stack[k].callback = c /\ x \in stack[k].left
    BY <1>3 DEF Waiting
  <2>2. k \in 1..Len(st) /\ st[k].callback = c /\ x \in st[k].left
    BY <1>1, <1>3, <2>1
  <2> QED
    BY <2>2 DEF Waiting
<1> QED
  BY <1>1, <1>2, <1>3 DEF StackOk

(* What waits when an iteration has started another one: what waited       *)
(* before, and every entry of the new directory.                           *)
LEMMA PushKeeps ==
    ASSUME NEW s \in Seq(Frames), StackOk(s), NEW g \in Frames, g.left = Entries(g.dir),
           g.callback = "root" => g.dir = Root,
           g.callback = "dir" => g.dir \in RootNamed(uname),
           NEW st, st = <<g>> \o s
    PROVE  /\ st \in Seq(Frames) /\ StackOk(st)
           /\ \A b, x : Waiting(s, b, x) => Waiting(st, b, x)
           /\ \A x \in g.left : Waiting(st, g.callback, x)
<1>1. /\ st \in Seq(Frames) /\ Len(st) = Len(s) + 1 /\ Len(s) \in Nat
      /\ st[1] = g
      /\ \A k \in 1..Len(s) : st[k + 1] = s[k]
  OBVIOUS
<1>2. ASSUME NEW k \in 1..Len(st)
      PROVE  /\ \A x \in st[k].left : x.dir = st[k].dir
             /\ st[k].callback = "root" => st[k].dir = Root
             /\ st[k].callback = "dir" => st[k].dir \in RootNamed(uname)
  <2>1. CASE k = 1
    BY <1>1, <2>1 DEF Entries
  <2>2. CASE k # 1
    <3>1. k - 1 \in 1..Len(s) /\ st[k] = s[k - 1]
      <4>1. PICK j \in 1..Len(s) : k = j + 1
        BY <1>1, <2>2
      <4> QED
        BY <1>1, <4>1
    <3> QED
      BY <3>1 DEF StackOk
  <2> QED
    BY <2>1, <2>2
<1>3. ASSUME NEW b, NEW x, Waiting(s, b, x)
      PROVE  Waiting(st, b, x)
  <2>1. PICK k \in 1..Len(s) : s[k].callback = b /\ x \in s[k].left
    BY <1>3 DEF Waiting
  <2>2. k + 1 \in 1..Len(st) /\ st[k + 1].callback = b /\ x \in st[k + 1].left
    BY <1>1, <2>1
  <2> QED
    BY <2>2 DEF Waiting
<1>4. ASSUME NEW x \in g.left
      PROVE  Waiting(st, g.callback, x)
  BY <1>1 DEF Waiting
<1> QED
  BY <1>1, <1>2, <1>3, <1>4 DEF StackOk

(* What waits when an iteration has ended, which nothing was left of.      *)
LEMMA PopKeeps ==
    ASSUME TypeInv, StackInv, stack # <<>>, Top.left = {}, NEW st, st = Tail(stack)
    PROVE  /\ st \in Seq(Frames) /\ StackOk(st)
           /\ \A b, x : Waiting(stack, b, x) => Waiting(st, b, x)
           /\ Len(stack) = 1 => st = <<>>
<1>1. stack \in Seq(Frames) /\ Len(stack) \in Nat /\ Len(stack) >= 1 /\ Top = stack[1]
  BY DEF TypeInv, Top
<1>2. st \in Seq(Frames) /\ Len(st) = Len(stack) - 1
      /\ \A k \in 1..(Len(stack) - 1) : st[k] = stack[k + 1]
  BY <1>1
<1>3. ASSUME NEW k \in 1..Len(st)
      PROVE  /\ \A x \in st[k].left : x.dir = st[k].dir
             /\ st[k].callback = "root" => st[k].dir = Root
             /\ st[k].callback = "dir" => st[k].dir \in RootNamed(uname)
  <2>1. k + 1 \in 1..Len(stack) /\ st[k] = stack[k + 1]
    BY <1>1, <1>2
  <2> QED
    BY <2>1 DEF StackInv, StackOk
<1>4. ASSUME NEW b, NEW x, Waiting(stack, b, x)
      PROVE  Waiting(st, b, x)
  <2>1. PICK k \in 1..Len(stack) : stack[k].callback = b /\ x \in stack[k].left
    BY <1>4 DEF Waiting
  <2>2. k # 1
    BY <1>1, <2>1
  <2>3. k - 1 \in 1..Len(st) /\ st[k - 1] = stack[k]
    BY <1>1, <1>2, <2>1, <2>2
  <2> QED
    BY <2>1, <2>3 DEF Waiting
<1> QED
  BY <1>1, <1>2, <1>3, <1>4 DEF StackOk

-----------------------------------------------------------------------------
(* Every step keeps the invariant. *)

(* What a step of the walk may do to the flags and to what waits           *)
LEMMA WalkStep ==
    ASSUME GenfsInv, status = "walk", status' \in {"walk", "ok"},
           status' = "ok" => stack' = <<>>,
           tree' = tree, mark_immutable' = mark_immutable,
           stack' \in Seq(Frames), StackOk(stack'),
           immutable' \in [Inodes -> BOOLEAN],
           \A i \in Inodes : immutable'[i] => immutable[i],
           \A i \in Inodes : immutable[i] /\ ~immutable'[i] => ~Wanted(i) \/ i \in ModulesFiles,
           \A e \in KernelEntries : Waiting(stack, "root", e) =>
               \/ Waiting(stack', "root", e)
               \/ \A x \in ModulesEntries(e.to) : Waiting(stack', "dir", x),
           \A x \in tree.entries : x.name \in Modules /\ Waiting(stack, "dir", x) =>
               Waiting(stack', "dir", x) \/ ~immutable'[x.to]
    PROVE  GenfsInv'
<1>1. TypeInv'
  BY DEF GenfsInv, TypeInv, Frames
<1>2. ScanInv' /\ StackInv'
  BY DEF ScanInv, StackInv, StackOk, RootNamed, Entries
<1>3. WalkInv'
  <2> SUFFICES ASSUME NEW i \in Inodes
               PROVE  /\ immutable'[i] => Wanted(i)
                      /\ ~immutable'[i] => ~Wanted(i) \/ i \in ModulesFiles
    BY SMTT(60) DEF WalkInv, Wanted, Kind, ModulesFiles, InKernel, RootNamed, Entries
  <2>1. /\ immutable[i] => Wanted(i)
        /\ ~immutable[i] => ~Wanted(i) \/ i \in ModulesFiles
    BY DEF GenfsInv, WalkInv
  <2> QED
    BY <2>1
<1>4. PendingInv'
  <2> SUFFICES ASSUME NEW e \in KernelEntries, NEW x \in ModulesEntries(e.to)
               PROVE  \/ ~immutable'[x.to]
                      \/ Waiting(stack', "root", e)
                      \/ Waiting(stack', "dir", x)
    BY DEF PendingInv, KernelEntries, ModulesEntries, Entries
  <2>1. \/ ~immutable[x.to]
        \/ Waiting(stack, "root", e)
        \/ Waiting(stack, "dir", x)
    BY DEF GenfsInv, PendingInv
  <2>2. x \in tree.entries /\ x.name \in Modules /\ x.to \in Inodes
    BY TreeFacts DEF GenfsInv, ModulesEntries, Entries
  <2> QED
    BY <2>1, <2>2
<1> QED
  BY <1>1, <1>2, <1>3, <1>4 DEF GenfsInv

(* A call of the library that fails ends the program. *)
LEMMA ErrStep ==
    ASSUME GenfsInv, errx, UNCHANGED <<tree, mark_immutable>>
    PROVE  GenfsInv'
  BY DEF GenfsInv, TypeInv, ScanInv, StackInv, StackOk, WalkInv, PendingInv, errx, Frames,
         RootNamed, Entries

(* No inode has a flag yet, and no iteration runs. *)
LEMMA InitKeeps ==
    ASSUME Init
    PROVE  GenfsInv
<1>1. immutable \in [Inodes -> BOOLEAN] /\ \A i \in Inodes : immutable[i] = FALSE
  BY DEF Init
<1>2. TypeInv
  BY <1>1 DEF Init, TypeInv
<1>3. ScanInv
  BY <1>1 DEF Init, ScanInv
<1> QED
  BY <1>2, <1>3 DEF Init, GenfsInv, StackInv, StackOk, WalkInv, PendingInv

(* ext2fs_get_next_inode(): the next inode of the first pass *)
LEMMA ScanInodeKeeps ==
    ASSUME GenfsInv, NEW i \in Inodes, ScanInode(i)
    PROVE  GenfsInv'
<1>1. CASE Kind(i) \in {"other", "badmode"}
  BY <1>1, ErrStep DEF ScanInode
<1>2. CASE Kind(i) \notin {"other", "badmode"}
  <2>1. /\ status = "scan" /\ i \in scan /\ scan' = scan \ {i} /\ stack' = stack
        /\ status' = status /\ tree' = tree /\ mark_immutable' = mark_immutable
        /\ \/ Kind(i) = "deleted" /\ immutable' = immutable
           \/ immutable' = [immutable EXCEPT ![i] = Wanted(i)]
    BY <1>2 DEF ScanInode, Wanted
  <2>2. Wanted(i) \in BOOLEAN /\ (Kind(i) = "deleted" => ~Wanted(i))
    BY TreeFacts DEF Wanted, Kind, GenfsInv, TypeInv
  <2>3. immutable' \in [Inodes -> BOOLEAN]
        /\ immutable'[i] = Wanted(i) /\ \A j \in Inodes \ {i} : immutable'[j] = immutable[j]
    <3>1. CASE Kind(i) = "deleted" /\ immutable' = immutable
      <4>1. immutable[i] = (i \notin scan /\ Wanted(i))
        BY <2>1 DEF GenfsInv, ScanInv
      <4> QED
        BY <2>1, <2>2, <3>1, <4>1 DEF GenfsInv, TypeInv
    <3>2. CASE immutable' = [immutable EXCEPT ![i] = Wanted(i)]
      BY <2>2, <3>2 DEF GenfsInv, TypeInv
    <3> QED
      BY <2>1, <3>1, <3>2
  <2>4. TypeInv'
    BY <2>1, <2>3 DEF GenfsInv, TypeInv, Frames
  <2>5. ScanInv'
    <3> SUFFICES ASSUME NEW j \in Inodes
                 PROVE  immutable'[j] = (j \notin scan' /\ Wanted(j))
      BY <2>1 DEF ScanInv, Wanted, Kind
    <3>1. immutable[j] = (j \notin scan /\ Wanted(j))
      BY <2>1 DEF GenfsInv, ScanInv
    <3>2. CASE j = i
      BY <2>1, <2>2, <2>3, <3>2
    <3>3. CASE j # i
      <4>1. (j \in scan') = (j \in scan)
        BY <2>1, <3>3
      <4> QED
        BY <2>3, <3>1, <3>3, <4>1
    <3> QED
      BY <3>2, <3>3
  <2> QED
    BY <2>1, <2>4, <2>5 DEF GenfsInv, StackInv, StackOk, WalkInv, PendingInv, RootNamed, Entries
<1> QED
  BY <1>1, <1>2

(* The first pass is over: the flags are what it wanted, and every name of *)
(* the root waits.                                                         *)
LEMMA ScanEndsKeeps ==
    ASSUME GenfsInv, ScanEnds
    PROVE  GenfsInv'
<1>1. /\ status = "scan" /\ scan = {} /\ status' = "walk"
      /\ tree' = tree /\ mark_immutable' = mark_immutable
      /\ immutable' = [immutable EXCEPT ![Root] = @ /\ ~TRUE]
      /\ stack' = <<Iterate(Root, "root", "", "none")>>
  BY DEF ScanEnds, process_dirent
<1>2. ASSUME NEW i \in Inodes
      PROVE  immutable[i] = Wanted(i)
  <2>1. immutable[i] = (i \notin scan /\ Wanted(i))
    BY <1>1 DEF GenfsInv, ScanInv
  <2>2. i \notin scan /\ Wanted(i) \in BOOLEAN
    BY <1>1 DEF GenfsInv, TypeInv, Wanted
  <2> QED
    BY <2>1, <2>2
<1>3. Root \in Inodes /\ ~Wanted(Root)
  BY TreeFacts DEF GenfsInv, Wanted, Kind
<1>4. immutable' \in [Inodes -> BOOLEAN] /\ \A i \in Inodes : immutable'[i] = Wanted(i)
  <2>1. ASSUME NEW i \in Inodes
        PROVE  immutable'[i] = Wanted(i)
    <3>1. CASE i = Root
      BY <1>1, <1>3, <3>1 DEF GenfsInv, TypeInv, Wanted
    <3>2. CASE i # Root
      BY <1>1, <1>2, <3>2 DEF GenfsInv, TypeInv
    <3> QED
      BY <3>1, <3>2
  <2>2. immutable' \in [Inodes -> BOOLEAN]
    BY <1>1 DEF GenfsInv, TypeInv
  <2> QED
    BY <2>1, <2>2
<1>5. /\ stack' \in Seq(Frames) /\ StackOk(stack')
      /\ \A x \in Entries(Root) : Waiting(stack', "root", x)
  <2>1. <<>> \in Seq(Frames) /\ StackOk(<<>>)
    BY DEF StackOk
  <2>2. PICK g : g = Iterate(Root, "root", "", "none")
    OBVIOUS
  <2>3. g \in Frames /\ g.dir = Root /\ g.callback = "root" /\ g.left = Entries(Root)
    BY <1>3, <2>2 DEF Iterate, Frames, Entries, Labels
  <2>4. PICK st : st = <<g>>
    OBVIOUS
  <2>5. st = <<g>> \o <<>>
    BY <2>4
  <2>6. /\ st \in Seq(Frames) /\ StackOk(st)
        /\ \A x \in g.left : Waiting(st, g.callback, x)
    BY <2>1, <2>3, <2>5, PushKeeps
  <2>7. st = stack'
    BY <1>1, <2>2, <2>4
  <2> QED
    BY <2>3, <2>6, <2>7
<1>6. TypeInv'
  BY <1>1, <1>4, <1>5 DEF GenfsInv, TypeInv, Frames
<1>7. ScanInv' /\ StackInv'
  BY <1>1, <1>5 DEF ScanInv, StackInv, StackOk, RootNamed, Entries
<1>8. WalkInv'
  BY <1>1, <1>4 DEF WalkInv, Wanted, Kind
<1>9. PendingInv'
  BY <1>1, <1>5 DEF PendingInv, KernelEntries, ModulesEntries, Entries
<1> QED
  BY <1>6, <1>7, <1>8, <1>9 DEF GenfsInv

(* process_dirent() without force_mutable leaves every flag alone. *)
LEMMA KeepsFlags ==
    ASSUME TypeInv, NEW i \in Inodes, NEW l, process_dirent(i, l, FALSE)
    PROVE  immutable' = immutable
<1>1. immutable' = [immutable EXCEPT ![i] = @ /\ ~FALSE]
  BY DEF process_dirent
<1>2. immutable[i] \in BOOLEAN
  BY DEF TypeInv
<1>3. (immutable[i] /\ ~FALSE) = immutable[i]
  BY <1>2
<1> QED
  BY <1>1, <1>3 DEF TypeInv

(* The flags are not changed, and an entry that matters not is done.       *)
LEMMA QuietStep ==
    ASSUME GenfsInv, status = "walk", status' = "walk",
           tree' = tree, mark_immutable' = mark_immutable, immutable' = immutable,
           stack' \in Seq(Frames), StackOk(stack'),
           \A e \in KernelEntries : Waiting(stack, "root", e) =>
               \/ Waiting(stack', "root", e)
               \/ \A x \in ModulesEntries(e.to) : Waiting(stack', "dir", x),
           \A x \in tree.entries : x.name \in Modules /\ Waiting(stack, "dir", x) =>
               Waiting(stack', "dir", x)
    PROVE  GenfsInv'
<1>1. immutable' \in [Inodes -> BOOLEAN]
  BY DEF GenfsInv, TypeInv
<1> QED
  BY <1>1, WalkStep

(* A directory below firmware or build: only labels change. *)
LEMMA RelabelKeeps ==
    ASSUME GenfsInv, NEW e \in tree.entries, recursive_relabel(e)
    PROVE  GenfsInv'
<1>1. /\ status = "walk" /\ status' = "walk" /\ stack # <<>> /\ Top.callback = "relabel"
      /\ tree' = tree /\ mark_immutable' = mark_immutable
  BY DEF recursive_relabel, InCallback
<1>2. e.to \in Inodes /\ TypeInv /\ StackInv
  BY TreeFacts DEF GenfsInv
<1>3. immutable' = immutable
  <2>1. CASE Followed(e)
    BY <1>2, <2>1, KeepsFlags DEF recursive_relabel
  <2>2. CASE ~Followed(e)
    BY <2>2 DEF recursive_relabel, NoDirent
  <2> QED
    BY <2>1, <2>2
<1>4. PICK s : s = Done(e)
  OBVIOUS
<1>5. /\ s \in Seq(Frames) /\ StackOk(s)
      /\ \A c, x : Waiting(stack, c, x) => Waiting(s, c, x) \/ (x = e /\ c = Top.callback)
  BY <1>1, <1>2, <1>4, DoneKeeps
<1>6. PICK st : st = stack'
  OBVIOUS
<1>7. /\ st \in Seq(Frames) /\ StackOk(st)
      /\ \A c, x : Waiting(s, c, x) => Waiting(st, c, x)
  <2>1. CASE st = s
    BY <1>5, <2>1
  <2>2. CASE st = <<Iterate(e.to, "relabel", Top.label, "none")>> \o s
    <3>1. Top.label \in Labels
      BY <1>1, <1>2, TopFrame DEF Frames
    <3>2. PICK g : g = Iterate(e.to, "relabel", Top.label, "none")
      OBVIOUS
    <3>3. g \in Frames /\ g.dir = e.to /\ g.callback = "relabel" /\ g.left = Entries(e.to)
      BY <1>2, <3>1, <3>2 DEF Iterate, Frames, Entries, Labels
    <3>4. st = <<g>> \o s
      BY <2>2, <3>2
    <3> QED
      BY <1>5, <3>3, <3>4, PushKeeps
  <2> QED
    BY <1>4, <1>6, <2>1, <2>2 DEF recursive_relabel
<1>8. \A c \in {"root", "dir"} : \A x : Waiting(stack, c, x) => Waiting(st, c, x)
  BY <1>1, <1>5, <1>7
<1> QED
  BY <1>1, <1>3, <1>6, <1>7, <1>8, QuietStep

(* An iteration ends. *)
LEMMA IterateEndsKeeps ==
    ASSUME GenfsInv, IterateEnds
    PROVE  GenfsInv'
<1>1. /\ status = "walk" /\ stack # <<>> /\ Top.left = {} /\ stack' = Tail(stack)
      /\ status' = IF Len(stack) = 1 THEN "ok" ELSE "walk"
      /\ tree' = tree /\ mark_immutable' = mark_immutable
      /\ TypeInv /\ StackInv
  BY DEF IterateEnds, GenfsInv
<1>2. immutable' = immutable /\ immutable' \in [Inodes -> BOOLEAN]
  <2>1. Top.dir \in Inodes
    BY <1>1, TopFrame DEF Frames
  <2>2. CASE Top.after = "none"
    BY <1>1, <2>2 DEF IterateEnds, NoDirent, TypeInv
  <2>3. CASE Top.after # "none"
    <3>1. PICK i \in Inodes : i = Top.dir
      BY <2>1
    <3>2. PICK l : process_dirent(i, l, FALSE)
      BY <2>3, <3>1 DEF IterateEnds
    <3> QED
      BY <1>1, <3>2, KeepsFlags DEF TypeInv
  <2> QED
    BY <2>2, <2>3
<1>3. PICK st : st = stack'
  OBVIOUS
<1>4. /\ st \in Seq(Frames) /\ StackOk(st)
      /\ \A b, x : Waiting(stack, b, x) => Waiting(st, b, x)
      /\ Len(stack) = 1 => st = <<>>
  BY <1>1, <1>3, PopKeeps
<1>5. status' \in {"walk", "ok"} /\ (status' = "ok" => stack' = <<>>)
  BY <1>1, <1>3, <1>4
<1> QED
  BY <1>1, <1>2, <1>3, <1>4, <1>5, WalkStep

(* The root: the name of the kernel's directory starts an iteration that   *)
(* has all its names in front of it; no other name of the root matters.    *)
LEMMA RootKeeps ==
    ASSUME GenfsInv, NEW e \in tree.entries, root_iterate_callback(e)
    PROVE  GenfsInv'
<1>1. /\ status = "walk" /\ stack # <<>> /\ Top.callback = "root" /\ e \in Top.left
      /\ tree' = tree /\ mark_immutable' = mark_immutable
  BY DEF root_iterate_callback, InCallback
<1>2. e.to \in Inodes /\ TypeInv /\ StackInv /\ e.dir = Root
  <2>1. TypeInv /\ StackInv /\ e.to \in Inodes
    BY TreeFacts DEF GenfsInv
  <2>2. 1 \in 1..Len(stack) /\ Top = stack[1]
    BY <1>1, <2>1 DEF TypeInv, Top
  <2> QED
    BY <1>1, <2>1, <2>2 DEF StackInv, StackOk
<1>3. PICK s : s = Done(e)
  OBVIOUS
<1>4. /\ s \in Seq(Frames) /\ StackOk(s)
      /\ \A c, x : Waiting(stack, c, x) => Waiting(s, c, x) \/ (x = e /\ c = "root")
  BY <1>1, <1>2, <1>3, DoneKeeps
<1>5. CASE errx
  BY <1>1, <1>5, ErrStep
<1>6. CASE /\ stack' = s /\ immutable' = immutable /\ status' = "walk"
           /\ e.name \in Dots \/ ~Matches(e.name, uname)
  <2>1. e \notin KernelEntries
    BY <1>6 DEF KernelEntries
  <2> QED
    BY <1>1, <1>4, <1>6, <2>1, QuietStep
<1>7. CASE /\ e.name \notin Dots
           /\ Matches(e.name, "firmware") \/ Matches(e.name, uname)
           /\ ~errx
  <2>1. /\ stack' = <<Iterate(e.to, IF Matches(e.name, "firmware") THEN "relabel" ELSE "dir",
                              RootLabel(e.name), RootLabel(e.name))>> \o s
        /\ immutable' = immutable /\ status' = "walk"
    BY <1>1, <1>3, <1>7 DEF root_iterate_callback, NoDirent
  <2>2. PICK g : g = Iterate(e.to, IF Matches(e.name, "firmware") THEN "relabel" ELSE "dir",
                             RootLabel(e.name), RootLabel(e.name))
    OBVIOUS
  <2>3. RootLabel(e.name) \in Labels
    BY DEF RootLabel, Labels
  <2>4. /\ g \in Frames /\ g.dir = e.to /\ g.left = Entries(e.to)
        /\ g.callback = IF Matches(e.name, "firmware") THEN "relabel" ELSE "dir"
    BY <1>2, <2>2, <2>3 DEF Iterate, Frames, Entries
  <2>5. g.callback = "dir" => Matches(e.name, uname)
    BY <1>7, <2>4
  <2>6. g.callback = "dir" => g.dir \in RootNamed(uname)
    BY <1>2, <1>7, <2>4, <2>5 DEF RootNamed, Entries
  <2>7. g.callback # "root"
    BY <2>4
  <2>8. PICK st : st = stack'
    OBVIOUS
  <2>9. st = <<g>> \o s
    BY <2>1, <2>2, <2>8
  <2>10. /\ st \in Seq(Frames) /\ StackOk(st)
         /\ \A c, x : Waiting(s, c, x) => Waiting(st, c, x)
         /\ \A x \in g.left : Waiting(st, g.callback, x)
    BY <1>4, <2>4, <2>6, <2>7, <2>9, PushKeeps
  <2>11. e \in KernelEntries => \A x \in ModulesEntries(e.to) : Waiting(st, "dir", x)
    <3> SUFFICES ASSUME e \in KernelEntries, NEW x \in ModulesEntries(e.to)
                 PROVE  Waiting(st, "dir", x)
      OBVIOUS
    <3>1. Matches(e.name, uname)
      BY DEF KernelEntries
    <3>2. ~Matches(e.name, "firmware")
      BY <1>2, <3>1, TreeFacts
    <3>3. g.callback = "dir" /\ x \in g.left
      BY <2>4, <3>2 DEF ModulesEntries
    <3> QED
      BY <2>10, <3>3
  <2> QED
    BY <1>1, <1>4, <2>1, <2>8, <2>10, <2>11, QuietStep
<1> QED
  <2>1. CASE e.name \in Dots
    BY <1>1, <1>3, <1>6, <2>1 DEF root_iterate_callback, NoDirent
  <2>2. CASE e.name \notin Dots /\ (Matches(e.name, "firmware") \/ Matches(e.name, uname))
    BY <1>5, <1>7, <2>2
  <2>3. CASE e.name \notin Dots /\ ~Matches(e.name, "firmware") /\ ~Matches(e.name, uname) /\ ~errx
    <3>1. /\ process_dirent(e.to, "modules_object", FALSE)
          /\ stack' = s /\ status' = status
      BY <1>3, <2>3 DEF root_iterate_callback
    <3>2. immutable' = immutable
      BY <1>2, <3>1, KeepsFlags
    <3> QED
      BY <1>1, <1>6, <2>3, <3>1, <3>2
  <2> QED
    BY <1>5, <2>1, <2>2, <2>3

(* process_dirent() with force_mutable takes one flag away. *)
LEMMA TakesFlag ==
    ASSUME TypeInv, NEW i \in Inodes, NEW l, process_dirent(i, l, TRUE)
    PROVE  /\ immutable' \in [Inodes -> BOOLEAN] /\ ~immutable'[i]
           /\ \A j \in Inodes \ {i} : immutable'[j] = immutable[j]
<1>1. immutable' = [immutable EXCEPT ![i] = FALSE]
  BY DEF process_dirent
<1> QED
  BY <1>1 DEF TypeInv

(* The kernel's directory: a modules.* file becomes mutable when its name  *)
(* is met.                                                                 *)
LEMMA DirKeeps ==
    ASSUME GenfsInv, NEW e \in tree.entries, dir_iterate_callback(e)
    PROVE  GenfsInv'
<1>1. /\ status = "walk" /\ stack # <<>> /\ Top.callback = "dir" /\ e \in Top.left
      /\ tree' = tree /\ mark_immutable' = mark_immutable
  BY DEF dir_iterate_callback, InCallback
<1>2. e.to \in Inodes /\ TypeInv /\ StackInv /\ e.dir \in RootNamed(uname)
  <2>1. TypeInv /\ StackInv /\ e.to \in Inodes
    BY TreeFacts DEF GenfsInv
  <2>2. 1 \in 1..Len(stack) /\ Top = stack[1]
    BY <1>1, <2>1 DEF TypeInv, Top
  <2> QED
    BY <1>1, <2>1, <2>2 DEF StackInv, StackOk
<1>3. PICK s : s = Done(e)
  OBVIOUS
<1>4. /\ s \in Seq(Frames) /\ StackOk(s)
      /\ \A c, x : Waiting(stack, c, x) => Waiting(s, c, x) \/ (x = e /\ c = "dir")
  BY <1>1, <1>2, <1>3, DoneKeeps
<1>5. "build" \notin Modules
  BY GenfsAssumption
<1>6. CASE e.name = "build" /\ Kind(e.to) = "dir"
  <2>1. /\ process_dirent(e.to, "usr", TRUE) /\ status' = "walk"
        /\ stack' = <<Iterate(e.to, "relabel", "usr", "none")>> \o s
    BY <1>1, <1>3, <1>6 DEF dir_iterate_callback
  <2>2. PICK g : g = Iterate(e.to, "relabel", "usr", "none")
    OBVIOUS
  <2>3. g \in Frames /\ g.dir = e.to /\ g.callback = "relabel" /\ g.left = Entries(e.to)
    BY <1>2, <2>2 DEF Iterate, Frames, Entries, Labels
  <2>4. PICK st : st = stack'
    OBVIOUS
  <2>5. st = <<g>> \o s
    BY <2>1, <2>2, <2>4
  <2>6. /\ st \in Seq(Frames) /\ StackOk(st)
        /\ \A c, x : Waiting(s, c, x) => Waiting(st, c, x)
    BY <1>4, <2>3, <2>5, PushKeeps
  <2>7. /\ immutable' \in [Inodes -> BOOLEAN] /\ ~immutable'[e.to]
        /\ \A j \in Inodes \ {e.to} : immutable'[j] = immutable[j]
    BY <1>2, <2>1, TakesFlag
  <2>8. ~Wanted(e.to)
    <3>1. e.dir # Root
      <4>1. PICK y \in tree.entries : y.name \notin Dots /\ y.to = e.dir
        BY <1>2 DEF RootNamed, Entries
      <4> QED
        BY <1>2, <4>1, TreeFacts
    <3>2. e.to # Lpf
      BY <1>2, <1>6, <3>1, TreeFacts DEF Dots
    <3> QED
      BY <1>6, <3>2 DEF Wanted
  <2>9. \A i \in Inodes : immutable'[i] => immutable[i]
    BY <2>7
  <2>10. \A i \in Inodes : immutable[i] /\ ~immutable'[i] => ~Wanted(i) \/ i \in ModulesFiles
    BY <2>7, <2>8
  <2>11. \A x : Waiting(stack, "root", x) => Waiting(stack', "root", x)
    BY <1>4, <2>4, <2>6
  <2>12. \A x : x.name \in Modules /\ Waiting(stack, "dir", x) => Waiting(stack', "dir", x)
    BY <1>4, <1>5, <1>6, <2>4, <2>6
  <2> QED
    BY <1>1, <2>1, <2>4, <2>6, <2>7, <2>9, <2>10, <2>11, <2>12, WalkStep
<1>7. CASE e.name \in Modules /\ Kind(e.to) = "reg"
  <2>1. process_dirent(e.to, "modules_dep", TRUE) /\ status' = "walk" /\ stack' = s
    BY <1>1, <1>3, <1>5, <1>7 DEF dir_iterate_callback
  <2>2. /\ immutable' \in [Inodes -> BOOLEAN] /\ ~immutable'[e.to]
        /\ \A j \in Inodes \ {e.to} : immutable'[j] = immutable[j]
    BY <1>2, <2>1, TakesFlag
  <2>3. e.to \in ModulesFiles
    BY <1>2, <1>7 DEF ModulesFiles, InKernel, Entries
  <2>4. \A i \in Inodes : immutable'[i] => immutable[i]
    BY <2>2
  <2>5. \A i \in Inodes : immutable[i] /\ ~immutable'[i] => ~Wanted(i) \/ i \in ModulesFiles
    BY <2>2, <2>3
  <2>6. \A x : Waiting(stack, "root", x) => Waiting(stack', "root", x)
    BY <1>4, <2>1
  <2>7. \A x \in tree.entries : x.name \in Modules /\ Waiting(stack, "dir", x) =>
            Waiting(stack', "dir", x) \/ ~immutable'[x.to]
    BY <1>4, <2>1, <2>2
  <2> QED
    BY <1>1, <1>4, <2>1, <2>2, <2>4, <2>5, <2>6, <2>7, WalkStep
<1>8. CASE errx
  BY <1>1, <1>8, ErrStep
<1>9. CASE stack' = s /\ immutable' = immutable /\ status' = "walk" /\ e.name \notin Modules
  <2>1. \A x : Waiting(stack, "root", x) => Waiting(stack', "root", x)
    BY <1>4, <1>9
  <2>2. \A x \in tree.entries : x.name \in Modules /\ Waiting(stack, "dir", x) =>
            Waiting(stack', "dir", x)
    BY <1>4, <1>9
  <2> QED
    BY <1>1, <1>4, <1>9, <2>1, <2>2, QuietStep
<1> QED
  BY <1>1, <1>3, <1>6, <1>7, <1>8, <1>9 DEF dir_iterate_callback, NoDirent

-----------------------------------------------------------------------------
(* The theorems *)

(* The invariant above holds whatever the image and whatever the order in  *)
(* which its directories list their names.                                 *)
THEOREM Genfs_Invariant == Spec => []GenfsInv
<1>1. ASSUME GenfsInv, [Next]_vars
      PROVE  GenfsInv'
  <2>1. CASE UNCHANGED vars
    <3>1. TypeInv' /\ StackInv'
      BY <1>1, <2>1 DEF vars, GenfsInv, TypeInv, Frames, StackInv, StackOk, RootNamed, Entries
    <3>2. ScanInv'
      BY <1>1, <2>1 DEF vars, GenfsInv, ScanInv, Wanted, Kind
    <3>3. WalkInv'
      BY <1>1, <2>1 DEF vars, GenfsInv, WalkInv, Wanted, Kind, ModulesFiles, InKernel,
         RootNamed, Entries
    <3>4. PendingInv'
      BY <1>1, <2>1 DEF vars, GenfsInv, PendingInv, KernelEntries, ModulesEntries, Entries,
         Waiting
    <3> QED
      BY <3>1, <3>2, <3>3, <3>4 DEF GenfsInv
  <2>2. ASSUME NEW i \in Inodes, ScanInode(i)
        PROVE  GenfsInv'
    BY <1>1, <2>2, ScanInodeKeeps
  <2>3. CASE ScanEnds
    BY <1>1, <2>3, ScanEndsKeeps
  <2>4. ASSUME NEW e \in tree.entries, root_iterate_callback(e)
        PROVE  GenfsInv'
    BY <1>1, <2>4, RootKeeps
  <2>5. ASSUME NEW e \in tree.entries, dir_iterate_callback(e)
        PROVE  GenfsInv'
    BY <1>1, <2>5, DirKeeps
  <2>6. ASSUME NEW e \in tree.entries, recursive_relabel(e)
        PROVE  GenfsInv'
    BY <1>1, <2>6, RelabelKeeps
  <2>7. CASE IterateEnds
    BY <1>1, <2>7, IterateEndsKeeps
  <2>8. CASE genfs_err
    BY <1>1, <2>8, ErrStep DEF genfs_err
  <2> QED
    BY <1>1, <2>1, <2>2, <2>3, <2>4, <2>5, <2>6, <2>7, <2>8 DEF Next
<1> QED
  BY <1>1, InitKeeps, PTL DEF Spec

(* In every finished image exactly the regular files other than modules.*  *)
(* and lost+found are immutable, if that was asked for: for every image,   *)
(* any number of names per file and any order of the directories           *)
(* (genfs.c:114-195, 333).                                                 *)
THEOREM ImmutableIsRight_Safe == Spec => []ImmutableIsRight
<1>1. ASSUME GenfsInv
      PROVE  ImmutableIsRight
  <2> SUFFICES ASSUME status = "ok", NEW i \in Inodes
               PROVE  immutable[i] = (/\ mark_immutable
                                      /\ Kind(i) = "reg" \/ i = Lpf
                                      /\ i \notin ModulesFiles)
    BY DEF ImmutableIsRight
  <2>1. stack = <<>> /\ immutable[i] \in BOOLEAN
    BY <1>1 DEF GenfsInv, TypeInv
  <2>2. /\ immutable[i] => Wanted(i)
        /\ ~immutable[i] => ~Wanted(i) \/ i \in ModulesFiles
    BY <1>1 DEF GenfsInv, WalkInv
  <2>3. \A c, x : ~Waiting(stack, c, x)
    BY <2>1 DEF Waiting
  <2>4. i \in ModulesFiles => ~immutable[i]
    <3> SUFFICES ASSUME i \in ModulesFiles
                 PROVE  ~immutable[i]
      OBVIOUS
    <3>1. PICK d \in RootNamed(uname), x \in tree.entries :
             x.dir = d /\ x.name \in Modules /\ i = x.to
      BY DEF ModulesFiles, InKernel, Entries
    <3>2. PICK e \in KernelEntries : e.to = d
      BY DEF RootNamed, KernelEntries
    <3>3. x \in ModulesEntries(e.to)
      BY <3>1, <3>2 DEF ModulesEntries, Entries
    <3> QED
      BY <1>1, <2>3, <3>1, <3>3 DEF GenfsInv, PendingInv
  <2>5. mark_immutable \in BOOLEAN
    BY <1>1 DEF GenfsInv, TypeInv
  <2> QED
    BY <2>1, <2>2, <2>4, <2>5 DEF Wanted
<1> QED
  BY <1>1, Genfs_Invariant, PTL

-----------------------------------------------------------------------------
(* The labels: the inductive invariant, beside the one above *)

LabelNames == {"none", "lib", "usr", "modules_dep", "modules_object"}

(* The inodes that have a name in a label's place *)
Place(l) ==
    IF l = "lib" THEN Firmware
    ELSE IF l = "usr" THEN Build
    ELSE IF l = "modules_dep" THEN ModulesFiles
    ELSE Inodes

(* Only a deleted inode is without a label, and no label is wrong. *)
Fits(i, l) ==
    \/ l \in {"lib", "usr", "modules_dep", "modules_object"} /\ i \in Place(l)
    \/ l = "none" /\ Kind(i) = "deleted"

ScanLabels ==
    status = "scan" => \A i \in Inodes :
        label[i] = IF i \in scan \/ Kind(i) = "deleted" THEN "none" ELSE "modules_object"
FitInv == status \in {"walk", "ok"} => \A i \in Inodes : Fits(i, label[i])

(* An iteration gives labels that fit its directory. *)
FrameFits(f) ==
    /\ f.callback # "root" => f.dir # Root
    /\ f.callback = "relabel" => f.label \in {"lib", "usr"} /\ f.dir \in Place(f.label)
    /\ \/ f.after = "none"
       \/ f.after = "lib" /\ f.callback = "relabel" /\ f.dir \in Firmware
       \/ f.after = "modules_object" /\ f.callback = "dir" /\ f.dir \in RootOthers
FramesFit(st) == \A k \in 1..Len(st) : FrameFits(st[k])
FramesInv == FramesFit(stack)

(* An inode has another label than that of the modules, or the root has a  *)
(* name for it; that remains so.                                           *)
Settled(lab, i) == lab[i] # "modules_object" \/ i \in RootOthers

(* The walk is below a directory; it will give a directory its label.      *)
Running(st, d) == \E k \in 1..Len(st) : st[k].callback = "relabel" /\ st[k].dir = d
Awaits(st, d) == \E k \in 1..Len(st) : st[k].after = "lib" /\ st[k].dir = d
Reached(lab, st, d) == lab[d] # "modules_object" \/ Running(st, d)

FirmwareEntries == {e \in Entries(Root) : Matches(e.name, "firmware") /\ e.name \notin Dots}
NamedEntries(d) == {x \in Entries(d) : x.name \in Modules \cup {"build"}}

KernelSettled ==
    \A e \in KernelEntries : \A x \in NamedEntries(e.to) :
        Settled(label, x.to) \/ Waiting(stack, "root", e) \/ Waiting(stack, "dir", x)
FirmwareSettled ==
    \A e \in FirmwareEntries :
        Settled(label, e.to) \/ Waiting(stack, "root", e) \/ Awaits(stack, e.to)
(* What is in a directory that the walk has reached *)
BelowSettled ==
    \A x \in tree.entries :
        x.name \notin Dots /\ x.dir # Root /\ Reached(label, stack, x.dir)
            => Settled(label, x.to) \/ Waiting(stack, "relabel", x)
SettledInv ==
    status \in {"walk", "ok"} =>
        label[Root] = "modules_object" /\ KernelSettled /\ FirmwareSettled /\ BelowSettled

LabelInv ==
    /\ label \in [Inodes -> LabelNames]
    /\ ScanLabels /\ FitInv /\ FramesInv /\ SettledInv

-----------------------------------------------------------------------------
(* The places *)

(* The image does not change, and so neither do the places. *)
LEMMA PlacesStay ==
    ASSUME tree' = tree
    PROVE  /\ Firmware' = Firmware /\ Build' = Build /\ ModulesFiles' = ModulesFiles
           /\ RootOthers' = RootOthers
           /\ KernelEntries' = KernelEntries /\ FirmwareEntries' = FirmwareEntries
<1>1. \A d : Entries(d)' = Entries(d)
  BY DEF Entries
<1>2. \A n : RootNamed(n)' = RootNamed(n)
  BY <1>1 DEF RootNamed
<1>3. \A n : InKernel(n)' = InKernel(n)
  BY <1>1, <1>2 DEF InKernel
<1>4. \A s : Closed(s)' = Closed(s)
  BY DEF Closed
<1>5. \A d : Below(d)' = Below(d)
  BY <1>4 DEF Below
<1>6. Firmware' = Firmware
  BY <1>2, <1>5 DEF Firmware
<1>7. Build' = Build
  BY <1>3, <1>5 DEF Build
<1>8. RootOthers' = RootOthers
  BY <1>1 DEF RootOthers
<1>9. KernelEntries' = KernelEntries
  BY <1>1 DEF KernelEntries
<1>10. FirmwareEntries' = FirmwareEntries
  BY <1>1 DEF FirmwareEntries
<1> QED
  BY <1>3, <1>6, <1>7, <1>8, <1>9, <1>10 DEF ModulesFiles

(* A directory is below itself, and with a directory all that is in it.    *)
LEMMA BelowFacts ==
    ASSUME TypeInv, NEW d \in Inodes
    PROVE  /\ d \in Below(d) /\ Below(d) \subseteq Inodes
           /\ \A x \in tree.entries : x.dir \in Below(d) /\ x.name \notin Dots => x.to \in Below(d)
           /\ \A s \in SUBSET Inodes : d \in s /\ Closed(s) => Below(d) \subseteq s
<1>1. d \in Below(d) /\ Below(d) \subseteq Inodes
  BY DEF Below
<1>2. ASSUME NEW x \in tree.entries, x.dir \in Below(d), x.name \notin Dots
      PROVE  x.to \in Below(d)
  <2> SUFFICES ASSUME NEW s \in SUBSET Inodes, d \in s, Closed(s)
               PROVE  x.to \in s
    BY <1>2, TreeFacts DEF Below
  <2>1. x.dir \in s
    BY <1>2 DEF Below
  <2> QED
    BY <1>2, <2>1 DEF Closed
<1>3. \A s \in SUBSET Inodes : d \in s /\ Closed(s) => Below(d) \subseteq s
  BY DEF Below
<1> QED
  BY <1>1, <1>2, <1>3

(* Which names lead to which place *)
LEMMA PlaceFacts ==
    ASSUME TypeInv
    PROVE  /\ \A e \in FirmwareEntries : e.to \in Firmware
           /\ \A e \in KernelEntries : e.to \in RootOthers
           /\ \A e \in Entries(Root) :
                 e.name \notin Dots /\ ~Matches(e.name, "firmware") => e.to \in RootOthers
           /\ \A d \in RootNamed(uname) : \A x \in Entries(d) :
                 /\ x.name = "build" => x.to \in Build
                 /\ x.name \in Modules => x.to \in ModulesFiles
           /\ \A l \in {"lib", "usr"} : \A x \in tree.entries :
                 x.dir \in Place(l) /\ x.name \notin Dots => x.to \in Place(l)
           /\ Root \notin RootOthers
<1>1. \A n : \A d \in RootNamed(n) : d \in Inodes
  BY TreeFacts DEF RootNamed, Entries
<1>2. \A n : \A d \in InKernel(n) : d \in Inodes
  BY TreeFacts DEF InKernel, Entries
<1>3. \A e \in FirmwareEntries : e.to \in Firmware
  <2> TAKE e \in FirmwareEntries
  <2>1. e.to \in RootNamed("firmware")
    BY DEF FirmwareEntries, RootNamed
  <2> QED
    BY <1>1, <2>1, BelowFacts DEF Firmware
<1>4. \A e \in Entries(Root) :
         e.name \notin Dots /\ ~Matches(e.name, "firmware") => e.to \in RootOthers
  BY DEF RootOthers
<1>5. \A e \in KernelEntries : e.to \in RootOthers
  BY <1>4, TreeFacts DEF KernelEntries, Entries
<1>6. ASSUME NEW d \in RootNamed(uname), NEW x \in Entries(d)
      PROVE  /\ x.name = "build" => x.to \in Build
             /\ x.name \in Modules => x.to \in ModulesFiles
  <2>1. ASSUME NEW n, x.name \in n
        PROVE  x.to \in InKernel(n)
    BY <1>6, <2>1 DEF InKernel
  <2>2. x.name \in Modules => x.to \in ModulesFiles
    BY <2>1 DEF ModulesFiles
  <2>3. ASSUME x.name = "build"
        PROVE  x.to \in Build
    <3>1. x.to \in InKernel({"build"})
      BY <2>1, <2>3
    <3> QED
      BY <1>2, <3>1, BelowFacts DEF Build
  <2> QED
    BY <2>2, <2>3
<1>7. ASSUME NEW l \in {"lib", "usr"}, NEW x \in tree.entries,
             x.dir \in Place(l), x.name \notin Dots
      PROVE  x.to \in Place(l)
  <2>1. CASE l = "lib"
    <3>1. PICK d \in RootNamed("firmware") : x.dir \in Below(d)
      BY <1>7, <2>1 DEF Place, Firmware
    <3> QED
      BY <1>1, <1>7, <2>1, <3>1, BelowFacts DEF Place, Firmware
  <2>2. CASE l = "usr"
    <3>1. PICK d \in InKernel({"build"}) : x.dir \in Below(d)
      BY <1>7, <2>2 DEF Place, Build
    <3> QED
      BY <1>2, <1>7, <2>2, <3>1, BelowFacts DEF Place, Build
  <2> QED
    BY <2>1, <2>2
<1>8. Root \notin RootOthers
  BY TreeFacts DEF RootOthers, Entries
<1> QED
  BY <1>3, <1>4, <1>5, <1>6, <1>7, <1>8

-----------------------------------------------------------------------------
(* The iterations and their labels *)

(* Dealing with an entry leaves the iteration otherwise alone.             *)
LEMMA DoneFrames ==
    ASSUME TypeInv, FramesInv, stack # <<>>, NEW e, NEW st, st = Done(e)
    PROVE  /\ FramesFit(st) /\ FrameFits(Top)
           /\ \A d : Running(st, d) = Running(stack, d) /\ Awaits(st, d) = Awaits(stack, d)
<1>1. /\ Len(st) = Len(stack) /\ Len(st) \in Nat /\ Len(st) >= 1
      /\ st[1].dir = stack[1].dir /\ st[1].callback = stack[1].callback
      /\ st[1].label = stack[1].label /\ st[1].after = stack[1].after
      /\ \A k \in 2..Len(stack) : st[k] = stack[k]
      /\ Top = stack[1]
  BY DoneFacts
<1>2. \A k \in 1..Len(stack) :
         /\ st[k].dir = stack[k].dir /\ st[k].callback = stack[k].callback
         /\ st[k].label = stack[k].label /\ st[k].after = stack[k].after
  BY <1>1
<1>3. FramesFit(st)
  BY <1>1, <1>2 DEF FramesInv, FramesFit, FrameFits
<1>4. FrameFits(Top)
  <2>1. 1 \in 1..Len(stack)
    BY <1>1
  <2> QED
    BY <1>1, <2>1 DEF FramesInv, FramesFit
<1> QED
  BY <1>1, <1>2, <1>3, <1>4 DEF Running, Awaits

(* A new iteration, on top of the others                                   *)
LEMMA PushFrames ==
    ASSUME NEW s \in Seq(Frames), FramesFit(s), NEW g \in Frames, FrameFits(g),
           NEW st, st = <<g>> \o s
    PROVE  /\ FramesFit(st)
           /\ \A d : Running(st, d) => Running(s, d) \/ (g.callback = "relabel" /\ g.dir = d)
           /\ \A d : Awaits(s, d) => Awaits(st, d)
           /\ g.after = "lib" => Awaits(st, g.dir)
<1>1. /\ st \in Seq(Frames) /\ Len(st) = Len(s) + 1 /\ Len(s) \in Nat
      /\ st[1] = g
      /\ \A k \in 1..Len(s) : st[k + 1] = s[k]
  OBVIOUS
<1>2. ASSUME NEW k \in 1..Len(st), k # 1
      PROVE  \E j \in 1..Len(s) : k = j + 1 /\ st[k] = s[j]
  <2>1. k - 1 \in 1..Len(s) /\ k = (k - 1) + 1
    BY <1>1, <1>2
  <2> QED
    BY <1>1, <2>1
<1>3. FramesFit(st)
  BY <1>1, <1>2 DEF FramesFit
<1>4. ASSUME NEW d, Running(st, d)
      PROVE  Running(s, d) \/ (g.callback = "relabel" /\ g.dir = d)
  BY <1>1, <1>2, <1>4 DEF Running
<1>5. ASSUME NEW d, Awaits(s, d)
      PROVE  Awaits(st, d)
  <2>1. PICK k \in 1..Len(s) : s[k].after = "lib" /\ s[k].dir = d
    BY <1>5 DEF Awaits
  <2>2. k + 1 \in 1..Len(st)
    BY <1>1
  <2> QED
    BY <1>1, <2>1, <2>2 DEF Awaits
<1>6. g.after = "lib" => Awaits(st, g.dir)
  <2>1. 1 \in 1..Len(st)
    BY <1>1
  <2> QED
    BY <1>1, <2>1 DEF Awaits
<1> QED
  BY <1>3, <1>4, <1>5, <1>6

(* The innermost iteration ends.                                           *)
LEMMA PopFrames ==
    ASSUME TypeInv, FramesInv, stack # <<>>, NEW st, st = Tail(stack)
    PROVE  /\ FramesFit(st) /\ FrameFits(Top)
           /\ \A d : Running(st, d) => Running(stack, d)
           /\ \A d : Awaits(stack, d) => Awaits(st, d) \/ (Top.after = "lib" /\ Top.dir = d)
           /\ Top.callback = "relabel" => Running(stack, Top.dir)
<1>1. stack \in Seq(Frames) /\ Len(stack) \in Nat /\ Len(stack) >= 1 /\ Top = stack[1]
  BY DEF TypeInv, Top
<1>2. Len(st) = Len(stack) - 1 /\ \A k \in 1..(Len(stack) - 1) : st[k] = stack[k + 1]
  BY <1>1
<1>3. ASSUME NEW k \in 1..Len(st)
      PROVE  k + 1 \in 1..Len(stack) /\ st[k] = stack[k + 1]
  BY <1>1, <1>2
<1>4. FramesFit(st)
  BY <1>3 DEF FramesInv, FramesFit
<1>5. 1 \in 1..Len(stack)
  BY <1>1
<1>6. FrameFits(Top) /\ (Top.callback = "relabel" => Running(stack, Top.dir))
  BY <1>1, <1>5 DEF FramesInv, FramesFit, Running
<1>7. ASSUME NEW d, Running(st, d)
      PROVE  Running(stack, d)
  BY <1>3, <1>7 DEF Running
<1>8. ASSUME NEW d, Awaits(stack, d)
      PROVE  Awaits(st, d) \/ (Top.after = "lib" /\ Top.dir = d)
  <2>1. PICK k \in 1..Len(stack) : stack[k].after = "lib" /\ stack[k].dir = d
    BY <1>8 DEF Awaits
  <2>2. CASE k = 1
    BY <1>1, <2>1, <2>2
  <2>3. CASE k # 1
    <3>1. k - 1 \in 1..Len(st) /\ st[k - 1] = stack[k]
      BY <1>1, <1>2, <2>1, <2>3
    <3> QED
      BY <2>1, <3>1 DEF Awaits
  <2> QED
    BY <2>2, <2>3
<1> QED
  BY <1>4, <1>6, <1>7, <1>8

-----------------------------------------------------------------------------
(* Every step keeps the invariant of the labels. *)

(* What a step of the walk may do to the labels and to what waits          *)
LEMMA LabelStep ==
    ASSUME TypeInv, LabelInv, status = "walk", status' \in {"walk", "ok"}, tree' = tree,
           NEW st, stack' = st, FramesFit(st),
           NEW lab \in [Inodes -> LabelNames], label' = lab, lab[Root] = label[Root],
           \A i \in Inodes : \/ lab[i] = label[i]
                             \/ Fits(i, lab[i]) /\ Settled(lab, i),
           \A e \in KernelEntries : Waiting(stack, "root", e) =>
               Waiting(st, "root", e) \/ \A x \in NamedEntries(e.to) : Waiting(st, "dir", x),
           \A x \in tree.entries :
               x.name \in Modules \cup {"build"} /\ Waiting(stack, "dir", x) =>
                   Waiting(st, "dir", x) \/ Settled(lab, x.to),
           \A e \in FirmwareEntries : Waiting(stack, "root", e) =>
               Waiting(st, "root", e) \/ Awaits(st, e.to),
           \A d \in Inodes : Awaits(stack, d) => Awaits(st, d) \/ Settled(lab, d),
           \A x \in tree.entries : x.name \notin Dots /\ Waiting(stack, "relabel", x) =>
               Waiting(st, "relabel", x) \/ Settled(lab, x.to),
           \A d \in Inodes : Reached(lab, st, d) =>
               \/ Reached(label, stack, d)
               \/ Kind(d) # "dir"
               \/ \A x \in Entries(d) : Waiting(st, "relabel", x)
    PROVE  LabelInv'
<1>1. /\ Firmware' = Firmware /\ Build' = Build /\ ModulesFiles' = ModulesFiles
      /\ RootOthers' = RootOthers
      /\ KernelEntries' = KernelEntries /\ FirmwareEntries' = FirmwareEntries
  BY PlacesStay
<1>2. label' \in [Inodes -> LabelNames] /\ ScanLabels'
  BY DEF ScanLabels
<1>3. FitInv'
  <2> SUFFICES ASSUME NEW i \in Inodes
               PROVE  Fits(i, lab[i])'
    BY DEF FitInv
  <2>1. Fits(i, lab[i])
    BY DEF LabelInv, FitInv
  <2> QED
    BY <1>1, <2>1 DEF Fits, Place, Kind
<1>4. FramesInv'
  BY <1>1 DEF FramesInv, FramesFit, FrameFits, Place
<1>5. \A i \in Inodes : Settled(label, i) => Settled(lab, i)
  BY DEF Settled
<1>6. /\ label[Root] = "modules_object"
      /\ KernelSettled /\ FirmwareSettled /\ BelowSettled
  BY DEF LabelInv, SettledInv
<1>7. \A i : Settled(lab, i)' = Settled(lab, i)
  BY <1>1 DEF Settled
<1>8. KernelSettled'
  <2> SUFFICES ASSUME NEW e \in KernelEntries, NEW x \in NamedEntries(e.to)
               PROVE  Settled(lab, x.to) \/ Waiting(st, "root", e) \/ Waiting(st, "dir", x)
    BY <1>1, <1>7 DEF KernelSettled, NamedEntries, Entries, Waiting, Settled
  <2>1. x \in tree.entries /\ x.name \in Modules \cup {"build"} /\ x.to \in Inodes
    BY TreeFacts DEF NamedEntries, Entries
  <2>2. Settled(label, x.to) \/ Waiting(stack, "root", e) \/ Waiting(stack, "dir", x)
    BY <1>6 DEF KernelSettled
  <2> QED
    BY <1>5, <2>1, <2>2
<1>9. FirmwareSettled'
  <2> SUFFICES ASSUME NEW e \in FirmwareEntries
               PROVE  Settled(lab, e.to) \/ Waiting(st, "root", e) \/ Awaits(st, e.to)
    BY <1>1, <1>7 DEF FirmwareSettled, Waiting, Awaits, Settled
  <2>1. e.to \in Inodes
    BY TreeFacts DEF FirmwareEntries, Entries
  <2>2. Settled(label, e.to) \/ Waiting(stack, "root", e) \/ Awaits(stack, e.to)
    BY <1>6 DEF FirmwareSettled
  <2> QED
    BY <1>5, <2>1, <2>2
<1>10. BelowSettled'
  <2> SUFFICES ASSUME NEW x \in tree.entries, x.name \notin Dots, x.dir # Root,
                      Reached(lab, st, x.dir)
               PROVE  Settled(lab, x.to) \/ Waiting(st, "relabel", x)
    BY <1>1, <1>7 DEF BelowSettled, Waiting, Reached, Running, Settled
  <2>1. x.to \in Inodes /\ x.dir \in Inodes /\ Kind(x.dir) = "dir" /\ x \in Entries(x.dir)
    BY TreeFacts DEF Entries
  <2>2. CASE Reached(label, stack, x.dir)
    <3>1. Settled(label, x.to) \/ Waiting(stack, "relabel", x)
      BY <1>6, <2>2 DEF BelowSettled
    <3> QED
      BY <1>5, <2>1, <3>1
  <2> QED
    BY <2>1, <2>2
<1> QED
  BY <1>2, <1>3, <1>4, <1>6, <1>8, <1>9, <1>10 DEF LabelInv, SettledInv

(* process_dirent() gives one inode its label.                             *)
Gives(lab, i, l) == lab = [label EXCEPT ![i] = l]

(* The label of that inode fits, and the other labels stay.                *)
LEMMA GivesLabel ==
    ASSUME TypeInv, LabelInv, NEW i \in Inodes, NEW l \in LabelNames,
           NEW lab, Gives(lab, i, l),
           i # Root, Fits(i, l), l = "modules_object" => i \in RootOthers
    PROVE  /\ lab \in [Inodes -> LabelNames] /\ lab[Root] = label[Root] /\ lab[i] = l
           /\ \A j \in Inodes \ {i} : lab[j] = label[j]
           /\ \A j \in Inodes : lab[j] = label[j] \/ (Fits(j, lab[j]) /\ Settled(lab, j))
           /\ Settled(lab, i)
<1>1. lab \in [Inodes -> LabelNames] /\ lab[i] = l /\ \A j \in Inodes \ {i} : lab[j] = label[j]
  BY DEF LabelInv, Gives
<1>2. Settled(lab, i)
  BY <1>1 DEF Settled
<1>3. Root \in Inodes
  BY TreeFacts
<1> QED
  BY <1>1, <1>2, <1>3

(* What the labels of a step of the walk may do that gives one inode a     *)
(* label and leaves the iterations that run as they are, but for one name  *)
(* that was dealt with                                                     *)
LEMMA KeepsLabels ==
    ASSUME TypeInv, LabelInv, status = "walk", status' = "walk", tree' = tree,
           NEW e \in tree.entries, stack # <<>>, NEW s, s = Done(e), stack' = s,
           NEW lab \in [Inodes -> LabelNames], label' = lab, lab[Root] = label[Root],
           \A i \in Inodes : \/ lab[i] = label[i]
                             \/ Fits(i, lab[i]) /\ Settled(lab, i),
           \A c, x : Waiting(stack, c, x) => Waiting(s, c, x) \/ (x = e /\ c = Top.callback),
           Top.callback = "root" => e \notin KernelEntries \cup FirmwareEntries,
           Top.callback = "dir" /\ e.name \in Modules \cup {"build"} => Settled(lab, e.to),
           Top.callback = "relabel" /\ e.name \notin Dots => Settled(lab, e.to),
           \A d \in Inodes : Kind(d) = "dir" /\ lab[d] # "modules_object"
                                 => label[d] # "modules_object"
    PROVE  LabelInv'
<1>1. /\ FramesFit(s)
      /\ \A d : Running(s, d) = Running(stack, d) /\ Awaits(s, d) = Awaits(stack, d)
  BY DoneFrames DEF LabelInv
<1>2. \A d \in Inodes : Reached(lab, s, d) => Reached(label, stack, d) \/ Kind(d) # "dir"
  BY <1>1 DEF Reached
<1>3. \A d \in Inodes : Awaits(stack, d) => Awaits(s, d)
  BY <1>1
<1>4. \A f \in KernelEntries \cup FirmwareEntries :
         Waiting(stack, "root", f) => Waiting(s, "root", f)
  OBVIOUS
<1>5. \A x \in tree.entries :
         x.name \in Modules \cup {"build"} /\ Waiting(stack, "dir", x) =>
             Waiting(s, "dir", x) \/ Settled(lab, x.to)
  OBVIOUS
<1>6. \A x \in tree.entries : x.name \notin Dots /\ Waiting(stack, "relabel", x) =>
         Waiting(s, "relabel", x) \/ Settled(lab, x.to)
  OBVIOUS
<1> QED
  BY <1>1, <1>2, <1>3, <1>4, <1>5, <1>6, LabelStep

(* No inode gets a label.                                                  *)
LEMMA NoLabel ==
    ASSUME LabelInv, NEW lab, lab = label
    PROVE  /\ lab \in [Inodes -> LabelNames]
           /\ \A i \in Inodes : lab[i] = label[i]
  BY DEF LabelInv

(* A directory below firmware or build: what is in it gets its label, and  *)
(* when it is a directory, what is in it waits.                            *)
LEMMA RelabelLabels ==
    ASSUME GenfsInv, LabelInv, NEW e \in tree.entries, recursive_relabel(e)
    PROVE  LabelInv'
<1>1. /\ status = "walk" /\ status' = "walk" /\ stack # <<>> /\ Top.callback = "relabel"
      /\ e \in Top.left /\ tree' = tree
  BY DEF recursive_relabel, InCallback
<1>2. e.to \in Inodes /\ TypeInv /\ StackInv /\ FramesInv
  BY TreeFacts DEF GenfsInv, LabelInv
<1>3. PICK s : s = Done(e)
  OBVIOUS
<1>4. /\ s \in Seq(Frames)
      /\ \A c, x : Waiting(stack, c, x) => Waiting(s, c, x) \/ (x = e /\ c = Top.callback)
      /\ StackOk(s)
  BY <1>1, <1>2, <1>3, DoneKeeps
<1>5. /\ FramesFit(s) /\ FrameFits(Top)
      /\ \A d : Running(s, d) = Running(stack, d) /\ Awaits(s, d) = Awaits(stack, d)
  BY <1>1, <1>2, <1>3, DoneFrames
<1>6. PICK lab : lab = label'
  OBVIOUS
<1>7. CASE ~Followed(e)
  <2>1. lab = label /\ stack' = s
    BY <1>3, <1>6, <1>7 DEF recursive_relabel, NoDirent
  <2>2. e.name \in Dots
    BY <1>7 DEF Followed
  <2>3. /\ lab \in [Inodes -> LabelNames] /\ lab[Root] = label[Root]
        /\ \A i \in Inodes : lab[i] = label[i]
    BY <2>1, NoLabel
  <2> QED
    BY <1>1, <1>2, <1>3, <1>4, <1>6, <2>1, <2>2, <2>3, KeepsLabels
<1>8. CASE Followed(e)
  <2>1. PICK l : l = Top.label
    OBVIOUS
  <2>2. Gives(lab, e.to, l)
    BY <1>6, <1>8, <2>1 DEF recursive_relabel, process_dirent, Gives
  <2>3. e.name \notin Dots /\ e.to # Root
    BY <1>2, <1>8, TreeFacts DEF Followed
  <2>4. Top = stack[1] /\ 1 \in 1..Len(stack)
    BY <1>1, <1>2 DEF TypeInv, Top
  <2>5. e.dir = Top.dir
    BY <1>1, <1>2, <2>4 DEF StackInv, StackOk
  <2>6. l \in {"lib", "usr"} /\ e.to \in Place(l)
    BY <1>1, <1>2, <1>5, <2>1, <2>3, <2>5, PlaceFacts DEF FrameFits
  <2>7. Fits(e.to, l) /\ l \in LabelNames /\ l # "modules_object"
    BY <2>6 DEF Fits, LabelNames
  <2>8. /\ lab \in [Inodes -> LabelNames] /\ lab[Root] = label[Root]
        /\ \A j \in Inodes \ {e.to} : lab[j] = label[j]
        /\ \A j \in Inodes : lab[j] = label[j] \/ (Fits(j, lab[j]) /\ Settled(lab, j))
        /\ Settled(lab, e.to)
    BY <1>2, <2>2, <2>3, <2>7, GivesLabel
  <2>9. CASE Kind(e.to) # "dir"
    <3>1. stack' = s
      BY <1>3, <1>8, <2>9 DEF recursive_relabel
    <3>2. \A d \in Inodes : Kind(d) = "dir" /\ lab[d] # "modules_object"
                                 => label[d] # "modules_object"
      BY <2>8, <2>9
    <3> QED
      BY <1>1, <1>2, <1>3, <1>4, <1>6, <2>8, <3>1, <3>2, KeepsLabels
  <2>10. CASE Kind(e.to) = "dir"
    <3>1. PICK g : g = Iterate(e.to, "relabel", l, "none")
      OBVIOUS
    <3>2. PICK st : st = stack'
      OBVIOUS
    <3>3. st = <<g>> \o s
      BY <1>3, <1>8, <2>1, <2>10, <3>1, <3>2 DEF recursive_relabel
    <3>4. g \in Frames /\ g.dir = e.to /\ g.callback = "relabel" /\ g.left = Entries(e.to)
          /\ g.label = l /\ g.after = "none"
      BY <1>2, <2>6, <3>1 DEF Iterate, Frames, Entries, Labels
    <3>5. FrameFits(g)
      BY <2>3, <2>6, <3>4 DEF FrameFits
    <3>6. /\ FramesFit(st)
          /\ \A d : Running(st, d) => Running(s, d) \/ g.dir = d
          /\ \A d : Awaits(s, d) => Awaits(st, d)
      <4>1. /\ FramesFit(st)
            /\ \A d : Running(st, d) => Running(s, d) \/ (g.callback = "relabel" /\ g.dir = d)
            /\ \A d : Awaits(s, d) => Awaits(st, d)
        <5>1. s \in Seq(Frames) /\ FramesFit(s) /\ g \in Frames /\ FrameFits(g) /\ st = <<g>> \o s
          BY <1>4, <1>5, <3>3, <3>4, <3>5
        <5> QED
          BY ONLY <5>1, PushFrames
      <4> QED
        BY <4>1
    <3>7. /\ \A c, x : Waiting(s, c, x) => Waiting(st, c, x)
          /\ \A x \in g.left : Waiting(st, "relabel", x)
      <4>1. /\ \A c, x : Waiting(s, c, x) => Waiting(st, c, x)
            /\ \A x \in g.left : Waiting(st, g.callback, x)
        <5>1. /\ g.left = Entries(g.dir) /\ g.callback # "root" /\ g.callback # "dir"
          BY <3>4
        <5> QED
          BY <1>4, <3>3, <3>4, <5>1, PushKeeps
      <4> QED
        BY <3>4, <4>1
    <3>8. \A d \in Inodes : Reached(lab, st, d) =>
             Reached(label, stack, d) \/ \A x \in Entries(d) : Waiting(st, "relabel", x)
      <4> SUFFICES ASSUME NEW d \in Inodes, Reached(lab, st, d), ~Reached(label, stack, d)
                   PROVE  \A x \in Entries(d) : Waiting(st, "relabel", x)
        OBVIOUS
      <4>1. d = e.to
        BY <1>5, <2>8, <3>4, <3>6 DEF Reached
      <4> QED
        BY <3>4, <3>7, <4>1
    <3>9. \A x : x # e /\ Waiting(stack, "relabel", x) => Waiting(st, "relabel", x)
      BY <1>4, <3>7
    <3>10. \A c \in {"root", "dir"} : \A x : Waiting(stack, c, x) => Waiting(st, c, x)
      BY <1>1, <1>4, <3>7
    <3>11. \A d : Awaits(stack, d) => Awaits(st, d)
      BY <1>5, <3>6
    <3> QED
      BY <1>1, <1>2, <1>6, <2>8, <3>2, <3>6, <3>8, <3>9, <3>10, <3>11, LabelStep
  <2> QED
    BY <2>9, <2>10
<1> QED
  BY <1>7, <1>8

(* An iteration ends: the directory of firmware or of the kernel gets its  *)
(* label.                                                                  *)
LEMMA IterateEndsLabels ==
    ASSUME GenfsInv, LabelInv, IterateEnds
    PROVE  LabelInv'
<1>1. /\ status = "walk" /\ stack # <<>> /\ Top.left = {} /\ stack' = Tail(stack)
      /\ status' \in {"walk", "ok"} /\ tree' = tree
      /\ TypeInv /\ StackInv /\ FramesInv
  BY DEF IterateEnds, GenfsInv, LabelInv
<1>2. PICK st : st = stack'
  OBVIOUS
<1>3. \A b, x : Waiting(stack, b, x) => Waiting(st, b, x)
  BY <1>1, <1>2, PopKeeps
<1>4. /\ FramesFit(st) /\ FrameFits(Top)
      /\ \A d : Running(st, d) => Running(stack, d)
      /\ \A d : Awaits(stack, d) => Awaits(st, d) \/ (Top.after = "lib" /\ Top.dir = d)
      /\ Top.callback = "relabel" => Running(stack, Top.dir)
  BY <1>1, <1>2, PopFrames
<1>5. PICK lab : lab = label'
  OBVIOUS
<1>6. Top.dir \in Inodes
  BY <1>1, TopFrame DEF Frames
<1>7. CASE Top.after = "none"
  <2>1. lab = label
    BY <1>5, <1>7 DEF IterateEnds, NoDirent
  <2>2. /\ lab \in [Inodes -> LabelNames] /\ lab[Root] = label[Root]
        /\ \A i \in Inodes : lab[i] = label[i]
    BY <2>1, NoLabel
  <2>3. \A d \in Inodes : Reached(lab, st, d) => Reached(label, stack, d)
    BY <1>4, <2>1 DEF Reached
  <2> QED
    BY <1>1, <1>2, <1>3, <1>4, <1>5, <1>7, <2>2, <2>3, LabelStep
<1>8. CASE Top.after # "none"
  <2>1. PICK i \in Inodes : i = Top.dir
    BY <1>6
  <2>2. PICK l : l = Top.after
    OBVIOUS
  <2>3. Gives(lab, i, l)
    BY <1>5, <1>8, <2>1, <2>2 DEF IterateEnds, process_dirent, Gives
  <2>4. \/ l = "lib" /\ Top.callback = "relabel" /\ i \in Firmware /\ i # Root
        \/ l = "modules_object" /\ i \in RootOthers /\ i # Root
    BY <1>4, <1>8, <2>1, <2>2 DEF FrameFits
  <2>5. Fits(i, l) /\ l \in LabelNames /\ i # Root /\ (l = "modules_object" => i \in RootOthers)
    BY <2>4 DEF Fits, LabelNames, Place
  <2>6. /\ lab \in [Inodes -> LabelNames] /\ lab[Root] = label[Root] /\ lab[i] = l
        /\ \A j \in Inodes \ {i} : lab[j] = label[j]
        /\ \A j \in Inodes : lab[j] = label[j] \/ (Fits(j, lab[j]) /\ Settled(lab, j))
        /\ Settled(lab, i)
    BY <1>1, <2>3, <2>5, GivesLabel
  <2>7. \A d \in Inodes : Reached(lab, st, d) => Reached(label, stack, d)
    <3> SUFFICES ASSUME NEW d \in Inodes, Reached(lab, st, d)
                 PROVE  Reached(label, stack, d)
      OBVIOUS
    <3>1. CASE d = i /\ l = "lib"
      BY <1>4, <2>1, <2>4, <3>1 DEF Reached
    <3>2. CASE ~(d = i /\ l = "lib")
      BY <1>4, <2>4, <2>6, <3>2 DEF Reached
    <3> QED
      BY <3>1, <3>2
  <2>8. \A d \in Inodes : Awaits(stack, d) => Awaits(st, d) \/ Settled(lab, d)
    BY <1>4, <2>1, <2>6
  <2> QED
    BY <1>1, <1>2, <1>3, <1>4, <1>5, <2>6, <2>7, <2>8, LabelStep
<1> QED
  BY <1>7, <1>8

(* At most one inode gets a label, which fits.                             *)
OneLabel(lab, i) ==
    /\ lab \in [Inodes -> LabelNames] /\ lab[Root] = label[Root]
    /\ \A j \in Inodes \ {i} : lab[j] = label[j]
    /\ \A j \in Inodes : lab[j] = label[j] \/ (Fits(j, lab[j]) /\ Settled(lab, j))

(* What an iteration starts with when another one has dealt with a name    *)
LEMMA StartsLabels ==
    ASSUME TypeInv, LabelInv, StackInv, status = "walk", status' = "walk", tree' = tree,
           NEW e \in tree.entries, e \in Top.left, stack # <<>>, NEW s, s = Done(e),
           NEW g \in Frames, FrameFits(g), g.left = Entries(g.dir), g.dir = e.to,
           g.callback \in {"dir", "relabel"},
           g.callback = "dir" => g.dir \in RootNamed(uname),
           NEW st, st = <<g>> \o s, stack' = st,
           NEW lab, label' = lab, OneLabel(lab, e.to),
           lab[e.to] # label[e.to] => g.callback = "relabel",
           Top.callback \in {"root", "dir"},
           Top.callback = "root" /\ e \in KernelEntries => g.callback = "dir",
           Top.callback = "root" /\ e \in FirmwareEntries => g.after = "lib",
           Top.callback = "dir" => Settled(lab, e.to)
    PROVE  LabelInv'
<1>1. /\ s \in Seq(Frames) /\ StackOk(s)
      /\ \A c, x : Waiting(stack, c, x) => Waiting(s, c, x) \/ (x = e /\ c = Top.callback)
  BY DoneKeeps
<1>2. /\ FramesFit(s)
      /\ \A d : Running(s, d) = Running(stack, d) /\ Awaits(s, d) = Awaits(stack, d)
  BY DoneFrames DEF LabelInv
<1>3. /\ FramesFit(st)
      /\ \A d : Running(st, d) => Running(s, d) \/ (g.callback = "relabel" /\ g.dir = d)
      /\ \A d : Awaits(s, d) => Awaits(st, d)
      /\ g.after = "lib" => Awaits(st, g.dir)
  <2>1. s \in Seq(Frames) /\ FramesFit(s) /\ g \in Frames /\ FrameFits(g) /\ st = <<g>> \o s
    BY <1>1, <1>2
  <2> HIDE <1>1, <1>2
  <2> QED
    BY <2>1, PushFrames
<1>4. /\ \A c, x : Waiting(s, c, x) => Waiting(st, c, x)
      /\ \A x \in g.left : Waiting(st, g.callback, x)
  <2>1. g.callback # "root"
    OBVIOUS
  <2> QED
    BY <1>1, <2>1, PushKeeps
<1>5. \A d \in Inodes : Reached(lab, st, d) =>
         Reached(label, stack, d) \/ \A x \in Entries(d) : Waiting(st, "relabel", x)
  <2> SUFFICES ASSUME NEW d \in Inodes, Reached(lab, st, d), ~Reached(label, stack, d)
               PROVE  \A x \in Entries(d) : Waiting(st, "relabel", x)
    OBVIOUS
  <2>1. d = e.to /\ g.callback = "relabel"
    BY <1>2, <1>3 DEF Reached, OneLabel
  <2> QED
    BY <1>4, <2>1
<1>6. \A f \in KernelEntries : Waiting(stack, "root", f) =>
         Waiting(st, "root", f) \/ \A x \in NamedEntries(f.to) : Waiting(st, "dir", x)
  <2> SUFFICES ASSUME NEW f \in KernelEntries, Waiting(stack, "root", f), ~Waiting(st, "root", f)
               PROVE  \A x \in NamedEntries(f.to) : Waiting(st, "dir", x)
    OBVIOUS
  <2>1. f = e /\ Top.callback = "root"
    BY <1>1, <1>4
  <2> QED
    BY <1>4, <2>1 DEF NamedEntries
<1>7. \A f \in FirmwareEntries : Waiting(stack, "root", f) =>
         Waiting(st, "root", f) \/ Awaits(st, f.to)
  <2> SUFFICES ASSUME NEW f \in FirmwareEntries, Waiting(stack, "root", f),
                      ~Waiting(st, "root", f)
               PROVE  Awaits(st, f.to)
    OBVIOUS
  <2>1. f = e /\ Top.callback = "root"
    BY <1>1, <1>4
  <2> QED
    BY <1>3, <2>1
<1>8. \A x \in tree.entries : Waiting(stack, "dir", x) =>
         Waiting(st, "dir", x) \/ Settled(lab, x.to)
  <2> SUFFICES ASSUME NEW x \in tree.entries, Waiting(stack, "dir", x), ~Waiting(st, "dir", x)
               PROVE  Settled(lab, x.to)
    OBVIOUS
  <2>1. x = e /\ Top.callback = "dir"
    BY <1>1, <1>4
  <2> QED
    BY <2>1
<1>9. \A x : Waiting(stack, "relabel", x) => Waiting(st, "relabel", x)
  BY <1>1, <1>4
<1>10. \A d : Awaits(stack, d) => Awaits(st, d)
  BY <1>2, <1>3
<1> QED
  <2>1. /\ lab \in [Inodes -> LabelNames] /\ lab[Root] = label[Root]
        /\ \A i \in Inodes : lab[i] = label[i] \/ (Fits(i, lab[i]) /\ Settled(lab, i))
    BY DEF OneLabel
  <2> QED
    BY <1>3, <1>5, <1>6, <1>7, <1>8, <1>9, <1>10, <2>1, LabelStep

(* A call of the library that fails ends the program. *)
LEMMA ErrLabels ==
    ASSUME LabelInv, errx, tree' = tree
    PROVE  LabelInv'
<1>1. stack' = stack /\ label' = label /\ status' = "error"
  BY DEF errx
<1>2. Firmware' = Firmware /\ Build' = Build /\ ModulesFiles' = ModulesFiles
      /\ RootOthers' = RootOthers
  BY PlacesStay
<1>3. FramesInv'
  BY <1>1, <1>2 DEF LabelInv, FramesInv, FramesFit, FrameFits, Place
<1> QED
  BY <1>1, <1>3 DEF LabelInv, ScanLabels, FitInv, SettledInv

(* The root: the names of firmware and of the kernel's directory start     *)
(* iterations, and the other files keep the label of the modules.          *)
LEMMA RootLabels ==
    ASSUME GenfsInv, LabelInv, NEW e \in tree.entries, root_iterate_callback(e)
    PROVE  LabelInv'
<1>1. /\ status = "walk" /\ stack # <<>> /\ Top.callback = "root" /\ e \in Top.left
      /\ tree' = tree
  BY DEF root_iterate_callback, InCallback
<1>2. e.to \in Inodes /\ TypeInv /\ StackInv /\ e.dir = Root /\ e \in Entries(Root)
  <2>1. TypeInv /\ StackInv /\ e.to \in Inodes
    BY TreeFacts DEF GenfsInv
  <2>2. 1 \in 1..Len(stack) /\ Top = stack[1]
    BY <1>1, <2>1 DEF TypeInv, Top
  <2> QED
    BY <1>1, <2>1, <2>2 DEF StackInv, StackOk, Entries
<1>3. PICK s : s = Done(e)
  OBVIOUS
<1>4. \A c, x : Waiting(stack, c, x) => Waiting(s, c, x) \/ (x = e /\ c = Top.callback)
  BY <1>1, <1>2, <1>3, DoneKeeps
<1>5. PICK lab : lab = label'
  OBVIOUS
<1>6. CASE errx
  BY <1>1, <1>6, ErrLabels
<1>7. CASE e.name \in Dots
  <2>1. stack' = s /\ lab = label /\ status' = "walk"
    BY <1>1, <1>3, <1>5, <1>7 DEF root_iterate_callback, NoDirent
  <2>2. /\ lab \in [Inodes -> LabelNames] /\ lab[Root] = label[Root]
        /\ \A i \in Inodes : lab[i] = label[i]
    BY <2>1, NoLabel
  <2>3. e \notin KernelEntries \cup FirmwareEntries
    BY <1>7 DEF KernelEntries, FirmwareEntries
  <2> QED
    BY <1>1, <1>2, <1>3, <1>4, <1>5, <2>1, <2>2, <2>3, KeepsLabels
<1>8. CASE /\ e.name \notin Dots /\ ~errx
           /\ ~Matches(e.name, "firmware") /\ ~Matches(e.name, uname)
  <2>1. stack' = s /\ status' = "walk" /\ Gives(lab, e.to, "modules_object")
    BY <1>1, <1>3, <1>5, <1>8 DEF root_iterate_callback, process_dirent, Gives
  <2>2. e.to # Root /\ e.to \in RootOthers
    BY <1>2, <1>8, TreeFacts, PlaceFacts
  <2>3. Fits(e.to, "modules_object") /\ "modules_object" \in LabelNames
    BY <1>2 DEF Fits, Place, LabelNames
  <2>4. /\ lab \in [Inodes -> LabelNames] /\ lab[Root] = label[Root]
        /\ lab[e.to] = "modules_object"
        /\ \A j \in Inodes \ {e.to} : lab[j] = label[j]
        /\ \A j \in Inodes : lab[j] = label[j] \/ (Fits(j, lab[j]) /\ Settled(lab, j))
    BY <1>2, <2>1, <2>2, <2>3, GivesLabel
  <2>5. e \notin KernelEntries \cup FirmwareEntries
    BY <1>8 DEF KernelEntries, FirmwareEntries
  <2>6. \A d \in Inodes : lab[d] # "modules_object" => label[d] # "modules_object"
    BY <2>4
  <2> QED
    BY <1>1, <1>2, <1>3, <1>4, <1>5, <2>1, <2>4, <2>5, <2>6, KeepsLabels
<1>9. CASE /\ e.name \notin Dots /\ ~errx
           /\ Matches(e.name, "firmware") \/ Matches(e.name, uname)
  <2>1. PICK g : g = Iterate(e.to, IF Matches(e.name, "firmware") THEN "relabel" ELSE "dir",
                             RootLabel(e.name), RootLabel(e.name))
    OBVIOUS
  <2>2. PICK st : st = stack'
    OBVIOUS
  <2>3. st = <<g>> \o s /\ lab = label /\ status' = "walk"
    BY <1>1, <1>3, <1>5, <1>9, <2>1, <2>2 DEF root_iterate_callback, NoDirent
  <2>4. RootLabel(e.name) \in Labels
    BY DEF RootLabel, Labels
  <2>5. /\ g \in Frames /\ g.dir = e.to /\ g.left = Entries(g.dir)
        /\ g.callback = IF Matches(e.name, "firmware") THEN "relabel" ELSE "dir"
        /\ g.label = RootLabel(e.name) /\ g.after = RootLabel(e.name)
    BY <1>2, <2>1, <2>4 DEF Iterate, Frames, Entries
  <2>6. e.to # Root
    BY <1>2, <1>9, TreeFacts
  <2>7. CASE Matches(e.name, "firmware")
    <3>1. e \in FirmwareEntries /\ e \notin KernelEntries
      BY <1>2, <1>9, <2>7, TreeFacts DEF FirmwareEntries, KernelEntries
    <3>2. g.callback = "relabel" /\ g.label = "lib" /\ g.after = "lib" /\ g.dir \in Firmware
      BY <1>2, <2>5, <2>7, <3>1, PlaceFacts DEF RootLabel
    <3>3. FrameFits(g)
      BY <2>5, <2>6, <3>2 DEF FrameFits, Place
    <3>4. OneLabel(lab, e.to) /\ lab[e.to] = label[e.to]
      BY <2>3 DEF OneLabel, LabelInv
    <3> QED
      BY <1>1, <1>2, <1>3, <1>5, <2>2, <2>3, <2>5, <3>1, <3>2, <3>3, <3>4, StartsLabels
  <2>8. CASE ~Matches(e.name, "firmware")
    <3>1. e \notin FirmwareEntries /\ e \in KernelEntries
      BY <1>2, <1>9, <2>8 DEF FirmwareEntries, KernelEntries
    <3>2. /\ g.callback = "dir" /\ g.after = "modules_object" /\ g.dir \in RootOthers
          /\ g.dir \in RootNamed(uname)
      BY <1>2, <1>9, <2>5, <2>8, <3>1, PlaceFacts DEF RootLabel, RootNamed
    <3>3. FrameFits(g)
      BY <2>5, <2>6, <3>2 DEF FrameFits
    <3>4. OneLabel(lab, e.to) /\ lab[e.to] = label[e.to]
      BY <2>3 DEF OneLabel, LabelInv
    <3> QED
      BY <1>1, <1>2, <1>3, <1>5, <2>2, <2>3, <2>5, <3>1, <3>2, <3>3, <3>4, StartsLabels
  <2> QED
    BY <2>7, <2>8
<1> QED
  BY <1>6, <1>7, <1>8, <1>9

(* The kernel's directory: build starts an iteration below it, a modules.* *)
(* file gets its label, and nothing else matters.                          *)
LEMMA DirLabels ==
    ASSUME GenfsInv, LabelInv, NEW e \in tree.entries, dir_iterate_callback(e)
    PROVE  LabelInv'
<1>1. /\ status = "walk" /\ stack # <<>> /\ Top.callback = "dir" /\ e \in Top.left
      /\ tree' = tree
  BY DEF dir_iterate_callback, InCallback
<1>2. /\ e.to \in Inodes /\ TypeInv /\ StackInv /\ FramesInv
      /\ e.dir \in RootNamed(uname) /\ e \in Entries(e.dir) /\ e.dir # Root
  <2>1. TypeInv /\ StackInv /\ FramesInv /\ e.to \in Inodes
    BY TreeFacts DEF GenfsInv, LabelInv
  <2>2. 1 \in 1..Len(stack) /\ Top = stack[1]
    BY <1>1, <2>1 DEF TypeInv, Top
  <2>3. e.dir = Top.dir /\ e.dir \in RootNamed(uname)
    BY <1>1, <2>1, <2>2 DEF StackInv, StackOk
  <2>4. e.dir # Root
    BY <1>1, <2>1, <2>2, <2>3 DEF FramesInv, FramesFit, FrameFits
  <2> QED
    BY <2>1, <2>3, <2>4 DEF Entries
<1>3. PICK s : s = Done(e)
  OBVIOUS
<1>4. \A c, x : Waiting(stack, c, x) => Waiting(s, c, x) \/ (x = e /\ c = Top.callback)
  BY <1>1, <1>2, <1>3, DoneKeeps
<1>5. PICK lab : lab = label'
  OBVIOUS
<1>6. "build" \notin Modules
  BY GenfsAssumption
<1>7. CASE errx
  BY <1>1, <1>7, ErrLabels
<1>8. CASE e.name \notin Modules \cup {"build"}
  <2>1. stack' = s /\ lab = label /\ status' = "walk"
    BY <1>1, <1>3, <1>5, <1>8 DEF dir_iterate_callback, NoDirent
  <2>2. /\ lab \in [Inodes -> LabelNames] /\ lab[Root] = label[Root]
        /\ \A i \in Inodes : lab[i] = label[i]
    BY <2>1, NoLabel
  <2> QED
    BY <1>1, <1>2, <1>3, <1>4, <1>5, <1>8, <2>1, <2>2, KeepsLabels
<1>9. CASE e.name \in Modules /\ Kind(e.to) = "reg"
  <2>1. stack' = s /\ status' = "walk" /\ Gives(lab, e.to, "modules_dep")
    BY <1>1, <1>3, <1>5, <1>6, <1>9 DEF dir_iterate_callback, process_dirent, Gives
  <2>2. e.to \in ModulesFiles /\ e.to # Root
    BY <1>2, <1>9, PlaceFacts, TreeFacts DEF Kind
  <2>3. Fits(e.to, "modules_dep") /\ "modules_dep" \in LabelNames
    BY <2>2 DEF Fits, Place, LabelNames
  <2>4. /\ lab \in [Inodes -> LabelNames] /\ lab[Root] = label[Root]
        /\ \A j \in Inodes \ {e.to} : lab[j] = label[j]
        /\ \A j \in Inodes : lab[j] = label[j] \/ (Fits(j, lab[j]) /\ Settled(lab, j))
        /\ Settled(lab, e.to)
    BY <1>2, <2>1, <2>2, <2>3, GivesLabel
  <2>5. \A d \in Inodes : Kind(d) = "dir" /\ lab[d] # "modules_object"
                               => label[d] # "modules_object"
    BY <1>9, <2>4
  <2> QED
    BY <1>1, <1>2, <1>3, <1>4, <1>5, <2>1, <2>4, <2>5, KeepsLabels
<1>10. CASE e.name = "build" /\ Kind(e.to) = "dir"
  <2>1. PICK g : g = Iterate(e.to, "relabel", "usr", "none")
    OBVIOUS
  <2>2. PICK st : st = stack'
    OBVIOUS
  <2>3. st = <<g>> \o s /\ Gives(lab, e.to, "usr") /\ status' = "walk"
    BY <1>1, <1>3, <1>5, <1>10, <2>1, <2>2 DEF dir_iterate_callback, process_dirent, Gives
  <2>4. /\ g \in Frames /\ g.dir = e.to /\ g.left = Entries(g.dir)
        /\ g.callback = "relabel" /\ g.label = "usr" /\ g.after = "none"
    BY <1>2, <2>1 DEF Iterate, Frames, Entries, Labels
  <2>5. e.to \in Build /\ e.to # Root
    BY <1>2, <1>10, PlaceFacts, TreeFacts DEF Dots
  <2>6. FrameFits(g)
    BY <2>4, <2>5 DEF FrameFits, Place
  <2>7. Fits(e.to, "usr") /\ "usr" \in LabelNames
    BY <2>5 DEF Fits, Place, LabelNames
  <2>8. OneLabel(lab, e.to) /\ Settled(lab, e.to)
    BY <1>2, <2>3, <2>5, <2>7, GivesLabel DEF OneLabel
  <2> QED
    BY <1>1, <1>2, <1>3, <1>5, <2>2, <2>3, <2>4, <2>6, <2>8, StartsLabels
<1> QED
  <2>1. CASE e.name \in Modules \cup {"build"} /\ ~errx
    <3>1. CASE e.name = "build"
      BY <1>6, <1>10, <2>1, <3>1 DEF dir_iterate_callback
    <3>2. CASE e.name \in Modules
      BY <1>6, <1>9, <2>1, <3>2 DEF dir_iterate_callback
    <3> QED
      BY <2>1, <3>1, <3>2
  <2> QED
    BY <1>7, <1>8, <2>1

(* The next inode of the first pass gets the label of the modules.         *)
LEMMA ScanInodeLabels ==
    ASSUME GenfsInv, LabelInv, NEW i \in Inodes, ScanInode(i)
    PROVE  LabelInv'
<1>1. CASE Kind(i) \in {"other", "badmode"}
  BY <1>1, ErrLabels DEF ScanInode
<1>2. CASE Kind(i) \notin {"other", "badmode"}
  <2>1. /\ status = "scan" /\ i \in scan /\ scan' = scan \ {i} /\ stack' = stack
        /\ status' = status /\ tree' = tree
        /\ IF Kind(i) = "deleted" THEN label' = label
           ELSE label' = [label EXCEPT ![i] = "modules_object"]
    BY <1>2 DEF ScanInode
  <2>2. label \in [Inodes -> LabelNames]
        /\ \A j \in Inodes :
              label[j] = IF j \in scan \/ Kind(j) = "deleted" THEN "none" ELSE "modules_object"
    BY <2>1 DEF LabelInv, ScanLabels
  <2>3. label' \in [Inodes -> LabelNames]
    BY <2>1, <2>2 DEF LabelNames
  <2>4. ScanLabels'
    <3> SUFFICES ASSUME NEW j \in Inodes
                 PROVE  label'[j] = IF j \in scan' \/ Kind(j) = "deleted" THEN "none"
                                    ELSE "modules_object"
      BY <2>1 DEF ScanLabels, Kind
    <3>1. CASE j = i
      BY <2>1, <2>2, <3>1
    <3>2. CASE j # i
      BY <2>1, <2>2, <3>2
    <3> QED
      BY <3>1, <3>2
  <2>5. FramesInv'
    <3>1. Firmware' = Firmware /\ Build' = Build /\ ModulesFiles' = ModulesFiles
          /\ RootOthers' = RootOthers
      BY <2>1, PlacesStay
    <3> QED
      BY <2>1, <3>1 DEF LabelInv, FramesInv, FramesFit, FrameFits, Place
  <2> QED
    BY <2>1, <2>3, <2>4, <2>5 DEF LabelInv, FitInv, SettledInv
<1> QED
  BY <1>1, <1>2

(* The first pass is over: every inode that is not deleted has the label   *)
(* of the modules, and every name of the root waits.                       *)
LEMMA ScanEndsLabels ==
    ASSUME GenfsInv, LabelInv, ScanEnds
    PROVE  LabelInv'
<1>1. /\ status = "scan" /\ scan = {} /\ status' = "walk" /\ tree' = tree
      /\ label' = [label EXCEPT ![Root] = "modules_object"]
      /\ stack' = <<Iterate(Root, "root", "", "none")>>
  BY DEF ScanEnds, process_dirent
<1>2. TypeInv /\ Root \in Inodes /\ Kind(Root) = "dir"
  BY TreeFacts DEF GenfsInv, Kind
<1>3. PICK lab : lab = label'
  OBVIOUS
<1>4. /\ lab \in [Inodes -> LabelNames]
      /\ \A i \in Inodes : lab[i] = IF Kind(i) = "deleted" THEN "none" ELSE "modules_object"
  BY <1>1, <1>2, <1>3 DEF LabelInv, ScanLabels, LabelNames
<1>5. PICK g : g = Iterate(Root, "root", "", "none")
  OBVIOUS
<1>6. g.dir = Root /\ g.callback = "root" /\ g.after = "none" /\ g.left = Entries(Root)
  BY <1>5 DEF Iterate
<1>7. PICK st : st = stack'
  OBVIOUS
<1>8. Len(st) = 1 /\ st[1] = g
  BY <1>1, <1>5, <1>7
<1>9. /\ Firmware' = Firmware /\ Build' = Build /\ ModulesFiles' = ModulesFiles
      /\ RootOthers' = RootOthers
      /\ KernelEntries' = KernelEntries /\ FirmwareEntries' = FirmwareEntries
  BY <1>1, PlacesStay
<1>10. \A e \in Entries(Root) : Waiting(st, "root", e)
  BY <1>6, <1>8 DEF Waiting
<1>11. \A d : ~Running(st, d)
  BY <1>6, <1>8 DEF Running
<1>12. FramesInv'
  BY <1>6, <1>7, <1>8 DEF FramesInv, FramesFit, FrameFits
<1>13. FitInv'
  <2> SUFFICES ASSUME NEW i \in Inodes
               PROVE  Fits(i, lab[i])'
    BY <1>3 DEF FitInv
  <2> QED
    BY <1>1, <1>3, <1>4 DEF Fits, Place, Kind
<1>14. KernelSettled' /\ FirmwareSettled'
  BY <1>7, <1>9, <1>10 DEF KernelSettled, FirmwareSettled, KernelEntries, FirmwareEntries, Waiting
<1>15. BelowSettled'
  <2>1. \A x \in tree.entries : x.dir \in Inodes /\ Kind(x.dir) = "dir"
    BY <1>2, TreeFacts
  <2>2. \A x \in tree.entries : lab[x.dir] = "modules_object"
    BY <1>4, <2>1
  <2> QED
    BY <1>1, <1>3, <1>7, <1>11, <2>2 DEF BelowSettled, Reached, Running
<1> QED
  BY <1>1, <1>2, <1>3, <1>4, <1>12, <1>13, <1>14, <1>15 DEF LabelInv, ScanLabels, SettledInv

-----------------------------------------------------------------------------
(* The theorems on labels *)

(* The invariant of the labels holds whatever the image.                   *)
THEOREM Labels_Invariant == Spec => []LabelInv
<1>1. ASSUME Init
      PROVE  LabelInv
  <2>1. label \in [Inodes -> LabelNames] /\ \A i \in Inodes : label[i] = "none"
    BY <1>1 DEF Init, LabelNames
  <2> QED
    BY <1>1, <2>1 DEF Init, LabelInv, ScanLabels, FitInv, FramesInv, FramesFit, SettledInv
<1>2. ASSUME GenfsInv, LabelInv, [Next]_vars
      PROVE  LabelInv'
  <2>1. CASE UNCHANGED vars
    <3>1. /\ Firmware' = Firmware /\ Build' = Build /\ ModulesFiles' = ModulesFiles
          /\ RootOthers' = RootOthers
          /\ KernelEntries' = KernelEntries /\ FirmwareEntries' = FirmwareEntries
      BY <2>1, PlacesStay DEF vars
    <3>2. ScanLabels' /\ label' \in [Inodes -> LabelNames]
      BY <1>2, <2>1 DEF vars, LabelInv, ScanLabels, Kind
    <3>3. FitInv' /\ FramesInv'
      BY <1>2, <2>1, <3>1 DEF vars, LabelInv, FitInv, Fits, Place, FramesInv, FramesFit,
         FrameFits, Kind
    <3>4. SettledInv'
      BY <1>2, <2>1, <3>1 DEF vars, LabelInv, SettledInv, KernelSettled, FirmwareSettled,
         BelowSettled, Settled, Waiting, Awaits, Reached, Running, NamedEntries, Entries
    <3> QED
      BY <3>2, <3>3, <3>4 DEF LabelInv
  <2>2. ASSUME NEW i \in Inodes, ScanInode(i)
        PROVE  LabelInv'
    BY <1>2, <2>2, ScanInodeLabels
  <2>3. CASE ScanEnds
    BY <1>2, <2>3, ScanEndsLabels
  <2>4. ASSUME NEW e \in tree.entries, root_iterate_callback(e)
        PROVE  LabelInv'
    BY <1>2, <2>4, RootLabels
  <2>5. ASSUME NEW e \in tree.entries, dir_iterate_callback(e)
        PROVE  LabelInv'
    BY <1>2, <2>5, DirLabels
  <2>6. ASSUME NEW e \in tree.entries, recursive_relabel(e)
        PROVE  LabelInv'
    BY <1>2, <2>6, RelabelLabels
  <2>7. CASE IterateEnds
    BY <1>2, <2>7, IterateEndsLabels
  <2>8. CASE genfs_err
    BY <1>2, <2>8, ErrLabels DEF genfs_err
  <2> QED
    BY <1>2, <2>1, <2>2, <2>3, <2>4, <2>5, <2>6, <2>7, <2>8 DEF Next
<1> QED
  BY <1>1, <1>2, Genfs_Invariant, PTL DEF Spec

(* When nothing runs any more, all that is below a directory that was      *)
(* reached is settled: the settled inodes are closed, but for the          *)
(* directories that the root has a name for, which have no other.          *)
LEMMA BelowIsSettled ==
    ASSUME GenfsInv, LabelInv, status = "ok", NEW d \in Inodes, d # Root, Settled(label, d),
           Kind(d) = "dir" => d \notin RootOthers
    PROVE  \A i \in Below(d) : Settled(label, i)
<1> DEFINE S == {i \in Inodes : i # Root /\ Settled(label, i)
                                /\ (Kind(i) = "dir" => i \notin RootOthers)}
<1>1. TypeInv /\ stack = <<>> /\ BelowSettled
  BY DEF GenfsInv, TypeInv, LabelInv, SettledInv
<1>2. \A c, x : ~Waiting(stack, c, x)
  BY <1>1 DEF Waiting
<1>3. ASSUME NEW x \in tree.entries, x.dir \in S, x.name \notin Dots
      PROVE  x.to \in S
  <2>1. /\ x.to \in Inodes /\ x.to # Root /\ x.dir \in Inodes /\ x.dir # Root
        /\ Kind(x.dir) = "dir"
    BY <1>1, <1>3, TreeFacts
  <2>2. label[x.dir] # "modules_object"
    BY <1>3, <2>1 DEF Settled
  <2>3. Settled(label, x.to)
    BY <1>1, <1>2, <1>3, <2>1, <2>2 DEF BelowSettled, Reached
  <2>4. Kind(x.to) = "dir" => x.to \notin RootOthers
    <3> SUFFICES ASSUME Kind(x.to) = "dir", x.to \in RootOthers
                 PROVE  FALSE
      OBVIOUS
    <3>1. PICK e \in tree.entries : e.dir = Root /\ e.name \notin Dots /\ e.to = x.to
      BY DEF RootOthers, Entries
    <3>2. e = x
      <4>1. {e.name, x.name} \cap Dots = {}
        BY <1>3, <3>1
      <4> QED
        BY <1>1, <3>1, <4>1, TreeFacts
    <3> QED
      BY <2>1, <3>1, <3>2
  <2> QED
    BY <2>1, <2>3, <2>4
<1>4. Closed(S) /\ d \in S /\ S \in SUBSET Inodes
  BY <1>3 DEF Closed
<1>5. Below(d) \subseteq S
  BY <1>1, <1>4, BelowFacts
<1> QED
  BY <1>5

(* In every finished image every inode has the label of one of the places  *)
(* that have a name for it, and a file that only firmware, build or        *)
(* modules.* has a name for has theirs: for every image and any order of   *)
(* the directories (genfs.c:114-195, 339).                                 *)
THEOREM LabelsAreRight_Safe == Spec => []LabelsAreRight
<1>1. ASSUME GenfsInv, LabelInv
      PROVE  LabelsAreRight
  <2> SUFFICES ASSUME status = "ok", NEW i \in Inodes
               PROVE  \/ Kind(i) = "deleted"
                      \/ label[i] = "lib" /\ i \in Firmware
                      \/ label[i] = "usr" /\ i \in Build
                      \/ label[i] = "modules_dep" /\ i \in ModulesFiles
                      \/ /\ label[i] = "modules_object"
                         /\ i \in Firmware \cup Build \cup ModulesFiles => i \in RootOthers
    BY DEF LabelsAreRight
  <2>1. Fits(i, label[i])
    BY <1>1 DEF LabelInv, FitInv
  <2>2. TypeInv /\ stack = <<>> /\ KernelSettled /\ FirmwareSettled
    BY <1>1 DEF GenfsInv, TypeInv, LabelInv, SettledInv
  <2>3. (\A c, x : ~Waiting(stack, c, x)) /\ \A d : ~Awaits(stack, d)
    BY <2>2 DEF Waiting, Awaits
  <2>4. ASSUME i \in ModulesFiles
        PROVE  Settled(label, i)
    <3>1. PICK d \in RootNamed(uname), x \in tree.entries :
             x.dir = d /\ x.name \in Modules /\ i = x.to
      BY <2>4 DEF ModulesFiles, InKernel, Entries
    <3>2. PICK e \in KernelEntries : e.to = d
      BY DEF RootNamed, KernelEntries
    <3>3. x \in NamedEntries(e.to)
      BY <3>1, <3>2 DEF NamedEntries, Entries
    <3> QED
      BY <2>2, <2>3, <3>1, <3>3 DEF KernelSettled
  <2>5. ASSUME i \in Firmware
        PROVE  Settled(label, i)
    <3>1. PICK e \in FirmwareEntries : i \in Below(e.to)
      BY <2>5 DEF Firmware, RootNamed, FirmwareEntries
    <3>2. /\ e \in tree.entries /\ e.dir = Root /\ e.name \notin Dots
          /\ Matches(e.name, "firmware")
      BY DEF FirmwareEntries, Entries
    <3>3. e.to \in Inodes /\ e.to # Root /\ Settled(label, e.to)
      BY <2>2, <2>3, <3>2, TreeFacts DEF FirmwareSettled
    <3>4. Kind(e.to) = "dir" => e.to \notin RootOthers
      <4> SUFFICES ASSUME Kind(e.to) = "dir", e.to \in RootOthers
                   PROVE  FALSE
        OBVIOUS
      <4>1. PICK f \in tree.entries :
               f.name \notin Dots /\ ~Matches(f.name, "firmware") /\ f.to = e.to
        BY DEF RootOthers, Entries
      <4>2. {e.name, f.name} \cap Dots = {}
        BY <3>2, <4>1
      <4>3. e = f
        BY <2>2, <3>2, <4>1, <4>2, TreeFacts
      <4> QED
        BY <3>2, <4>1, <4>3
    <3> QED
      BY <1>1, <3>1, <3>3, <3>4, BelowIsSettled
  <2>6. ASSUME i \in Build
        PROVE  Settled(label, i)
    <3>1. PICK b \in InKernel({"build"}) : i \in Below(b)
      BY <2>6 DEF Build
    <3>2. PICK d \in RootNamed(uname), x \in tree.entries :
             x.dir = d /\ x.name = "build" /\ b = x.to
      BY DEF InKernel, Entries
    <3>3. PICK e \in KernelEntries : e.to = d
      BY DEF RootNamed, KernelEntries
    <3>4. x \in NamedEntries(e.to)
      BY <3>2, <3>3 DEF NamedEntries, Entries
    <3>5. b \in Inodes /\ b # Root /\ d # Root /\ x.name \notin Dots
      BY <2>2, <3>2, <3>3, TreeFacts DEF KernelEntries, Entries, Dots
    <3>6. Settled(label, b)
      BY <2>2, <2>3, <3>2, <3>4 DEF KernelSettled
    <3>7. Kind(b) = "dir" => b \notin RootOthers
      <4> SUFFICES ASSUME Kind(b) = "dir", b \in RootOthers
                   PROVE  FALSE
        OBVIOUS
      <4>1. PICK f \in tree.entries : f.dir = Root /\ f.name \notin Dots /\ f.to = b
        BY DEF RootOthers, Entries
      <4>2. {x.name, f.name} \cap Dots = {}
        BY <3>5, <4>1
      <4>3. x = f
        BY <2>2, <3>2, <4>1, <4>2, TreeFacts
      <4> QED
        BY <3>2, <3>5, <4>1, <4>3
    <3> QED
      BY <1>1, <3>1, <3>5, <3>6, <3>7, BelowIsSettled
  <2> QED
    BY <2>1, <2>4, <2>5, <2>6 DEF Fits, Place, Settled
<1> QED
  BY <1>1, Genfs_Invariant, Labels_Invariant, PTL

=============================================================================
