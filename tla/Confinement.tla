---------------------------- MODULE Confinement ----------------------------
(***************************************************************************)
(* Where the links of an unpacked tree can lead.  The stream is arbitrary: *)
(* any entry at all may arrive, in any order, and unpack.c stores what its *)
(* checks accept.  Meanwhile a program of the receiving qube opens files   *)
(* below a top-level entry and the kernel resolves the path one component  *)
(* at a time, following links.  Storing and resolving interleave.          *)
(***************************************************************************)
EXTENDS IncomingTree

CONSTANTS
    Targets,      \* link targets that the stream may carry
    Flags,        \* validation flags of the unpacker
    MaxObjects,   \* bound on the objects stored, for model checking
    MaxLinkHops   \* links the kernel follows before it gives up (ELOOP)

ASSUME ConfinementAssumption ==
    /\ Targets \subseteq Seq(Components)
    /\ \A t \in Targets : \A i \in 2..Len(t) : t[i] # Root
    /\ Flags \subseteq {"UNSAFE_CHARACTERS", "NON_CANONICAL_SYMLINKS"}
    /\ MaxObjects \in Nat
    /\ MaxLinkHops \in Nat

VARIABLES
    dst,    \* the tree, ~/QubesIncoming/VMNAME
    home,   \* the top-level entry the lookup started in, or NoHome
    pos,    \* directory the lookup has reached; <<>> is outside every entry
    rest,   \* components still to resolve
    hops    \* links followed

vars == <<dst, home, pos, rest, hops>>
lookupVars == <<home, pos, rest, hops>>

NoHome == "/"

TypeOK ==
    /\ dst \in [Paths -> Node]
    /\ home \in Names \cup {NoHome}
    /\ pos \in Paths \cup {<<>>}
    /\ rest \in Seq(Components)
    /\ hops \in Nat

Init ==
    /\ dst = EmptyTree
    /\ home = NoHome
    /\ pos = <<>>
    /\ rest = <<>>
    /\ hops = 0

-----------------------------------------------------------------------------
(* Unpacking *)

HasRoom == Cardinality({p \in Paths : Exists(dst, p)}) < MaxObjects

(* process_one_file_reg() *)
StoreReg(p) ==
    /\ HasRoom
    /\ RegError(dst, p, Flags) = 0
    /\ CreateError(dst, p) = 0
    /\ dst' = Put(dst, p, MkNode("reg", "final", 0, <<>>, <<>>))
    /\ UNCHANGED lookupVars

(* process_one_file_dir(), first and second time *)
StoreDir(p) ==
    /\ HasRoom
    /\ DirError(dst, p, Flags) = 0
    /\ dst' = Put(dst, p, MkNode("dir", IF Exists(dst, p) THEN "final" ELSE "rwx",
                                 0, <<>>, <<>>))
    /\ UNCHANGED lookupVars

(* process_one_file_link() *)
StoreLink(p, target) ==
    /\ HasRoom
    /\ LinkError(dst, p, target, Flags) = 0
    /\ dst' = Put(dst, p, MkNode("link", "final", Len(target), <<>>, target))
    /\ UNCHANGED lookupVars

-----------------------------------------------------------------------------
(* Path resolution by the kernel *)

Looking == rest # <<>>

(* A program in the receiving qube opens the path p, which it takes from   *)
(* the top-level entry p[1].                                               *)
LookupStart(p) ==
    /\ ~Looking
    /\ dst[<<p[1]>>].kind = "dir"
    /\ home' = p[1]
    /\ pos' = <<p[1]>>
    /\ rest' = Tail(p)
    /\ hops' = 0
    /\ UNCHANGED dst

(* "/" leaves for the root, ".." goes up (from outside it stays outside),  *)
(* "." stays.                                                              *)
LookupSpecial ==
    /\ Looking
    /\ ~IsName(Head(rest))
    /\ pos' = IF Head(rest) = Root THEN <<>>
              ELSE IF Head(rest) = DotDot /\ pos # <<>>
              THEN SubSeq(pos, 1, Len(pos) - 1) ELSE pos
    /\ rest' = Tail(rest)
    /\ UNCHANGED <<dst, home, hops>>

(* The object that the next component names, if it can be in the tree. *)
Entry == Append(pos, Head(rest))

LookupDir ==
    /\ Looking
    /\ Entry \in Paths
    /\ dst[Entry].kind = "dir"
    /\ pos' = Entry
    /\ rest' = Tail(rest)
    /\ UNCHANGED <<dst, home, hops>>

LookupLink ==
    /\ Looking
    /\ Entry \in Paths
    /\ dst[Entry].kind = "link"
    /\ hops < MaxLinkHops
    /\ rest' = dst[Entry].target \o Tail(rest)
    /\ hops' = hops + 1
    /\ UNCHANGED <<dst, home, pos>>

(* ENOENT, ENOTDIR or ELOOP, or the file is found. *)
LookupStop ==
    /\ Looking
    /\ IsName(Head(rest))
    /\ Entry \in Paths => \/ dst[Entry].kind \in {"none", "reg"}
                          \/ dst[Entry].kind = "link" /\ hops >= MaxLinkHops
    /\ rest' = <<>>
    /\ UNCHANGED <<dst, home, pos, hops>>

Next ==
    \/ \E p \in Paths : StoreReg(p)
    \/ \E p \in Paths : StoreDir(p)
    \/ \E p \in Paths, target \in Targets : StoreLink(p, target)
    \/ \E p \in Paths : LookupStart(p)
    \/ LookupSpecial
    \/ LookupDir
    \/ LookupLink
    \/ LookupStop

Spec == Init /\ [][Next]_vars

-----------------------------------------------------------------------------

(* unpack.c:309 "Ensure that no immediate subdirectory of                  *)
(* ~/QubesIncoming/VMNAME may have symlinks that point out of it": a       *)
(* lookup that starts in a top-level entry stays in it.                    *)
Confined == home # NoHome => pos # <<>> /\ pos[1] = home

(* Objects are stored only in directories of the tree itself, never        *)
(* through a link (opendir_safe(), O_NOFOLLOW on every component).         *)
ParentsAreDirs ==
    \A p \in Paths : Exists(dst, p) =>
        \A n \in 1..(Len(p) - 1) : dst[SubSeq(p, 1, n)].kind = "dir"

(* The top-level entry is never itself a link (unicode.c:284-286).         *)
NoTopLevelLink == \A p \in Paths : dst[p].kind = "link" => Len(p) >= 2

-----------------------------------------------------------------------------
(* The inductive strengthening of Confined. *)

(* In s no component is the root, every ".." comes before every name, and  *)
(* the first i components hold at most k of them.                          *)
Bounded(s, k) ==
    \A i \in 1..Len(s) :
        /\ s[i] # Root
        /\ s[i] = DotDot =>
              /\ \A j \in 1..(i - 1) : ~IsName(s[j])
              /\ Cardinality({j \in 1..i : s[j] = DotDot}) <= k

(* A stored link climbs at most to the top-level entry it lies in.         *)
LinksBounded ==
    \A p \in Paths : dst[p].kind = "link" => Bounded(dst[p].target, Len(p) - 2)

(* What is left of a lookup climbs at most to the entry it started in.     *)
LookupBounded == Looking => Bounded(rest, Len(pos) - 1)

ConfinementInv ==
    /\ TypeOK
    /\ NoTopLevelLink
    /\ LinksBounded
    /\ Confined
    /\ LookupBounded
=============================================================================
