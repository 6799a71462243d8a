------------------------------ MODULE MCGenfs ------------------------------
(***************************************************************************)
(* Images with every place that is treated specially, each with one        *)
(* choice: further names for a file, what is wrong with it, or a name in   *)
(* the root.                                                               *)
(***************************************************************************)
EXTENDS Genfs

(* 0 the root, 1 lost+found, 2 the kernel's directory, 3 build, 4 a file   *)
(* below it, 5 modules.dep, 6 another file, 7 firmware, 8 below it         *)
MCInodes == 0..8

Ent(d, n, i) == [dir |-> d, name |-> n, to |-> i]
DotsOf(d, parent) == {Ent(d, ".", d), Ent(d, "..", parent)}

Base ==
    DotsOf(0, 0) \cup DotsOf(1, 0) \cup DotsOf(2, 0) \cup DotsOf(3, 2) \cup DotsOf(7, 0)
    \cup {Ent(0, "lost+found", 1), Ent(0, "6.1", 2), Ent(2, "build", 3), Ent(3, "f", 4),
          Ent(2, "modules.dep", 5), Ent(2, "f", 6), Ent(7, "f", 8)}

(* Further names: files with two names in two places *)
Links == {{}, {Ent(2, "g", 5)}, {Ent(3, "g", 6)}, {Ent(7, "g", 5)}, {Ent(3, "g", 8)},
          {Ent(0, "vmlinuz", 6)}, {Ent(0, "vmlinuz", 8)}, {Ent(0, "other", 6)}}

KindsOf(i) ==
    CASE i \in {0, 1} -> {"dir"}
      [] i \in {2, 3} -> {"dir", "lnk"}
      [] i = 4 -> {"reg", "dir", "lnk", "other"}
      [] i = 5 -> {"reg", "lnk"}
      [] i = 6 -> {"reg", "badmode", "deleted"}
      [] i = 7 -> {"dir", "reg"}
      [] i = 8 -> {"reg"}

Usual == [i \in MCInodes |-> IF i \in {0, 1, 2, 3, 7} THEN "dir" ELSE "reg"]
OddKinds == {Usual} \cup {[Usual EXCEPT ![i] = k] : i \in MCInodes, k \in Kinds}

Image(k, names) == [kind |-> k, entries |-> {e \in Base \cup names : k[e.dir] = "dir"}]
MCTrees ==
    {t \in {Image(k, l \cup {Ent(0, f, 7)}) :
                k \in {o \in OddKinds : \A i \in MCInodes : o[i] \in KindsOf(i)},
                l \in Links, f \in {"firmware", "firm"}} :
        t.kind[6] = "deleted" => \A e \in t.entries : e.to # 6}

MCPrefixes == {<<"firm", "firmware">>}
=============================================================================
