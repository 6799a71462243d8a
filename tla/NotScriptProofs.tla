-------------------------- MODULE NotScriptProofs --------------------------
(***************************************************************************)
(* Proof that the hotplug scripts of any number of virtual devices, with   *)
(* any number of loop devices, of programs that grab some and of scripts   *)
(* that die, keep to their own loop devices and forget none, as long as no *)
(* device is named by a link to a loop device (with one they do not, which *)
(* is what the run on NotScriptAlias.cfg shows).                           *)
(*                                                                         *)
(* The argument: O_EXCL gives a loop device to one script at a time        *)
(* (ClaimInv), and the one that "add" holds is its own until it publishes  *)
(* (AddInv); a diskseq is never used again, so the one that "add" read     *)
(* names this configuration of the device for ever (SeqInv); what "remove" *)
(* reads from XenStore is what "add" published (PublishedInv); and while a *)
(* device is configured, a script or XenStore knows it (TrackInv).         *)
(***************************************************************************)
EXTENDS NotScript, TLAPS

(* No "params" is a link to a loop device. *)
NoAliases == \A p \in ParamChoices, v \in Vbds : p[v].kind # "alias"

Owners == Vbds \cup {"free", "absent", "outsider"}
LoopRec == [owner : Owners, seq : Nat, auto : BOOLEAN]
Devices == Loops \cup {Missing, NotLoop}
Diskseqs == Nat \cup {Missing}
PCs == Adding \cup Removing \cup {"wait", "added", "failed", "removed", "rm_failed"}

Entries == [params : ParamKinds, phys : Devices, seq : Diskseqs,
            path : [kind : {"file", "blk", "loop", "alias"}, n : Int],
            opened : {"missing", "0", "1"}]

(* The variables besides the kernel's and the program counters. *)
DataTypes ==
    /\ xs \in [Vbds -> Entries]
    /\ local \in [Vbds -> [n : Devices, seq : Diskseqs, retry : Nat]]
    /\ blk \in [Vbds -> {"init", "open", "closed"}]
    /\ nextSeq \in Nat /\ nextSeq > 1
    /\ grabs \in Nat
    /\ faults \in Nat

TypeInv ==
    /\ loops \in [Loops -> LoopRec]
    /\ refs \in [Loops -> SUBSET ({"excl", "plain", "backend"} \X Vbds)]
    /\ lock \in Vbds \cup {"nobody"}
    /\ pc \in [Vbds -> PCs]
    /\ DataTypes

(* Has the device of local[v] open with O_EXCL. *)
Holding(v) == \/ pc[v] \in {"configure", "rm_check", "rm_clear"}
              \/ pc[v] \in {"diskseq", "publish", "wait"} /\ IsFile(v)

(* A loop device that is to go with its last close is open.  One script at *)
(* most holds a device with O_EXCL.  A diskseq is used once: those of the  *)
(* devices that were set up before the first script are below 2.           *)
LoopInv ==
    /\ \A n \in Loops : loops[n].auto => refs[n] # {} /\ Configured(n)
    /\ \A n \in Loops, u, v \in Vbds :
          <<"excl", u>> \in refs[n] /\ <<"excl", v>> \in refs[n] => u = v
    /\ \A n \in Loops : /\ loops[n].seq < nextSeq
                        /\ loops[n].owner \in Vbds => loops[n].seq > 1
    /\ \A m, n \in Loops : m # n /\ loops[m].seq = loops[n].seq => loops[n].seq < 2

(* A script has open what its program counter says. *)
ClaimInv(v) ==
    /\ \A n \in Loops :
          /\ <<"excl", v>> \in refs[n] => Holding(v) /\ local[v].n = n
          /\ <<"plain", v>> \in refs[n] =>
                /\ pc[v] \in {"diskseq", "publish", "wait"} /\ ~IsFile(v)
                /\ local[v].n = n
    /\ Holding(v) => local[v].n \in Loops /\ <<"excl", v>> \in refs[local[v].n]

(* A diskseq that v has read names a configuration of its own. *)
Identifies(v, s) ==
    s # Missing =>
        /\ s \in Nat /\ s > 1 /\ s < nextSeq
        /\ \A n \in Loops : loops[n].seq = s => loops[n].owner \in {v, "free"}

SeqInv(v) == IsFile(v) => Identifies(v, local[v].seq) /\ Identifies(v, xs[v].seq)

(* "add": the lock keeps other scripts from the candidate, and what it     *)
(* configured stays its own while it is held.                              *)
AddInv(v) ==
    /\ pc[v] \in {"lock", "find", "claim", "configure"} => IsFile(v)
    /\ pc[v] \in {"find", "claim", "configure"} => lock = v
    /\ pc[v] \in {"claim", "configure"} =>
         local[v].n \in Loops /\ loops[local[v].n].owner \in {"free", "outsider"}
    /\ pc[v] \in {"diskseq", "publish", "wait"} =>
         /\ IsFile(v) => loops[local[v].n].owner = v
         /\ xs[v].params.kind = "blk" => local[v].n = NotLoop
         /\ xs[v].params.kind = "loop" => local[v].n = xs[v].params.n
    /\ pc[v] \in {"publish", "wait"} /\ IsFile(v) =>
         local[v].seq = loops[local[v].n].seq
    /\ pc[v] \in {"new", "lock", "find", "claim", "configure"} =>
         \A n \in Loops : loops[n].owner # v

(* What XenStore or "remove" knows of the device is what "add" found. *)
Published(v, n) ==
    /\ IsFile(v) => n \in Loops /\ xs[v].path = LoopName(n)
    /\ xs[v].params.kind = "blk" => n = NotLoop
    /\ xs[v].params.kind = "loop" => n \in Loops /\ xs[v].path = xs[v].params

AfterPhys == {"rm_diskseq", "rm_path", "rm_open", "rm_check", "rm_clear"}

PublishedInv(v) ==
    /\ xs[v].params.kind # "alias"
    /\ pc[v] \in Adding => xs[v].phys = Missing /\ xs[v].seq = Missing
    /\ pc[v] \in AfterPhys => xs[v].phys = Missing /\ Published(v, local[v].n)
    /\ xs[v].phys # Missing => Published(v, xs[v].phys)
    /\ pc[v] \in AfterPhys \ {"rm_diskseq"} => local[v].n \in Loops
    /\ pc[v] \in {"rm_open", "rm_check", "rm_clear"} => IsFile(v)
    /\ pc[v] = "rm_clear" => loops[local[v].n].seq = local[v].seq

VbdInv(v) == ClaimInv(v) /\ SeqInv(v) /\ AddInv(v) /\ PublishedInv(v)

(* The inductive invariant of DetachesOnlyOwn. *)
OwnInv == TypeInv /\ LoopInv /\ \A v \in Vbds : VbdInv(v)

(* The device that the backend has yet to open is kept for it: held by the *)
(* script, or configured to stay.                                          *)
ImageInv(v) == IsFile(v) =>
    /\ pc[v] \in {"diskseq", "publish"} => loops[local[v].n].auto = autoclear(v)
    /\ pc[v] = "wait" /\ blk[v] = "init" => autoclear(v)
    /\ pc[v] = "wait" => xs[v].phys = local[v].n
    /\ xs[v].phys # Missing /\ blk[v] = "init" =>
         IF autoclear(v)
         THEN pc[v] \in {"wait", "failed", "rm_phys", "rm_failed"}
         ELSE loops[xs[v].phys].owner = v /\ ~loops[xs[v].phys].auto

(* Another "remove" got hold of n. *)
Taken(v, n) ==
    \E u \in Vbds \ {v} :
        pc[u] \in AfterPhys \cup {"removed", "rm_failed"} /\ local[u].n = n

(* Where the way to a device that "add" configured is kept until "remove"  *)
(* frees it, unless a script died.                                         *)
Tracked(v, n) ==
    \/ pc[v] \in {"diskseq", "publish"} /\ local[v].n = n
    \/ /\ pc[v] \in {"wait", "added", "failed", "rm_phys"}
       /\ xs[v].phys = n /\ xs[v].seq = loops[n].seq
    \/ pc[v] = "rm_diskseq" /\ local[v].n = n /\ xs[v].seq = loops[n].seq
    \/ pc[v] \in AfterPhys \ {"rm_diskseq"} /\ local[v].n = n /\ local[v].seq = loops[n].seq
    \/ pc[v] = "rm_failed" /\ Taken(v, n)
    \/ faults > 0 /\ pc[v] \in {"failed", "rm_phys"} /\ xs[v].phys = Missing
    \/ faults > 0 /\ pc[v] = "rm_failed"

TrackInv(v) ==
    \A n \in Loops : loops[n].owner = v =>
        /\ IsFile(v)
        /\ ~loops[n].auto => Tracked(v, n)

(***************************************************************************)
(* What a step of one actor can do to the state of the others              *)
(***************************************************************************)

(* v, a virtual device or "nobody" (another program, the backend), may     *)
(* have the loop device n detached.                                        *)
MayClear(v, n) ==
    \/ loops[n].owner = "outsider"
    \/ v \in Vbds /\ pc[v] = "rm_clear" /\ local[v].n = n

Frees(v, n) ==
    /\ loops'[n].owner = "free" /\ loops'[n].seq = loops[n].seq /\ ~loops'[n].auto
    /\ refs'[n] = {}
    /\ loops[n].auto \/ MayClear(v, n)

Clears(v, n) ==
    /\ loops'[n].owner = loops[n].owner /\ loops'[n].seq = loops[n].seq
    /\ Configured(n) /\ MayClear(v, n)

Makes(n) ==
    /\ loops[n].owner = "absent" /\ loops'[n].owner = "free"
    /\ loops'[n].seq = loops[n].seq /\ loops'[n].auto = loops[n].auto

Sets(v, n) ==
    /\ loops[n].owner = "free" /\ loops'[n].seq = nextSeq /\ nextSeq' = nextSeq + 1
    /\ \/ v = "nobody" /\ loops'[n].owner = "outsider" /\ ~Claimed(n)
       \/ v \in Vbds /\ loops'[n].owner = v /\ <<"excl", v>> \in refs[n] /\ lock = v

(* A step of v, which sets up or detaches the loop device d at most. *)
StepOf(v, d) ==
    /\ \A u \in Vbds : xs'[u].params = xs[u].params
    /\ \A u \in Vbds \ {v} :
         /\ pc'[u] = pc[u] /\ local'[u] = local[u]
         /\ xs'[u].phys = xs[u].phys /\ xs'[u].seq = xs[u].seq /\ xs'[u].path = xs[u].path
         /\ lock = u => lock' = u
         /\ \A n \in Loops : /\ <<"excl", u>> \in refs'[n] <=> <<"excl", u>> \in refs[n]
                             /\ <<"plain", u>> \in refs'[n] <=> <<"plain", u>> \in refs[n]
    /\ \A n \in Loops :
         /\ <<"excl", v>> \in refs'[n] => <<"excl", v>> \in refs[n] \/ ~Claimed(n)
         /\ loops'[n].auto => refs'[n] # {}
         /\ n # d => loops'[n] = loops[n] \/ Frees(v, n)
         /\ n = d => \/ loops'[n] = loops[n] \/ Frees(v, n)
                     \/ Clears(v, n) \/ Makes(n) \/ Sets(v, n)
    /\ nextSeq' \in {nextSeq, nextSeq + 1}

(* The names of the actors differ. *)
LEMMA ActorFacts ==
    /\ "nobody" \notin Vbds /\ "free" \notin Vbds /\ "absent" \notin Vbds
    /\ "outsider" \notin Vbds
    /\ Missing \notin Loops /\ NotLoop \notin Loops /\ Missing # NotLoop
    /\ Loops \subseteq Nat
  BY NotScriptAssumption DEF Missing, NotLoop, Loops

(* The loop devices keep their invariant in such a step.                   *)
LEMMA LoopsKept ==
    ASSUME OwnInv, TypeInv', NEW v \in Vbds \cup {"nobody"}, NEW d, StepOf(v, d)
    PROVE  LoopInv'
<1> USE DEF OwnInv
<1>t. /\ nextSeq \in Nat /\ nextSeq > 1 /\ nextSeq' \in Nat
      /\ \A n \in Loops : loops[n] \in LoopRec /\ loops'[n] \in LoopRec
      /\ \A n \in Loops : loops[n].seq \in Nat /\ loops'[n].seq \in Nat
  BY DEF TypeInv, DataTypes, LoopRec
<1>1. ASSUME NEW n \in Loops, loops'[n].auto PROVE refs'[n] # {} /\ Configured(n)'
  <2>1. refs'[n] # {}
    BY <1>1 DEF StepOf
  <2>2. CASE loops'[n] = loops[n]
    BY <1>1, <2>1, <2>2 DEF LoopInv, Configured
  <2>3. CASE Clears(v, n)
    BY <2>1, <2>3 DEF Clears, Configured
  <2>4. CASE Makes(n)
    BY <1>1, <2>4 DEF Makes, LoopInv, Configured
  <2>5. CASE Sets(v, n)
    BY <2>1, <2>5, ActorFacts DEF Sets, Configured
  <2> QED
    BY <1>1, <2>1, <2>2, <2>3, <2>4, <2>5 DEF StepOf, Frees
<1>2. ASSUME NEW n \in Loops, NEW u \in Vbds, NEW w \in Vbds,
             <<"excl", u>> \in refs'[n], <<"excl", w>> \in refs'[n]
      PROVE  u = w
  <2>1. CASE u # v /\ w # v
    BY <1>2, <2>1 DEF StepOf, LoopInv
  <2>2. CASE u = v /\ w # v
    BY <1>2, <2>2, ZenonT(60) DEF StepOf, LoopInv, Claimed
  <2>3. CASE w = v /\ u # v
    BY <1>2, <2>3, ZenonT(60) DEF StepOf, LoopInv, Claimed
  <2> QED
    BY <2>1, <2>2, <2>3
<1>3. ASSUME NEW n \in Loops
      PROVE  /\ loops'[n].seq < nextSeq'
             /\ loops'[n].owner \in Vbds => loops'[n].seq > 1
             /\ loops'[n].seq = loops[n].seq \/ (n = d /\ loops'[n].seq = nextSeq /\ nextSeq > 1)
  <2>1. loops[n].seq < nextSeq /\ (loops[n].owner \in Vbds => loops[n].seq > 1)
    BY DEF LoopInv
  <2>2. nextSeq <= nextSeq'
    BY <1>t DEF StepOf
  <2>3. CASE loops'[n] = loops[n] \/ Frees(v, n) \/ Clears(v, n) \/ Makes(n)
    <3>1. loops'[n].seq = loops[n].seq /\ loops'[n].owner \in {loops[n].owner, "free"}
      BY <2>3 DEF Frees, Clears, Makes
    <3> QED
      BY <1>t, <2>1, <2>2, <3>1, ActorFacts
  <2>4. CASE n = d /\ Sets(v, n)
    BY <1>t, <2>4 DEF Sets
  <2> QED
    BY <2>3, <2>4 DEF StepOf
<1>4. ASSUME NEW m \in Loops, NEW n \in Loops, m # n, loops'[m].seq = loops'[n].seq
      PROVE  loops'[n].seq < 2
  <2>1. loops[m].seq < nextSeq /\ loops[n].seq < nextSeq
    BY DEF LoopInv
  <2>2. CASE loops'[m].seq = loops[m].seq /\ loops'[n].seq = loops[n].seq
    BY <1>4, <2>2 DEF LoopInv
  <2> QED
    BY <1>t, <1>3, <1>4, <2>1, <2>2
<1> QED
  BY <1>1, <1>2, <1>3, <1>4 DEF LoopInv

(* A diskseq that was read is not used again, whoever takes a step: what   *)
(* it names is configured no more or still the reader's.                   *)
LEMMA SeqKept ==
    ASSUME OwnInv, NEW v, NEW d, StepOf(v, d), NEW u \in Vbds,
           local'[u].seq \in {Missing, local[u].seq, xs[u].seq},
           xs'[u].seq \in {Missing, local[u].seq, xs[u].seq}
    PROVE  SeqInv(u)'
<1> USE DEF OwnInv
<1>1. /\ nextSeq \in Nat /\ nextSeq' \in {nextSeq, nextSeq + 1}
      /\ IsFile(u)' = IsFile(u)
  BY DEF TypeInv, DataTypes, StepOf, IsFile
<1>2. ASSUME NEW n \in Loops
      PROVE  \/ loops'[n] = loops[n]
             \/ Frees(v, n) \/ Clears(v, n) \/ Makes(n) \/ Sets(v, n)
  BY DEF StepOf
<1>3. ASSUME NEW s, Identifies(u, s), s # Missing
      PROVE  /\ s \in Nat /\ s > 1 /\ s < nextSeq'
             /\ \A n \in Loops : loops'[n].seq = s => loops'[n].owner \in {u, "free"}
  <2>1. s \in Nat /\ s > 1 /\ s < nextSeq /\ s < nextSeq'
    BY <1>1, <1>3 DEF Identifies
  <2>2. ASSUME NEW n \in Loops, loops'[n].seq = s PROVE loops'[n].owner \in {u, "free"}
    <3>1. ~Sets(v, n)
      BY <1>1, <2>1, <2>2 DEF Sets
    <3>2. loops[n].seq = s /\ loops'[n].owner \in {loops[n].owner, "free"}
      BY <1>2, <2>2, <3>1 DEF Frees, Clears, Makes
    <3> QED
      BY <1>3, <3>2 DEF Identifies
  <2> QED
    BY <2>1, <2>2
<1>4. IsFile(u) => Identifies(u, local[u].seq) /\ Identifies(u, xs[u].seq)
  BY DEF VbdInv, SeqInv
<1>5. ASSUME IsFile(u) PROVE Identifies(u, local[u].seq)'
  BY <1>3, <1>4, <1>5 DEF Identifies
<1>6. ASSUME IsFile(u) PROVE Identifies(u, xs[u].seq)'
  BY <1>3, <1>4, <1>6 DEF Identifies
<1> QED
  BY <1>1, <1>5, <1>6 DEF SeqInv

(* A script keeps its invariant when another one, another program or the   *)
(* backend takes a step: what it holds is out of their reach, and no       *)
(* diskseq it knows is used again.                                         *)
LEMMA OthersKept ==
    ASSUME OwnInv, TypeInv', NEW v \in Vbds \cup {"nobody"}, NEW d, StepOf(v, d),
           NEW u \in Vbds, u # v
    PROVE  VbdInv(u)'
<1> USE DEF OwnInv
<1>v. VbdInv(u) /\ LoopInv
  BY DEF OwnInv
<1>t. /\ nextSeq \in Nat /\ nextSeq' \in {nextSeq, nextSeq + 1}
      /\ \A n \in Loops : loops[n].seq \in Nat /\ loops[n].owner \in Owners
      /\ local[u].n \in Devices
  BY DEF TypeInv, DataTypes, LoopRec, StepOf
<1>s. /\ pc'[u] = pc[u] /\ local'[u] = local[u] /\ xs'[u].params = xs[u].params
      /\ xs'[u].phys = xs[u].phys /\ xs'[u].seq = xs[u].seq /\ xs'[u].path = xs[u].path
      /\ lock = u => lock' = u
      /\ \A n \in Loops : /\ <<"excl", u>> \in refs'[n] <=> <<"excl", u>> \in refs[n]
                          /\ <<"plain", u>> \in refs'[n] <=> <<"plain", u>> \in refs[n]
  BY DEF StepOf
<1>h. Holding(u)' = Holding(u) /\ IsFile(u)' = IsFile(u)
  BY <1>s DEF Holding, IsFile
<1>l. ASSUME NEW n \in Loops
      PROVE  \/ loops'[n] = loops[n]
             \/ Frees(v, n) \/ Clears(v, n) \/ Makes(n) \/ Sets(v, n)
  BY DEF StepOf
<1>1. ClaimInv(u)'
  BY <1>v, <1>s, <1>h DEF VbdInv, ClaimInv
<1>2. SeqInv(u)'
  BY <1>s, SeqKept
<1>3. AddInv(u)'
  <2>1. ASSUME pc[u] \in {"claim", "configure"}
        PROVE  loops'[local[u].n].owner \in {"free", "outsider"}
    <3>1. /\ lock = u /\ local[u].n \in Loops
          /\ loops[local[u].n].owner \in {"free", "outsider"}
      BY <1>v, <2>1 DEF VbdInv, AddInv
    <3>2. CASE Sets(v, local[u].n)
      BY <3>1, <3>2 DEF Sets
    <3> QED
      BY <1>l, <3>1, <3>2 DEF Frees, Clears, Makes
  <2>2. ASSUME pc[u] \in {"diskseq", "publish", "wait"}, IsFile(u)
        PROVE  /\ loops'[local[u].n].owner = u
               /\ loops'[local[u].n].seq = loops[local[u].n].seq
    <3>1. /\ local[u].n \in Loops /\ <<"excl", u>> \in refs[local[u].n]
          /\ loops[local[u].n].owner = u
      BY <1>v, <2>2 DEF VbdInv, AddInv, ClaimInv, Holding
    <3>2. ~Frees(v, local[u].n) /\ ~Makes(local[u].n) /\ ~Sets(v, local[u].n)
      BY <1>s, <3>1, ActorFacts DEF Frees, Makes, Sets
    <3> QED
      BY <1>l, <3>1, <3>2 DEF Clears
  <2>3. ASSUME NEW n \in Loops, loops[n].owner # u PROVE loops'[n].owner # u
    BY <1>l, <2>3, ActorFacts DEF Frees, Clears, Makes, Sets
  <2>4. AddInv(u)
    BY <1>v DEF VbdInv
  <2> QED
    BY <1>s, <1>h, <2>1, <2>2, <2>3, <2>4 DEF AddInv
<1>4. PublishedInv(u)'
  <2>1. ASSUME pc[u] = "rm_clear"
        PROVE  loops'[local[u].n].seq = loops[local[u].n].seq
    <3>1. local[u].n \in Loops /\ <<"excl", u>> \in refs[local[u].n]
      BY <1>v, <2>1 DEF VbdInv, ClaimInv, Holding
    <3>2. ~Sets(v, local[u].n)
      BY <1>v, <3>1 DEF Sets, LoopInv, Claimed
    <3> QED
      BY <1>l, <3>1, <3>2 DEF Frees, Clears, Makes
  <2>2. PublishedInv(u)
    BY <1>v DEF VbdInv
  <2>4. pc[u] \in AfterPhys => Published(u, local[u].n)'
    BY <1>s, <1>h, <2>2 DEF PublishedInv, Published
  <2>5. xs[u].phys # Missing => Published(u, xs[u].phys)'
    BY <1>s, <1>h, <2>2 DEF PublishedInv, Published
  <2> QED
    BY <1>s, <1>h, <2>1, <2>2, <2>4, <2>5 DEF PublishedInv
<1> QED
  BY <1>1, <1>2, <1>3, <1>4 DEF VbdInv

(* The invariant is kept when the step of an actor keeps its own part.     *)
LEMMA StepKeepsOwn ==
    ASSUME OwnInv, TypeInv', NEW v \in Vbds \cup {"nobody"}, NEW d, StepOf(v, d),
           v \in Vbds => VbdInv(v)'
    PROVE  OwnInv'
<1>1. LoopInv'
  BY LoopsKept
<1>2. ASSUME NEW u \in Vbds PROVE VbdInv(u)'
  <2>1. CASE u # v
    BY <2>1, OthersKept
  <2> QED
    BY <2>1
<1> QED
  BY <1>1, <1>2 DEF OwnInv

(***************************************************************************)
(* Closing files                                                           *)
(***************************************************************************)

(* A last close frees a device that is to go with it (LO_FLAGS_AUTOCLEAR)  *)
(* and no close does anything else to one.                                 *)
LEMMA AfterCloseFacts ==
    ASSUME NEW ls \in [Loops -> LoopRec], NEW rs
    PROVE  /\ AfterClose(ls, rs) \in [Loops -> LoopRec]
           /\ \A n \in Loops :
                \/ /\ AfterClose(ls, rs)[n] = ls[n]
                   /\ ls[n].auto => rs[n] # {}
                \/ /\ rs[n] = {} /\ ls[n].auto
                   /\ AfterClose(ls, rs)[n].owner = "free"
                   /\ AfterClose(ls, rs)[n].seq = ls[n].seq
                   /\ AfterClose(ls, rs)[n].auto = FALSE
<1>1. ASSUME NEW n \in Loops
      PROVE  /\ AfterClose(ls, rs)[n] \in LoopRec
             /\ \/ /\ AfterClose(ls, rs)[n] = ls[n]
                   /\ ls[n].auto => rs[n] # {}
                \/ /\ rs[n] = {} /\ ls[n].auto
                   /\ AfterClose(ls, rs)[n].owner = "free"
                   /\ AfterClose(ls, rs)[n].seq = ls[n].seq
                   /\ AfterClose(ls, rs)[n].auto = FALSE
  <2>1. ls[n] \in LoopRec
    OBVIOUS
  <2>2. CASE rs[n] = {} /\ ls[n].auto
    <3>1. AfterClose(ls, rs)[n] = [ls[n] EXCEPT !.owner = "free", !.auto = FALSE]
      BY <2>2 DEF AfterClose
    <3> QED
      BY <2>1, <2>2, <3>1 DEF LoopRec, Owners
  <2>3. CASE ~(rs[n] = {} /\ ls[n].auto)
    <3>1. AfterClose(ls, rs)[n] = ls[n]
      BY <2>3 DEF AfterClose
    <3> QED
      BY <2>1, <2>3, <3>1
  <2> QED
    BY <2>2, <2>3
<1>2. AfterClose(ls, rs) = [n \in Loops |-> AfterClose(ls, rs)[n]]
  BY DEF AfterClose
<1>3. AfterClose(ls, rs) \in [Loops -> LoopRec]
  BY <1>1, <1>2
<1> QED
  BY <1>1, <1>3

(* A script of v touches XenStore and memory of its own only. *)
OwnData(v) ==
    /\ xs'[v].params = xs[v].params
    /\ \A u \in Vbds \ {v} : xs'[u] = xs[u] /\ local'[u] = local[u]

Ended == {"added", "failed", "removed", "rm_failed"}

(* ls is loops, with d set to go with its last close if v may do that. *)
Marked(v, d, ls) ==
    /\ ls \in [Loops -> LoopRec]
    /\ \A n \in Loops :
         \/ ls[n] = loops[n]
         \/ /\ n = d /\ Configured(n) /\ MayClear(v, n)
            /\ ls[n].owner = loops[n].owner /\ ls[n].seq = loops[n].seq

(* However a script ends, it holds nothing any more and what it does to    *)
(* loop devices is to close them.                                          *)
LEMMA EndFacts ==
    ASSUME OwnInv, NEW v \in Vbds, NEW status \in Ended, NEW d, NEW ls, Marked(v, d, ls),
           EndWith(v, status, ls), OwnData(v), UNCHANGED nextSeq
    PROVE  /\ loops' \in [Loops -> LoopRec]
           /\ refs' \in [Loops -> SUBSET ({"excl", "plain", "backend"} \X Vbds)]
           /\ lock' \in Vbds \cup {"nobody"}
           /\ pc' \in [Vbds -> PCs]
           /\ pc'[v] = status
           /\ StepOf(v, d)
           /\ ClaimInv(v)' /\ AddInv(v)'
<1> USE DEF OwnInv
<1>t. /\ refs \in [Loops -> SUBSET ({"excl", "plain", "backend"} \X Vbds)]
      /\ pc \in [Vbds -> PCs] /\ lock \in Vbds \cup {"nobody"}
  BY DEF TypeInv
<1>1. /\ pc' = [pc EXCEPT ![v] = status]
      /\ lock' = IF lock = v THEN "nobody" ELSE lock
      /\ refs' = [n \in Loops |-> refs[n] \ {<<"excl", v>>, <<"plain", v>>}]
      /\ loops' = AfterClose(ls, refs')
  BY DEF EndWith
<1>2. pc' \in [Vbds -> PCs] /\ pc'[v] = status /\ \A u \in Vbds \ {v} : pc'[u] = pc[u]
  BY <1>t, <1>1 DEF PCs, Ended
<1>3. lock' \in Vbds \cup {"nobody"} /\ \A u \in Vbds \ {v} : lock = u => lock' = u
  BY <1>t, <1>1
<1>4. refs' \in [Loops -> SUBSET ({"excl", "plain", "backend"} \X Vbds)]
  BY <1>t, <1>1
<1>5. ASSUME NEW n \in Loops
      PROVE  /\ <<"excl", v>> \notin refs'[n] /\ <<"plain", v>> \notin refs'[n]
             /\ \A u \in Vbds \ {v} :
                  /\ <<"excl", u>> \in refs'[n] <=> <<"excl", u>> \in refs[n]
                  /\ <<"plain", u>> \in refs'[n] <=> <<"plain", u>> \in refs[n]
  <2>1. refs'[n] = refs[n] \ {<<"excl", v>>, <<"plain", v>>}
    BY <1>1
  <2> QED
    BY <2>1
<1>6. ASSUME NEW n \in Loops
      PROVE  /\ loops'[n].auto => refs'[n] # {}
             /\ \/ loops'[n] = loops[n] \/ Frees(v, n)
                \/ n = d /\ Clears(v, n)
  <2>1. \/ loops'[n] = ls[n] /\ (ls[n].auto => refs'[n] # {})
        \/ /\ refs'[n] = {} /\ ls[n].auto
           /\ loops'[n].owner = "free" /\ loops'[n].seq = ls[n].seq
           /\ loops'[n].auto = FALSE
    <3>1. \/ /\ AfterClose(ls, refs')[n] = ls[n]
             /\ ls[n].auto => refs'[n] # {}
          \/ /\ refs'[n] = {} /\ ls[n].auto
             /\ AfterClose(ls, refs')[n].owner = "free"
             /\ AfterClose(ls, refs')[n].seq = ls[n].seq
             /\ AfterClose(ls, refs')[n].auto = FALSE
      BY AfterCloseFacts, ZenonT(60) DEF Marked
    <3>2. AfterClose(ls, refs')[n] = loops'[n]
      BY <1>1
    <3> QED
      BY <3>1, <3>2, Zenon
  <2>2. \/ ls[n] = loops[n]
        \/ /\ n = d /\ Configured(n) /\ MayClear(v, n)
           /\ ls[n].owner = loops[n].owner /\ ls[n].seq = loops[n].seq
    BY DEF Marked
  <2> QED
    BY <2>1, <2>2 DEF Frees, Clears
<1>7. loops' \in [Loops -> LoopRec]
  BY <1>1, AfterCloseFacts DEF Marked
<1>8. StepOf(v, d)
  BY <1>2, <1>3, <1>5, <1>6 DEF StepOf, OwnData
<1>9. ClaimInv(v)' /\ AddInv(v)'
  BY <1>2, <1>5 DEF ClaimInv, AddInv, Holding, Ended
<1> QED
  BY <1>2, <1>3, <1>4, <1>7, <1>8, <1>9

(* A step that goes on may open a device, with O_EXCL if nobody else has   *)
(* done so, and leaves the loop devices as they are.                       *)
LEMMA MoveFacts ==
    ASSUME OwnInv, NEW v \in Vbds, NEW next \in PCs, Goto(v, next), OwnData(v),
           UNCHANGED <<loops, nextSeq>>,
           \A u \in Vbds \ {v} : lock = u => lock' = u,
           \A n \in Loops :
              /\ refs[n] \subseteq refs'[n]
              /\ \A x \in refs'[n] \ refs[n] :
                    x = <<"plain", v>> \/ (x = <<"excl", v>> /\ ~Claimed(n))
    PROVE  /\ pc' \in [Vbds -> PCs] /\ pc'[v] = next
           /\ StepOf(v, Missing)
<1> USE DEF OwnInv
<1>1. pc' \in [Vbds -> PCs] /\ pc'[v] = next /\ \A u \in Vbds \ {v} : pc'[u] = pc[u]
  BY DEF Goto, TypeInv
<1>2. ASSUME NEW n \in Loops
      PROVE  /\ \A u \in Vbds \ {v} :
                  /\ <<"excl", u>> \in refs'[n] <=> <<"excl", u>> \in refs[n]
                  /\ <<"plain", u>> \in refs'[n] <=> <<"plain", u>> \in refs[n]
             /\ <<"excl", v>> \in refs'[n] => <<"excl", v>> \in refs[n] \/ ~Claimed(n)
             /\ loops'[n].auto => refs'[n] # {}
  <2>1. refs[n] \subseteq refs'[n]
    OBVIOUS
  <2>2. \A x \in refs'[n] \ refs[n] :
            x = <<"plain", v>> \/ (x = <<"excl", v>> /\ ~Claimed(n))
    OBVIOUS
  <2>3. ASSUME NEW u \in Vbds \ {v}
        PROVE  /\ <<"excl", u>> \in refs'[n] <=> <<"excl", u>> \in refs[n]
               /\ <<"plain", u>> \in refs'[n] <=> <<"plain", u>> \in refs[n]
    BY <2>1, <2>2
  <2>4. <<"excl", v>> \in refs'[n] => <<"excl", v>> \in refs[n] \/ ~Claimed(n)
    BY <2>2
  <2>5. loops'[n].auto => refs'[n] # {}
    BY <2>1 DEF LoopInv
  <2> QED
    BY <2>3, <2>4, <2>5
<1> QED
  BY <1>1, <1>2 DEF StepOf, OwnData

(* The invariant is kept by every end of a script.                         *)
LEMMA EndKeeps ==
    ASSUME OwnInv, NEW v \in Vbds, NEW status \in Ended, NEW d, NEW ls, Marked(v, d, ls),
           EndWith(v, status, ls), OwnData(v), UNCHANGED nextSeq, DataTypes',
           local'[v].seq \in {Missing, local[v].seq, xs[v].seq},
           xs'[v].seq \in {Missing, local[v].seq, xs[v].seq},
           xs'[v].phys # Missing => Published(v, xs[v].phys)'
    PROVE  OwnInv' /\ StepOf(v, d) /\ pc'[v] = status
<1>1. /\ loops' \in [Loops -> LoopRec]
      /\ refs' \in [Loops -> SUBSET ({"excl", "plain", "backend"} \X Vbds)]
      /\ lock' \in Vbds \cup {"nobody"}
      /\ pc' \in [Vbds -> PCs] /\ pc'[v] = status
      /\ StepOf(v, d) /\ ClaimInv(v)' /\ AddInv(v)'
  BY EndFacts
<1>2. TypeInv'
  BY <1>1 DEF TypeInv
<1>3. SeqInv(v)'
  BY <1>1, SeqKept
<1>4. PublishedInv(v)'
  BY <1>1 DEF OwnInv, VbdInv, PublishedInv, AfterPhys, Adding, Ended, OwnData
<1> QED
  BY <1>1, <1>2, <1>3, <1>4, StepKeepsOwn DEF VbdInv

(* Among them the ends that leave XenStore and the script's memory alone.  *)
LEMMA PlainEndKeeps ==
    ASSUME OwnInv, NEW v \in Vbds, NEW status \in Ended, NEW d, NEW ls, Marked(v, d, ls),
           EndWith(v, status, ls), UNCHANGED <<xs, local, blk, nextSeq, grabs>>,
           faults' \in Nat
    PROVE  OwnInv' /\ StepOf(v, d) /\ pc'[v] = status
<1>1. OwnData(v) /\ DataTypes'
  BY DEF OwnData, OwnInv, TypeInv, DataTypes
<1>2. xs'[v].phys # Missing => Published(v, xs[v].phys)'
  BY DEF OwnInv, VbdInv, PublishedInv, Published, IsFile
<1> QED
  BY <1>1, <1>2, EndKeeps

(* Nothing is marked, to begin with.                                       *)
LEMMA NoneMarked ==
    ASSUME OwnInv, NEW v, NEW d
    PROVE  Marked(v, d, loops)
  BY DEF Marked, OwnInv, TypeInv

(***************************************************************************)
(* The steps of "add"                                                      *)
(***************************************************************************)

(* A step that goes on keeps the invariant if it keeps the script's own    *)
(* part.                                                                   *)
LEMMA MoveKeeps ==
    ASSUME OwnInv, NEW v \in Vbds, NEW next \in PCs, Goto(v, next), OwnData(v),
           UNCHANGED <<loops, nextSeq>>,
           \A u \in Vbds \ {v} : lock = u => lock' = u,
           lock' \in Vbds \cup {"nobody"},
           refs' \in [Loops -> SUBSET ({"excl", "plain", "backend"} \X Vbds)],
           \A n \in Loops :
              /\ refs[n] \subseteq refs'[n]
              /\ \A x \in refs'[n] \ refs[n] :
                    x = <<"plain", v>> \/ (x = <<"excl", v>> /\ ~Claimed(n)),
           DataTypes',
           local'[v].seq \in {Missing, local[v].seq, xs[v].seq} \/ SeqInv(v)',
           xs'[v].seq \in {Missing, local[v].seq, xs[v].seq},
           ClaimInv(v)', AddInv(v)', PublishedInv(v)'
    PROVE  OwnInv' /\ StepOf(v, Missing) /\ pc'[v] = next
<1>1. pc' \in [Vbds -> PCs] /\ pc'[v] = next /\ StepOf(v, Missing)
  BY MoveFacts
<1>2. TypeInv'
  BY <1>1 DEF TypeInv, OwnInv
<1>3. SeqInv(v)'
  BY <1>1, SeqKept
<1> QED
  BY <1>1, <1>2, <1>3, StepKeepsOwn DEF VbdInv

(* get_opened() and the open() of "params".                                *)
LEMMA AddOpenKeeps ==
    ASSUME OwnInv, NEW v \in Vbds, AddOpen(v)
    PROVE  OwnInv' /\ StepOf(v, Missing)
<1> USE DEF OwnInv
<1>v. /\ ClaimInv(v) /\ AddInv(v) /\ PublishedInv(v)
      /\ pc[v] = "new" /\ xs[v].phys = Missing /\ xs[v].seq = Missing
  BY DEF AddOpen, VbdInv, PublishedInv, Adding
<1>p. xs[v].params \in ParamKinds /\ xs[v].params.kind # "alias"
  BY <1>v DEF TypeInv, DataTypes, Entries, PublishedInv
<1>o. UNCHANGED <<xs, blk, nextSeq, grabs, faults>>
  BY DEF AddOpen, outsideVars
<1>t. DataTypes /\ refs \in [Loops -> SUBSET ({"excl", "plain", "backend"} \X Vbds)]
      /\ pc \in [Vbds -> PCs] /\ lock \in Vbds \cup {"nobody"}
  BY DEF TypeInv
<1>n. /\ \A n \in Loops : <<"excl", v>> \notin refs[n] /\ <<"plain", v>> \notin refs[n]
      /\ \A n \in Loops : loops[n].owner # v
  BY <1>v DEF ClaimInv, AddInv, Holding
<1>1. CASE EndWith(v, "failed", loops) /\ UNCHANGED local
  BY <1>o, <1>t, <1>1, PlainEndKeeps, NoneMarked DEF Ended, DataTypes
<1>2. CASE xs[v].params.kind = "file" /\ Goto(v, "lock") /\ UNCHANGED <<kernelVars, local>>
  <2>1. pc'[v] = "lock" /\ UNCHANGED <<loops, refs, lock, local, xs>>
    BY <1>o, <1>t, <1>2 DEF Goto, kernelVars
  <2>2. OwnData(v) /\ DataTypes'
    BY <1>o, <1>t, <2>1 DEF OwnData, DataTypes
  <2>3. ClaimInv(v)'
    BY <1>n, <2>1 DEF ClaimInv, Holding
  <2>4. AddInv(v)'
    BY <1>n, <1>2, <2>1 DEF AddInv, IsFile
  <2>5. PublishedInv(v)'
    BY <1>v, <2>1 DEF PublishedInv, AfterPhys
  <2> QED
    BY <1>o, <1>t, <1>2, <2>1, <2>2, <2>3, <2>4, <2>5, MoveKeeps DEF PCs, Adding
<1>3. CASE /\ xs[v].params.kind = "blk" /\ local' = [local EXCEPT ![v].n = NotLoop]
           /\ Goto(v, "diskseq") /\ UNCHANGED kernelVars
  <2>1. pc'[v] = "diskseq" /\ UNCHANGED <<loops, refs, lock, xs>>
    BY <1>o, <1>t, <1>3 DEF Goto, kernelVars
  <2>2. /\ OwnData(v) /\ DataTypes'
        /\ local'[v].n = NotLoop /\ local'[v].seq = local[v].seq
    BY <1>o, <1>t, <1>3, <2>1 DEF OwnData, DataTypes, Devices
  <2>3. ClaimInv(v)'
    BY <1>n, <1>3, <2>1 DEF ClaimInv, Holding, IsFile
  <2>4. AddInv(v)'
    BY <1>n, <1>3, <2>1, <2>2 DEF AddInv, IsFile
  <2>5. PublishedInv(v)'
    BY <1>v, <2>1 DEF PublishedInv, AfterPhys
  <2> QED
    BY <1>o, <1>t, <1>3, <2>1, <2>2, <2>3, <2>4, <2>5, MoveKeeps DEF PCs, Adding
<1>4. CASE /\ xs[v].params.kind = "loop" /\ local' = [local EXCEPT ![v].n = xs[v].params.n]
           /\ refs' = [refs EXCEPT ![xs[v].params.n] = @ \cup {<<"plain", v>>}]
           /\ Goto(v, "diskseq") /\ UNCHANGED <<loops, lock>>
  <2> DEFINE k == xs[v].params.n
  <2>k. k \in Loops
    BY <1>p, <1>4 DEF ParamKinds
  <2>1. pc'[v] = "diskseq" /\ UNCHANGED <<loops, lock, xs>>
    BY <1>o, <1>t, <1>4 DEF Goto
  <2>2. /\ OwnData(v) /\ DataTypes'
        /\ local'[v].n = k /\ local'[v].seq = local[v].seq
    BY <1>o, <1>t, <1>4, <2>k, <2>1 DEF OwnData, DataTypes, Devices
  <2>r. /\ refs' \in [Loops -> SUBSET ({"excl", "plain", "backend"} \X Vbds)]
        /\ refs'[k] = refs[k] \cup {<<"plain", v>>}
        /\ \A n \in Loops \ {k} : refs'[n] = refs[n]
    BY <1>t, <1>4, <2>k
  <2>3. ClaimInv(v)'
    <3>1. \A n \in Loops : <<"excl", v>> \notin refs'[n]
      BY <1>n, <2>r
    <3>2. \A n \in Loops : <<"plain", v>> \in refs'[n] => n = k
      BY <1>n, <2>r
    <3> QED
      BY <1>4, <2>1, <2>2, <3>1, <3>2 DEF ClaimInv, Holding, IsFile
  <2>4. AddInv(v)'
    BY <1>n, <1>4, <2>1, <2>2 DEF AddInv, IsFile
  <2>5. PublishedInv(v)'
    BY <1>v, <2>1 DEF PublishedInv, AfterPhys
  <2>6. ASSUME NEW n \in Loops
        PROVE  /\ refs[n] \subseteq refs'[n]
               /\ \A x \in refs'[n] \ refs[n] :
                     x = <<"plain", v>> \/ (x = <<"excl", v>> /\ ~Claimed(n))
    BY <2>r
  <2> QED
    BY <1>o, <1>t, <1>4, <2>1, <2>2, <2>r, <2>3, <2>4, <2>5, <2>6, MoveKeeps DEF PCs, Adding
<1>5. xs[v].params.kind \in {"file", "blk", "loop"}
  BY <1>p DEF ParamKinds
<1> QED
  BY <1>1, <1>2, <1>3, <1>4, <1>5 DEF AddOpen

(* flock() and the choice of a loop device.                                *)
LEMMA LockKeeps ==
    ASSUME OwnInv, NEW v \in Vbds, Lock(v)
    PROVE  OwnInv' /\ StepOf(v, Missing)
<1> USE DEF OwnInv
<1>v. /\ ClaimInv(v) /\ AddInv(v) /\ PublishedInv(v) /\ pc[v] = "lock"
  BY DEF Lock, VbdInv
<1>t. DataTypes /\ refs \in [Loops -> SUBSET ({"excl", "plain", "backend"} \X Vbds)]
      /\ pc \in [Vbds -> PCs]
  BY DEF TypeInv
<1>1. /\ pc'[v] = "find" /\ lock' = v /\ lock = "nobody"
      /\ UNCHANGED <<loops, refs, local, xs, blk, nextSeq, grabs, faults>>
  BY <1>t DEF Lock, Goto, outsideVars
<1>2. OwnData(v) /\ DataTypes' /\ \A u \in Vbds : lock # u
  BY <1>t, <1>1, ActorFacts DEF OwnData, DataTypes
<1>3. ClaimInv(v)'
  BY <1>v, <1>1 DEF ClaimInv, Holding, IsFile
<1>4. AddInv(v)'
  BY <1>v, <1>1 DEF AddInv, IsFile
<1>5. PublishedInv(v)'
  BY <1>v, <1>1 DEF PublishedInv, AfterPhys, Adding
<1> QED
  BY <1>t, <1>1, <1>2, <1>3, <1>4, <1>5, MoveKeeps DEF PCs, Adding, Lock

(* LOOP_CTL_GET_FREE and LOOP_CTL_ADD.                                     *)
LEMMA FindLoopKeeps ==
    ASSUME OwnInv, NEW v \in Vbds, FindLoop(v)
    PROVE  OwnInv' /\ \E d : StepOf(v, d)
<1> USE DEF OwnInv
<1>v. /\ ClaimInv(v) /\ AddInv(v) /\ PublishedInv(v) /\ pc[v] = "find"
  BY DEF FindLoop, VbdInv
<1>t. DataTypes /\ refs \in [Loops -> SUBSET ({"excl", "plain", "backend"} \X Vbds)]
      /\ pc \in [Vbds -> PCs] /\ lock \in Vbds \cup {"nobody"}
      /\ loops \in [Loops -> LoopRec]
  BY DEF TypeInv
<1>o. UNCHANGED <<xs, blk, nextSeq, grabs, faults>>
  BY DEF FindLoop, outsideVars
<1>1. CASE EndWith(v, "failed", loops) /\ UNCHANGED local
  BY <1>o, <1>t, <1>1, PlainEndKeeps, NoneMarked DEF Ended, DataTypes
<1>2. ASSUME NEW k \in Candidates(local[v].retry),
             local' = [local EXCEPT ![v].n = k],
             loops' = IF k \in NewLoops THEN [loops EXCEPT ![k].owner = "free"] ELSE loops,
             Goto(v, "claim"), UNCHANGED <<refs, lock>>
      PROVE  OwnInv' /\ StepOf(v, k)
  <2>1. k \in Loops /\ (k \in NewLoops \/ IsFree(k))
    BY DEF Candidates, Fresh, NewLoops
  <2>2. pc' \in [Vbds -> PCs] /\ pc'[v] = "claim" /\ \A u \in Vbds \ {v} : pc'[u] = pc[u]
    BY <1>t, <1>2 DEF Goto, PCs, Adding
  <2>3. /\ DataTypes' /\ local'[v].n = k /\ local'[v].seq = local[v].seq
        /\ \A u \in Vbds \ {v} : local'[u] = local[u]
    BY <1>o, <1>t, <1>2, <2>1 DEF DataTypes, Devices
  <2>4. /\ loops' \in [Loops -> LoopRec]
        /\ \A n \in Loops \ {k} : loops'[n] = loops[n]
        /\ loops'[k] = loops[k] \/ Makes(k)
        /\ loops'[k].owner = "free" /\ loops'[k].auto = loops[k].auto
    <3>1. CASE k \in NewLoops
      <4>1. loops' = [loops EXCEPT ![k].owner = "free"]
        BY <1>2, <3>1
      <4>2. loops[k].owner = "absent"
        BY <3>1 DEF NewLoops
      <4> QED
        BY <1>t, <2>1, <4>1, <4>2 DEF LoopRec, Owners, Makes
    <3>2. CASE k \notin NewLoops
      BY <1>t, <1>2, <2>1, <3>2 DEF IsFree
    <3> QED
      BY <3>1, <3>2
  <2>5. TypeInv'
    BY <1>t, <1>2, <2>2, <2>3, <2>4 DEF TypeInv
  <2>6. \A n \in Loops : loops'[n].auto => refs'[n] # {}
    BY <1>2, <2>1, <2>4 DEF LoopInv
  <2>7. StepOf(v, k)
    BY <1>o, <1>2, <2>2, <2>3, <2>4, <2>6 DEF StepOf
  <2>8. SeqInv(v)'
    BY <1>o, <2>3, <2>7, SeqKept
  <2>9. ClaimInv(v)'
    <3>1. \A n \in Loops : <<"excl", v>> \notin refs[n] /\ <<"plain", v>> \notin refs[n]
      BY <1>v DEF ClaimInv, Holding
    <3> QED
      BY <1>2, <2>2, <3>1 DEF ClaimInv, Holding
  <2>10. AddInv(v)'
    <3>1. \A n \in Loops : loops'[n].owner # v
      BY <1>v, <2>4, ActorFacts DEF AddInv
    <3> QED
      BY <1>o, <1>v, <1>2, <2>1, <2>2, <2>3, <2>4, <3>1 DEF AddInv, IsFile
  <2>11. PublishedInv(v)'
    BY <1>o, <1>v, <2>2 DEF PublishedInv, AfterPhys, Adding
  <2> QED
    BY <2>5, <2>7, <2>8, <2>9, <2>10, <2>11, StepKeepsOwn DEF VbdInv
<1> QED
  BY <1>1, <1>2 DEF FindLoop

(* The candidate is taken: it is closed, and another one looked for.       *)
LEMMA RetryKeeps ==
    ASSUME OwnInv, NEW v \in Vbds, Retry(v), pc[v] \in {"claim", "configure"},
           UNCHANGED <<xs, blk, nextSeq, grabs, faults>>
    PROVE  OwnInv' /\ StepOf(v, Missing)
<1> USE DEF OwnInv
<1>v. ClaimInv(v) /\ AddInv(v) /\ PublishedInv(v)
  BY DEF VbdInv
<1>t. DataTypes /\ refs \in [Loops -> SUBSET ({"excl", "plain", "backend"} \X Vbds)]
      /\ pc \in [Vbds -> PCs] /\ lock \in Vbds \cup {"nobody"}
      /\ loops \in [Loops -> LoopRec]
  BY DEF TypeInv
<1>1. CASE EndWith(v, "failed", loops) /\ UNCHANGED local
  BY <1>t, <1>1, PlainEndKeeps, NoneMarked DEF Ended, DataTypes
<1>2. CASE /\ local' = [local EXCEPT ![v].retry = @ + 1]
           /\ refs' = [refs EXCEPT ![local[v].n] = @ \ {<<"excl", v>>}]
           /\ loops' = AfterClose(loops, refs')
           /\ Goto(v, "find")
           /\ UNCHANGED lock
  <2> DEFINE k == local[v].n
  <2>1. k \in Loops
    BY <1>v DEF AddInv
  <2>2. pc' \in [Vbds -> PCs] /\ pc'[v] = "find" /\ \A u \in Vbds \ {v} : pc'[u] = pc[u]
    BY <1>t, <1>2 DEF Goto, PCs, Adding
  <2>3. /\ DataTypes' /\ local'[v].n = k /\ local'[v].seq = local[v].seq
        /\ \A u \in Vbds \ {v} : local'[u] = local[u]
    <3>1. local[v] \in [n : Devices, seq : Diskseqs, retry : Nat]
      BY <1>t DEF DataTypes
    <3>2. local'[v] = [local[v] EXCEPT !.retry = @ + 1]
          /\ \A u \in Vbds \ {v} : local'[u] = local[u]
      BY <1>2, <1>t DEF DataTypes
    <3>3. local'[v] \in [n : Devices, seq : Diskseqs, retry : Nat]
          /\ local'[v].n = k /\ local'[v].seq = local[v].seq
      BY <3>1, <3>2
    <3>4. local' \in [Vbds -> [n : Devices, seq : Diskseqs, retry : Nat]]
      BY <1>t, <1>2, <3>2, <3>3 DEF DataTypes
    <3> QED
      BY <1>t, <3>2, <3>3, <3>4 DEF DataTypes
  <2>4. /\ refs' \in [Loops -> SUBSET ({"excl", "plain", "backend"} \X Vbds)]
        /\ refs'[k] = refs[k] \ {<<"excl", v>>}
        /\ \A n \in Loops \ {k} : refs'[n] = refs[n]
    BY <1>t, <1>2, <2>1
  <2>5. ASSUME NEW n \in Loops
        PROVE  /\ \/ loops'[n] = loops[n] /\ (loops[n].auto => refs'[n] # {})
                  \/ /\ refs'[n] = {} /\ loops[n].auto
                     /\ loops'[n].owner = "free" /\ loops'[n].seq = loops[n].seq
                     /\ loops'[n].auto = FALSE
               /\ <<"excl", v>> \notin refs'[n] /\ <<"plain", v>> \notin refs'[n]
               /\ \A u \in Vbds \ {v} :
                    /\ <<"excl", u>> \in refs'[n] <=> <<"excl", u>> \in refs[n]
                    /\ <<"plain", u>> \in refs'[n] <=> <<"plain", u>> \in refs[n]
    <3>1. \/ /\ AfterClose(loops, refs')[n] = loops[n]
             /\ loops[n].auto => refs'[n] # {}
          \/ /\ refs'[n] = {} /\ loops[n].auto
             /\ AfterClose(loops, refs')[n].owner = "free"
             /\ AfterClose(loops, refs')[n].seq = loops[n].seq
             /\ AfterClose(loops, refs')[n].auto = FALSE
      BY <1>t, AfterCloseFacts, ZenonT(60)
    <3>2. AfterClose(loops, refs')[n] = loops'[n]
      BY <1>2
    <3>3. <<"excl", v>> \notin refs'[n] /\ <<"plain", v>> \notin refs'[n]
      BY <1>v, <2>4 DEF ClaimInv, Holding
    <3>4. \A u \in Vbds \ {v} :
             /\ <<"excl", u>> \in refs'[n] <=> <<"excl", u>> \in refs[n]
             /\ <<"plain", u>> \in refs'[n] <=> <<"plain", u>> \in refs[n]
      BY <2>4
    <3>5. \/ loops'[n] = loops[n] /\ (loops[n].auto => refs'[n] # {})
          \/ /\ refs'[n] = {} /\ loops[n].auto
             /\ loops'[n].owner = "free" /\ loops'[n].seq = loops[n].seq
             /\ loops'[n].auto = FALSE
      BY <3>1, <3>2, Zenon
    <3> QED
      BY <3>3, <3>4, <3>5
  <2>6. TypeInv'
    <3>0. AfterClose(loops, refs') \in [Loops -> LoopRec]
      BY <1>t, AfterCloseFacts, Zenon
    <3>1. loops' \in [Loops -> LoopRec]
      BY <1>2, <3>0
    <3> QED
      BY <1>t, <1>2, <2>2, <2>3, <2>4, <3>1 DEF TypeInv
  <2>7. StepOf(v, Missing)
    <3>1. \A n \in Loops : /\ loops'[n] = loops[n] \/ Frees(v, n)
                           /\ loops'[n].auto => refs'[n] # {}
      BY <2>5 DEF Frees
    <3> QED
      BY <1>2, <2>2, <2>3, <2>5, <3>1 DEF StepOf
  <2>8. SeqInv(v)'
    BY <2>3, <2>7, SeqKept
  <2>9. ClaimInv(v)'
    BY <2>2, <2>5 DEF ClaimInv, Holding
  <2>10. AddInv(v)'
    <3>1. \A n \in Loops : loops'[n].owner # v
      BY <1>v, <2>5, ActorFacts, ZenonT(60) DEF AddInv
    <3> QED
      BY <1>v, <1>2, <2>2, <3>1 DEF AddInv, IsFile
  <2>11. PublishedInv(v)'
    BY <1>v, <2>2 DEF PublishedInv, AfterPhys, Adding
  <2> QED
    BY <2>6, <2>7, <2>8, <2>9, <2>10, <2>11, StepKeepsOwn DEF VbdInv
<1> QED
  BY <1>1, <1>2 DEF Retry

(* Opening a device with O_EXCL, in "add" and in "remove".                 *)
LEMMA ExclFacts ==
    ASSUME OwnInv, NEW v \in Vbds, NEW k \in Loops, ~Claimed(k), ~Holding(v),
           refs' = [refs EXCEPT ![k] = @ \cup {<<"excl", v>>}]
    PROVE  /\ refs' \in [Loops -> SUBSET ({"excl", "plain", "backend"} \X Vbds)]
           /\ \A n \in Loops :
                /\ <<"excl", v>> \in refs'[n] <=> n = k
                /\ <<"plain", v>> \in refs'[n] <=> <<"plain", v>> \in refs[n]
                /\ refs[n] \subseteq refs'[n]
                /\ \A x \in refs'[n] \ refs[n] :
                      x = <<"plain", v>> \/ (x = <<"excl", v>> /\ ~Claimed(n))
<1>t. refs \in [Loops -> SUBSET ({"excl", "plain", "backend"} \X Vbds)]
  BY DEF OwnInv, TypeInv
<1>1. refs'[k] = refs[k] \cup {<<"excl", v>>} /\ \A n \in Loops \ {k} : refs'[n] = refs[n]
  BY <1>t
<1>2. \A n \in Loops : <<"excl", v>> \notin refs[n]
  BY DEF OwnInv, VbdInv, ClaimInv
<1>3. refs' \in [Loops -> SUBSET ({"excl", "plain", "backend"} \X Vbds)]
  BY <1>t
<1> QED
  BY <1>1, <1>2, <1>3

(* open_loop_dev() of the candidate.                                       *)
LEMMA ClaimLoopKeeps ==
    ASSUME OwnInv, NEW v \in Vbds, ClaimLoop(v)
    PROVE  OwnInv' /\ StepOf(v, Missing)
<1> USE DEF OwnInv
<1>v. ClaimInv(v) /\ AddInv(v) /\ PublishedInv(v) /\ pc[v] = "claim"
  BY DEF VbdInv, ClaimLoop
<1>o. UNCHANGED <<xs, blk, nextSeq, grabs, faults>>
  BY DEF ClaimLoop, outsideVars
<1>t. DataTypes /\ pc \in [Vbds -> PCs] /\ lock \in Vbds \cup {"nobody"}
  BY DEF TypeInv
<1>1. CASE Retry(v)
  BY <1>v, <1>o, <1>1, RetryKeeps
<1>2. CASE /\ ~Claimed(local[v].n)
           /\ refs' = [refs EXCEPT ![local[v].n] = @ \cup {<<"excl", v>>}]
           /\ Goto(v, "configure") /\ UNCHANGED <<loops, lock, local>>
  <2> DEFINE k == local[v].n
  <2>1. k \in Loops /\ ~Holding(v)
    BY <1>v DEF AddInv, Holding
  <2>2. /\ refs' \in [Loops -> SUBSET ({"excl", "plain", "backend"} \X Vbds)]
        /\ \A n \in Loops :
             /\ <<"excl", v>> \in refs'[n] <=> n = k
             /\ <<"plain", v>> \in refs'[n] <=> <<"plain", v>> \in refs[n]
             /\ refs[n] \subseteq refs'[n]
             /\ \A x \in refs'[n] \ refs[n] :
                   x = <<"plain", v>> \/ (x = <<"excl", v>> /\ ~Claimed(n))
    BY <1>2, <2>1, ExclFacts
  <2>3. pc'[v] = "configure" /\ OwnData(v) /\ DataTypes' /\ UNCHANGED <<local, xs, loops, lock>>
    BY <1>t, <1>o, <1>2 DEF Goto, OwnData, DataTypes
  <2>4. ClaimInv(v)'
    BY <1>v, <2>1, <2>2, <2>3 DEF ClaimInv, Holding
  <2>5. AddInv(v)'
    BY <1>v, <2>3 DEF AddInv, IsFile
  <2>6. PublishedInv(v)'
    BY <1>v, <2>3 DEF PublishedInv, AfterPhys, Adding
  <2> QED
    BY <1>t, <1>o, <1>2, <2>2, <2>3, <2>4, <2>5, <2>6, MoveKeeps DEF PCs, Adding
<1> QED
  BY <1>1, <1>2 DEF ClaimLoop

(* LOOP_CONFIGURE: the device that the script holds gets a new diskseq.    *)
LEMMA ConfigureKeeps ==
    ASSUME OwnInv, NEW v \in Vbds, Configure(v)
    PROVE  OwnInv' /\ \E d : StepOf(v, d)
<1> USE DEF OwnInv
<1>v. ClaimInv(v) /\ SeqInv(v) /\ AddInv(v) /\ PublishedInv(v) /\ pc[v] = "configure"
  BY DEF VbdInv, Configure
<1>o. UNCHANGED <<xs, blk, grabs, faults>>
  BY DEF Configure
<1>t. /\ DataTypes /\ pc \in [Vbds -> PCs] /\ lock \in Vbds \cup {"nobody"}
      /\ loops \in [Loops -> LoopRec]
      /\ refs \in [Loops -> SUBSET ({"excl", "plain", "backend"} \X Vbds)]
  BY DEF TypeInv
<1>1. CASE Retry(v) /\ UNCHANGED nextSeq
  BY <1>v, <1>o, <1>1, RetryKeeps
<1>2. CASE /\ IsFree(local[v].n)
           /\ loops' = [loops EXCEPT ![local[v].n] =
                          [owner |-> v, seq |-> nextSeq, auto |-> autoclear(v)]]
           /\ nextSeq' = nextSeq + 1
           /\ lock' = IF lock = v THEN "nobody" ELSE lock
           /\ Goto(v, "diskseq")
           /\ UNCHANGED <<refs, local>>
  <2> DEFINE k == local[v].n
  <2>1. k \in Loops /\ <<"excl", v>> \in refs[k] /\ lock = v /\ loops[k].owner = "free"
    BY <1>v, <1>2 DEF AddInv, ClaimInv, Holding, IsFree
  <2>2. /\ loops' \in [Loops -> LoopRec]
        /\ \A n \in Loops \ {k} : loops'[n] = loops[n]
        /\ loops'[k].owner = v /\ loops'[k].seq = nextSeq
    <3>1. autoclear(v) \in BOOLEAN
      BY NotScriptAssumption DEF autoclear
    <3>2. [owner |-> v, seq |-> nextSeq, auto |-> autoclear(v)] \in LoopRec
      BY <1>t, <3>1 DEF LoopRec, Owners, DataTypes
    <3> QED
      BY <1>t, <1>2, <2>1, <3>2
  <2>3. pc' \in [Vbds -> PCs] /\ pc'[v] = "diskseq" /\ \A u \in Vbds \ {v} : pc'[u] = pc[u]
    BY <1>t, <1>2 DEF Goto, PCs, Adding
  <2>4. TypeInv'
    <3>1. DataTypes'
      BY <1>o, <1>t, <1>2 DEF DataTypes
    <3> QED
      BY <1>t, <1>2, <2>2, <2>3, <3>1 DEF TypeInv
  <2>5. Sets(v, k)
    BY <1>2, <2>1, <2>2 DEF Sets
  <2>6. \A n \in Loops : loops'[n].auto => refs'[n] # {}
    BY <1>2, <2>1, <2>2 DEF LoopInv
  <2>7. StepOf(v, k)
    BY <1>o, <1>2, <2>1, <2>2, <2>3, <2>5, <2>6 DEF StepOf
  <2>8. SeqInv(v)'
    BY <1>o, <1>2, <2>7, SeqKept
  <2>9. IsFile(v) /\ IsFile(v)'
    BY <1>v, <1>o DEF AddInv, IsFile
  <2>10. ClaimInv(v)'
    BY <1>v, <1>2, <2>1, <2>3, <2>9 DEF ClaimInv, Holding
  <2>11. AddInv(v)'
    BY <1>o, <1>2, <2>2, <2>3, <2>9 DEF AddInv, IsFile
  <2>12. PublishedInv(v)'
    BY <1>o, <1>v, <2>3 DEF PublishedInv, AfterPhys, Adding
  <2>13. OwnInv'
    BY <2>4, <2>7, <2>8, <2>10, <2>11, <2>12, StepKeepsOwn DEF VbdInv
  <2> QED
    BY <2>7, <2>13
<1> QED
  BY <1>1, <1>2 DEF Configure

(* BLKGETDISKSEQ: the device is held, so the number is its own.            *)
LEMMA GetDiskseqKeeps ==
    ASSUME OwnInv, NEW v \in Vbds, GetDiskseq(v)
    PROVE  OwnInv' /\ StepOf(v, Missing)
<1> USE DEF OwnInv
<1>v. ClaimInv(v) /\ SeqInv(v) /\ AddInv(v) /\ PublishedInv(v) /\ pc[v] = "diskseq"
  BY DEF VbdInv, GetDiskseq
<1>o. UNCHANGED <<loops, refs, lock, xs, blk, nextSeq, grabs, faults>>
  BY DEF GetDiskseq, kernelVars, outsideVars
<1>t. /\ DataTypes /\ pc \in [Vbds -> PCs] /\ lock \in Vbds \cup {"nobody"}
      /\ loops \in [Loops -> LoopRec]
      /\ refs \in [Loops -> SUBSET ({"excl", "plain", "backend"} \X Vbds)]
  BY DEF TypeInv
<1> DEFINE k == local[v].n
           s == IF k = NotLoop THEN 0 ELSE loops[k].seq
<1>1. k \in Loops \/ k = NotLoop
  <2>1. xs[v].params.kind \in {"file", "blk", "loop"} /\ xs[v].params \in ParamKinds
    BY <1>t, <1>v DEF DataTypes, Entries, ParamKinds, PublishedInv
  <2> QED
    BY <1>v, <2>1 DEF AddInv, ClaimInv, Holding, IsFile, ParamKinds
<1>2. s \in Nat
  BY <1>1, <1>t DEF LoopRec
<1>3. local' = [local EXCEPT ![v].seq = s] /\ Goto(v, "publish")
  BY DEF GetDiskseq
<1> HIDE DEF s
<1>4. /\ OwnData(v) /\ DataTypes' /\ pc'[v] = "publish"
      /\ local'[v].n = k /\ local'[v].seq = s
  BY <1>o, <1>t, <1>2, <1>3 DEF OwnData, DataTypes, Diskseqs, Goto
<1>5. IsFile(v) => k \in Loops /\ s = loops[k].seq /\ loops[k].owner = v
  BY <1>v, ActorFacts DEF s, ClaimInv, AddInv, Holding
<1>6. IsFile(v)' = IsFile(v)
  BY <1>o DEF IsFile
<1>7. SeqInv(v)'
  <2>1. ASSUME IsFile(v)
        PROVE  /\ s \in Nat /\ s > 1 /\ s < nextSeq
               /\ \A n \in Loops : loops[n].seq = s => loops[n].owner \in {v, "free"}
    <3>1. s > 1 /\ s < nextSeq
      BY <1>5, <2>1 DEF LoopInv
    <3>2. ASSUME NEW n \in Loops, loops[n].seq = s, n # k PROVE FALSE
      <4>1. loops[n].seq < 2
        BY <1>5, <2>1, <3>2 DEF LoopInv
      <4> QED
        BY <1>2, <3>1, <3>2, <4>1
    <3> QED
      BY <1>2, <1>5, <2>1, <3>1, <3>2
  <2> QED
    BY <1>o, <1>v, <1>4, <1>6, <2>1 DEF SeqInv, Identifies
<1>8. ClaimInv(v)'
  BY <1>o, <1>v, <1>4, <1>6 DEF ClaimInv, Holding
<1>9. AddInv(v)'
  BY <1>o, <1>v, <1>4, <1>5, <1>6 DEF AddInv
<1>10. PublishedInv(v)'
  BY <1>o, <1>v, <1>4 DEF PublishedInv, AfterPhys, Adding
<1>11. xs'[v].seq \in {Missing, local[v].seq, xs[v].seq}
  BY <1>o
<1> QED
  BY <1>o, <1>t, <1>3, <1>4, <1>7, <1>8, <1>9, <1>10, <1>11, MoveKeeps DEF PCs, Adding

(* The transaction: what "remove" will read is what "add" found.           *)
LEMMA PublishFacts ==
    ASSUME OwnInv, NEW v \in Vbds, Publish(v)
    PROVE  /\ OwnData(v) /\ DataTypes'
           /\ xs'[v].phys = local[v].n /\ xs'[v].seq = local[v].seq
           /\ xs'[v].opened = xs[v].opened
           /\ Published(v, xs[v].phys)'
<1> USE DEF OwnInv
<1>v. ClaimInv(v) /\ AddInv(v) /\ PublishedInv(v) /\ pc[v] = "publish"
  BY DEF VbdInv, Publish
<1>o. UNCHANGED <<local, blk, nextSeq, grabs, faults>>
  BY DEF Publish, outsideVars
<1>t. DataTypes
  BY DEF TypeInv
<1> DEFINE k == local[v].n
<1>1. xs[v] \in Entries /\ xs[v].params \in ParamKinds
      /\ xs[v].params.kind \in {"file", "blk", "loop"}
      /\ local[v] \in [n : Devices, seq : Diskseqs, retry : Nat]
  BY <1>t, <1>v DEF DataTypes, Entries, ParamKinds, PublishedInv
<1>2. PhysdevPath(v) \in [kind : {"file", "blk", "loop", "alias"}, n : Int]
  <2>1. LoopName(k) \in [kind : {"file", "blk", "loop", "alias"}, n : Int]
    BY <1>1, NotScriptAssumption DEF LoopName, Devices, Loops, Missing, NotLoop
  <2>2. xs[v].params \in [kind : {"file", "blk", "loop", "alias"}, n : Int]
    BY <1>1 DEF ParamKinds, Loops
  <2> QED
    BY <2>1, <2>2 DEF PhysdevPath
<1> DEFINE p == PhysdevPath(v)
<1>3. p = IF k = NotLoop THEN xs[v].params ELSE LoopName(k)
  BY DEF PhysdevPath
<1> HIDE DEF p
<1>4. xs' = [xs EXCEPT ![v].phys = k, ![v].path = p, ![v].seq = local[v].seq]
  BY DEF Publish, p
<1>5. /\ xs'[v].phys = k /\ xs'[v].path = p /\ xs'[v].seq = local[v].seq
      /\ xs'[v].opened = xs[v].opened /\ xs'[v].params = xs[v].params
      /\ \A u \in Vbds \ {v} : xs'[u] = xs[u]
      /\ xs' \in [Vbds -> Entries]
  BY <1>t, <1>1, <1>2, <1>4 DEF DataTypes, Entries, p
<1>6. OwnData(v) /\ DataTypes'
  BY <1>o, <1>t, <1>5 DEF OwnData, DataTypes
<1>7. IsFile(v)' => k \in Loops /\ xs'[v].path = LoopName(k)
  BY <1>v, <1>3, <1>5, ActorFacts DEF ClaimInv, Holding, IsFile
<1>8. xs'[v].params.kind = "blk" => k = NotLoop
  BY <1>v, <1>5 DEF AddInv
<1>9. xs'[v].params.kind = "loop" => k \in Loops /\ xs'[v].path = xs'[v].params
  <2> SUFFICES ASSUME xs[v].params.kind = "loop" PROVE k \in Loops /\ p = xs[v].params
    BY <1>5
  <2>1. k = xs[v].params.n /\ xs[v].params \in [kind : {"loop", "alias"}, n : Loops]
    BY <1>v, <1>1 DEF AddInv, ParamKinds
  <2> QED
    BY <1>3, <2>1, ActorFacts DEF LoopName
<1> QED
  BY <1>5, <1>6, <1>7, <1>8, <1>9 DEF Published, LoopName

(* The script goes on to wait for the backend, or ends.                    *)
LEMMA PublishKeeps ==
    ASSUME OwnInv, NEW v \in Vbds, Publish(v)
    PROVE  OwnInv' /\ StepOf(v, Missing)
<1> USE DEF OwnInv
<1>v. ClaimInv(v) /\ AddInv(v) /\ PublishedInv(v) /\ pc[v] = "publish"
  BY DEF VbdInv, Publish
<1>o. UNCHANGED <<local, blk, nextSeq, grabs, faults>>
  BY DEF Publish, outsideVars
<1>t. /\ pc \in [Vbds -> PCs] /\ lock \in Vbds \cup {"nobody"}
      /\ refs \in [Loops -> SUBSET ({"excl", "plain", "backend"} \X Vbds)]
  BY DEF TypeInv
<1>1. /\ OwnData(v) /\ DataTypes'
      /\ xs'[v].phys = local[v].n /\ xs'[v].seq = local[v].seq
      /\ Published(v, xs[v].phys)'
  BY PublishFacts
<1>2. xs'[v].seq \in {Missing, local[v].seq, xs[v].seq} /\ local'[v].seq = local[v].seq
  BY <1>o, <1>1
<1>3. CASE EndWith(v, "added", loops)
  BY <1>o, <1>1, <1>2, <1>3, EndKeeps, NoneMarked DEF Ended
<1>4. CASE Goto(v, "wait") /\ UNCHANGED kernelVars
  <2>1. pc'[v] = "wait" /\ UNCHANGED <<loops, refs, lock, local>> /\ IsFile(v)' = IsFile(v)
        /\ xs'[v].params = xs[v].params
    BY <1>o, <1>t, <1>1, <1>4 DEF Goto, kernelVars, OwnData, IsFile
  <2>2. ClaimInv(v)'
    BY <1>v, <2>1 DEF ClaimInv, Holding
  <2>3. AddInv(v)'
    BY <1>v, <2>1 DEF AddInv
  <2>4. PublishedInv(v)'
    BY <1>v, <1>1, <2>1 DEF PublishedInv, AfterPhys, Adding
  <2> QED
    BY <1>o, <1>t, <1>1, <1>2, <1>4, <2>1, <2>2, <2>3, <2>4, MoveKeeps DEF PCs
<1> QED
  BY <1>3, <1>4 DEF Publish

(* The ends of a script that wait for the backend, or die.                 *)
LEMMA EndingsKeep ==
    ASSUME OwnInv, NEW v \in Vbds, WaitOpened(v) \/ Timeout(v) \/ Die(v)
    PROVE  OwnInv' /\ StepOf(v, Missing)
<1>1. PICK status \in Ended : EndWith(v, status, loops)
  BY DEF WaitOpened, Timeout, Die, Ended
<1>2. UNCHANGED <<xs, local, blk, nextSeq, grabs>> /\ faults' \in Nat
  BY DEF WaitOpened, Timeout, Die, outsideVars, OwnInv, TypeInv, DataTypes
<1> QED
  BY <1>1, <1>2, PlainEndKeeps, NoneMarked

(***************************************************************************)
(* The steps of "remove"                                                   *)
(***************************************************************************)

(* It starts, and takes the number of the device from XenStore.            *)
LEMMA RemovePhysKeeps ==
    ASSUME OwnInv, NEW v \in Vbds, StartRemove(v) \/ RemovePhys(v)
    PROVE  OwnInv' /\ StepOf(v, Missing)
<1> USE DEF OwnInv
<1>v. ClaimInv(v) /\ AddInv(v) /\ PublishedInv(v)
  BY DEF VbdInv
<1>o. UNCHANGED <<blk, nextSeq, grabs, faults>>
  BY DEF StartRemove, RemovePhys, outsideVars
<1>t. /\ DataTypes /\ pc \in [Vbds -> PCs] /\ lock \in Vbds \cup {"nobody"}
      /\ refs \in [Loops -> SUBSET ({"excl", "plain", "backend"} \X Vbds)]
  BY DEF TypeInv
<1>n. /\ pc[v] \in {"added", "failed", "rm_phys"}
      /\ \A n \in Loops : <<"excl", v>> \notin refs[n] /\ <<"plain", v>> \notin refs[n]
  BY <1>v DEF ClaimInv, Holding, StartRemove, RemovePhys
<1>1. CASE StartRemove(v)
  <2>1. pc'[v] = "rm_phys" /\ UNCHANGED <<loops, refs, lock, local, xs>>
    BY <1>1, <1>t DEF StartRemove, Goto, kernelVars
  <2>2. OwnData(v) /\ DataTypes'
    BY <1>o, <1>t, <2>1 DEF OwnData, DataTypes
  <2>3. ClaimInv(v)' /\ AddInv(v)'
    BY <1>n, <2>1 DEF ClaimInv, AddInv, Holding
  <2>4. PublishedInv(v)'
    BY <1>v, <2>1 DEF PublishedInv, AfterPhys, Adding, Published, IsFile
  <2> QED
    BY <1>o, <1>t, <1>1, <2>1, <2>2, <2>3, <2>4, MoveKeeps DEF PCs, Removing, StartRemove
<1>2. CASE RemovePhys(v) /\ EndWith(v, "rm_failed", loops) /\ UNCHANGED <<local, xs>>
  BY <1>o, <1>t, <1>2, PlainEndKeeps, NoneMarked DEF Ended, DataTypes
<1>3. CASE /\ xs[v].phys # Missing
           /\ local' = [local EXCEPT ![v].n = xs[v].phys]
           /\ xs' = [xs EXCEPT ![v].phys = Missing]
           /\ Goto(v, "rm_diskseq") /\ UNCHANGED kernelVars
  <2>1. pc'[v] = "rm_diskseq" /\ UNCHANGED <<loops, refs, lock>>
    BY <1>3, <1>t DEF Goto, kernelVars
  <2>2. xs[v] \in Entries /\ local[v] \in [n : Devices, seq : Diskseqs, retry : Nat]
    BY <1>t DEF DataTypes
  <2>3. /\ local'[v].n = xs[v].phys /\ local'[v].seq = local[v].seq
        /\ local' \in [Vbds -> [n : Devices, seq : Diskseqs, retry : Nat]]
        /\ \A u \in Vbds \ {v} : local'[u] = local[u]
    BY <1>t, <1>3, <2>2 DEF DataTypes, Entries
  <2>4. /\ xs'[v].phys = Missing /\ xs'[v].params = xs[v].params
        /\ xs'[v].seq = xs[v].seq /\ xs'[v].path = xs[v].path
        /\ xs' \in [Vbds -> Entries] /\ \A u \in Vbds \ {v} : xs'[u] = xs[u]
    BY <1>t, <1>3, <2>2 DEF DataTypes, Entries, Devices
  <2>5. OwnData(v) /\ DataTypes'
    BY <1>o, <1>t, <2>3, <2>4 DEF OwnData, DataTypes
  <2>6. ClaimInv(v)' /\ AddInv(v)'
    BY <1>n, <2>1 DEF ClaimInv, AddInv, Holding
  <2>7. PublishedInv(v)'
    BY <1>v, <1>3, <2>1, <2>3, <2>4 DEF PublishedInv, AfterPhys, Adding, Published, IsFile
  <2> QED
    BY <1>o, <1>t, <1>3, <2>1, <2>3, <2>4, <2>5, <2>6, <2>7, MoveKeeps DEF PCs, Removing
<1> QED
  BY <1>1, <1>2, <1>3 DEF RemovePhys

(* Then the diskseq; only a loop device needs more.                        *)
LEMMA RemoveDiskseqKeeps ==
    ASSUME OwnInv, NEW v \in Vbds, RemoveDiskseq(v)
    PROVE  OwnInv' /\ StepOf(v, Missing)
<1> USE DEF OwnInv
<1>v. ClaimInv(v) /\ AddInv(v) /\ PublishedInv(v) /\ pc[v] = "rm_diskseq"
  BY DEF VbdInv, RemoveDiskseq
<1>o. UNCHANGED <<blk, nextSeq, grabs, faults>>
  BY DEF RemoveDiskseq, outsideVars
<1>t. /\ DataTypes /\ pc \in [Vbds -> PCs] /\ lock \in Vbds \cup {"nobody"}
      /\ refs \in [Loops -> SUBSET ({"excl", "plain", "backend"} \X Vbds)]
  BY DEF TypeInv
<1>1. CASE EndWith(v, "rm_failed", loops) /\ UNCHANGED <<local, xs>>
  BY <1>o, <1>t, <1>1, PlainEndKeeps, NoneMarked DEF Ended, DataTypes
<1>2. CASE /\ local' = [local EXCEPT ![v].seq = xs[v].seq]
           /\ xs' = [xs EXCEPT ![v].seq = Missing]
           /\ IF local[v].n = NotLoop THEN EndWith(v, "removed", loops)
              ELSE Goto(v, "rm_path") /\ UNCHANGED kernelVars
  <2>1. xs[v] \in Entries /\ local[v] \in [n : Devices, seq : Diskseqs, retry : Nat]
    BY <1>t DEF DataTypes
  <2>2. /\ local'[v].n = local[v].n /\ local'[v].seq = xs[v].seq
        /\ local' \in [Vbds -> [n : Devices, seq : Diskseqs, retry : Nat]]
        /\ \A u \in Vbds \ {v} : local'[u] = local[u]
    BY <1>t, <1>2, <2>1 DEF DataTypes, Entries
  <2>3. /\ xs'[v].phys = xs[v].phys /\ xs'[v].params = xs[v].params
        /\ xs'[v].seq = Missing /\ xs'[v].path = xs[v].path
        /\ xs' \in [Vbds -> Entries] /\ \A u \in Vbds \ {v} : xs'[u] = xs[u]
    BY <1>t, <1>2, <2>1 DEF DataTypes, Entries, Diskseqs
  <2>4. OwnData(v) /\ DataTypes'
    BY <1>o, <1>t, <2>2, <2>3 DEF OwnData, DataTypes
  <2>5. xs'[v].phys = Missing
    BY <1>v, <2>3 DEF PublishedInv, AfterPhys
  <2>6. CASE EndWith(v, "removed", loops)
    BY <1>o, <2>2, <2>3, <2>4, <2>5, <2>6, EndKeeps, NoneMarked DEF Ended
  <2>7. CASE local[v].n # NotLoop /\ Goto(v, "rm_path") /\ UNCHANGED kernelVars
    <3>1. pc'[v] = "rm_path" /\ UNCHANGED <<loops, refs, lock>>
      BY <1>t, <2>7 DEF Goto, kernelVars
    <3>2. ClaimInv(v)' /\ AddInv(v)'
      BY <1>v, <3>1 DEF ClaimInv, AddInv, Holding
    <3>3. xs[v].params.kind \in {"file", "blk", "loop"}
      BY <1>v, <2>1 DEF Entries, ParamKinds, PublishedInv
    <3>4. PublishedInv(v)'
      BY <1>v, <2>2, <2>3, <2>7, <3>1, <3>3
         DEF PublishedInv, AfterPhys, Adding, Published, IsFile
    <3> QED
      BY <1>o, <1>t, <2>2, <2>3, <2>4, <2>7, <3>1, <3>2, <3>4, MoveKeeps DEF PCs, Removing
  <2> QED
    BY <1>2, <2>6, <2>7
<1> QED
  BY <1>1, <1>2 DEF RemoveDiskseq

(* "Check if the device was created by us": of the device that was there   *)
(* before, XenStore has the name that "params" has.                        *)
LEMMA CheckPathKeeps ==
    ASSUME OwnInv, NEW v \in Vbds, CheckPath(v)
    PROVE  OwnInv' /\ StepOf(v, Missing)
<1> USE DEF OwnInv
<1>v. ClaimInv(v) /\ AddInv(v) /\ PublishedInv(v) /\ pc[v] = "rm_path"
  BY DEF VbdInv, CheckPath
<1>o. UNCHANGED <<local, xs, blk, nextSeq, grabs, faults>>
  BY DEF CheckPath, outsideVars
<1>t. /\ DataTypes /\ pc \in [Vbds -> PCs] /\ lock \in Vbds \cup {"nobody"}
      /\ refs \in [Loops -> SUBSET ({"excl", "plain", "backend"} \X Vbds)]
  BY DEF TypeInv
<1>1. CASE EndWith(v, "removed", loops)
  BY <1>o, <1>t, <1>1, PlainEndKeeps, NoneMarked DEF Ended, DataTypes
<1>2. CASE xs[v].path # xs[v].params /\ Goto(v, "rm_open") /\ UNCHANGED kernelVars
  <2>1. pc'[v] = "rm_open" /\ UNCHANGED <<loops, refs, lock>>
    BY <1>t, <1>2 DEF Goto, kernelVars
  <2>2. OwnData(v) /\ DataTypes'
    BY <1>o, <1>t DEF OwnData, DataTypes
  <2>3. ClaimInv(v)' /\ AddInv(v)'
    BY <1>v, <2>1 DEF ClaimInv, AddInv, Holding
  <2>4. xs[v].params.kind \in {"file", "blk", "loop"}
    BY <1>t, <1>v DEF DataTypes, Entries, ParamKinds, PublishedInv
  <2>5. IsFile(v)
    BY <1>v, <1>2, <2>4, ActorFacts DEF PublishedInv, Published, AfterPhys, IsFile
  <2>6. PublishedInv(v)'
    BY <1>o, <1>v, <2>1, <2>5 DEF PublishedInv, AfterPhys, Adding, Published, IsFile
  <2> QED
    BY <1>o, <1>t, <1>2, <2>1, <2>2, <2>3, <2>6, MoveKeeps DEF PCs, Removing
<1> QED
  BY <1>1, <1>2 DEF CheckPath

(* The device is opened with O_EXCL, without the lock.                     *)
LEMMA RemoveOpenKeeps ==
    ASSUME OwnInv, NEW v \in Vbds, RemoveOpen(v)
    PROVE  OwnInv' /\ StepOf(v, Missing)
<1> USE DEF OwnInv
<1>v. ClaimInv(v) /\ AddInv(v) /\ PublishedInv(v) /\ pc[v] = "rm_open"
  BY DEF VbdInv, RemoveOpen
<1>o. UNCHANGED <<local, xs, blk, nextSeq, grabs, faults>>
  BY DEF RemoveOpen, outsideVars
<1>t. /\ DataTypes /\ pc \in [Vbds -> PCs] /\ lock \in Vbds \cup {"nobody"}
  BY DEF TypeInv
<1>1. CASE EndWith(v, "rm_failed", loops)
  BY <1>o, <1>t, <1>1, PlainEndKeeps, NoneMarked DEF Ended, DataTypes
<1>2. CASE /\ ~Claimed(local[v].n)
           /\ refs' = [refs EXCEPT ![local[v].n] = @ \cup {<<"excl", v>>}]
           /\ Goto(v, "rm_check") /\ UNCHANGED <<loops, lock>>
  <2> DEFINE k == local[v].n
  <2>1. k \in Loops /\ ~Holding(v)
    BY <1>v DEF PublishedInv, AfterPhys, Holding
  <2>2. /\ refs' \in [Loops -> SUBSET ({"excl", "plain", "backend"} \X Vbds)]
        /\ \A n \in Loops :
             /\ <<"excl", v>> \in refs'[n] <=> n = k
             /\ <<"plain", v>> \in refs'[n] <=> <<"plain", v>> \in refs[n]
             /\ refs[n] \subseteq refs'[n]
             /\ \A x \in refs'[n] \ refs[n] :
                   x = <<"plain", v>> \/ (x = <<"excl", v>> /\ ~Claimed(n))
    BY <1>2, <2>1, ExclFacts
  <2>3. pc'[v] = "rm_check" /\ OwnData(v) /\ DataTypes'
    BY <1>t, <1>o, <1>2 DEF Goto, OwnData, DataTypes
  <2>4. ClaimInv(v)'
    BY <1>o, <1>v, <2>1, <2>2, <2>3 DEF ClaimInv, Holding
  <2>5. AddInv(v)'
    BY <2>3 DEF AddInv
  <2>6. PublishedInv(v)'
    BY <1>o, <1>v, <2>3 DEF PublishedInv, AfterPhys, Adding, Published, IsFile
  <2> QED
    BY <1>t, <1>o, <1>2, <2>2, <2>3, <2>4, <2>5, <2>6, MoveKeeps DEF PCs, Removing
<1> QED
  BY <1>1, <1>2 DEF RemoveOpen

(* The diskseq is compared while the device is held.                       *)
LEMMA CheckDiskseqKeeps ==
    ASSUME OwnInv, NEW v \in Vbds, CheckDiskseq(v)
    PROVE  OwnInv' /\ StepOf(v, Missing)
<1> USE DEF OwnInv
<1>v. ClaimInv(v) /\ AddInv(v) /\ PublishedInv(v) /\ pc[v] = "rm_check"
  BY DEF VbdInv, CheckDiskseq
<1>o. UNCHANGED <<local, xs, blk, nextSeq, grabs, faults>>
  BY DEF CheckDiskseq, outsideVars
<1>t. /\ DataTypes /\ pc \in [Vbds -> PCs] /\ lock \in Vbds \cup {"nobody"}
      /\ refs \in [Loops -> SUBSET ({"excl", "plain", "backend"} \X Vbds)]
  BY DEF TypeInv
<1>1. CASE EndWith(v, "rm_failed", loops)
  BY <1>o, <1>t, <1>1, PlainEndKeeps, NoneMarked DEF Ended, DataTypes
<1>2. CASE /\ loops[local[v].n].seq = local[v].seq
           /\ Goto(v, "rm_clear") /\ UNCHANGED kernelVars
  <2>1. pc'[v] = "rm_clear" /\ UNCHANGED <<loops, refs, lock>>
    BY <1>t, <1>2 DEF Goto, kernelVars
  <2>2. OwnData(v) /\ DataTypes'
    BY <1>o, <1>t DEF OwnData, DataTypes
  <2>3. ClaimInv(v)'
    BY <1>o, <1>v, <2>1 DEF ClaimInv, Holding
  <2>4. AddInv(v)'
    BY <2>1 DEF AddInv
  <2>5. PublishedInv(v)'
    BY <1>o, <1>v, <1>2, <2>1 DEF PublishedInv, AfterPhys, Adding, Published, IsFile
  <2> QED
    BY <1>o, <1>t, <1>2, <2>1, <2>2, <2>3, <2>4, <2>5, MoveKeeps DEF PCs, Removing
<1> QED
  BY <1>1, <1>2 DEF CheckDiskseq

(* LOOP_CLR_FD.                                                            *)
LEMMA ClearLoopKeeps ==
    ASSUME OwnInv, NEW v \in Vbds, ClearLoop(v)
    PROVE  OwnInv' /\ StepOf(v, local[v].n)
<1> USE DEF OwnInv
<1>o. UNCHANGED <<local, xs, blk, nextSeq, grabs, faults>> /\ faults' \in Nat
  BY DEF ClearLoop, outsideVars, TypeInv, DataTypes
<1>1. CASE EndWith(v, "rm_failed", loops)
  BY <1>o, <1>1, PlainEndKeeps, NoneMarked DEF Ended
<1>2. CASE /\ Configured(local[v].n)
           /\ EndWith(v, "removed", [loops EXCEPT ![local[v].n].auto = TRUE])
  <2> DEFINE k == local[v].n
             ls == [loops EXCEPT ![k].auto = TRUE]
  <2>1. k \in Loops /\ pc[v] = "rm_clear" /\ loops \in [Loops -> LoopRec]
    BY DEF ClearLoop, VbdInv, PublishedInv, AfterPhys, TypeInv
  <2>2. /\ ls \in [Loops -> LoopRec] /\ ls[k].owner = loops[k].owner
        /\ ls[k].seq = loops[k].seq
        /\ \A n \in Loops \ {k} : ls[n] = loops[n]
    BY <2>1 DEF LoopRec
  <2>3. Marked(v, k, ls)
    BY <1>2, <2>1, <2>2 DEF Marked, MayClear
  <2> HIDE DEF ls
  <2>4. EndWith(v, "removed", ls)
    BY <1>2 DEF ls
  <2> QED
    BY <1>o, <2>3, <2>4, PlainEndKeeps DEF Ended
<1> QED
  BY <1>1, <1>2 DEF ClearLoop

(***************************************************************************)
(* The backend and other programs                                          *)
(***************************************************************************)

(* No script's: the data of the scripts stay, but for "opened".            *)
LEMMA NobodyKeeps ==
    ASSUME OwnInv, TypeInv', UNCHANGED <<pc, local, lock>>, NEW d,
           \A u \in Vbds :
              /\ xs'[u].params = xs[u].params /\ xs'[u].phys = xs[u].phys
              /\ xs'[u].seq = xs[u].seq /\ xs'[u].path = xs[u].path
           , nextSeq' \in {nextSeq, nextSeq + 1},
           \A n \in Loops, u \in Vbds :
              /\ <<"excl", u>> \in refs'[n] <=> <<"excl", u>> \in refs[n]
              /\ <<"plain", u>> \in refs'[n] <=> <<"plain", u>> \in refs[n],
           \A n \in Loops :
              /\ loops'[n].auto => refs'[n] # {}
              /\ n # d => loops'[n] = loops[n] \/ Frees("nobody", n)
              /\ n = d => \/ loops'[n] = loops[n] \/ Frees("nobody", n)
                          \/ Clears("nobody", n) \/ Makes(n) \/ Sets("nobody", n)
    PROVE  OwnInv' /\ StepOf("nobody", d)
<1>1. ASSUME NEW n \in Loops PROVE <<"excl", "nobody">> \notin refs'[n]
  <2>1. refs'[n] \subseteq {"excl", "plain", "backend"} \X Vbds
    BY DEF TypeInv
  <2> QED
    BY <2>1, ActorFacts
<1>2. StepOf("nobody", d)
  BY <1>1 DEF StepOf
<1> QED
  BY <1>2, StepKeepsOwn, ActorFacts

(* The backend opens the device that XenStore names.                       *)
LEMMA BackendOpenKeeps ==
    ASSUME OwnInv, NEW v \in Vbds, BackendOpen(v)
    PROVE  OwnInv' /\ StepOf("nobody", Missing)
<1> USE DEF OwnInv
<1>t. /\ DataTypes /\ loops \in [Loops -> LoopRec]
      /\ refs \in [Loops -> SUBSET ({"excl", "plain", "backend"} \X Vbds)]
  BY DEF TypeInv
<1>o. UNCHANGED <<loops, lock, pc, local, nextSeq, grabs, faults>>
  BY DEF BackendOpen
<1>1. /\ refs' \in [Loops -> SUBSET ({"excl", "plain", "backend"} \X Vbds)]
      /\ \A n \in Loops : /\ refs[n] \subseteq refs'[n]
                          /\ refs'[n] \subseteq refs[n] \cup {<<"backend", v>>}
  <2>1. CASE UNCHANGED refs
    BY <1>t, <2>1
  <2>2. CASE refs' = [refs EXCEPT ![xs[v].phys] = @ \cup {<<"backend", v>>}]
    <3>1. \A n \in Loops : refs'[n] = refs[n] \/ refs'[n] = refs[n] \cup {<<"backend", v>>}
      BY <1>t, <2>2
    <3>2. refs' \in [Loops -> SUBSET ({"excl", "plain", "backend"} \X Vbds)]
      <4>1. ASSUME NEW n \in Loops
            PROVE  refs'[n] \in SUBSET ({"excl", "plain", "backend"} \X Vbds)
        BY <1>t, <3>1
      <4>2. refs' = [n \in Loops |-> refs'[n]]
        BY <1>t, <2>2
      <4> QED
        BY <4>1, <4>2
    <3> QED
      BY <3>1, <3>2
  <2> QED
    BY <2>1, <2>2 DEF BackendOpen
<1>2. /\ xs' \in [Vbds -> Entries]
      /\ \A u \in Vbds :
           /\ xs'[u].params = xs[u].params /\ xs'[u].phys = xs[u].phys
           /\ xs'[u].seq = xs[u].seq /\ xs'[u].path = xs[u].path
  <2>1. PICK o \in {"missing", "0", "1"} : xs' = [xs EXCEPT ![v].opened = o]
    <3>1. xs[v].opened \in {"missing", "0", "1"}
      BY <1>t DEF DataTypes, Entries
    <3>2. xs' = [xs EXCEPT ![v].opened = IF xs[v].opened = "0" THEN "1" ELSE xs[v].opened]
      BY DEF BackendOpen
    <3> QED
      BY <3>1, <3>2
  <2> QED
    BY <1>t, <2>1 DEF DataTypes, Entries
<1>3. TypeInv'
  <2>1. blk' \in [Vbds -> {"init", "open", "closed"}]
    BY <1>t DEF BackendOpen, DataTypes
  <2> QED
    BY <1>t, <1>o, <1>1, <1>2, <2>1 DEF TypeInv, DataTypes
<1>4. ASSUME NEW n \in Loops, NEW u \in Vbds
      PROVE  /\ <<"excl", u>> \in refs'[n] <=> <<"excl", u>> \in refs[n]
             /\ <<"plain", u>> \in refs'[n] <=> <<"plain", u>> \in refs[n]
  BY <1>1
<1>5. ASSUME NEW n \in Loops PROVE loops'[n].auto => refs'[n] # {}
  BY <1>o, <1>1 DEF LoopInv
<1> QED
  BY <1>o, <1>2, <1>3, <1>4, <1>5, NobodyKeeps

(* It closes it, perhaps as the last one.                                  *)
LEMMA BackendCloseKeeps ==
    ASSUME OwnInv, NEW v \in Vbds, BackendClose(v)
    PROVE  OwnInv' /\ StepOf("nobody", Missing)
<1> USE DEF OwnInv
<1>t. /\ DataTypes /\ loops \in [Loops -> LoopRec]
      /\ refs \in [Loops -> SUBSET ({"excl", "plain", "backend"} \X Vbds)]
  BY DEF TypeInv
<1>o. UNCHANGED <<lock, xs, pc, local, nextSeq, grabs, faults>>
  BY DEF BackendClose
<1>1. /\ refs' = [n \in Loops |-> refs[n] \ {<<"backend", v>>}]
      /\ loops' = AfterClose(loops, refs')
  BY DEF BackendClose
<1>2. refs' \in [Loops -> SUBSET ({"excl", "plain", "backend"} \X Vbds)]
  BY <1>t, <1>1
<1>3. ASSUME NEW n \in Loops, NEW u \in Vbds
      PROVE  /\ <<"excl", u>> \in refs'[n] <=> <<"excl", u>> \in refs[n]
             /\ <<"plain", u>> \in refs'[n] <=> <<"plain", u>> \in refs[n]
  <2>1. refs'[n] = refs[n] \ {<<"backend", v>>}
    BY <1>1
  <2> QED
    BY <2>1
<1>4. AfterClose(loops, refs') \in [Loops -> LoopRec]
  BY <1>t, AfterCloseFacts, Zenon
<1>5. TypeInv'
  <2>1. blk' \in [Vbds -> {"init", "open", "closed"}]
    BY <1>t DEF BackendClose, DataTypes
  <2> QED
    BY <1>o, <1>1, <1>2, <1>4, <2>1 DEF TypeInv, DataTypes
<1>6. ASSUME NEW n \in Loops
      PROVE  /\ loops'[n].auto => refs'[n] # {}
             /\ loops'[n] = loops[n] \/ Frees("nobody", n)
  <2>1. \/ /\ AfterClose(loops, refs')[n] = loops[n]
           /\ loops[n].auto => refs'[n] # {}
        \/ /\ refs'[n] = {} /\ loops[n].auto
           /\ AfterClose(loops, refs')[n].owner = "free"
           /\ AfterClose(loops, refs')[n].seq = loops[n].seq
           /\ AfterClose(loops, refs')[n].auto = FALSE
    BY <1>t, AfterCloseFacts, ZenonT(60)
  <2>2. AfterClose(loops, refs')[n] = loops'[n]
    BY <1>1
  <2> QED
    BY <2>1, <2>2, Zenon DEF Frees
<1> QED
  BY <1>o, <1>3, <1>5, <1>6, NobodyKeeps

(* Another program sets up a loop device or detaches its own.              *)
LEMMA OutsiderKeeps ==
    ASSUME OwnInv, NEW k \in Loops, OutsiderGrab(k) \/ OutsiderDetach(k)
    PROVE  OwnInv' /\ StepOf("nobody", k)
<1> USE DEF OwnInv
<1>t. /\ DataTypes /\ loops \in [Loops -> LoopRec]
      /\ refs \in [Loops -> SUBSET ({"excl", "plain", "backend"} \X Vbds)]
      /\ nextSeq \in Nat
  BY DEF TypeInv, DataTypes
<1>o. UNCHANGED <<refs, lock, xs, pc, local, blk, faults>>
  BY DEF OutsiderGrab, OutsiderDetach, outsideVars
<1>1. CASE OutsiderGrab(k)
  <2>1. /\ loops' = [loops EXCEPT ![k] =
                       [owner |-> "outsider", seq |-> nextSeq, auto |-> FALSE]]
        /\ nextSeq' = nextSeq + 1 /\ grabs' = grabs + 1 /\ loops[k].owner = "free" /\ ~Claimed(k)
    BY <1>1 DEF OutsiderGrab, IsFree
  <2>2. [owner |-> "outsider", seq |-> nextSeq, auto |-> FALSE] \in LoopRec
    BY <1>t DEF LoopRec, Owners
  <2>3. /\ loops' \in [Loops -> LoopRec] /\ loops'[k].owner = "outsider"
        /\ loops'[k].seq = nextSeq /\ loops'[k].auto = FALSE
        /\ \A n \in Loops \ {k} : loops'[n] = loops[n]
    BY <1>t, <2>1, <2>2
  <2>4. TypeInv'
    BY <1>o, <1>t, <2>1, <2>3 DEF TypeInv, DataTypes
  <2>5. Sets("nobody", k)
    BY <2>1, <2>3 DEF Sets
  <2>6. \A n \in Loops : loops'[n].auto => refs'[n] # {}
    BY <1>o, <2>3 DEF LoopInv
  <2> QED
    BY <1>o, <2>1, <2>3, <2>4, <2>5, <2>6, NobodyKeeps
<1>2. CASE OutsiderDetach(k)
  <2> DEFINE ls == [loops EXCEPT ![k].auto = TRUE]
  <2>1. /\ ls \in [Loops -> LoopRec] /\ ls[k].owner = loops[k].owner
        /\ ls[k].seq = loops[k].seq
        /\ \A n \in Loops \ {k} : ls[n] = loops[n]
    BY <1>t DEF LoopRec
  <2>2. loops' = AfterClose(ls, refs) /\ UNCHANGED <<nextSeq, grabs>> /\ loops[k].owner = "outsider"
    BY <1>2 DEF OutsiderDetach, outsideVars
  <2> HIDE DEF ls
  <2>3. AfterClose(ls, refs) \in [Loops -> LoopRec]
    BY <2>1, AfterCloseFacts
  <2>4. TypeInv'
    BY <1>o, <1>t, <2>2, <2>3 DEF TypeInv, DataTypes
  <2>5. ASSUME NEW n \in Loops
        PROVE  /\ loops'[n].auto => refs'[n] # {}
               /\ n # k => loops'[n] = loops[n] \/ Frees("nobody", n)
               /\ n = k => Clears("nobody", n) \/ Frees("nobody", n)
    <3>1. \/ /\ AfterClose(ls, refs)[n] = ls[n]
             /\ ls[n].auto => refs[n] # {}
          \/ /\ refs[n] = {} /\ ls[n].auto
             /\ AfterClose(ls, refs)[n].owner = "free"
             /\ AfterClose(ls, refs)[n].seq = ls[n].seq
             /\ AfterClose(ls, refs)[n].auto = FALSE
      BY <2>1, AfterCloseFacts, ZenonT(60)
    <3>2. AfterClose(ls, refs)[n] = loops'[n] /\ refs'[n] = refs[n]
      BY <1>o, <2>2
    <3>3. \/ loops'[n] = ls[n] /\ (ls[n].auto => refs'[n] # {})
          \/ /\ refs'[n] = {} /\ ls[n].auto /\ loops'[n].owner = "free"
             /\ loops'[n].seq = ls[n].seq /\ loops'[n].auto = FALSE
      BY <3>1, <3>2, Zenon
    <3> QED
      BY <2>1, <2>2, <3>3 DEF Frees, Clears, MayClear, Configured
  <2> QED
    BY <1>o, <2>2, <2>4, <2>5, NobodyKeeps
<1> QED
  BY <1>1, <1>2

(***************************************************************************)
(* Only its own                                                            *)
(***************************************************************************)

(* A step of the script for v. *)
Script(v) == Add(v) \/ Remove(v) \/ Die(v) \/ Timeout(v)

(* Each keeps the invariant and what the others hold.                      *)
LEMMA ScriptSteps ==
    ASSUME OwnInv, NEW v \in Vbds, Script(v)
    PROVE  OwnInv' /\ \E d : StepOf(v, d)
  BY AddOpenKeeps, LockKeeps, FindLoopKeeps, ClaimLoopKeeps, ConfigureKeeps,
     GetDiskseqKeeps, PublishKeeps, EndingsKeep, RemovePhysKeeps, RemoveDiskseqKeeps,
     CheckPathKeeps, RemoveOpenKeeps, CheckDiskseqKeeps, ClearLoopKeeps DEF Script, Add, Remove

(* Every step is a step of one actor.                                      *)
LEMMA NextKeepsOwn ==
    ASSUME OwnInv, [Next]_vars
    PROVE  OwnInv'
<1>1. ASSUME NEW v \in Vbds, Script(v) PROVE OwnInv'
  BY <1>1, ScriptSteps
<1>2. ASSUME NEW v \in Vbds, BackendOpen(v) \/ BackendClose(v) PROVE OwnInv'
  BY <1>2, BackendOpenKeeps, BackendCloseKeeps
<1>3. ASSUME NEW n \in Loops, OutsiderGrab(n) \/ OutsiderDetach(n) PROVE OwnInv'
  BY <1>3, OutsiderKeeps
<1>4. CASE UNCHANGED vars
  <2>1. UNCHANGED <<loops, refs, lock, xs, pc, local, blk, nextSeq, grabs, faults>>
    BY <1>4 DEF vars
  <2>2. TypeInv'
    BY <2>1 DEF OwnInv, TypeInv, DataTypes
  <2>3. ASSUME NEW n \in Loops PROVE loops'[n].auto => refs'[n] # {}
    BY <2>1 DEF OwnInv, LoopInv
  <2> QED
    BY <2>1, <2>2, <2>3, NobodyKeeps
<1> QED
  BY <1>1, <1>2, <1>3, <1>4 DEF Next, Done, Script

(* At the start no script has run and no diskseq of theirs exists.         *)
LEMMA InitOwn ==
    ASSUME NoAliases, Init
    PROVE  OwnInv
<1>1. PICK p \in ParamChoices, o \in [Vbds -> Opened] :
         xs = [v \in Vbds |-> [params |-> p[v], phys |-> Missing, seq |-> Missing,
                               path |-> LoopName(Missing), opened |-> o[v]]]
  BY DEF Init
<1>2. ASSUME NEW v \in Vbds
      PROVE  /\ xs[v] \in Entries /\ xs[v].params.kind # "alias"
             /\ xs[v].phys = Missing /\ xs[v].seq = Missing
             /\ pc[v] = "new" /\ local[v].seq = Missing
  <2>1. p[v] \in ParamKinds /\ p[v].kind # "alias" /\ o[v] \in {"missing", "0", "1"}
    BY NotScriptAssumption DEF NoAliases
  <2>2. LoopName(Missing) \in [kind : {"file", "blk", "loop", "alias"}, n : Int]
    BY DEF LoopName, Missing
  <2>3. xs[v] = [params |-> p[v], phys |-> Missing, seq |-> Missing,
                 path |-> LoopName(Missing), opened |-> o[v]]
    BY <1>1
  <2>4. pc[v] = "new" /\ local[v].seq = Missing
    BY DEF Init
  <2> HIDE DEF Missing
  <2> QED
    BY <2>1, <2>2, <2>3, <2>4 DEF Entries, Devices, Diskseqs
<1>3. ASSUME NEW n \in Loops
      PROVE  /\ loops[n] \in LoopRec /\ loops[n].owner \in {"outsider", "free", "absent"}
             /\ loops[n].seq \in {0, 1} /\ loops[n].auto = FALSE /\ refs[n] = {}
  <2>1. loops[n] = IF \E v \in Vbds : IsLoop(v) /\ xs[v].params.n = n
                   THEN [owner |-> "outsider", seq |-> 1, auto |-> FALSE]
                   ELSE [owner |-> IF n = 0 THEN "free" ELSE "absent",
                         seq |-> 0, auto |-> FALSE]
    BY DEF Init
  <2>2. refs[n] = {}
    BY DEF Init
  <2> QED
    BY <2>1, <2>2 DEF LoopRec, Owners
<1>4. TypeInv
  <2>1. DataTypes
    <3>1. xs \in [Vbds -> Entries]
      BY <1>1, <1>2
    <3>2. local \in [Vbds -> [n : Devices, seq : Diskseqs, retry : Nat]]
      BY DEF Init, Devices, Diskseqs
    <3>3. blk \in [Vbds -> {"init", "open", "closed"}]
      BY DEF Init
    <3>4. nextSeq = 2 /\ grabs = 0 /\ faults = 0
      BY DEF Init
    <3> QED
      BY <3>1, <3>2, <3>3, <3>4 DEF DataTypes
  <2>2. loops \in [Loops -> LoopRec]
    BY <1>3 DEF Init
  <2>3. refs \in [Loops -> SUBSET ({"excl", "plain", "backend"} \X Vbds)]
    BY DEF Init
  <2> QED
    BY <2>1, <2>2, <2>3 DEF Init, TypeInv, PCs, Adding
<1>5. LoopInv
  <2>1. nextSeq = 2
    BY DEF Init
  <2>2. \A n \in Loops : ~loops[n].auto
    BY <1>3
  <2>3. ASSUME NEW n \in Loops PROVE loops[n].seq < 2 /\ loops[n].owner \notin Vbds
    <3>1. loops[n].seq \in {0, 1} /\ loops[n].owner \in {"outsider", "free", "absent"}
      BY <1>3
    <3> QED
      BY <3>1, ActorFacts
  <2>4. \A n \in Loops, u \in Vbds : <<"excl", u>> \notin refs[n]
    BY <1>3
  <2> QED
    BY <2>1, <2>2, <2>3, <2>4 DEF LoopInv
<1>6. ASSUME NEW v \in Vbds PROVE VbdInv(v)
  BY <1>2, <1>3, <1>6, ActorFacts
     DEF VbdInv, ClaimInv, SeqInv, AddInv, PublishedInv, Identifies, Holding, AfterPhys
<1> QED
  BY <1>4, <1>5, <1>6 DEF OwnInv

(* What the scripts hold and what they know is theirs, always.             *)
THEOREM OwnInvariant == ASSUME NoAliases PROVE Spec => []OwnInv
<1>1. Init => OwnInv
  BY InitOwn
<1>2. OwnInv /\ [Next]_vars => OwnInv'
  BY NextKeepsOwn
<1> QED
  BY <1>1, <1>2, PTL DEF Spec

(* A script that is about to detach a device holds it, and it is its own   *)
(* or has been freed.                                                      *)
LEMMA ClearsOwn ==
    ASSUME OwnInv, NEW v \in Vbds, pc[v] = "rm_clear"
    PROVE  /\ local[v].n \in Loops
           /\ loops[local[v].n].owner \in {v, "free"}
<1>1. /\ local[v].n \in Loops /\ IsFile(v) /\ loops[local[v].n].seq = local[v].seq
      /\ Identifies(v, local[v].seq)
  BY DEF OwnInv, VbdInv, PublishedInv, AfterPhys, SeqInv
<1>2. loops[local[v].n].seq \in Nat
  BY <1>1 DEF OwnInv, TypeInv, LoopRec
<1> QED
  BY <1>1, <1>2 DEF Identifies, Missing

(* "remove" detaches only a loop device that "add" for the same virtual    *)
(* device configured (not-script.c:312), not one that was freed and reused *)
(* since, nor one of somebody else: the last close of a script can free    *)
(* only what it holds.                                                     *)
THEOREM DetachesOnlyOwn_Safe == ASSUME NoAliases PROVE Spec => DetachesOnlyOwn
<1>1. ASSUME OwnInv, [Next]_vars, NEW v \in Vbds, NEW n \in Loops,
             pc[v] = "rm_clear", pc'[v] # "rm_clear", loops'[n] # loops[n]
      PROVE  loops[n].owner = v
  <2> DEFINE k == local[v].n
  <2>1. ClearLoop(v) \/ Die(v)
    <3>1. pc \in [Vbds -> PCs]
      BY <1>1 DEF OwnInv, TypeInv
    <3>2. ASSUME NEW u \in Vbds, u # v, Script(u) PROVE FALSE
      BY <1>1, <3>2, ScriptSteps DEF StepOf
    <3>3. ASSUME NEW u \in Vbds, BackendOpen(u) \/ BackendClose(u) PROVE FALSE
      BY <1>1, <3>3 DEF BackendOpen, BackendClose
    <3>4. ASSUME NEW m \in Loops, OutsiderGrab(m) \/ OutsiderDetach(m) PROVE FALSE
      BY <1>1, <3>4 DEF OutsiderGrab, OutsiderDetach
    <3>5. Script(v)
      BY <1>1, <3>2, <3>3, <3>4 DEF Next, Done, vars, Script
    <3>6. ~Add(v) /\ ~Timeout(v)
      BY <1>1 DEF Add, Timeout, AddOpen, Lock, FindLoop, ClaimLoop, Configure, GetDiskseq,
                  Publish, WaitOpened
    <3> QED
      BY <1>1, <3>5, <3>6 DEF Script, Remove, StartRemove, RemovePhys, RemoveDiskseq, CheckPath,
                              RemoveOpen, CheckDiskseq
  <2>2. PICK ls, status : /\ EndWith(v, status, ls)
                          /\ ls \in [Loops -> LoopRec]
                          /\ \A m \in Loops \ {k} : ls[m] = loops[m]
    <3>1. loops \in [Loops -> LoopRec]
      BY <1>1 DEF OwnInv, TypeInv
    <3>2. [loops EXCEPT ![k].auto = TRUE] \in [Loops -> LoopRec]
      BY <1>1, <3>1, ClearsOwn DEF LoopRec
    <3> QED
      BY <2>1, <3>1, <3>2 DEF ClearLoop, Die
  <2>3. n = k
    <3> SUFFICES ASSUME n # k PROVE FALSE
      OBVIOUS
    <3>1. refs'[n] = refs[n] \ {<<"excl", v>>, <<"plain", v>>} /\ loops' = AfterClose(ls, refs')
      BY <2>2 DEF EndWith
    <3>2. <<"excl", v>> \notin refs[n] /\ <<"plain", v>> \notin refs[n]
      BY <1>1 DEF OwnInv, VbdInv, ClaimInv
    <3>3. refs'[n] = refs[n]
      BY <3>1, <3>2
    <3>4. loops[n].auto => refs[n] # {}
      BY <1>1 DEF OwnInv, LoopInv
    <3>5. \/ /\ AfterClose(ls, refs')[n] = ls[n]
             /\ ls[n].auto => refs'[n] # {}
          \/ /\ refs'[n] = {} /\ ls[n].auto
             /\ AfterClose(ls, refs')[n].owner = "free"
             /\ AfterClose(ls, refs')[n].seq = ls[n].seq
             /\ AfterClose(ls, refs')[n].auto = FALSE
      BY <2>2, AfterCloseFacts, Zenon
    <3> QED
      BY <1>1, <2>2, <3>1, <3>3, <3>4, <3>5
  <2>4. loops[k].owner \in {v, "free"}
    BY <1>1, ClearsOwn
  <2>5. CASE loops[k].owner = "free"
    <3>1. ~loops[k].auto /\ ~Configured(k)
      BY <1>1, <2>3, <2>5 DEF OwnInv, LoopInv, Configured
    <3>2. \E s : EndWith(v, s, loops)
      BY <2>1, <3>1 DEF ClearLoop, Die
    <3>3. loops' = AfterClose(loops, refs')
      BY <3>2 DEF EndWith
    <3>4. loops \in [Loops -> LoopRec]
      BY <1>1 DEF OwnInv, TypeInv
    <3>k. k \in Loops
      BY <2>3
    <3> HIDE DEF k
    <3>5. \/ /\ AfterClose(loops, refs')[k] = loops[k]
             /\ loops[k].auto => refs'[k] # {}
          \/ /\ refs'[k] = {} /\ loops[k].auto
             /\ AfterClose(loops, refs')[k].owner = "free"
             /\ AfterClose(loops, refs')[k].seq = loops[k].seq
             /\ AfterClose(loops, refs')[k].auto = FALSE
      BY <3>k, <3>4, AfterCloseFacts, Zenon
    <3> QED
      BY <1>1, <2>3, <3>1, <3>3, <3>5
  <2> QED
    BY <2>3, <2>4, <2>5
<1>2. OwnInv /\ [Next]_vars =>
        [\A v \in Vbds, n \in Loops :
            pc[v] = "rm_clear" /\ pc'[v] # "rm_clear" /\ loops'[n] # loops[n]
               => loops[n].owner = v]_vars
  BY <1>1
<1> QED
  BY <1>2, OwnInvariant, PTL DEF Spec, DetachesOnlyOwn

(***************************************************************************)
(* The image for the backend                                               *)
(***************************************************************************)

(* The step of another actor leaves a device of u alone, if it is not just *)
(* waiting to be closed.                                                   *)
LEMMA Untouched ==
    ASSUME OwnInv, NEW v \in Vbds \cup {"nobody"}, NEW d, StepOf(v, d),
           NEW u \in Vbds, u # v, NEW k \in Loops, loops[k].owner = u,
           ~loops[k].auto \/ <<"excl", u>> \in refs[k]
    PROVE  loops'[k] = loops[k]
<1>1. ~MayClear(v, k)
  BY ClearsOwn, ActorFacts DEF MayClear
<1>2. ~Frees(v, k)
  BY <1>1 DEF Frees, StepOf
<1>3. ~Clears(v, k) /\ ~Makes(k) /\ ~Sets(v, k)
  BY <1>1, ActorFacts DEF Clears, Makes, Sets
<1> QED
  BY <1>2, <1>3 DEF StepOf

(* So does a step of its own script that detaches nothing.                 *)
LEMMA OwnUntouched ==
    ASSUME OwnInv, NEW v \in Vbds, StepOf(v, Missing), pc[v] # "rm_clear",
           NEW k \in Loops, loops[k].owner = v, ~loops[k].auto
    PROVE  loops'[k] = loops[k]
<1>1. ~Frees(v, k)
  BY ActorFacts DEF Frees, MayClear
<1> QED
  BY <1>1, ActorFacts DEF StepOf

(* The steps of others keep the image for u.                               *)
LEMMA OthersKeepImage ==
    ASSUME OwnInv, NEW v \in Vbds \cup {"nobody"}, NEW d, StepOf(v, d),
           NEW u \in Vbds, u # v, ImageInv(u),
           xs'[u].opened = xs[u].opened, blk'[u] = blk[u]
    PROVE  ImageInv(u)'
<1>1. /\ pc'[u] = pc[u] /\ local'[u] = local[u] /\ xs'[u].phys = xs[u].phys
      /\ xs'[u].params = xs[u].params
  BY DEF StepOf
<1>2. IsFile(u)' = IsFile(u) /\ autoclear(u)' = autoclear(u)
  BY <1>1 DEF IsFile, autoclear
<1> SUFFICES ASSUME IsFile(u) PROVE ImageInv(u)'
  BY <1>2 DEF ImageInv
<1>3. ASSUME pc[u] \in {"diskseq", "publish"}
      PROVE  loops'[local[u].n].auto = loops[local[u].n].auto
  <2>1. /\ local[u].n \in Loops /\ <<"excl", u>> \in refs[local[u].n]
        /\ loops[local[u].n].owner = u
    BY <1>3 DEF OwnInv, VbdInv, AddInv, ClaimInv, Holding
  <2> QED
    BY <2>1, Untouched
<1>4. ASSUME xs[u].phys # Missing, loops[xs[u].phys].owner = u, ~loops[xs[u].phys].auto
      PROVE  loops'[xs[u].phys] = loops[xs[u].phys]
  <2>1. xs[u].phys \in Loops
    BY <1>4 DEF OwnInv, VbdInv, PublishedInv, Published
  <2> QED
    BY <1>4, <2>1, Untouched
<1> QED
  BY <1>1, <1>2, <1>3, <1>4 DEF ImageInv

(* What the scripts leave alone.                                           *)
LEMMA ScriptFrames ==
    ASSUME OwnInv, NEW v \in Vbds, Script(v)
    PROVE  /\ UNCHANGED blk /\ faults' \in {faults, faults + 1}
           /\ \A u \in Vbds : xs'[u].opened = xs[u].opened
<1>1. UNCHANGED blk /\ faults' \in {faults, faults + 1}
  BY DEF Script, Add, Remove, AddOpen, Lock, FindLoop, ClaimLoop, Configure, GetDiskseq,
         Publish, WaitOpened, StartRemove, RemovePhys, RemoveDiskseq, CheckPath, RemoveOpen,
         CheckDiskseq, ClearLoop, Die, Timeout, outsideVars
<1> SUFFICES \A u \in Vbds : xs'[u].opened = xs[u].opened
  BY <1>1
<1>t. xs \in [Vbds -> Entries]
  BY DEF OwnInv, TypeInv, DataTypes
<1>2. CASE Publish(v)
  BY <1>2, PublishFacts DEF OwnData
<1>3. CASE RemovePhys(v)
  <2>1. UNCHANGED xs \/ xs' = [xs EXCEPT ![v].phys = Missing]
    BY <1>3 DEF RemovePhys
  <2> QED
    BY <1>t, <2>1 DEF Entries
<1>4. CASE RemoveDiskseq(v)
  <2>1. UNCHANGED xs \/ xs' = [xs EXCEPT ![v].seq = Missing]
    BY <1>4 DEF RemoveDiskseq
  <2> QED
    BY <1>t, <2>1 DEF Entries
<1>5. CASE UNCHANGED xs
  BY <1>5
<1> QED
  BY <1>2, <1>3, <1>4, <1>5
     DEF Script, Add, Remove, AddOpen, Lock, FindLoop, ClaimLoop, Configure, GetDiskseq,
         WaitOpened, StartRemove, CheckPath, RemoveOpen, CheckDiskseq, ClearLoop, Die, Timeout

(* A script keeps the image for its own backend.                           *)
LEMMA ScriptKeepsImage ==
    ASSUME OwnInv, NEW v \in Vbds, Script(v), ImageInv(v)
    PROVE  ImageInv(v)'
<1>0. /\ OwnInv' /\ blk'[v] = blk[v] /\ xs'[v].opened = xs[v].opened
      /\ xs'[v].params = xs[v].params
  BY ScriptSteps, ScriptFrames DEF StepOf
<1>1. IsFile(v)' = IsFile(v) /\ autoclear(v)' = autoclear(v)
  BY <1>0 DEF IsFile, autoclear
<1> SUFFICES ASSUME IsFile(v) PROVE ImageInv(v)'
  BY <1>1 DEF ImageInv
<1>t. /\ local \in [Vbds -> [n : Devices, seq : Diskseqs, retry : Nat]]
      /\ pc \in [Vbds -> PCs] /\ loops \in [Loops -> LoopRec]
  BY DEF OwnInv, TypeInv, DataTypes
(* Nothing is in XenStore before "add" publishes and after "remove" read it. *)
<1>2. ASSUME xs'[v].phys = Missing, pc'[v] \notin {"diskseq", "publish", "wait"}
      PROVE  ImageInv(v)'
  BY <1>1, <1>2 DEF ImageInv
(* An end with a device still published leaves that device alone. *)
<1>3. ASSUME UNCHANGED xs, StepOf(v, Missing), pc[v] # "rm_clear",
             pc'[v] \in Ended \cup {"rm_phys"}, pc[v] # "added" => pc'[v] # "added",
             pc'[v] # "removed", pc[v] \in {"added", "failed", "rm_phys"}
      PROVE  ImageInv(v)'
  <2>1. ASSUME xs[v].phys # Missing, blk[v] = "init", ~autoclear(v)
        PROVE  loops'[xs[v].phys].owner = v /\ ~loops'[xs[v].phys].auto
    <3>1. /\ xs[v].phys \in Loops
          /\ loops[xs[v].phys].owner = v /\ ~loops[xs[v].phys].auto
      BY <2>1 DEF OwnInv, VbdInv, PublishedInv, Published, ImageInv
    <3> QED
      BY <1>3, <3>1, OwnUntouched
  <2>2. ASSUME xs[v].phys # Missing, blk[v] = "init", autoclear(v)
        PROVE  pc'[v] \in {"wait", "failed", "rm_phys", "rm_failed"}
    BY <1>3, <2>2 DEF ImageInv, Ended
  <2> QED
    BY <1>0, <1>1, <1>3, <2>1, <2>2 DEF ImageInv, Ended
<1>4. ASSUME pc[v] \in Adding \cup AfterPhys PROVE xs[v].phys = Missing
  BY <1>4 DEF OwnInv, VbdInv, PublishedInv
<1>5. CASE Configure(v)
  <2>1. CASE pc'[v] # "diskseq"
    <3>1. pc'[v] \in {"find", "failed"} /\ UNCHANGED xs /\ pc[v] = "configure"
      BY <1>5, <1>t, <2>1 DEF Configure, Retry, EndWith, Goto
    <3> QED
      BY <1>2, <1>4, <3>1 DEF Adding
  <2>2. CASE pc'[v] = "diskseq"
    <3>1. /\ pc[v] = "configure" /\ UNCHANGED <<xs, local>>
          /\ loops' = [loops EXCEPT ![local[v].n] =
                          [owner |-> v, seq |-> nextSeq, auto |-> autoclear(v)]]
      BY <1>5, <1>t, <2>2 DEF Configure, Retry, EndWith, Goto
    <3>2. local[v].n \in Loops
      BY <3>1 DEF OwnInv, VbdInv, AddInv
    <3>3. loops'[local[v].n].auto = autoclear(v) /\ xs'[v].phys = Missing
      BY <1>4, <1>t, <3>1, <3>2 DEF Adding
    <3> QED
      BY <1>1, <2>2, <3>1, <3>3 DEF ImageInv
  <2> QED
    BY <2>1, <2>2
<1>6. CASE AddOpen(v) \/ Lock(v) \/ FindLoop(v) \/ ClaimLoop(v)
  <2>1. /\ UNCHANGED xs /\ pc[v] \in Adding
        /\ pc'[v] \in {"failed", "lock", "find", "claim", "configure"}
    BY <1>6, <1>t DEF AddOpen, Lock, FindLoop, ClaimLoop, Retry, EndWith, Goto, IsFile, Adding
  <2> QED
    BY <1>2, <1>4, <2>1
<1>7. CASE GetDiskseq(v)
  <2>1. /\ pc[v] = "diskseq" /\ pc'[v] = "publish" /\ UNCHANGED <<loops, xs>>
        /\ local'[v].n = local[v].n
    BY <1>7, <1>t DEF GetDiskseq, Goto, kernelVars
  <2> QED
    BY <1>1, <1>4, <2>1 DEF ImageInv, Adding
<1>8. CASE Publish(v)
  <2>1. xs'[v].phys = local[v].n /\ pc[v] = "publish" /\ local'[v].n = local[v].n
        /\ StepOf(v, Missing)
    BY <1>8, PublishFacts, PublishKeeps DEF Publish
  <2>2. /\ local[v].n \in Loops /\ loops[local[v].n].owner = v
        /\ loops[local[v].n].auto = autoclear(v)
    BY <2>1 DEF OwnInv, VbdInv, ClaimInv, AddInv, Holding, ImageInv
  <2>3. CASE autoclear(v)
    <3>1. pc'[v] = "wait"
      BY <1>8, <1>t, <2>3 DEF Publish, Goto
    <3> QED
      BY <1>1, <2>1, <2>3, <3>1 DEF ImageInv
  <2>4. CASE ~autoclear(v)
    <3>1. pc'[v] = "added"
      BY <1>8, <1>t, <2>4 DEF Publish, EndWith
    <3>2. loops'[local[v].n] = loops[local[v].n]
      BY <2>1, <2>2, <2>4, OwnUntouched
    <3> QED
      BY <1>1, <2>1, <2>2, <2>4, <3>1, <3>2 DEF ImageInv
  <2> QED
    BY <2>3, <2>4
<1>9. CASE WaitOpened(v) \/ Timeout(v)
  <2>1. /\ UNCHANGED xs /\ pc[v] = "wait"
        /\ \/ pc'[v] = "failed"
           \/ pc'[v] = "added" /\ xs[v].opened = "1"
    BY <1>9, <1>t DEF WaitOpened, Timeout, EndWith
  <2>2. blk[v] = "init" => autoclear(v) /\ pc'[v] = "failed"
    BY <2>1 DEF ImageInv, autoclear
  <2> QED
    BY <1>0, <1>1, <2>1, <2>2 DEF ImageInv
<1>10. CASE Die(v)
  <2>1. /\ UNCHANGED xs /\ pc[v] \in Adding \cup Removing
        /\ pc'[v] \in {"failed", "rm_failed"}
    BY <1>10, <1>t DEF Die, EndWith
  <2>2. CASE pc[v] = "rm_phys"
    BY <1>3, <1>10, <2>1, <2>2, EndingsKeep DEF Ended
  <2>3. CASE pc[v] # "rm_phys"
    <3>1. pc[v] \in Adding \cup AfterPhys
      BY <2>1, <2>3 DEF Removing, AfterPhys
    <3> QED
      BY <1>2, <1>4, <2>1, <3>1
  <2> QED
    BY <2>2, <2>3
<1>11. CASE StartRemove(v)
  <2>1. pc[v] \in {"added", "failed"} /\ pc'[v] = "rm_phys" /\ UNCHANGED xs
    BY <1>11, <1>t DEF StartRemove, Goto
  <2> QED
    BY <1>3, <1>11, <2>1, RemovePhysKeeps
<1>12. CASE RemovePhys(v)
  <2>1. /\ xs'[v].phys = Missing /\ pc'[v] \in {"rm_failed", "rm_diskseq"}
    <3>1. xs \in [Vbds -> Entries]
      BY DEF OwnInv, TypeInv, DataTypes
    <3> QED
      BY <1>12, <1>t, <3>1 DEF RemovePhys, EndWith, Goto, Entries
  <2> QED
    BY <1>2, <2>1
<1>13. CASE RemoveDiskseq(v) \/ CheckPath(v) \/ RemoveOpen(v) \/ CheckDiskseq(v) \/ ClearLoop(v)
  <2>1. pc[v] \in AfterPhys
    BY <1>13 DEF RemoveDiskseq, CheckPath, RemoveOpen, CheckDiskseq, ClearLoop, AfterPhys
  <2>2. pc'[v] \in AfterPhys \cup {"removed", "rm_failed"}
    BY <1>13, <1>t DEF RemoveDiskseq, CheckPath, RemoveOpen, CheckDiskseq, ClearLoop,
                       EndWith, Goto, AfterPhys
  <2>3. xs'[v].phys = xs[v].phys
    <3>1. xs \in [Vbds -> Entries]
      BY DEF OwnInv, TypeInv, DataTypes
    <3>2. UNCHANGED xs \/ xs' = [xs EXCEPT ![v].seq = Missing]
      BY <1>13 DEF RemoveDiskseq, CheckPath, RemoveOpen, CheckDiskseq, ClearLoop
    <3> QED
      BY <3>1, <3>2 DEF Entries
  <2> QED
    BY <1>2, <1>4, <2>1, <2>2, <2>3 DEF AfterPhys
<1> QED
  BY <1>5, <1>6, <1>7, <1>8, <1>9, <1>10, <1>11, <1>12, <1>13 DEF Script, Add, Remove

(* The backend of v opens what was published, and closes it.               *)
LEMMA BackendKeepsImage ==
    ASSUME OwnInv, NEW v \in Vbds, BackendOpen(v) \/ BackendClose(v), ImageInv(v)
    PROVE  ImageInv(v)'
<1>t. xs \in [Vbds -> Entries] /\ blk \in [Vbds -> {"init", "open", "closed"}]
  BY DEF OwnInv, TypeInv, DataTypes
<1>1. /\ UNCHANGED <<pc, local>> /\ blk'[v] \in {"open", "closed"}
      /\ StepOf("nobody", Missing)
  BY <1>t, BackendOpenKeeps, BackendCloseKeeps DEF BackendOpen, BackendClose
<1>2. xs'[v].phys = xs[v].phys /\ IsFile(v)' = IsFile(v)
  BY <1>1, ActorFacts DEF StepOf, IsFile
<1>3. ASSUME IsFile(v), pc[v] \in {"diskseq", "publish"}
      PROVE  loops'[local[v].n].auto = autoclear(v)'
  <2>1. ~BackendOpen(v)
    BY <1>3 DEF BackendOpen, OwnInv, VbdInv, PublishedInv, Adding
  <2>2. UNCHANGED xs
    BY <2>1 DEF BackendClose
  <2>3. /\ local[v].n \in Loops /\ <<"excl", v>> \in refs[local[v].n]
        /\ loops[local[v].n].owner = v
    BY <1>3 DEF OwnInv, VbdInv, AddInv, ClaimInv, Holding
  <2>4. loops'[local[v].n] = loops[local[v].n]
    <3>1. PICK k \in Loops : k = local[v].n
      BY <2>3
    <3>2. v # "nobody"
      BY ActorFacts
    <3>3. loops'[k] = loops[k]
      BY <1>1, <2>3, <3>1, <3>2, Untouched
    <3> QED
      BY <3>1, <3>3
  <2> QED
    BY <1>3, <2>2, <2>4 DEF ImageInv, autoclear
<1> QED
  BY <1>1, <1>2, <1>3 DEF ImageInv

(* Every step.                                                             *)
LEMMA NextKeepsImage ==
    ASSUME OwnInv, \A u \in Vbds : ImageInv(u), [Next]_vars
    PROVE  \A u \in Vbds : ImageInv(u)'
<1> SUFFICES ASSUME NEW u \in Vbds PROVE ImageInv(u)'
  OBVIOUS
<1>1. ASSUME NEW v \in Vbds, Script(v) PROVE ImageInv(u)'
  <2>1. CASE u = v
    BY <1>1, <2>1, ScriptKeepsImage
  <2>2. CASE u # v
    BY <1>1, <2>2, ScriptSteps, ScriptFrames, OthersKeepImage
  <2> QED
    BY <2>1, <2>2
<1>2. ASSUME NEW v \in Vbds, BackendOpen(v) \/ BackendClose(v) PROVE ImageInv(u)'
  <2>1. CASE u = v
    BY <1>2, <2>1, BackendKeepsImage
  <2>2. CASE u # v
    <3>1. blk'[u] = blk[u] /\ xs'[u].opened = xs[u].opened
      BY <1>2, <2>2 DEF BackendOpen, BackendClose, OwnInv, TypeInv, DataTypes
    <3> QED
      BY <1>2, <3>1, BackendOpenKeeps, BackendCloseKeeps, OthersKeepImage, ActorFacts
  <2> QED
    BY <2>1, <2>2
<1>3. ASSUME NEW n \in Loops, OutsiderGrab(n) \/ OutsiderDetach(n) PROVE ImageInv(u)'
  <2>1. UNCHANGED <<xs, blk>>
    BY <1>3 DEF OutsiderGrab, OutsiderDetach, outsideVars
  <2> QED
    BY <1>3, <2>1, OutsiderKeeps, OthersKeepImage, ActorFacts
<1>4. CASE UNCHANGED vars
  BY <1>4 DEF vars, ImageInv, IsFile, autoclear
<1> QED
  BY <1>1, <1>2, <1>3, <1>4 DEF Next, Done, Script

(* The loop device that the backend opens by its number is still the one   *)
(* that "add" configured for the image, also when it goes with its last    *)
(* close (not-script.c:529-548), unless "add" gave up waiting.             *)
THEOREM BackendGetsTheImage_Safe == ASSUME NoAliases PROVE Spec => BackendGetsTheImage
<1> DEFINE I == \A v \in Vbds : ImageInv(v)
           A == \A v \in Vbds :
                   blk[v] = "init" /\ blk'[v] = "open" /\ IsFile(v)
                      => \/ loops[xs[v].phys].owner = v
                         \/ pc[v] \in {"failed", "rm_phys", "rm_failed"} /\ autoclear(v)
<1>1. Init => I
  <2>1. ASSUME Init, NEW v \in Vbds PROVE ImageInv(v)
    <3>1. pc[v] = "new"
      BY <2>1 DEF Init
    <3>2. PICK p \in ParamChoices, o \in [Vbds -> Opened] :
             xs = [w \in Vbds |-> [params |-> p[w], phys |-> Missing, seq |-> Missing,
                                   path |-> LoopName(Missing), opened |-> o[w]]]
      BY <2>1 DEF Init
    <3>3. xs[v].phys = Missing
      BY <3>2
    <3> QED
      BY <3>1, <3>3 DEF ImageInv
  <2> QED
    BY <2>1
<1>2. OwnInv /\ I /\ [Next]_vars => I'
  BY NextKeepsImage
<1>3. ASSUME OwnInv, I, [Next]_vars, NEW v \in Vbds,
             blk[v] = "init", blk'[v] = "open", IsFile(v)
      PROVE  \/ loops[xs[v].phys].owner = v
             \/ pc[v] \in {"failed", "rm_phys", "rm_failed"} /\ autoclear(v)
  <2>1. BackendOpen(v)
    <3>t. blk \in [Vbds -> {"init", "open", "closed"}]
      BY <1>3 DEF OwnInv, TypeInv, DataTypes
    <3>1. ~\E u \in Vbds : Script(u)
      BY <1>3, ScriptFrames
    <3>2. ~\E n \in Loops : OutsiderGrab(n) \/ OutsiderDetach(n)
      BY <1>3 DEF OutsiderGrab, OutsiderDetach, outsideVars
    <3>3. \E u \in Vbds : BackendOpen(u) \/ BackendClose(u)
      BY <1>3, <3>1, <3>2 DEF Next, Done, vars, Script
    <3> QED
      BY <1>3, <3>t, <3>3 DEF BackendOpen, BackendClose
  <2>2. xs[v].phys # Missing
    BY <2>1 DEF BackendOpen
  <2>3. CASE ~autoclear(v)
    BY <1>3, <2>2, <2>3 DEF ImageInv
  <2>4. CASE autoclear(v) /\ pc[v] = "wait"
    BY <1>3, <2>4 DEF ImageInv, OwnInv, VbdInv, AddInv
  <2> QED
    BY <1>3, <2>2, <2>3, <2>4 DEF ImageInv
<1>4. OwnInv /\ I /\ [Next]_vars => [A]_vars
  BY <1>3
<1>5. BackendGetsTheImage <=> [][A]_vars
  BY DEF BackendGetsTheImage
<1> HIDE DEF I, A
<1> QED
  BY <1>1, <1>2, <1>4, <1>5, OwnInvariant, PTL DEF Spec

(***************************************************************************)
(* No leak                                                                 *)
(***************************************************************************)

(* "remove" keeps the number that it took.                                 *)
LEMMA TakenStays ==
    ASSUME OwnInv, NEW v \in Vbds, Script(v), pc[v] \in AfterPhys \cup {"removed", "rm_failed"}
    PROVE  pc'[v] \in AfterPhys \cup {"removed", "rm_failed"} /\ local'[v].n = local[v].n
<1>t. /\ local \in [Vbds -> [n : Devices, seq : Diskseqs, retry : Nat]]
      /\ pc \in [Vbds -> PCs]
  BY DEF OwnInv, TypeInv, DataTypes
<1>1. CASE Add(v) \/ StartRemove(v) \/ RemovePhys(v) \/ Timeout(v)
  BY <1>1 DEF Add, AddOpen, Lock, FindLoop, ClaimLoop, Configure, GetDiskseq, Publish,
              WaitOpened, StartRemove, RemovePhys, Timeout, AfterPhys
<1>2. CASE RemoveDiskseq(v) \/ CheckPath(v) \/ RemoveOpen(v) \/ CheckDiskseq(v) \/ ClearLoop(v)
  <2>1. pc'[v] \in AfterPhys \cup {"removed", "rm_failed"}
    BY <1>2, <1>t DEF RemoveDiskseq, CheckPath, RemoveOpen, CheckDiskseq, ClearLoop,
                      EndWith, Goto, AfterPhys
  <2>2. UNCHANGED local \/ local' = [local EXCEPT ![v].seq = xs[v].seq]
    BY <1>2 DEF RemoveDiskseq, CheckPath, RemoveOpen, CheckDiskseq, ClearLoop
  <2> QED
    BY <1>t, <2>1, <2>2
<1>3. CASE Die(v)
  BY <1>3, <1>t DEF Die, EndWith, Adding, AfterPhys
<1> QED
  BY <1>1, <1>2, <1>3 DEF Script, Remove

(* The steps of others keep the way to a device of u.                      *)
LEMMA OthersKeepTrack ==
    ASSUME OwnInv, OwnInv', NEW v \in Vbds \cup {"nobody"}, NEW d, StepOf(v, d),
           NEW u \in Vbds, u # v, TrackInv(u),
           faults' \in {faults, faults + 1},
           v \in Vbds /\ pc[v] \in AfterPhys \cup {"removed", "rm_failed"} =>
              pc'[v] \in AfterPhys \cup {"removed", "rm_failed"} /\ local'[v].n = local[v].n
    PROVE  TrackInv(u)'
<1> SUFFICES ASSUME NEW n \in Loops, loops'[n].owner = u
             PROVE  IsFile(u)' /\ (~loops'[n].auto => Tracked(u, n)')
  BY DEF TrackInv
<1>1. /\ pc'[u] = pc[u] /\ local'[u] = local[u] /\ xs'[u].phys = xs[u].phys
      /\ xs'[u].params = xs[u].params /\ xs'[u].seq = xs[u].seq
      /\ IsFile(u)' = IsFile(u)
  BY DEF StepOf, IsFile
<1>2. loops'[n] = loops[n]
  <2>1. ~Frees(v, n) /\ ~Makes(n) /\ ~Sets(v, n)
    BY ActorFacts DEF Frees, Makes, Sets
  <2>2. ~Clears(v, n)
    BY ClearsOwn, ActorFacts DEF Clears, MayClear
  <2> QED
    BY <2>1, <2>2 DEF StepOf
<1>3. IsFile(u) /\ (~loops[n].auto => Tracked(u, n))
  BY <1>2 DEF TrackInv
<1>4. ASSUME Taken(u, n) PROVE Taken(u, n)'
  <2>1. PICK w \in Vbds \ {u} :
           pc[w] \in AfterPhys \cup {"removed", "rm_failed"} /\ local[w].n = n
    BY <1>4 DEF Taken
  <2>2. pc'[w] \in AfterPhys \cup {"removed", "rm_failed"} /\ local'[w].n = n
    BY <2>1 DEF StepOf
  <2> QED
    BY <2>1, <2>2 DEF Taken
<1>5. faults > 0 => faults' > 0
  BY DEF OwnInv, TypeInv, DataTypes
<1> QED
  BY <1>1, <1>2, <1>3, <1>4, <1>5 DEF Tracked

(* A script keeps the way to its own device.                               *)
LEMMA ScriptKeepsTrack ==
    ASSUME OwnInv, NEW v \in Vbds, Script(v), TrackInv(v)
    PROVE  TrackInv(v)'
<1>0. OwnInv'
  BY ScriptSteps
<1>t. /\ local \in [Vbds -> [n : Devices, seq : Diskseqs, retry : Nat]]
      /\ pc \in [Vbds -> PCs] /\ loops \in [Loops -> LoopRec] /\ xs \in [Vbds -> Entries]
      /\ faults \in Nat
  BY DEF OwnInv, TypeInv, DataTypes
<1>1. xs'[v].params = xs[v].params /\ IsFile(v)' = IsFile(v)
  BY ScriptSteps DEF StepOf, IsFile
(* Before LOOP_CONFIGURE it has none. *)
<1>2. ASSUME pc[v] \in {"new", "lock", "find", "claim", "configure"}, StepOf(v, Missing)
      PROVE  TrackInv(v)'
  <2>1. ASSUME NEW n \in Loops PROVE loops'[n].owner # v
    <3>1. loops[n].owner # v
      BY <1>2 DEF OwnInv, VbdInv, AddInv
    <3> QED
      BY <1>2, <3>1, ActorFacts DEF StepOf, Frees
  <2> QED
    BY <2>1 DEF TrackInv
(* After it, a step that detaches nothing leaves it as it is. *)
<1>3. ASSUME StepOf(v, Missing), pc[v] # "rm_clear", NEW n \in Loops,
             loops'[n].owner = v, ~loops'[n].auto
      PROVE  /\ loops'[n] = loops[n] /\ loops[n].owner = v /\ IsFile(v)
             /\ Tracked(v, n)
  <2>1. loops'[n] = loops[n]
    BY <1>3, ActorFacts DEF StepOf, Frees
  <2> QED
    BY <1>3, <2>1 DEF TrackInv
<1>4. ASSUME StepOf(v, Missing), NEW n \in Loops, loops'[n].owner = v
      PROVE  IsFile(v)'
  <2>1. loops[n].owner = v
    BY <1>4, ActorFacts DEF StepOf, Frees
  <2> QED
    BY <1>1, <2>1 DEF TrackInv
<1>5. ASSUME StepOf(v, Missing), pc[v] # "rm_clear",
             \A n \in Loops : Tracked(v, n) /\ IsFile(v) /\ loops[n].owner = v
                              /\ loops'[n] = loops[n] => Tracked(v, n)'
      PROVE  TrackInv(v)'
  BY <1>3, <1>4, <1>5 DEF TrackInv
<1>s. \A n \in Loops : loops[n].seq \in Nat /\ n # Missing /\ n # NotLoop
  BY <1>t, ActorFacts DEF LoopRec
<1>6. CASE AddOpen(v) \/ Lock(v) \/ ClaimLoop(v)
  BY <1>2, <1>6, AddOpenKeeps, LockKeeps, ClaimLoopKeeps DEF AddOpen, Lock, ClaimLoop
<1>7. CASE FindLoop(v)
  <2>1. pc[v] = "find"
    BY <1>7 DEF FindLoop
  <2>2. PICK d : StepOf(v, d)
    BY <1>7, FindLoopKeeps
  <2>3. pc'[v] \in {"claim", "failed"}
    BY <1>7, <1>t DEF FindLoop, EndWith, Goto
  <2>4. UNCHANGED nextSeq
    BY <1>7 DEF FindLoop, outsideVars
  <2>5. ASSUME NEW n \in Loops PROVE loops'[n].owner # v
    <3>1. loops[n].owner # v /\ nextSeq \in Nat
      BY <2>1 DEF OwnInv, VbdInv, AddInv, TypeInv, DataTypes
    <3>2. ~Sets(v, n)
      BY <2>4, <3>1 DEF Sets
    <3> QED
      BY <2>2, <3>1, <3>2, ActorFacts DEF StepOf, Frees, Clears, Makes
  <2> QED
    BY <2>5 DEF TrackInv
<1>8. CASE Configure(v)
  <2>v. pc[v] = "configure" /\ IsFile(v) /\ local[v].n \in Loops
        /\ \A n \in Loops : loops[n].owner # v
    BY <1>8 DEF Configure, OwnInv, VbdInv, AddInv
  <2>1. CASE Retry(v) /\ UNCHANGED nextSeq
    BY <1>2, <1>8, <2>v, <2>1, RetryKeeps DEF Configure
  <2>2. CASE pc'[v] = "diskseq"
    <3>1. UNCHANGED local /\ \A n \in Loops \ {local[v].n} : loops'[n] = loops[n]
      BY <1>8, <1>t, <2>2 DEF Configure, Retry, EndWith, Goto
    <3> QED
      BY <1>1, <2>v, <2>2, <3>1 DEF TrackInv, Tracked
  <2> QED
    BY <1>8, <1>t, <2>1, <2>2 DEF Configure, Goto
<1>9. CASE GetDiskseq(v)
  <2>1. pc[v] = "diskseq" /\ pc'[v] = "publish" /\ local'[v].n = local[v].n
    BY <1>9, <1>t DEF GetDiskseq, Goto
  <2>2. \A n \in Loops : Tracked(v, n) => Tracked(v, n)'
    BY <2>1 DEF Tracked, AfterPhys
  <2> QED
    BY <1>5, <1>9, <2>1, <2>2, GetDiskseqKeeps
<1>10. CASE Publish(v)
  <2>1. /\ pc[v] = "publish" /\ xs'[v].phys = local[v].n /\ xs'[v].seq = local[v].seq
        /\ StepOf(v, Missing)
    BY <1>10, PublishFacts, PublishKeeps DEF Publish
  <2>2. pc'[v] \in {"wait", "added"}
    BY <1>10, <1>t DEF Publish, EndWith, Goto
  <2>3. ASSUME NEW n \in Loops, Tracked(v, n), IsFile(v), loops'[n] = loops[n]
        PROVE  Tracked(v, n)'
    <3>1. local[v].n = n /\ local[v].seq = loops[n].seq
      BY <2>1, <2>3 DEF Tracked, AfterPhys, OwnInv, VbdInv, AddInv
    <3> QED
      BY <2>1, <2>2, <2>3, <3>1 DEF Tracked
  <2> QED
    BY <1>5, <2>1, <2>3
<1>11. CASE WaitOpened(v) \/ Timeout(v) \/ StartRemove(v)
  <2>1. /\ pc[v] \in {"wait", "added", "failed"} /\ pc'[v] \in {"added", "failed", "rm_phys"}
        /\ pc[v] = "failed" => pc'[v] = "rm_phys"
        /\ UNCHANGED <<xs, local, faults>>
    BY <1>11, <1>t DEF WaitOpened, Timeout, StartRemove, EndWith, Goto, outsideVars
  <2>2. ASSUME NEW n \in Loops, Tracked(v, n), loops'[n] = loops[n]
        PROVE  Tracked(v, n)'
    BY <2>1, <2>2 DEF Tracked, AfterPhys
  <2> QED
    BY <1>5, <1>11, <2>1, <2>2, EndingsKeep, RemovePhysKeeps
<1>12. CASE Die(v)
  <2>1. /\ UNCHANGED xs /\ faults' = faults + 1
        /\ \/ pc[v] \in Adding /\ pc'[v] = "failed"
           \/ pc[v] \notin Adding /\ pc'[v] = "rm_failed"
    BY <1>12, <1>t DEF Die, EndWith
  <2>2. pc[v] \in Adding => xs[v].phys = Missing
    BY DEF OwnInv, VbdInv, PublishedInv
  <2>3. \A n \in Loops : Tracked(v, n)'
    BY <1>t, <2>1, <2>2 DEF Tracked
  <2> QED
    BY <1>4, <1>12, <2>3, EndingsKeep DEF TrackInv
<1>13. CASE RemovePhys(v)
  <2>1. pc[v] = "rm_phys" /\ StepOf(v, Missing) /\ UNCHANGED faults
    BY <1>13, RemovePhysKeeps DEF RemovePhys, outsideVars
  <2>2. CASE xs[v].phys = Missing
    <3>1. pc'[v] = "rm_failed"
      BY <1>13, <1>t, <2>2 DEF RemovePhys, EndWith
    <3>2. \A n \in Loops : Tracked(v, n) => Tracked(v, n)'
      BY <1>s, <2>1, <2>2, <3>1 DEF Tracked, AfterPhys
    <3> QED
      BY <1>5, <2>1, <3>2
  <2>3. CASE xs[v].phys # Missing
    <3>1. pc'[v] = "rm_diskseq" /\ local'[v].n = xs[v].phys /\ xs'[v].seq = xs[v].seq
      BY <1>13, <1>t, <2>3 DEF RemovePhys, Goto, Entries
    <3>2. ASSUME NEW n \in Loops, Tracked(v, n), loops'[n] = loops[n]
          PROVE  Tracked(v, n)'
      BY <2>1, <2>3, <3>1, <3>2 DEF Tracked, AfterPhys
    <3> QED
      BY <1>5, <2>1, <3>2
  <2> QED
    BY <2>2, <2>3
<1>14. CASE RemoveDiskseq(v)
  <2>1. pc[v] = "rm_diskseq" /\ StepOf(v, Missing)
    BY <1>14, RemoveDiskseqKeeps DEF RemoveDiskseq
  <2>2. ASSUME NEW n \in Loops, Tracked(v, n), loops'[n] = loops[n]
        PROVE  Tracked(v, n)'
    <3>1. local[v].n = n /\ xs[v].seq = loops[n].seq
      BY <2>1, <2>2 DEF Tracked, AfterPhys
    <3>2. local[v].n # NotLoop /\ xs[v].seq # Missing
      BY <1>s, <3>1 DEF Missing
    <3>3. pc'[v] = "rm_path" /\ local'[v].n = n /\ local'[v].seq = xs[v].seq
      BY <1>14, <1>t, <3>1, <3>2 DEF RemoveDiskseq, Goto
    <3> QED
      BY <2>2, <3>1, <3>3 DEF Tracked, AfterPhys
  <2> QED
    BY <1>5, <2>1, <2>2
<1>15. CASE CheckPath(v)
  <2>1. pc[v] = "rm_path" /\ StepOf(v, Missing) /\ UNCHANGED local
    BY <1>15, CheckPathKeeps DEF CheckPath
  <2>2. ASSUME NEW n \in Loops, Tracked(v, n), IsFile(v), loops'[n] = loops[n]
        PROVE  Tracked(v, n)'
    <3>1. local[v].n = n /\ local[v].seq = loops[n].seq
      BY <2>1, <2>2 DEF Tracked, AfterPhys
    <3>2. xs[v].path = LoopName(n)
      BY <2>1, <2>2, <3>1 DEF OwnInv, VbdInv, PublishedInv, Published, AfterPhys
    <3>3. xs[v].path # xs[v].params
      BY <2>2, <3>2 DEF LoopName, IsFile
    <3>4. pc'[v] = "rm_open"
      BY <1>15, <1>t, <3>3 DEF CheckPath, Goto
    <3> QED
      BY <2>1, <2>2, <3>1, <3>4 DEF Tracked, AfterPhys
  <2> QED
    BY <1>5, <2>1, <2>2
<1>16. CASE RemoveOpen(v)
  <2>1. pc[v] = "rm_open" /\ StepOf(v, Missing) /\ UNCHANGED local
    BY <1>16, RemoveOpenKeeps DEF RemoveOpen
  <2>2. ASSUME NEW n \in Loops, Tracked(v, n), loops[n].owner = v, loops'[n] = loops[n]
        PROVE  Tracked(v, n)'
    <3>1. local[v].n = n /\ local[v].seq = loops[n].seq
      BY <2>1, <2>2 DEF Tracked, AfterPhys
    <3>2. CASE ~Claimed(n)
      <4>1. pc'[v] = "rm_check"
        BY <1>16, <1>t, <3>1, <3>2 DEF RemoveOpen, Goto
      <4> QED
        BY <2>1, <2>2, <3>1, <4>1 DEF Tracked, AfterPhys
    <3>3. CASE Claimed(n)
      <4>1. pc'[v] = "rm_failed"
        BY <1>16, <1>t, <3>1, <3>3 DEF RemoveOpen, EndWith
      <4>2. PICK u \in Vbds : <<"excl", u>> \in refs[n]
        BY <3>3 DEF Claimed
      <4>3. Holding(u) /\ local[u].n = n
        BY <4>2 DEF OwnInv, VbdInv, ClaimInv
      <4>4. u # v
        BY <2>1, <4>3 DEF Holding
      <4>5. pc[u] # "configure"
        BY <2>2, <4>3, ActorFacts DEF OwnInv, VbdInv, AddInv
      <4>6. ~(pc[u] \in {"diskseq", "publish", "wait"} /\ IsFile(u))
        BY <2>2, <4>3, <4>4 DEF OwnInv, VbdInv, AddInv
      <4>7. pc[u] \in AfterPhys
        BY <4>3, <4>5, <4>6 DEF Holding, AfterPhys
      <4>8. pc'[u] \in AfterPhys /\ local'[u].n = n
        BY <2>1, <4>3, <4>4, <4>7 DEF StepOf
      <4> QED
        BY <4>1, <4>4, <4>8 DEF Tracked, Taken
    <3> QED
      BY <3>2, <3>3
  <2> QED
    BY <1>5, <2>1, <2>2
<1>17. CASE CheckDiskseq(v)
  <2>1. pc[v] = "rm_check" /\ StepOf(v, Missing) /\ UNCHANGED local
    BY <1>17, CheckDiskseqKeeps DEF CheckDiskseq
  <2>2. ASSUME NEW n \in Loops, Tracked(v, n), loops'[n] = loops[n]
        PROVE  Tracked(v, n)'
    <3>1. local[v].n = n /\ local[v].seq = loops[n].seq
      BY <2>1, <2>2 DEF Tracked, AfterPhys
    <3>2. pc'[v] = "rm_clear"
      BY <1>17, <1>t, <3>1 DEF CheckDiskseq, Goto
    <3> QED
      BY <2>1, <2>2, <3>1, <3>2 DEF Tracked, AfterPhys
  <2> QED
    BY <1>5, <2>1, <2>2
<1>18. CASE ClearLoop(v)
  <2> DEFINE k == local[v].n
  <2>1. pc[v] = "rm_clear" /\ StepOf(v, k)
    BY <1>18, ClearLoopKeeps DEF ClearLoop
  <2>2. k \in Loops /\ IsFile(v) /\ IsFile(v)'
    BY <1>1, <2>1, ClearsOwn DEF OwnInv, VbdInv, PublishedInv
  <2>3. ASSUME NEW n \in Loops, n # k, loops'[n].owner = v PROVE loops'[n].auto
    <3>1. loops'[n] = loops[n]
      BY <2>1, <2>3, ActorFacts DEF StepOf, Frees
    <3>2. ~Tracked(v, n)
      BY <2>1, <2>3 DEF Tracked, AfterPhys
    <3> QED
      BY <2>3, <3>1, <3>2 DEF TrackInv
  <2>4. ASSUME loops'[k].owner = v PROVE loops'[k].auto
    <3>0. ~Sets(v, k)
      <4>1. nextSeq' = nextSeq
        BY <1>18 DEF ClearLoop, outsideVars
      <4>2. nextSeq \in Nat
        BY DEF OwnInv, TypeInv, DataTypes
      <4> QED
        BY <4>1, <4>2 DEF Sets
    <3>1. loops[k].owner = v
      <4> HIDE DEF k
      <4>1. loops'[k] = loops[k] \/ Frees(v, k) \/ Clears(v, k) \/ Makes(k)
        BY <2>1, <2>2, <3>0 DEF StepOf
      <4>2. CASE Clears(v, k)
        BY <2>4, <4>2 DEF Clears
      <4> QED
        BY <2>4, <4>1, <4>2, ActorFacts DEF Frees, Makes
    <3>2. Configured(k)
      BY <3>1, ActorFacts DEF Configured
    <3> DEFINE ls == [loops EXCEPT ![k].auto = TRUE]
    <3>3. ls \in [Loops -> LoopRec] /\ ls[k].auto = TRUE
      BY <1>t, <2>2 DEF LoopRec
    <3>4. loops' = AfterClose(ls, refs')
      BY <1>18, <3>2 DEF ClearLoop, EndWith
    <3> HIDE DEF ls, k
    <3>5. \/ /\ AfterClose(ls, refs')[k] = ls[k]
             /\ ls[k].auto => refs'[k] # {}
          \/ /\ refs'[k] = {} /\ ls[k].auto
             /\ AfterClose(ls, refs')[k].owner = "free"
             /\ AfterClose(ls, refs')[k].seq = ls[k].seq
             /\ AfterClose(ls, refs')[k].auto = FALSE
      BY <2>2, <3>3, AfterCloseFacts, Zenon
    <3>6. AfterClose(ls, refs')[k].owner # "free"
      BY <2>4, <3>4, ActorFacts
    <3>7. AfterClose(ls, refs')[k].auto = TRUE
      BY <3>3, <3>5, <3>6, Zenon
    <3> QED
      BY <3>4, <3>7
  <2> QED
    BY <2>2, <2>3, <2>4 DEF TrackInv
<1> QED
  BY <1>6, <1>7, <1>8, <1>9, <1>10, <1>11, <1>12, <1>13, <1>14, <1>15, <1>16, <1>17, <1>18
     DEF Script, Add, Remove

(* Every step.                                                             *)
LEMMA NextKeepsTrack ==
    ASSUME OwnInv, \A u \in Vbds : TrackInv(u), [Next]_vars
    PROVE  \A u \in Vbds : TrackInv(u)'
<1> SUFFICES ASSUME NEW u \in Vbds PROVE TrackInv(u)'
  OBVIOUS
<1>0. OwnInv'
  BY NextKeepsOwn
<1>1. ASSUME NEW v \in Vbds, Script(v) PROVE TrackInv(u)'
  <2>1. CASE u = v
    BY <1>1, <2>1, ScriptKeepsTrack
  <2>2. CASE u # v
    BY <1>0, <1>1, <2>2, ScriptSteps, ScriptFrames, TakenStays, OthersKeepTrack
  <2> QED
    BY <2>1, <2>2
<1>2. ASSUME NEW d, StepOf("nobody", d), UNCHANGED faults PROVE TrackInv(u)'
  BY <1>0, <1>2, OthersKeepTrack, ActorFacts
<1>3. ASSUME NEW v \in Vbds, BackendOpen(v) \/ BackendClose(v) PROVE TrackInv(u)'
  BY <1>2, <1>3, BackendOpenKeeps, BackendCloseKeeps DEF BackendOpen, BackendClose
<1>4. ASSUME NEW n \in Loops, OutsiderGrab(n) \/ OutsiderDetach(n) PROVE TrackInv(u)'
  BY <1>2, <1>4, OutsiderKeeps DEF OutsiderGrab, OutsiderDetach, outsideVars
<1>5. CASE UNCHANGED vars
  BY <1>5 DEF vars, TrackInv, Tracked, Taken, IsFile
<1> QED
  BY <1>1, <1>3, <1>4, <1>5 DEF Next, Done, Script

(* No loop device outlives its virtual device (not-script.c:60-113,        *)
(* 308-351): after a "remove" that exits with 0 it is free or goes with    *)
(* its last close, and "remove" fails to free it only if a script died or  *)
(* another "remove" had the device open, never because of an "add".        *)
THEOREM NoLeak_Safe == ASSUME NoAliases PROVE Spec => []NoLeak
<1> DEFINE I == \A v \in Vbds : TrackInv(v)
<1>1. Init => I
  <2>1. ASSUME Init, NEW v \in Vbds, NEW n \in Loops PROVE loops[n].owner # v
    <3>1. OwnInv /\ pc[v] = "new"
      BY <2>1, InitOwn DEF Init
    <3> QED
      BY <3>1 DEF OwnInv, VbdInv, AddInv
  <2> QED
    BY <2>1 DEF TrackInv
<1>2. OwnInv /\ I /\ [Next]_vars => I'
  BY NextKeepsTrack
<1>3. ASSUME OwnInv, I, NEW v \in Vbds, NEW n \in Loops, loops[n].owner = v,
             ~(loops[n].auto /\ refs[n] # {})
      PROVE  /\ pc[v] # "removed"
             /\ pc[v] = "rm_failed" => faults > 0 \/ StaleRemove(v, n)
  <2>1. ~loops[n].auto
    BY <1>3 DEF OwnInv, LoopInv
  <2>2. Tracked(v, n)
    BY <1>3, <2>1 DEF TrackInv
  <2>3. Taken(v, n) => StaleRemove(v, n)
    BY DEF Taken, StaleRemove, AfterPhys, Removing
  <2> QED
    BY <2>2, <2>3 DEF Tracked, AfterPhys
<1>4. OwnInv /\ I => NoLeak
  BY <1>3 DEF NoLeak
<1> HIDE DEF I
<1> QED
  BY <1>1, <1>2, <1>4, OwnInvariant, PTL DEF Spec

=============================================================================
