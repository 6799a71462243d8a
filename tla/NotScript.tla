----------------------------- MODULE NotScript -----------------------------
(***************************************************************************)
(* not-script/not-script.c, the hotplug script of Xen block devices: "add" *)
(* finds the device or makes a loop device for an image file and publishes *)
(* it in XenStore, "remove" takes it back.  Scripts for several virtual    *)
(* devices run at the same time, next to the block backend of the kernel   *)
(* and to programs that use loop devices and know nothing of the lock.     *)
(*                                                                         *)
(* Device numbers and diskseq are kept as numbers in XenStore: what "add"  *)
(* prints as "%lx" is what strict_strtoul_hex() of "remove" reads.         *)
(***************************************************************************)
EXTENDS Integers

CONSTANTS
    Vbds,          \* virtual block devices, each with its XENBUS_PATH
    ParamChoices,  \* what the "params" may name, see ParamKinds
    Opened,        \* what "opened" of each one may hold at the start
    Uapi,          \* QUBES_EXPERIMENTAL_XENSTORE_UAPI is set
    MaxLoops,      \* loop devices the kernel can make
    retry_limit,
    MaxGrabs,      \* loop devices that other programs set up
    MaxFaults      \* scripts that are killed or whose system calls fail

Loops == 0..(MaxLoops - 1)

(* An image file, a loop device by its own name, a loop device by another  *)
(* name (a link to it), or some other block device.                        *)
ParamKinds ==
    [kind : {"file", "blk"}, n : {0}] \cup [kind : {"loop", "alias"}, n : Loops]

ASSUME NotScriptAssumption ==
    /\ ParamChoices \subseteq [Vbds -> ParamKinds]
    /\ Opened \subseteq {"missing", "0", "1"} /\ Opened # {}
    /\ Uapi \in BOOLEAN
    /\ MaxLoops \in Nat \ {0}
    /\ retry_limit \in Nat /\ MaxGrabs \in Nat /\ MaxFaults \in Nat
    /\ Vbds \cap {"absent", "free", "outsider", "nobody"} = {}

VARIABLES
    loops,    \* [owner, seq, auto] of each loop device
    refs,     \* who has each loop device open
    lock,     \* holder of LOCK_FILE, or "nobody"
    xs,       \* [params, phys, path, seq, opened] of each virtual device
    pc,       \* what the script for each virtual device is doing
    local,    \* [n, seq, retry]: device, diskseq and retry_count of a script
    blk,      \* the kernel's backend: "init", "open" or "closed"
    nextSeq,  \* next diskseq
    grabs, faults

vars == <<loops, refs, lock, xs, pc, local, blk, nextSeq, grabs, faults>>
kernelVars == <<loops, refs, lock>>
outsideVars == <<blk, nextSeq, grabs, faults>>

Missing == -1
NotLoop == -2     \* phys of a device that is no loop device
LoopName(n) == [kind |-> "loop", n |-> n]

IsFile(v) == xs[v].params.kind = "file"
IsLoop(v) == xs[v].params.kind \in {"loop", "alias"}

Init ==
    /\ \E p \in ParamChoices, o \in [Vbds -> Opened] :
          xs = [v \in Vbds |-> [params |-> p[v], phys |-> Missing, seq |-> Missing,
                               path |-> LoopName(Missing), opened |-> o[v]]]
    /\ loops = [n \in Loops |->
                  IF \E v \in Vbds : IsLoop(v) /\ xs[v].params.n = n
                  THEN [owner |-> "outsider", seq |-> 1, auto |-> FALSE]
                  ELSE [owner |-> IF n = 0 THEN "free" ELSE "absent",
                        seq |-> 0, auto |-> FALSE]]
    /\ refs = [n \in Loops |-> {}]
    /\ lock = "nobody"
    /\ pc = [v \in Vbds |-> "new"]
    /\ local = [v \in Vbds |-> [n |-> Missing, seq |-> Missing, retry |-> 0]]
    /\ blk = [v \in Vbds |-> "init"]
    /\ nextSeq = 2
    /\ grabs = 0
    /\ faults = 0

-----------------------------------------------------------------------------
(* The kernel's loop devices *)

IsFree(n) == loops[n].owner = "free"
Configured(n) == loops[n].owner \notin {"free", "absent"}

(* Opened with O_EXCL by a script *)
Claimed(n) == \E v \in Vbds : <<"excl", v>> \in refs[n]

NewLoops == {n \in Loops : loops[n].owner = "absent"}

(* LOOP_CTL_GET_FREE makes a device when there is none, LOOP_CTL_ADD always *)
Fresh == {n \in NewLoops : \A m \in NewLoops : n <= m}
Candidates(retry) ==
    IF retry = 0 /\ \E n \in Loops : IsFree(n) THEN {n \in Loops : IsFree(n)} ELSE Fresh

(* LO_FLAGS_AUTOCLEAR: the last close frees the device. *)
AfterClose(ls, rs) ==
    [n \in Loops |-> IF rs[n] = {} /\ ls[n].auto
                     THEN [ls[n] EXCEPT !.owner = "free", !.auto = FALSE]
                     ELSE ls[n]]

(* The end of a script, however it ends: its files are closed and its lock *)
(* is released.                                                            *)
EndWith(v, status, ls) ==
    /\ refs' = [n \in Loops |-> refs[n] \ {<<"excl", v>>, <<"plain", v>>}]
    /\ loops' = AfterClose(ls, refs')
    /\ lock' = IF lock = v THEN "nobody" ELSE lock
    /\ pc' = [pc EXCEPT ![v] = status]

Goto(v, next) == pc' = [pc EXCEPT ![v] = next]

-----------------------------------------------------------------------------
(* add *)

autoclear(v) == Uapi /\ xs[v].opened = "0"

(* main() up to process_blk_dev(): get_opened(), and open() of params. *)
AddOpen(v) ==
    LET p == xs[v].params IN
    /\ pc[v] = "new"
    /\ IF Uapi /\ xs[v].opened = "1"
       THEN EndWith(v, "failed", loops) /\ UNCHANGED local
       ELSE IF p.kind = "file"
       THEN Goto(v, "lock") /\ UNCHANGED <<kernelVars, local>>
       ELSE IF p.kind = "blk"
       THEN /\ local' = [local EXCEPT ![v].n = NotLoop]
            /\ Goto(v, "diskseq")
            /\ UNCHANGED kernelVars
       ELSE /\ local' = [local EXCEPT ![v].n = p.n]
            /\ refs' = [refs EXCEPT ![p.n] = @ \cup {<<"plain", v>>}]
            /\ Goto(v, "diskseq")
            /\ UNCHANGED <<loops, lock>>
    /\ UNCHANGED <<xs, outsideVars>>

(* Mutant: the lock is not taken. *)
Lock_None(v) ==
    /\ pc[v] = "lock"
    /\ Goto(v, "find")
    /\ UNCHANGED <<kernelVars, local, xs, outsideVars>>

(* setup_loop(): flock() *)
Lock(v) ==
    /\ pc[v] = "lock"
    /\ lock = "nobody"
    /\ lock' = v
    /\ Goto(v, "find")
    /\ UNCHANGED <<loops, refs, local, xs, outsideVars>>

FindLoop(v) ==
    /\ pc[v] = "find"
    /\ \/ \E n \in Candidates(local[v].retry) :
             /\ local' = [local EXCEPT ![v].n = n]
             /\ loops' = IF n \in NewLoops THEN [loops EXCEPT ![n].owner = "free"] ELSE loops
             /\ Goto(v, "claim")
             /\ UNCHANGED <<refs, lock>>
       \/ /\ Candidates(local[v].retry) = {}
          /\ EndWith(v, "failed", loops)
          /\ UNCHANGED local
    /\ UNCHANGED <<xs, outsideVars>>

(* The candidate is taken: another one, while retry_count allows. *)
Retry(v) ==
    IF local[v].retry >= retry_limit
    THEN EndWith(v, "failed", loops) /\ UNCHANGED local
    ELSE /\ local' = [local EXCEPT ![v].retry = @ + 1]
         /\ refs' = [refs EXCEPT ![local[v].n] = @ \ {<<"excl", v>>}]
         /\ loops' = AfterClose(loops, refs')
         /\ Goto(v, "find")
         /\ UNCHANGED lock

(* open_loop_dev() with O_EXCL *)
ClaimLoop(v) ==
    LET n == local[v].n IN
    /\ pc[v] = "claim"
    /\ IF Claimed(n) THEN Retry(v)
       ELSE /\ refs' = [refs EXCEPT ![n] = @ \cup {<<"excl", v>>}]
            /\ Goto(v, "configure")
            /\ UNCHANGED <<loops, lock, local>>
    /\ UNCHANGED <<xs, outsideVars>>

(* LOOP_CONFIGURE, and close(lock) when it succeeds *)
Configure(v) ==
    LET n == local[v].n IN
    /\ pc[v] = "configure"
    /\ IF ~IsFree(n) THEN Retry(v) /\ UNCHANGED nextSeq
       ELSE /\ loops' = [loops EXCEPT ![n] =
                           [owner |-> v, seq |-> nextSeq, auto |-> autoclear(v)]]
            /\ nextSeq' = nextSeq + 1
            /\ lock' = IF lock = v THEN "nobody" ELSE lock
            /\ Goto(v, "diskseq")
            /\ UNCHANGED <<refs, local>>
    /\ UNCHANGED <<xs, blk, grabs, faults>>

(* BLKGETDISKSEQ *)
GetDiskseq(v) ==
    /\ pc[v] = "diskseq"
    /\ local' = [local EXCEPT ![v].seq =
                   IF local[v].n = NotLoop THEN 0 ELSE loops[local[v].n].seq]
    /\ Goto(v, "publish")
    /\ UNCHANGED <<kernelVars, xs, outsideVars>>

(* physical-device-path: the name of a loop device, else params *)
PhysdevPath(v) == IF local[v].n = NotLoop THEN xs[v].params ELSE LoopName(local[v].n)

(* Mutant: "add" does not wait for the backend. *)
Publish_NoWait(v) ==
    /\ pc[v] = "publish"
    /\ xs' = [xs EXCEPT ![v].phys = local[v].n,
                        ![v].path = PhysdevPath(v),
                        ![v].seq = local[v].seq]
    /\ EndWith(v, "added", loops)
    /\ UNCHANGED <<local, outsideVars>>

(* The transaction; it is repeated until it does not conflict.  Without    *)
(* autoclear the script is done.                                           *)
Publish(v) ==
    /\ pc[v] = "publish"
    /\ xs' = [xs EXCEPT ![v].phys = local[v].n,
                        ![v].path = PhysdevPath(v),
                        ![v].seq = local[v].seq]
    /\ IF autoclear(v) THEN Goto(v, "wait") /\ UNCHANGED kernelVars
       ELSE EndWith(v, "added", loops)
    /\ UNCHANGED <<local, outsideVars>>

(* The watch on "opened" *)
WaitOpened(v) ==
    /\ pc[v] = "wait"
    /\ xs[v].opened = "1"
    /\ EndWith(v, "added", loops)
    /\ UNCHANGED <<local, xs, outsideVars>>

-----------------------------------------------------------------------------
(* remove *)

(* The toolstack runs it once "add" has ended, well or not, and perhaps    *)
(* while the backend still has the device open (a forced removal).         *)
StartRemove(v) ==
    /\ pc[v] \in {"added", "failed"}
    /\ Goto(v, "rm_phys")
    /\ UNCHANGED <<kernelVars, local, xs, outsideVars>>

RemovePhys(v) ==
    /\ pc[v] = "rm_phys"
    /\ IF xs[v].phys = Missing
       THEN EndWith(v, "rm_failed", loops) /\ UNCHANGED <<local, xs>>
       ELSE /\ local' = [local EXCEPT ![v].n = xs[v].phys]
            /\ xs' = [xs EXCEPT ![v].phys = Missing]
            /\ Goto(v, "rm_diskseq")
            /\ UNCHANGED kernelVars
    /\ UNCHANGED outsideVars

(* Only loop devices need more. *)
RemoveDiskseq(v) ==
    /\ pc[v] = "rm_diskseq"
    /\ IF xs[v].seq = Missing
       THEN EndWith(v, "rm_failed", loops) /\ UNCHANGED <<local, xs>>
       ELSE /\ local' = [local EXCEPT ![v].seq = xs[v].seq]
            /\ xs' = [xs EXCEPT ![v].seq = Missing]
            /\ IF local[v].n = NotLoop THEN EndWith(v, "removed", loops)
               ELSE Goto(v, "rm_path") /\ UNCHANGED kernelVars
    /\ UNCHANGED outsideVars

(* "Check if the device was created by us" *)
CheckPath(v) ==
    /\ pc[v] = "rm_path"
    /\ IF xs[v].path = xs[v].params THEN EndWith(v, "removed", loops)
       ELSE Goto(v, "rm_open") /\ UNCHANGED kernelVars
    /\ UNCHANGED <<local, xs, outsideVars>>

RemoveOpen(v) ==
    LET n == local[v].n IN
    /\ pc[v] = "rm_open"
    /\ IF Claimed(n) THEN EndWith(v, "rm_failed", loops)
       ELSE /\ refs' = [refs EXCEPT ![n] = @ \cup {<<"excl", v>>}]
            /\ Goto(v, "rm_check")
            /\ UNCHANGED <<loops, lock>>
    /\ UNCHANGED <<local, xs, outsideVars>>

(* Mutant: the diskseq is not compared. *)
CheckDiskseq_None(v) ==
    /\ pc[v] = "rm_check"
    /\ Goto(v, "rm_clear")
    /\ UNCHANGED <<kernelVars, local, xs, outsideVars>>

CheckDiskseq(v) ==
    /\ pc[v] = "rm_check"
    /\ IF loops[local[v].n].seq # local[v].seq THEN EndWith(v, "rm_failed", loops)
       ELSE Goto(v, "rm_clear") /\ UNCHANGED kernelVars
    /\ UNCHANGED <<local, xs, outsideVars>>

(* LOOP_CLR_FD frees the device, or, while it is open elsewhere, leaves    *)
(* that to the last close; ENXIO when it is not configured.                *)
ClearLoop(v) ==
    LET n == local[v].n IN
    /\ pc[v] = "rm_clear"
    /\ IF Configured(n)
       THEN EndWith(v, "removed", [loops EXCEPT ![n].auto = TRUE])
       ELSE EndWith(v, "rm_failed", loops)
    /\ UNCHANGED <<local, xs, outsideVars>>

-----------------------------------------------------------------------------
(* The others *)

Adding == {"new", "lock", "find", "claim", "configure", "diskseq", "publish"}
Removing == {"rm_phys", "rm_diskseq", "rm_path", "rm_open", "rm_check", "rm_clear"}

(* A system call fails and err() ends the script, or it is killed, or it   *)
(* refuses the path, the mode or the name of the device-mapper device.     *)
Die(v) ==
    /\ faults < MaxFaults
    /\ pc[v] \in Adding \cup Removing
    /\ faults' = faults + 1
    /\ EndWith(v, IF pc[v] \in Adding THEN "failed" ELSE "rm_failed", loops)
    /\ UNCHANGED <<local, xs, blk, nextSeq, grabs>>

(* The toolstack gives up on a script that waits for the backend. *)
Timeout(v) ==
    /\ pc[v] = "wait"
    /\ EndWith(v, "failed", loops)
    /\ UNCHANGED <<local, xs, outsideVars>>

(* The backend finds physical-device, opens the device by its number and   *)
(* says so.                                                                *)
BackendOpen(v) ==
    LET n == xs[v].phys IN
    /\ blk[v] = "init"
    /\ n # Missing
    /\ n # NotLoop => Configured(n)
    /\ blk' = [blk EXCEPT ![v] = "open"]
    /\ refs' = IF n = NotLoop THEN refs
               ELSE [refs EXCEPT ![n] = @ \cup {<<"backend", v>>}]
    /\ xs' = [xs EXCEPT ![v].opened = IF @ = "0" THEN "1" ELSE @]
    /\ UNCHANGED <<loops, lock, pc, local, nextSeq, grabs, faults>>

BackendClose(v) ==
    /\ blk[v] = "open"
    /\ blk' = [blk EXCEPT ![v] = "closed"]
    /\ refs' = [n \in Loops |-> refs[n] \ {<<"backend", v>>}]
    /\ loops' = AfterClose(loops, refs')
    /\ UNCHANGED <<lock, xs, pc, local, nextSeq, grabs, faults>>

(* Another program sets up a loop device; it needs to claim it. *)
OutsiderGrab(n) ==
    /\ grabs < MaxGrabs
    /\ IsFree(n)
    /\ ~Claimed(n)
    /\ loops' = [loops EXCEPT ![n] =
                   [owner |-> "outsider", seq |-> nextSeq, auto |-> FALSE]]
    /\ nextSeq' = nextSeq + 1
    /\ grabs' = grabs + 1
    /\ UNCHANGED <<refs, lock, xs, pc, local, blk, faults>>

(* It detaches it again. *)
OutsiderDetach(n) ==
    /\ loops[n].owner = "outsider"
    /\ ~loops[n].auto
    /\ loops' = AfterClose([loops EXCEPT ![n].auto = TRUE], refs)
    /\ UNCHANGED <<refs, lock, xs, pc, local, outsideVars>>

(* All devices are gone. *)
Done ==
    /\ \A v \in Vbds : pc[v] \in {"removed", "rm_failed"}
    /\ UNCHANGED vars

Add(v) == \/ AddOpen(v) \/ Lock(v) \/ FindLoop(v) \/ ClaimLoop(v) \/ Configure(v)
          \/ GetDiskseq(v) \/ Publish(v) \/ WaitOpened(v)

Remove(v) == \/ StartRemove(v) \/ RemovePhys(v) \/ RemoveDiskseq(v) \/ CheckPath(v)
             \/ RemoveOpen(v) \/ CheckDiskseq(v) \/ ClearLoop(v)

Next ==
    \/ \E v \in Vbds : Add(v) \/ Remove(v) \/ Die(v) \/ Timeout(v)
    \/ \E v \in Vbds : BackendOpen(v) \/ BackendClose(v)
    \/ \E n \in Loops : OutsiderGrab(n) \/ OutsiderDetach(n)
    \/ Done

Spec == Init /\ [][Next]_vars

-----------------------------------------------------------------------------

(* "Check if the device was created by us" (not-script.c:312): "remove"    *)
(* detaches only a loop device that "add" for the same virtual device      *)
(* configured, not one that has been freed and reused since, and not one   *)
(* that somebody else set up.                                              *)
DetachesOnlyOwn ==
    [][\A v \in Vbds, n \in Loops :
          pc[v] = "rm_clear" /\ pc'[v] # "rm_clear" /\ loops'[n] # loops[n]
             => loops[n].owner = v]_vars

(* The loop device that the backend opens by its number is still the one   *)
(* that "add" configured for the image, also when it is freed by its last  *)
(* close (not-script.c:529-548).  Only an "add" that gave up waiting for   *)
(* the backend leaves a number behind that may be reused, until "remove"   *)
(* takes it out of XenStore.                                               *)
BackendGetsTheImage ==
    [][\A v \in Vbds :
          blk[v] = "init" /\ blk'[v] = "open" /\ IsFile(v)
             => \/ loops[xs[v].phys].owner = v
                \/ pc[v] \in {"failed", "rm_phys", "rm_failed"} /\ autoclear(v)]_vars

(* Another "remove" has looked at loop device n with a number that is no   *)
(* longer its own: it takes no lock, and holds the device with O_EXCL.     *)
StaleRemove(v, n) ==
    \E u \in Vbds \ {v} :
        pc[u] \in Removing \cup {"removed", "rm_failed"} /\ local[u].n = n

(* No loop device outlives its virtual device: after "remove" has exited   *)
(* with 0 it is free or about to be freed by its last close, and "remove"  *)
(* fails to free it only if a script died or if another "remove" had the   *)
(* device open; never because of an "add", which is what the lock and the  *)
(* retries are for (not-script.c:60-113, 308-351).                         *)
NoLeak ==
    \A v \in Vbds, n \in Loops :
        loops[n].owner = v /\ ~(loops[n].auto /\ refs[n] # {}) =>
            /\ pc[v] # "removed"
            /\ pc[v] = "rm_failed" => faults > 0 \/ StaleRemove(v, n)
=============================================================================
