----------------------------- MODULE UdevBlock -----------------------------
(***************************************************************************)
(* udev/udev-block-add-change and udev/udev-block-remove, which keep the   *)
(* list of block devices that other qubes can use in QubesDB, while the    *)
(* devices appear, vanish, are mounted and are attached to other qubes.    *)
(*                                                                         *)
(* The devices are a disk, its partitions and a device-mapper device on    *)
(* one of them.  A script for a partition runs the script for its disk, a  *)
(* script for a device-mapper device those for its slaves.  The text of    *)
(* the entries and devices that the udev rules exclude are left out.       *)
(***************************************************************************)
EXTENDS Naturals, FiniteSets, Sequences, SequencesExt

CONSTANTS
    Disk,        \* a removable disk, with a medium or without
    Parts,       \* its partitions
    Dm,          \* a device-mapper device
    Slave,       \* the device below it
    MaxChanges   \* bound on what happens to the devices

ASSUME UdevAssumption ==
    /\ Disk \notin Parts /\ Dm \notin Parts \cup {Disk}
    /\ Slave \in Parts /\ IsFiniteSet(Parts)
    /\ MaxChanges \in Nat

Devices == Parts \cup {Disk, Dm}
NoFile == {Dm}

VARIABLES
    exists,      \* devices in sysfs
    mounted,     \* mounted file systems and swap
    attached,    \* devices that the Xen backend serves to another qube
    changes,     \* number of changes so far
    queue,       \* events that udevd has not started to handle
    handler,     \* for each device the scripts of its event, innermost first
    slaves,      \* contents of the block-slave-cache of Dm, NoFile without one
    listed,      \* devices with an entry in QubesDB
    last         \* history: what became of the last reason to look at a device

kernelVars == <<exists, mounted, attached, changes>>
vars == <<kernelVars, queue, handler, slaves, listed, last>>

(* The events for the disk and its partitions are handled. *)
Init ==
    /\ exists = Parts \cup {Disk} /\ mounted = {} /\ attached = {}
    /\ changes = 0
    /\ queue = <<>>
    /\ handler = [d \in Devices |-> <<>>]
    /\ slaves = NoFile
    /\ listed = exists
    /\ last = [d \in Devices |-> "clean"]

-----------------------------------------------------------------------------
(* The devices and their users.  Whatever changes a device is followed by  *)
(* an event for it.                                                        *)

Changed(events) ==
    /\ changes < MaxChanges
    /\ changes' = changes + 1
    /\ queue' = queue \o events
    /\ UNCHANGED <<handler, slaves, listed, last>>

Event(a, d) == [dev |-> d, act |-> a]
EventsFor(a) == [n \in 1..Len(SetToSeq(Parts)) |-> Event(a, SetToSeq(Parts)[n])]

(* The kernel lets one user claim a disk or its partitions; serving a      *)
(* device to another qube claims nothing.                                  *)
Claimed(d) == d \in mounted \/ (d = Slave /\ Dm \in exists)
Claimable(d) ==
    /\ d \in exists
    /\ ~Claimed(d)
    /\ d \in Parts => ~Claimed(Disk)
    /\ d = Disk => \A p \in Parts : ~Claimed(p)
Busy(d) == Claimed(d) \/ d \in attached

Insert ==
    /\ Disk \in exists
    /\ exists \cap Parts = {}
    /\ exists' = exists \cup Parts
    /\ Changed(<<Event("change", Disk)>> \o EventsFor("add"))
    /\ UNCHANGED <<mounted, attached>>

(* A medium or a disk that is not in use is taken out. *)
Eject ==
    /\ Parts \subseteq exists
    /\ \A d \in Parts \cup {Disk} : ~Busy(d)
    /\ \/ exists' = exists \ Parts
          /\ Changed(EventsFor("remove") \o <<Event("change", Disk)>>)
       \/ exists' = exists \ (Parts \cup {Disk})
          /\ Changed(EventsFor("remove") \o <<Event("remove", Disk)>>)
    /\ UNCHANGED <<mounted, attached>>

Mount(d) ==
    /\ IF d \in mounted THEN mounted' = mounted \ {d}
                        ELSE Claimable(d) /\ mounted' = mounted \cup {d}
    /\ Changed(<<Event("change", d)>>)
    /\ UNCHANGED <<exists, attached>>

(* What is attached was chosen from the list. *)
Attach(d) ==
    /\ d \in exists
    /\ IF d \in attached THEN attached' = attached \ {d}
                         ELSE d \in listed /\ attached' = attached \cup {d}
    /\ Changed(<<Event("change", d)>>)
    /\ UNCHANGED <<exists, mounted>>

Map ==
    /\ IF Dm \in exists
       THEN ~Busy(Dm) /\ exists' = exists \ {Dm} /\ Changed(<<Event("remove", Dm)>>)
       ELSE /\ Claimable(Slave)
            /\ exists' = exists \cup {Dm}
            /\ Changed(<<Event("change", Dm)>>)
    /\ UNCHANGED <<mounted, attached>>

-----------------------------------------------------------------------------
(* udevd handles events at the same time, but those of a device and of its *)
(* parent in order.                                                        *)

Related(d, e) == d = e \/ (Disk \in {d, e} /\ {d, e} \cap Parts # {})

Running(d) == \E h \in Devices : \E n \in 1..Len(handler[h]) : handler[h][n].dev = d

(* A script for d starts, alone with d's entry or not. *)
Script(d, start) ==
    [dev |-> d, pc |-> start, todo |-> Parts,
     how |-> IF Running(d) THEN "company" ELSE "clean"]

(* History: something comes between the scripts for some devices. *)
Disturbed(devs, by) ==
    [h \in Devices |->
        [n \in 1..Len(handler[h]) |->
            IF handler[h][n].dev \in devs /\ handler[h][n].how # "company"
            THEN [handler[h][n] EXCEPT !.how = by] ELSE handler[h][n]]]

StartHandler(n) ==
    /\ LET e == queue[n] IN
        /\ \A k \in 1..(n - 1) : ~Related(queue[k].dev, e.dev)
        /\ \A h \in Devices : Related(h, e.dev) => handler[h] = <<>>
        /\ handler' = [Disturbed({e.dev}, "company") EXCEPT ![e.dev] =
                <<Script(e.dev, IF e.act = "remove" THEN "gone" ELSE "start")>>]
    /\ queue' = RemoveAt(queue, n)
    /\ UNCHANGED <<kernelVars, slaves, listed, last>>

-----------------------------------------------------------------------------
(* The script udev-block-add-change in the event handler h *)

Top(h) == Head(handler[h])
AtPc(h, label) == handler[h] # <<>> /\ Top(h).pc = label
Goto(h, label) == handler' = [handler EXCEPT ![h][1].pc = label]

(* Lines 24-42.  Attaching a device-mapper device opens it. *)
is_attached(d) == d \in attached

is_used(d) == Claimed(d) \/ (d = Dm /\ is_attached(d))

(* The script for d runs inside the one at the top, which goes on at       *)
(* label.  udevadm knows nothing of a device that is gone: what the script *)
(* then writes has no name.                                                *)
refresh_another(h, d, label) ==
    IF d \in exists
    THEN handler' = [Disturbed({d}, "company") EXCEPT ![h] =
                        <<Script(d, "start"), [Head(@) EXCEPT !.pc = label]>> \o Tail(@)]
    ELSE Goto(h, label)

RefreshParent(h) ==
    /\ AtPc(h, "start")
    /\ IF Top(h).dev \in Parts \cap exists
       THEN refresh_another(h, Disk, "parent")
       ELSE Goto(h, "slaves")
    /\ UNCHANGED <<kernelVars, queue, slaves, listed, last>>

(* Mutant: the script goes on. *)
SkipIfParentAttached_Not(h) ==
    /\ AtPc(h, "parent")
    /\ handler' = [handler EXCEPT
            ![h][1].pc = "slaves",
            ![h][1].how = IF is_attached(Disk) /\ @ = "clean" THEN "skipped" ELSE @]
    /\ UNCHANGED <<kernelVars, queue, slaves, listed, last>>

SkipIfParentAttached(h) ==
    /\ AtPc(h, "parent")
    /\ handler' = [handler EXCEPT
            ![h][1].pc = IF is_attached(Disk) THEN "remove" ELSE "slaves",
            ![h][1].how = IF is_attached(Disk) /\ @ = "clean" THEN "skipped" ELSE @]
    /\ UNCHANGED <<kernelVars, queue, slaves, listed, last>>

RefreshSlaves(h) ==
    /\ AtPc(h, "slaves")
    /\ IF Top(h).dev = Dm /\ Dm \in exists
       THEN refresh_another(h, Slave, "self")
       ELSE Goto(h, "self")
    /\ UNCHANGED <<kernelVars, queue, slaves, listed, last>>

CheckSelf(h) ==
    /\ AtPc(h, "self")
    /\ slaves' = IF Top(h).dev # Dm THEN slaves
                 ELSE IF Dm \in exists THEN {Slave} ELSE {}
    /\ Goto(h, IF is_used(Top(h).dev) THEN "remove" ELSE "parts")
    /\ UNCHANGED <<kernelVars, queue, listed, last>>

(* One partition after the other; a disk without a medium is hidden. *)
CheckParts(h) ==
    /\ AtPc(h, "parts")
    /\ IF Top(h).dev = Disk /\ Top(h).todo \cap exists # {}
       THEN \E p \in Top(h).todo \cap exists :
                handler' = [handler EXCEPT
                    ![h][1].todo = @ \ {p},
                    ![h][1].pc = IF is_used(p) \/ is_attached(p) THEN "remove" ELSE @]
       ELSE Goto(h, IF Top(h).dev = Disk /\ Disk \in exists /\ exists \cap Parts = {}
                    THEN "remove" ELSE "write")
    /\ UNCHANGED <<kernelVars, queue, slaves, listed, last>>

(* The script at the top ends. *)
Exit(h) ==
    /\ handler' = [handler EXCEPT ![h] = Tail(@)]
    /\ last' = [last EXCEPT ![Top(h).dev] = Top(h).how]

Write(h) ==
    /\ AtPc(h, "write")
    /\ listed' = listed \cup {Top(h).dev}
    /\ Exit(h)
    /\ UNCHANGED <<kernelVars, queue, slaves>>

(* xs_remove *)
KeepAttached(h) ==
    /\ AtPc(h, "remove")
    /\ IF is_attached(Top(h).dev) THEN Exit(h) ELSE Goto(h, "rm") /\ UNCHANGED last
    /\ UNCHANGED <<kernelVars, queue, slaves, listed>>

RemoveEntry(h) ==
    /\ AtPc(h, "rm")
    /\ listed' = listed \ {Top(h).dev}
    /\ Exit(h)
    /\ UNCHANGED <<kernelVars, queue, slaves>>

-----------------------------------------------------------------------------
(* The script udev-block-remove *)

RemoveGone(h) ==
    /\ AtPc(h, "gone")
    /\ listed' = listed \ {Top(h).dev}
    /\ Goto(h, "trigger")
    /\ UNCHANGED <<kernelVars, queue, slaves, last>>

(* Mutant: the cache is removed first. *)
TriggerSlaves_Late(h) ==
    /\ AtPc(h, "trigger")
    /\ slaves' = IF Top(h).dev = Dm THEN NoFile ELSE slaves
    /\ Exit(h)
    /\ UNCHANGED <<kernelVars, queue, listed>>

(* udevadm trigger causes an event for each device in the cache that is    *)
(* still there.  The cache is empty when Dm was gone before the script for *)
(* its last event listed the slaves: those are missed.                     *)
TriggerSlaves(h) ==
    /\ AtPc(h, "trigger")
    /\ IF Top(h).dev = Dm /\ slaves # NoFile
       THEN /\ slaves' = NoFile
            /\ queue' = queue \o [n \in 1..Cardinality(slaves \cap exists) |->
                                     Event("change", Slave)]
            /\ LET missed == IF slaves = {} THEN {Slave, Disk} ELSE {} IN
                /\ handler' = [Disturbed(missed, "missed") EXCEPT ![h] = <<>>]
                /\ last' = [d \in Devices |->
                        IF d \in missed /\ last[d] # "company" THEN "missed"
                        ELSE IF d = Dm THEN Top(h).how ELSE last[d]]
       ELSE UNCHANGED <<slaves, queue>> /\ Exit(h)
    /\ UNCHANGED <<kernelVars, listed>>

-----------------------------------------------------------------------------

Step(h) ==
    \/ RefreshParent(h) \/ SkipIfParentAttached(h) \/ RefreshSlaves(h)
    \/ CheckSelf(h) \/ CheckParts(h) \/ Write(h) \/ KeepAttached(h) \/ RemoveEntry(h)
    \/ RemoveGone(h) \/ TriggerSlaves(h)

Udevd == (\E n \in 1..Len(queue) : StartHandler(n)) \/ \E h \in Devices : Step(h)

Next ==
    \/ Insert \/ Eject \/ Map
    \/ \E d \in Devices : Mount(d) \/ Attach(d)
    \/ Udevd

(* udevd and its scripts go on; nothing has to happen to the devices. *)
Spec == Init /\ [][Next]_vars /\ WF_vars(Udevd)

-----------------------------------------------------------------------------

(* A device that is there and that nobody uses, nor any partition of it *)
Unused(d) ==
    /\ d \in exists
    /\ ~is_used(d)
    /\ d = Disk => /\ exists \cap Parts # {}
                   /\ \A p \in Parts \cap exists : ~is_used(p) /\ ~is_attached(p)

(* A device that another qube may be offered *)
Free(d) == Unused(d) /\ (d \in Parts => ~is_attached(Disk))

Quiet == queue = <<>> /\ \A h \in Devices : handler[h] = <<>>

(* The disk was attached and no script has looked at the partition since. *)
NotSeenAttached(d) ==
    d \in Parts /\ is_attached(Disk) /\ Unused(d) /\ last[d] # "skipped"

(* Once all events are handled, what is listed is free: it is there, not   *)
(* used, and neither its partitions are used or attached nor the disk it   *)
(* is a partition of is attached (udev-block-add-change:72-77, 98-114), in *)
(* spite of what happened while scripts were running.  Excepted are an     *)
(* attached device, which keeps its entry (line 14), a device for which    *)
(* two scripts overlapped, run by events that udevd does not serialise,    *)
(* and the partitions of a disk that was attached, until an event of their *)
(* own: see PartsAreHidden.                                                *)
ListedIsFree ==
    Quiet => \A d \in listed : \/ Free(d) \/ is_attached(d)
                               \/ last[d] = "company" \/ NotSeenAttached(d)

(* udev-block-add-change:72 "if parent device is already attached, skip    *)
(* its partitions": once all events are handled, no partition of an        *)
(* attached disk is on offer, unless it was attached before.               *)
PartsAreHidden ==
    Quiet /\ is_attached(Disk) => \A p \in Parts \cap listed : is_attached(p)

(* Once all events are handled, what is free is listed, although the       *)
(* change that made it free may have been in another device: a partition   *)
(* that is not used any more, a device-mapper device that is gone          *)
(* (udev-block-add-change:68-87, udev-block-remove:11-17).  Excepted are,  *)
(* besides overlapping scripts, a partition that was seen while its disk   *)
(* was attached (line 73), at which nothing looks when the disk is free    *)
(* again, and a slave and its disk when the device-mapper device was gone  *)
(* before its slaves were cached (line 86).                                *)
FreeIsListed ==
    Quiet => \A d \in Devices : Free(d) /\ last[d] = "clean" => d \in listed
=============================================================================
